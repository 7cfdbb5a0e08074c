---------------------------- MODULE StoresProofs ----------------------------
(***************************************************************************)
(* What is proved about the stores, for all packages, files, patterns,     *)
(* jobs, terminals and steps: every store holds lines of its kind,         *)
(* whatever is edited, killed or lost; the files of a package that are     *)
(* linked are those its patterns leave, read as git reads them; no edit,   *)
(* of any number under way at once, strands a link of a package that it    *)
(* does not move; and the edits keep the promise of Settings.              *)
(***************************************************************************)
EXTENDS Stores, FiniteSetTheorems, SequenceTheorems, WellFoundedInduction, TLAPS

-----------------------------------------------------------------------------
(* Sequences *)

\* Induction up to a number, on a set.
LEMMA Upwards ==
    ASSUME NEW N \in Nat, NEW P, 1 \in P, \A n \in P \intersect (1 .. N - 1) : n + 1 \in P
    PROVE  1 .. N \subseteq P
<1> DEFINE Q == {n \in Nat : n \in 1 .. N /\ n \notin P}
<1>1. SUFFICES ASSUME Q # {} PROVE FALSE
  OBVIOUS
<1>2. PICK n \in Q : \A m \in Q : ~ (<<m, n>> \in OpToRel(<, Nat))
  <2> HIDE DEF Q
  <2>1. Q \subseteq Nat
    BY DEF Q
  <2> QED BY <1>1, <2>1, NatLessThanWellFounded, WFMin, Zenon
<1>3. \A m \in Q : ~ (m < n)
  <2>1. Q \subseteq Nat
    OBVIOUS
  <2> HIDE DEF Q
  <2> QED BY <1>2, <2>1, Zenon DEF OpToRel
<1>4. n \in 1 .. N /\ n \notin P /\ n # 1
  OBVIOUS
<1>5. n - 1 \in 1 .. N - 1
  BY <1>4
<1>6. n - 1 \in P
  BY <1>3, <1>5
<1>7. (n - 1) + 1 \in P
  BY <1>5, <1>6
<1> QED BY <1>4, <1>7

\* Flattening, sequence by sequence.
Flattens(f, ss, n) ==
    \A i \in 1 .. n : f[i] = IF i = 1 THEN ss[i] ELSE f[i - 1] \o ss[i]

\* Sequences over S are flattened by appending them one by one.
LEMMA FlattenSteps ==
    ASSUME NEW S, NEW ss \in Seq(Seq(S)), ss # <<>>
    PROVE  \E flat \in [1 .. Len(ss) -> Seq(S)] :
               Flattens(flat, ss, Len(ss)) /\ FlattenSeq(ss) = flat[Len(ss)]
<1> DEFINE N == Len(ss)
           Solved(n) == \E f \in [1 .. n -> Seq(S)] : Flattens(f, ss, n)
           P == {n \in 1 .. N : Solved(n)}
<1>1. N \in Nat \ {0} /\ \A i \in 1 .. N : ss[i] \in Seq(S)
  OBVIOUS
<1>2. Solved(1)
  <2>1. [i \in 1 .. 1 |-> ss[i]] \in [1 .. 1 -> Seq(S)]
    BY <1>1
  <2>2. Flattens([i \in 1 .. 1 |-> ss[i]], ss, 1)
    BY DEF Flattens
  <2> QED BY <2>1, <2>2
<1>3. ASSUME NEW n \in 1 .. N - 1, Solved(n)
      PROVE  Solved(n + 1)
  <2>1. PICK f \in [1 .. n -> Seq(S)] : Flattens(f, ss, n)
    BY <1>3
  <2> DEFINE g == [i \in 1 .. n + 1 |-> IF i = n + 1 THEN f[n] \o ss[i] ELSE f[i]]
  <2>2. f[n] \o ss[n + 1] \in Seq(S)
    BY <1>1, <1>3
  <2>3. g \in [1 .. n + 1 -> Seq(S)]
    BY <2>2
  <2>4. \A i \in 1 .. n : g[i] = f[i]
    OBVIOUS
  <2>0. n \in Nat \ {0} /\ n \in 1 .. n /\ n + 1 \in 1 .. n + 1 /\ n + 1 # 1 /\ (n + 1) - 1 = n
    BY <1>1
  <2>5. g[n + 1] = g[n] \o ss[n + 1]
    BY <2>0, <2>4
  <2>6. \A i \in 1 .. n : i # 1 => i - 1 \in 1 .. n
    OBVIOUS
  <2>7. \A i \in 1 .. n : g[i] = IF i = 1 THEN ss[i] ELSE g[i - 1] \o ss[i]
    <3> HIDE DEF g
    <3> QED BY <2>1, <2>4, <2>6 DEF Flattens
  <2>8. Flattens(g, ss, n + 1)
    <3>1. \A i \in 1 .. n + 1 : i \in 1 .. n \/ i = n + 1
      BY <2>0
    <3> HIDE DEF g
    <3> QED BY <2>0, <2>5, <2>7, <3>1 DEF Flattens
  <2> QED BY <2>3, <2>8
<1>4. Solved(N)
  <2>1. 1 \in P /\ \A n \in P \intersect (1 .. N - 1) : n + 1 \in P
    <3> HIDE DEF Solved
    <3> QED BY <1>1, <1>2, <1>3
  <2>2. 1 .. N \subseteq P
    <3> HIDE DEF P, N
    <3> QED BY <1>1, <2>1, Upwards
  <2> HIDE DEF Solved
  <2> QED BY <1>1, <2>2
<1>5. PICK f \in [1 .. N -> Seq(S)] : Flattens(f, ss, N)
  BY <1>1, <1>4
<1> DEFINE Eq(g) == g = [i \in 1 .. N |-> IF i = 1 THEN ss[i] ELSE g[i - 1] \o ss[i]]
           flat == CHOOSE g : Eq(g)
<1>6. Eq(f)
  BY <1>5 DEF Flattens
<1>7. Eq(flat)
  <2> HIDE DEF Eq
  <2> QED BY <1>6
<1>8. FlattenSeq(ss) = flat[N]
  BY DEF FlattenSeq
<1>9. \A i \in 1 .. N : flat[i] \in Seq(S)
  <2> DEFINE W == {i \in 1 .. N : flat[i] \in Seq(S)}
  <2>1. \A i \in 1 .. N : flat[i] = IF i = 1 THEN ss[i] ELSE flat[i - 1] \o ss[i]
    <3> HIDE DEF flat
    <3> QED BY <1>7
  <2> HIDE DEF flat
  <2>2. 1 \in W
    <3>1. 1 \in 1 .. N
      BY <1>1
    <3>2. flat[1] = ss[1]
      BY <2>1, <3>1
    <3> QED BY <1>1, <3>1, <3>2
  <2>3. ASSUME NEW n \in W \intersect (1 .. N - 1) PROVE n + 1 \in W
    <3>1. n + 1 \in 1 .. N /\ n + 1 # 1 /\ (n + 1) - 1 = n
      BY <1>1
    <3>2. flat[n + 1] = IF n + 1 = 1 THEN ss[n + 1] ELSE flat[(n + 1) - 1] \o ss[n + 1]
      <4> HIDE DEF N
      <4> QED BY <2>1, <3>1, Zenon
    <3>3. flat[n + 1] = flat[n] \o ss[n + 1]
      BY <3>1, <3>2
    <3>4. ss[n + 1] \in Seq(S) /\ flat[n] \in Seq(S)
      BY <1>1, <3>1
    <3>5. flat[n + 1] \in Seq(S)
      BY <3>3, <3>4
    <3> QED BY <3>1, <3>5
  <2>4. 1 .. N \subseteq W
    <3> HIDE DEF W, N
    <3> QED BY <1>1, <2>2, <2>3, Upwards
  <2> QED BY <2>4
<1>10. flat = [i \in 1 .. N |-> flat[i]] /\ N = Len(ss)
  <2>1. flat = [i \in 1 .. N |-> IF i = 1 THEN ss[i] ELSE flat[i - 1] \o ss[i]]
    BY <1>7
  <2> HIDE DEF flat, N
  <2> QED BY <2>1 DEF N
<1>11. Flattens(flat, ss, N)
  <2>1. flat = [i \in 1 .. N |-> IF i = 1 THEN ss[i] ELSE flat[i - 1] \o ss[i]]
    BY <1>7
  <2> HIDE DEF flat, N
  <2> QED BY <2>1 DEF Flattens
<1> HIDE DEF flat, N
<1>12. flat \in [1 .. N -> Seq(S)]
  BY <1>9, <1>10
<1> QED BY <1>8, <1>10, <1>11, <1>12

\* Sequences over S, one after the other, are a sequence over S.
LEMMA FlattenType ==
    ASSUME NEW S, NEW ss \in Seq(Seq(S))
    PROVE  FlattenSeq(ss) \in Seq(S)
<1>1. CASE ss = <<>>
  BY <1>1 DEF FlattenSeq
<1>2. CASE ss # <<>>
  <2>1. PICK flat \in [1 .. Len(ss) -> Seq(S)] : FlattenSeq(ss) = flat[Len(ss)]
    BY <1>2, FlattenSteps
  <2>2. Len(ss) \in 1 .. Len(ss)
    BY <1>2
  <2> QED BY <2>1, <2>2
<1> QED BY <1>1, <1>2

\* They start as the first of them, if there is something in it.
LEMMA FlattenHead ==
    ASSUME NEW S, NEW ss \in Seq(Seq(S)), ss # <<>>, ss[1] # <<>>
    PROVE  FlattenSeq(ss) # <<>> /\ FlattenSeq(ss)[1] = ss[1][1]
<1>1. PICK flat \in [1 .. Len(ss) -> Seq(S)] :
          Flattens(flat, ss, Len(ss)) /\ FlattenSeq(ss) = flat[Len(ss)]
  BY FlattenSteps
<1> DEFINE N == Len(ss)
           W == {n \in 1 .. N : flat[n] # <<>> /\ flat[n][1] = ss[1][1]}
<1>2. N \in Nat \ {0} /\ \A i \in 1 .. N : ss[i] \in Seq(S)
  OBVIOUS
<1>3. 1 \in W
  <2>1. 1 \in 1 .. N
    BY <1>2
  <2>2. flat[1] = ss[1]
    BY <1>1, <2>1 DEF Flattens
  <2> QED BY <2>1, <2>2
<1>4. ASSUME NEW n \in W \intersect (1 .. N - 1) PROVE n + 1 \in W
  <2>1. n + 1 \in 1 .. N /\ n + 1 # 1 /\ (n + 1) - 1 = n /\ n \in 1 .. N
    BY <1>2
  <2>2. flat[n + 1] = flat[n] \o ss[n + 1]
    BY <1>1, <2>1 DEF Flattens
  <2>3. flat[n] \in Seq(S) /\ flat[n] # <<>> /\ ss[n + 1] \in Seq(S)
    BY <1>1, <1>2, <2>1
  <2> DEFINE a == flat[n]
             b == ss[n + 1]
  <2>4. a \o b # <<>> /\ (a \o b)[1] = a[1]
    <3>1. a \in Seq(S) /\ a # <<>> /\ b \in Seq(S)
      BY <2>3
    <3> HIDE DEF a, b, W, N
    <3> QED BY <3>1
  <2> QED BY <2>1, <2>2, <2>4
<1>5. 1 .. N \subseteq W
  <2> HIDE DEF W, N
  <2> QED BY <1>2, <1>3, <1>4, Upwards
<1>6. N \in W
  <2> HIDE DEF W, N
  <2> QED BY <1>2, <1>5
<1> QED BY <1>1, <1>6

\* Nothing but empty sequences are nothing.
LEMMA FlattenNone ==
    ASSUME NEW ss, ss \in Seq({<<>>})
    PROVE  FlattenSeq(ss) = <<>>
<1> DEFINE S == {}
<1>1. ss \in Seq(Seq(S))
  <2>1. <<>> \in Seq(S)
    <3> HIDE DEF S
    <3> QED OBVIOUS
  <2>2. {<<>>} \subseteq Seq(S)
    BY <2>1
  <2> DEFINE Q == Seq(S)
  <2>3. ss \in Seq(Q)
    <3>1. {<<>>} \subseteq Q
      BY <2>2
    <3> HIDE DEF S, Q
    <3>2. \A i \in 1 .. Len(ss) : ss[i] \in Q
      BY <3>1
    <3> QED BY <3>2
  <2> QED BY <2>3
<1>2. FlattenSeq(ss) \in Seq(S)
  <2> HIDE DEF S
  <2> QED BY <1>1, FlattenType
<1> QED BY <1>2

\* The same from zero.
LEMMA UpwardsFromZero ==
    ASSUME NEW N \in Nat, NEW P, 0 \in P, \A n \in P \intersect (0 .. N - 1) : n + 1 \in P
    PROVE  0 .. N \subseteq P
<1> DEFINE Q == {n \in 1 .. N + 1 : n - 1 \in P}
<1>1. 1 \in Q
  OBVIOUS
<1>2. ASSUME NEW n \in Q \intersect (1 .. N) PROVE n + 1 \in Q
  <2>1. n - 1 \in P \intersect (0 .. N - 1)
    OBVIOUS
  <2>2. (n - 1) + 1 \in P
    BY <2>1
  <2> QED BY <2>2
<1>3. 1 .. N + 1 \subseteq Q
  <2> HIDE DEF Q
  <2> QED BY <1>1, <1>2, Upwards
<1>4. ASSUME NEW n \in 0 .. N PROVE n \in P
  <2>1. n + 1 \in 1 .. N + 1
    OBVIOUS
  <2>2. n + 1 \in Q
    <3> HIDE DEF Q
    <3> QED BY <1>3, <2>1
  <2>3. (n + 1) - 1 \in P /\ (n + 1) - 1 = n
    BY <2>2
  <2> QED BY <2>3
<1> QED BY <1>4

\* The least of some numbers.
LEMMA MinOf ==
    ASSUME NEW S, S \subseteq Nat, S # {}
    PROVE  Min(S) \in S /\ \A i \in S : Min(S) <= i
<1>1. PICK n \in S : \A m \in S : ~ (<<m, n>> \in OpToRel(<, Nat))
  BY NatLessThanWellFounded, WFMin, Zenon
<1>2. \A m \in S : n <= m
  <2>1. \A m \in S : ~ (m < n)
    BY <1>1, Zenon DEF OpToRel
  <2> QED BY <2>1
<1> QED BY <1>2 DEF Min

\* The greatest of some numbers that have a bound.
LEMMA MaxOf ==
    ASSUME NEW S, NEW N \in Nat, S \subseteq 1 .. N, S # {}
    PROVE  Max(S) \in S /\ \A i \in S : i <= Max(S)
<1> DEFINE B == {b \in Nat : \A i \in S : i <= b}
<1>1. B \subseteq Nat /\ N \in B
  OBVIOUS
<1>2. Min(B) \in B /\ \A b \in B : Min(B) <= b
  <2> HIDE DEF B
  <2> QED BY <1>1, MinOf
<1>3. Min(B) \in S
  <2>1. SUFFICES ASSUME Min(B) \notin S PROVE FALSE
    OBVIOUS
  <2>2. \A i \in S : i <= Min(B) - 1
    BY <1>2, <2>1
  <2>3. Min(B) - 1 \in B
    <3>1. PICK i \in S : i \in 1 .. N
      OBVIOUS
    <3>2. i <= Min(B) - 1 /\ Min(B) \in Nat
      BY <1>2, <2>2
    <3>3. Min(B) - 1 \in Nat
      BY <3>1, <3>2
    <3> QED BY <2>2, <3>3
  <2>4. Min(B) \in Nat /\ ~(Min(B) <= Min(B) - 1)
    BY <1>2
  <2> HIDE DEF B
  <2> QED BY <1>2, <2>3, <2>4
<1>4. \E x \in S : \A y \in S : x >= y
  BY <1>2, <1>3
<1>5. Max(S) \in S /\ \A y \in S : Max(S) >= y
  BY <1>4 DEF Max
<1> QED BY <1>5

\* What is kept of a sequence, place by place.
Keeping(f, seq, places, n) ==
    /\ f[0] = <<>>
    /\ \A i \in 1 .. n : f[i] = IF i \in places THEN Append(f[i - 1], seq[i]) ELSE f[i - 1]

\* It is collected from the first place to the last.
LEMMA SelectSteps ==
    ASSUME NEW T, NEW seq \in Seq(T), NEW places
    PROVE  \E part \in [0 .. Len(seq) -> Seq({seq[i] : i \in places \intersect DOMAIN seq})] :
               Keeping(part, seq, places, Len(seq)) /\ Select(seq, places) = part[Len(seq)]
<1> DEFINE N == Len(seq)
           S == {seq[i] : i \in places \intersect DOMAIN seq}
           Solved(n) == \E f \in [0 .. n -> Seq(S)] : Keeping(f, seq, places, n)
           P == {n \in 0 .. N : Solved(n)}
<1>1. N \in Nat /\ DOMAIN seq = 1 .. N
  OBVIOUS
<1>2. Solved(0)
  <2>1. [i \in 0 .. 0 |-> <<>>] \in [0 .. 0 -> Seq(S)]
    <3> HIDE DEF S
    <3> QED OBVIOUS
  <2>2. Keeping([i \in 0 .. 0 |-> <<>>], seq, places, 0)
    BY DEF Keeping
  <2> QED BY <2>1, <2>2
<1>3. ASSUME NEW n \in 0 .. N - 1, Solved(n)
      PROVE  Solved(n + 1)
  <2>1. PICK f \in [0 .. n -> Seq(S)] : Keeping(f, seq, places, n)
    BY <1>3
  <2> DEFINE new == IF n + 1 \in places THEN Append(f[n], seq[n + 1]) ELSE f[n]
             g == [i \in 0 .. n + 1 |-> IF i = n + 1 THEN new ELSE f[i]]
  <2>2. new \in Seq(S)
    <3>1. n + 1 \in places => seq[n + 1] \in S
      BY <1>1
    <3>2. f[n] \in Seq(S)
      <4> HIDE DEF S
      <4> QED BY <1>1
    <3> HIDE DEF S
    <3> QED BY <3>1, <3>2
  <2>3. g \in [0 .. n + 1 -> Seq(S)]
    <3> HIDE DEF new, S
    <3> QED BY <2>2
  <2>4. \A i \in 0 .. n : g[i] = f[i]
    OBVIOUS
  <2>5. g[n + 1] = new
    OBVIOUS
  <2>6. n + 1 # 0 /\ (n + 1) - 1 = n /\ n \in 0 .. n
    BY <1>1
  <2>7. \A i \in 1 .. n + 1 : i = n + 1 \/ (i \in 1 .. n /\ i \in 0 .. n /\ i - 1 \in 0 .. n)
    BY <1>1
  <2>8. Keeping(g, seq, places, n + 1)
    <3>1. g[0] = <<>>
      BY <2>1, <2>4 DEF Keeping
    <3>2. ASSUME NEW i \in 1 .. n
          PROVE  g[i] = IF i \in places THEN Append(g[i - 1], seq[i]) ELSE g[i - 1]
      <4>1. g[i] = f[i] /\ g[i - 1] = f[i - 1]
        BY <2>4
      <4>2. f[i] = IF i \in places THEN Append(f[i - 1], seq[i]) ELSE f[i - 1]
        BY <2>1 DEF Keeping
      <4> HIDE DEF g
      <4> QED BY <4>1, <4>2
    <3>3. g[n + 1] = IF n + 1 \in places THEN Append(g[(n + 1) - 1], seq[n + 1])
                     ELSE g[(n + 1) - 1]
      <4>1. g[(n + 1) - 1] = f[n]
        BY <2>4, <2>6
      <4> HIDE DEF g
      <4> QED BY <2>5, <4>1
    <3> HIDE DEF g
    <3> QED BY <2>7, <3>1, <3>2, <3>3 DEF Keeping
  <2> HIDE DEF g
  <2> QED BY <2>3, <2>8
<1>4. PICK f \in [0 .. N -> Seq(S)] : Keeping(f, seq, places, N)
  <2>1. 0 \in P /\ \A n \in P \intersect (0 .. N - 1) : n + 1 \in P
    <3> HIDE DEF Solved
    <3> QED BY <1>1, <1>2, <1>3
  <2>2. 0 .. N \subseteq P
    <3> HIDE DEF P, N
    <3> QED BY <1>1, <2>1, UpwardsFromZero
  <2>3. Solved(N)
    <3> HIDE DEF Solved
    <3> QED BY <1>1, <2>2
  <2> QED BY <2>3
<1> DEFINE Eq(g) == g = [n \in 0 .. N |-> IF n = 0 THEN <<>> ELSE
                            IF n \in places THEN Append(g[n - 1], seq[n]) ELSE g[n - 1]]
           part == CHOOSE g : Eq(g)
<1>5. Eq(f)
  <2> DEFINE Grow(n) == IF n = 0 THEN <<>> ELSE
                            IF n \in places THEN Append(f[n - 1], seq[n]) ELSE f[n - 1]
  <2>1. \A n \in 0 .. N : f[n] = Grow(n)
    <3>1. \A n \in 0 .. N : n = 0 \/ (n # 0 /\ n \in 1 .. N)
      BY <1>1
    <3> HIDE DEF N, S
    <3> QED BY <1>4, <3>1 DEF Keeping
  <2>2. f = [n \in 0 .. N |-> f[n]]
    <3> HIDE DEF N, S
    <3> QED BY <1>4
  <2> HIDE DEF Grow, N, S
  <2>3. f = [n \in 0 .. N |-> Grow(n)]
    BY <2>1, <2>2
  <2> QED BY <2>3 DEF Grow
<1>6. Eq(part)
  <2> HIDE DEF Eq
  <2> QED BY <1>5
<1>7. Select(seq, places) = part[N]
  BY DEF Select
<1>8. /\ part[0] = <<>>
      /\ \A n \in 1 .. N : part[n] = IF n \in places THEN Append(part[n - 1], seq[n])
                                     ELSE part[n - 1]
  <2> HIDE DEF part
  <2>1. \A n \in 0 .. N : part[n] = IF n = 0 THEN <<>> ELSE
                            IF n \in places THEN Append(part[n - 1], seq[n]) ELSE part[n - 1]
    BY <1>6
  <2>2. 0 \in 0 .. N /\ \A n \in 1 .. N : n \in 0 .. N /\ n # 0
    BY <1>1
  <2> HIDE DEF N, Eq
  <2> QED BY <2>1, <2>2
<1> HIDE DEF part, Eq
<1>9. \A n \in 0 .. N : part[n] \in Seq(S)
  <2> DEFINE W == {n \in 0 .. N : part[n] \in Seq(S)}
  <2>1. 0 \in W
    <3>1. 0 \in 0 .. N /\ <<>> \in Seq(S)
      <4> HIDE DEF S
      <4> QED BY <1>1
    <3> HIDE DEF S, N
    <3> QED BY <1>8, <3>1
  <2>2. ASSUME NEW n \in W \intersect (0 .. N - 1) PROVE n + 1 \in W
    <3>1. n + 1 \in 1 .. N /\ (n + 1) - 1 = n /\ n + 1 \in 0 .. N
      BY <1>1
    <3>2. part[n + 1] = IF n + 1 \in places THEN Append(part[n], seq[n + 1]) ELSE part[n]
      BY <1>8, <3>1
    <3>3. n + 1 \in places => seq[n + 1] \in S
      BY <1>1, <3>1
    <3>4. part[n] \in Seq(S)
      OBVIOUS
    <3>5. part[n + 1] \in Seq(S)
      <4> HIDE DEF S, W
      <4> QED BY <3>2, <3>3, <3>4
    <3> QED BY <3>1, <3>5
  <2>3. 0 .. N \subseteq W
    <3> HIDE DEF W, N
    <3> QED BY <1>1, <2>1, <2>2, UpwardsFromZero
  <2> QED BY <2>3
<1>10. part \in [0 .. N -> Seq(S)]
  <2>1. part = [n \in 0 .. N |-> part[n]]
    <3> HIDE DEF N
    <3> QED BY <1>6 DEF Eq
  <2> HIDE DEF S, N
  <2> QED BY <1>9, <2>1
<1>11. Keeping(part, seq, places, N)
  BY <1>8 DEF Keeping
<1> HIDE DEF S, N
<1> QED BY <1>7, <1>10, <1>11 DEF S, N

\* What is kept of a sequence are its elements at these places, from the first on.
LEMMA SelectFacts ==
    ASSUME NEW T, NEW seq \in Seq(T), NEW places
    PROVE  LET S == {seq[i] : i \in places \intersect DOMAIN seq}
           IN  /\ Select(seq, places) \in Seq(S)
               /\ 1 \in places /\ seq # <<>> =>
                     Select(seq, places) # <<>> /\ Select(seq, places)[1] = seq[1]
<1> DEFINE N == Len(seq)
           S == {seq[i] : i \in places \intersect DOMAIN seq}
<1>1. N \in Nat /\ DOMAIN seq = 1 .. N
  OBVIOUS
<1>2. PICK part \in [0 .. N -> Seq(S)] :
          Keeping(part, seq, places, N) /\ Select(seq, places) = part[N]
  BY SelectSteps
<1>3. /\ part[0] = <<>>
      /\ \A n \in 1 .. N : part[n] = IF n \in places THEN Append(part[n - 1], seq[n])
                                     ELSE part[n - 1]
  BY <1>2 DEF Keeping
<1>4. \A n \in 0 .. N : part[n] \in Seq(S)
  <2> HIDE DEF S, N
  <2> QED BY <1>2
<1>5. ASSUME 1 \in places, seq # <<>>
      PROVE  part[N] # <<>> /\ part[N][1] = seq[1]
  <2> DEFINE W == {n \in 1 .. N : part[n] # <<>> /\ part[n][1] = seq[1]}
  <2>0. N \in Nat \ {0}
    BY <1>5
  <2>1. 1 \in W
    <3>1. 1 \in 1 .. N /\ 1 - 1 = 0
      BY <2>0
    <3>2. part[1] = Append(<<>>, seq[1])
      BY <1>3, <1>5, <3>1
    <3> QED BY <3>1, <3>2
  <2>2. ASSUME NEW n \in W \intersect (1 .. N - 1) PROVE n + 1 \in W
    <3>1. n + 1 \in 1 .. N /\ (n + 1) - 1 = n /\ n \in 0 .. N
      BY <1>1
    <3>2. part[n + 1] = IF n + 1 \in places THEN Append(part[n], seq[n + 1]) ELSE part[n]
      BY <1>3, <3>1
    <3>3. part[n] \in Seq(S) /\ part[n] # <<>> /\ part[n][1] = seq[1]
      BY <1>4, <3>1
    <3>4. \A e \in S : Append(part[n], e) # <<>> /\ Append(part[n], e)[1] = part[n][1]
      <4> DEFINE k == part[n]
      <4>1. k \in Seq(S) /\ k # <<>>
        BY <3>3
      <4>2. \A e \in S : Append(k, e) # <<>> /\ Append(k, e)[1] = k[1]
        <5> HIDE DEF S, W, k
        <5> QED BY <4>1
      <4> QED BY <4>2
    <3>5. n + 1 \in places => seq[n + 1] \in S
      BY <1>1, <3>1
    <3> HIDE DEF S
    <3> QED BY <3>1, <3>2, <3>3, <3>4, <3>5
  <2>3. 1 .. N \subseteq W
    <3> HIDE DEF W, N
    <3> QED BY <2>0, <2>1, <2>2, Upwards
  <2>4. N \in W
    <3> HIDE DEF W, N
    <3> QED BY <2>0, <2>3
  <2> QED BY <2>4
<1>6. part[N] \in Seq(S)
  <2> HIDE DEF S
  <2> QED BY <1>1, <1>4
<1> HIDE DEF S, N
<1> QED BY <1>2, <1>5, <1>6 DEF S

\* A finite set has a sequence of its elements: all of them.
LEMMA SetToSeqType ==
    ASSUME NEW S, IsFiniteSet(S)
    PROVE  SetToSeq(S) \in Seq(S) /\ ToSet(SetToSeq(S)) = S
<1>1. PICK n \in Nat : ExistsBijection(1 .. n, S)
  BY FS_NatBijection
<1>2. Cardinality(S) = n
  BY <1>1, FS_CountingElements
<1>3. \E f \in [1 .. Cardinality(S) -> S] : IsInjective(f)
  BY <1>1, <1>2 DEF ExistsBijection, Bijection, Injection
<1>4. SetToSeq(S) \in [1 .. Cardinality(S) -> S] /\ IsInjective(SetToSeq(S))
  BY <1>3 DEF SetToSeq
<1>5. SetToSeq(S) \in Injection(1 .. n, S)
  BY <1>2, <1>4 DEF Injection, IsInjective
<1>6. Cardinality(1 .. n) = n
  BY FS_Interval
<1>7. SetToSeq(S) \in Surjection(1 .. n, S)
  BY <1>2, <1>5, <1>6, FS_Injection
<1>8. SetToSeq(S) \in Seq(S) /\ DOMAIN SetToSeq(S) = 1 .. n
  BY <1>2, <1>4
<1> QED BY <1>7, <1>8 DEF Surjection, ToSet

-----------------------------------------------------------------------------
(* What is read back from a text *)

\* A setting no line gives.
LEMMA LastValueNone ==
    ASSUME NEW text, NEW key, \A i \in DOMAIN text : text[i][1] # key
    PROVE  LastValue(text, key) = None
<1>1. {i \in DOMAIN text : text[i][1] = key} = {}
  OBVIOUS
<1> QED BY <1>1 DEF LastValue

\* Lines that give other settings do not matter.
LEMMA LastValueSkips ==
    ASSUME NEW T, NEW s \in Seq(T), NEW t \in Seq(T), NEW key,
           \A i \in DOMAIN t : t[i][1] # key
    PROVE  LastValue(s \o t, key) = LastValue(s, key)
<1> DEFINE u == s \o t
           here == {i \in DOMAIN s : s[i][1] = key}
<1>1. /\ DOMAIN s = 1 .. Len(s) /\ Len(s) \in Nat
      /\ DOMAIN u = 1 .. Len(s) + Len(t) /\ Len(t) \in Nat
  OBVIOUS
<1>2. \A i \in DOMAIN u : \/ i \in DOMAIN s /\ u[i] = s[i]
                          \/ i \notin DOMAIN s /\ i - Len(s) \in DOMAIN t /\ u[i] = t[i - Len(s)]
  OBVIOUS
<1>3. \A i \in DOMAIN s : i \in DOMAIN u /\ u[i] = s[i]
  OBVIOUS
<1> HIDE DEF u
<1>4. {i \in DOMAIN u : u[i][1] = key} = here
  BY <1>2, <1>3
<1>5. here # {} => Max(here) \in here
  <2>1. here \subseteq 1 .. Len(s)
    BY <1>1
  <2> HIDE DEF here
  <2> QED BY <1>1, <2>1, MaxOf
<1>6. here # {} => u[Max(here)] = s[Max(here)]
  BY <1>3, <1>5
<1> QED BY <1>4, <1>6 DEF LastValue, u

\* The line that gives the setting does.
LEMMA LastValueLine ==
    ASSUME NEW T, NEW s \in Seq(T), NEW key, NEW value, value = None \/ <<key, value>> \in T,
           \A i \in DOMAIN s : s[i][1] # key
    PROVE  s \o Line(key, value) \in Seq(T) /\ LastValue(s \o Line(key, value), key) = value
<1>1. CASE value = None
  <2>1. s \o Line(key, value) = s
    BY <1>1 DEF Line
  <2> QED BY <1>1, <2>1, LastValueNone
<1>2. CASE value # None
  <2> DEFINE n == Len(s) + 1
             u == Append(s, <<key, value>>)
             here == {i \in DOMAIN u : u[i][1] = key}
  <2>1. s \o Line(key, value) = u
    <3>1. s \o << <<key, value>> >> = Append(s, <<key, value>>)
      BY <1>2
    <3> QED BY <1>2, <3>1 DEF Line
  <2>2. u \in Seq(T)
    BY <1>2
  <2>3. DOMAIN u = 1 .. n /\ n \in Nat /\ u[n] = <<key, value>> /\ \A i \in DOMAIN s : u[i] = s[i]
    BY <1>2
  <2>4. \A i \in DOMAIN u : i \in DOMAIN s \/ i = n
    OBVIOUS
  <2>5. n \in here
    <3>1. n \in 1 .. n
      OBVIOUS
    <3>2. u[n][1] = key
      <4> HIDE DEF u, n
      <4> QED BY <2>3
    <3> HIDE DEF n, u
    <3> QED BY <2>3, <3>1, <3>2
  <2> HIDE DEF n, u
  <2>6. here = {n}
    BY <2>3, <2>4, <2>5
  <2>7. Max(here) = n
    BY <2>3, <2>6 DEF Max
  <2>8. LastValue(u, key) = value
    BY <2>3, <2>6, <2>7 DEF LastValue
  <2> QED BY <2>1, <2>2, <2>8
<1> QED BY <1>1, <1>2

\* A value is one of those the lines may have.
LEMMA LastValueType ==
    ASSUME NEW T, NEW text \in Seq(T), NEW key, NEW V,
           \A line \in T : line[1] = key => line[2] \in V
    PROVE  LastValue(text, key) \in V \union {None}
<1> DEFINE here == {i \in DOMAIN text : text[i][1] = key}
<1>1. here # {} => Max(here) \in here
  <2>1. here \subseteq 1 .. Len(text) /\ Len(text) \in Nat
    OBVIOUS
  <2> HIDE DEF here
  <2> QED BY <2>1, MaxOf
<1>2. \A i \in here : text[i][2] \in V
  OBVIOUS
<1> HIDE DEF here
<1>3. LastValue(text, key) = IF here = {} THEN None ELSE text[Max(here)][2]
  BY DEF LastValue, here
<1> QED BY <1>1, <1>2, <1>3

\* A line gives its own setting.
LEMMA LineKeys ==
    ASSUME NEW key, NEW value
    PROVE  \A i \in DOMAIN Line(key, value) : Line(key, value)[i][1] = key
<1>1. CASE value = None
  BY <1>1 DEF Line
<1>2. CASE value # None
  <2> DEFINE l == << <<key, value>> >>
  <2>1. DOMAIN l = {1} /\ l[1] = <<key, value>>
    OBVIOUS
  <2>2. Line(key, value) = l
    BY <1>2 DEF Line
  <2> HIDE DEF l
  <2> QED BY <2>1, <2>2
<1> QED BY <1>1, <1>2

\* A configuration, ...
ConfigOK(cfg) ==
    cfg \in [dirs : Seq(Dirs), target : Dirs \union {None},
             manager : STRING \union {None}, elevation : STRING \union {None}]

\* ... and a manifest.
ManifestOK(m) ==
    m \in [target : Dirs \union {None}, required : SUBSET STRING, optional : SUBSET STRING,
           conflicts : SUBSET STRING]

\* The lines of the source directories.
SourceLines(cfg) == [i \in DOMAIN cfg.dirs |-> <<"SOURCE_DIRS", cfg.dirs[i]>>]

\* The lines of the single settings.
LEMMA LinesTyped ==
    ASSUME NEW cfg, ConfigOK(cfg)
    PROVE  /\ Line("TARGET_DIR", cfg.target) \in Seq(ConfigLines)
           /\ Line("PKG_MANAGER", cfg.manager) \in Seq(ConfigLines)
           /\ Line("ELEVATION_TOOL", cfg.elevation) \in Seq(ConfigLines)
<1>1. /\ cfg.target = None \/ <<"TARGET_DIR", cfg.target>> \in ConfigLines
      /\ cfg.manager = None \/ <<"PKG_MANAGER", cfg.manager>> \in ConfigLines
      /\ cfg.elevation = None \/ <<"ELEVATION_TOOL", cfg.elevation>> \in ConfigLines
  BY DEF ConfigOK, ConfigLines
<1>2. Line("TARGET_DIR", cfg.target) \in Seq(ConfigLines)
  BY <1>1 DEF Line
<1>3. Line("PKG_MANAGER", cfg.manager) \in Seq(ConfigLines)
  BY <1>1 DEF Line
<1>4. Line("ELEVATION_TOOL", cfg.elevation) \in Seq(ConfigLines)
  BY <1>1 DEF Line
<1> QED BY <1>2, <1>3, <1>4

\* The text of a configuration, from its end.
LEMMA ConfigTextParts ==
    ASSUME NEW cfg, ConfigOK(cfg)
    PROVE  LET A == SourceLines(cfg)
               B == A \o Line("TARGET_DIR", cfg.target)
               C == B \o Line("PKG_MANAGER", cfg.manager)
           IN  /\ ConfigText(cfg) = C \o Line("ELEVATION_TOOL", cfg.elevation)
               /\ {A, B, C, ConfigText(cfg)} \subseteq Seq(ConfigLines)
               /\ LastValue(B, "TARGET_DIR") = cfg.target
<1> DEFINE A == SourceLines(cfg)
           target == Line("TARGET_DIR", cfg.target)
           manager == Line("PKG_MANAGER", cfg.manager)
           elevation == Line("ELEVATION_TOOL", cfg.elevation)
           B == A \o target
           C == B \o manager
<1>1. A \in Seq(ConfigLines) /\ \A i \in DOMAIN A : A[i][1] # "TARGET_DIR"
  <2>1. cfg.dirs \in Seq(Dirs) /\ DOMAIN cfg.dirs = 1 .. Len(cfg.dirs) /\ Len(cfg.dirs) \in Nat
    BY DEF ConfigOK
  <2>2. \A i \in DOMAIN cfg.dirs : <<"SOURCE_DIRS", cfg.dirs[i]>> \in ConfigLines
    BY <2>1 DEF ConfigLines
  <2>3. A \in [1 .. Len(cfg.dirs) -> ConfigLines]
    BY <2>1, <2>2 DEF SourceLines
  <2>4. A \in Seq(ConfigLines)
    <3> HIDE DEF A
    <3> QED BY <2>1, <2>3
  <2>5. \A i \in DOMAIN A : A[i][1] # "TARGET_DIR"
    BY DEF SourceLines
  <2> HIDE DEF A
  <2> QED BY <2>4, <2>5
<1>2. /\ cfg.target = None \/ <<"TARGET_DIR", cfg.target>> \in ConfigLines
      /\ manager \in Seq(ConfigLines) /\ elevation \in Seq(ConfigLines)
  BY LinesTyped DEF ConfigOK, ConfigLines
<1>3. B \in Seq(ConfigLines) /\ LastValue(B, "TARGET_DIR") = cfg.target
  <2> HIDE DEF A
  <2>1. PICK t : t = cfg.target
    OBVIOUS
  <2>2. t = None \/ <<"TARGET_DIR", t>> \in ConfigLines
    BY <1>2, <2>1
  <2>3. /\ A \o Line("TARGET_DIR", t) \in Seq(ConfigLines)
        /\ LastValue(A \o Line("TARGET_DIR", t), "TARGET_DIR") = t
    BY <1>1, <2>2, LastValueLine
  <2> QED BY <2>1, <2>3
<1>4. C \in Seq(ConfigLines) /\ C \o elevation \in Seq(ConfigLines)
  <2> HIDE DEF B, manager, elevation
  <2> QED BY <1>2, <1>3
<1>5. ConfigText(cfg) = C \o elevation
  BY DEF ConfigText, SourceLines
<1> HIDE DEF A, B, C, elevation
<1> QED BY <1>1, <1>3, <1>4, <1>5 DEF A, B, C, elevation

\* The target that is saved is the one that is read.
LEMMA ConfigTextTarget ==
    ASSUME NEW cfg, ConfigOK(cfg)
    PROVE  LastValue(ConfigText(cfg), "TARGET_DIR") = cfg.target
<1> DEFINE manager == Line("PKG_MANAGER", cfg.manager)
           elevation == Line("ELEVATION_TOOL", cfg.elevation)
           B == SourceLines(cfg) \o Line("TARGET_DIR", cfg.target)
<1>1. /\ ConfigText(cfg) = (B \o manager) \o elevation
      /\ B \in Seq(ConfigLines) /\ B \o manager \in Seq(ConfigLines)
      /\ LastValue(B, "TARGET_DIR") = cfg.target
  BY ConfigTextParts
<1>2. manager \in Seq(ConfigLines) /\ elevation \in Seq(ConfigLines)
  BY LinesTyped
<1>3. /\ \A i \in DOMAIN manager : manager[i][1] # "TARGET_DIR"
      /\ \A i \in DOMAIN elevation : elevation[i][1] # "TARGET_DIR"
  BY LineKeys
<1> HIDE DEF B, manager, elevation
<1>4. LastValue(B \o manager, "TARGET_DIR") = cfg.target
  BY <1>1, <1>2, <1>3, LastValueSkips
<1>5. LastValue((B \o manager) \o elevation, "TARGET_DIR") = LastValue(B \o manager, "TARGET_DIR")
  BY <1>1, <1>2, <1>3, LastValueSkips
<1> QED BY <1>1, <1>4, <1>5

\* Each line gives directories without ":".
LEMMA CutType ==
    ASSUME NEW text \in Seq(ConfigLines)
    PROVE  [i \in DOMAIN text |->
               IF text[i][1] # "SOURCE_DIRS" THEN <<>>
               ELSE IF text[i][2] \in DOMAIN Pieces THEN Pieces[text[i][2]] ELSE <<text[i][2]>>]
               \in Seq(Seq(Dirs \ DOMAIN Pieces))
<1> DEFINE D == Dirs \ DOMAIN Pieces
           cut(i) == IF text[i][1] # "SOURCE_DIRS" THEN <<>>
                     ELSE IF text[i][2] \in DOMAIN Pieces THEN Pieces[text[i][2]]
                     ELSE <<text[i][2]>>
           ss == [i \in DOMAIN text |-> cut(i)]
<1>1. ASSUME NEW i \in DOMAIN text PROVE cut(i) \in Seq(D)
  <2>1. text[i] \in ConfigLines
    OBVIOUS
  <2>2. text[i][1] = "SOURCE_DIRS" => text[i][2] \in Dirs
    BY <2>1 DEF ConfigLines
  <2>3. text[i][2] \in DOMAIN Pieces => Pieces[text[i][2]] \in Seq(D)
    BY ConfigAssumption
  <2>4. <<>> \in Seq(D) /\ \A d \in D : <<d>> \in Seq(D)
    <3> HIDE DEF D
    <3> QED OBVIOUS
  <2> QED BY <2>2, <2>3, <2>4
<1>2. ss \in Seq(Seq(D))
  <2> DEFINE Q == Seq(D)
  <2> HIDE DEF D, cut
  <2>1. \A i \in DOMAIN text : cut(i) \in Q
    BY <1>1
  <2> HIDE DEF Q
  <2>2. ss \in Seq(Q)
    BY <2>1
  <2> QED BY <2>2 DEF Q
<1> HIDE DEF D, cut
<1>3. ss \in Seq(Seq(D))
  BY <1>2
<1> QED BY <1>3 DEF D, cut

\* What a text lists, cut at ":", has no ":".
LEMMA TokensType ==
    ASSUME NEW text \in Seq(ConfigLines)
    PROVE  Tokens(text) \in Seq(Dirs \ DOMAIN Pieces)
BY CutType, FlattenType DEF Tokens

\* What is read is a configuration, with directories that are there and have no ":".
LEMMA LoadConfigType ==
    ASSUME NEW text \in Seq(ConfigLines) \union {None}, NEW u
    PROVE  /\ ConfigOK(LoadConfig(text, u))
           /\ LoadConfig(text, u).dirs \in Seq((Dirs \ DOMAIN Pieces) \intersect u)
<1> DEFINE D == (Dirs \ DOMAIN Pieces) \intersect u
           cfg == LoadConfig(text, u)
<1>1. CASE text = None
  BY <1>1 DEF LoadConfig, EmptyConfig, ConfigOK
<1>2. CASE text # None
  <2>0. text \in Seq(ConfigLines)
    BY <1>2
  <2>1. LastValue(text, "TARGET_DIR") \in Dirs \union {None}
    <3>1. \A line \in ConfigLines : line[1] = "TARGET_DIR" => line[2] \in Dirs
      BY DEF ConfigLines
    <3> QED BY <2>0, <3>1, LastValueType
  <2>2. /\ LastValue(text, "PKG_MANAGER") \in STRING \union {None}
        /\ LastValue(text, "ELEVATION_TOOL") \in STRING \union {None}
    <3>1. \A line \in ConfigLines :
              line[1] \in {"PKG_MANAGER", "ELEVATION_TOOL"} => line[2] \in STRING
      BY DEF ConfigLines
    <3> QED BY <2>0, <3>1, LastValueType
  <2>3. Distinct(Tokens(text), u) \in Seq(D)
    <3> DEFINE tokens == Tokens(text)
               places == {i \in DOMAIN tokens : tokens[i] \in u
                                                  /\ \A j \in 1 .. i - 1 : tokens[j] # tokens[i]}
               S == {tokens[i] : i \in places \intersect DOMAIN tokens}
    <3>1. tokens \in Seq(Dirs \ DOMAIN Pieces)
      BY <2>0, TokensType
    <3>2. S \subseteq D
      BY <3>1
    <3>3. Select(tokens, places) \in Seq(S)
      <4> HIDE DEF tokens, places
      <4> QED BY <3>1, SelectFacts
    <3>4. Distinct(tokens, u) = Select(tokens, places)
      BY DEF Distinct
    <3> HIDE DEF S, D, places, tokens
    <3>5. Select(tokens, places) \in Seq(D)
      BY <3>2, <3>3
    <3> QED BY <3>4, <3>5 DEF tokens
  <2>4. cfg = [dirs      |-> Distinct(Tokens(text), u),
               target    |-> LastValue(text, "TARGET_DIR"),
               manager   |-> LastValue(text, "PKG_MANAGER"),
               elevation |-> LastValue(text, "ELEVATION_TOOL")]
    BY <1>2 DEF LoadConfig
  <2>5. Distinct(Tokens(text), u) \in Seq(Dirs)
    <3>1. D \subseteq Dirs
      OBVIOUS
    <3> HIDE DEF D, Dirs
    <3> QED BY <2>3, <3>1
  <2> HIDE DEF D, cfg
  <2>6. ConfigOK(cfg)
    BY <2>1, <2>2, <2>4, <2>5 DEF ConfigOK
  <2>7. cfg.dirs \in Seq(D)
    BY <2>3, <2>4
  <2> QED BY <2>6, <2>7 DEF D, cfg
<1> QED BY <1>1, <1>2

\* The first source directory that is saved is the first that is read, if it is there.
LEMMA ConfigTextFirst ==
    ASSUME NEW cfg, ConfigOK(cfg), NEW u,
           cfg.dirs # <<>> => cfg.dirs[1] \in u \ DOMAIN Pieces
    PROVE  LET dirs == LoadConfig(ConfigText(cfg), u).dirs
           IN  /\ cfg.dirs = <<>> <=> dirs = <<>>
               /\ cfg.dirs # <<>> => dirs[1] = cfg.dirs[1]
<1> DEFINE text == ConfigText(cfg)
           A == SourceLines(cfg)
           target == Line("TARGET_DIR", cfg.target)
           manager == Line("PKG_MANAGER", cfg.manager)
           elevation == Line("ELEVATION_TOOL", cfg.elevation)
           tokens == Tokens(text)
           cut(i) == IF text[i][1] # "SOURCE_DIRS" THEN <<>>
                     ELSE IF text[i][2] \in DOMAIN Pieces THEN Pieces[text[i][2]]
                     ELSE <<text[i][2]>>
           ss == [i \in DOMAIN text |-> cut(i)]
           places == {i \in DOMAIN tokens : tokens[i] \in u
                                              /\ \A j \in 1 .. i - 1 : tokens[j] # tokens[i]}
<1>1. text \in Seq(ConfigLines) /\ tokens \in Seq(Dirs \ DOMAIN Pieces) /\ text # None
  BY ConfigTextParts, TokensType, ConfigAssumption
<1>2. tokens = FlattenSeq(ss)
  BY DEF Tokens
<1>3. LoadConfig(text, u).dirs = Select(tokens, places)
  BY <1>1 DEF LoadConfig, Distinct
<1>4. text = ((A \o target) \o manager) \o elevation
  BY ConfigTextParts
<1>5. CASE cfg.dirs = <<>>
  <2>1. \A i \in DOMAIN text : text[i][1] # "SOURCE_DIRS"
    <3>1. A = <<>>
      BY <1>5 DEF SourceLines
    <3>2. /\ \A i \in DOMAIN target : target[i][1] # "SOURCE_DIRS"
          /\ \A i \in DOMAIN manager : manager[i][1] # "SOURCE_DIRS"
          /\ \A i \in DOMAIN elevation : elevation[i][1] # "SOURCE_DIRS"
      BY LineKeys
    <3>3. A \in Seq(ConfigLines) /\ target \in Seq(ConfigLines)
          /\ manager \in Seq(ConfigLines) /\ elevation \in Seq(ConfigLines)
      BY ConfigTextParts, LinesTyped
    <3>4. \A s, t \in Seq(ConfigLines) : \A i \in DOMAIN (s \o t) :
              \/ i \in DOMAIN s /\ (s \o t)[i] = s[i]
              \/ i - Len(s) \in DOMAIN t /\ (s \o t)[i] = t[i - Len(s)]
      OBVIOUS
    <3>5. A \o target = target
      <4> HIDE DEF target, A
      <4> QED BY <3>1, <3>3
    <3>6. target \o manager \in Seq(ConfigLines)
      <4> HIDE DEF target, manager
      <4> QED BY <3>3
    <3>7. \A i \in DOMAIN (target \o manager) : (target \o manager)[i][1] # "SOURCE_DIRS"
      <4> HIDE DEF target, manager
      <4> QED BY <3>2, <3>3, <3>4
    <3>8. text = (target \o manager) \o elevation
      <4> HIDE DEF A, target, manager, elevation, text
      <4> QED BY <1>4, <3>5
    <3> DEFINE both == target \o manager
    <3>9. both \in Seq(ConfigLines) /\ \A i \in DOMAIN both : both[i][1] # "SOURCE_DIRS"
      BY <3>6, <3>7
    <3> HIDE DEF both, elevation, text
    <3>10. text = both \o elevation
      BY <3>8 DEF both
    <3> QED BY <3>2, <3>3, <3>4, <3>9, <3>10
  <2>2. ss \in Seq({<<>>})
    <3>1. \A i \in DOMAIN text : cut(i) \in {<<>>}
      BY <2>1
    <3> HIDE DEF cut, text
    <3> QED BY <1>1, <3>1
  <2>3. tokens = <<>>
    <3> HIDE DEF ss
    <3> QED BY <1>2, <2>2, FlattenNone
  <2>4. Select(tokens, places) \in Seq({tokens[i] : i \in places \intersect DOMAIN tokens})
    <3> HIDE DEF tokens, places
    <3> QED BY <1>1, SelectFacts
  <2>5. {tokens[i] : i \in places \intersect DOMAIN tokens} = {}
    <3> HIDE DEF tokens
    <3> QED BY <2>3
  <2>6. Select(tokens, places) = <<>>
    <3> DEFINE S == {tokens[i] : i \in places \intersect DOMAIN tokens}
               q == Select(tokens, places)
    <3>1. q \in Seq(S) /\ S = {}
      BY <2>4, <2>5
    <3> HIDE DEF S, q
    <3> QED BY <3>1 DEF q
  <2> HIDE DEF tokens, text, places
  <2> QED BY <1>3, <1>5, <2>6 DEF text
<1>6. CASE cfg.dirs # <<>>
  <2> DEFINE d == cfg.dirs[1]
  <2>1. 1 \in DOMAIN text /\ text[1] = <<"SOURCE_DIRS", d>> /\ text # <<>>
    <3>1. A \in Seq(ConfigLines) /\ A # <<>> /\ A[1] = <<"SOURCE_DIRS", d>>
      <4>1. cfg.dirs \in Seq(Dirs)
        BY DEF ConfigOK
      <4>2. 1 \in DOMAIN cfg.dirs
        BY <1>6, <4>1
      <4>3. DOMAIN A = DOMAIN cfg.dirs /\ A[1] = <<"SOURCE_DIRS", d>>
        BY <4>2 DEF SourceLines
      <4>4. A \in Seq(ConfigLines)
        BY ConfigTextParts
      <4> HIDE DEF A
      <4> QED BY <4>2, <4>3, <4>4
    <3>2. target \in Seq(ConfigLines) /\ manager \in Seq(ConfigLines)
          /\ elevation \in Seq(ConfigLines)
      BY LinesTyped
    <3>3. \A s, t \in Seq(ConfigLines) :
              s # <<>> => /\ s \o t \in Seq(ConfigLines) /\ s \o t # <<>>
                          /\ 1 \in DOMAIN (s \o t) /\ (s \o t)[1] = s[1]
      OBVIOUS
    <3> HIDE DEF A, target, manager, elevation, text
    <3> QED BY <1>4, <3>1, <3>2, <3>3
  <2>2. ss \in Seq(Seq(Dirs \ DOMAIN Pieces)) /\ ss # <<>> /\ ss[1] = <<d>>
    <3>1. ss \in Seq(Seq(Dirs \ DOMAIN Pieces))
      BY <1>1, CutType
    <3>2. cut(1) = <<d>>
      <4> HIDE DEF text
      <4> QED BY <1>6, <2>1
    <3>3. 1 \in DOMAIN ss /\ ss[1] = cut(1)
      <4> HIDE DEF cut, text
      <4> QED BY <2>1
    <3> HIDE DEF ss, cut
    <3> QED BY <3>1, <3>2, <3>3
  <2>3. tokens # <<>> /\ tokens[1] = d
    <3> HIDE DEF ss
    <3>1. FlattenSeq(ss) # <<>> /\ FlattenSeq(ss)[1] = ss[1][1]
      BY <2>2, FlattenHead
    <3> QED BY <1>2, <2>2, <3>1
  <2>4. 1 \in places
    <3> HIDE DEF tokens
    <3> QED BY <1>1, <1>6, <2>3
  <2>5. Select(tokens, places) # <<>> /\ Select(tokens, places)[1] = tokens[1]
    <3> HIDE DEF tokens, places
    <3> QED BY <1>1, <2>3, <2>4, SelectFacts
  <2> HIDE DEF tokens, text, places
  <2> QED BY <1>3, <1>6, <2>3, <2>5 DEF text
<1> QED BY <1>5, <1>6

\* A text leaves the target and the first source directory as they were.
SameDirs(old, new) ==
    LET a == LoadConfig(old, Directories)
        b == LoadConfig(new, Directories)
    IN  /\ b.target = a.target
        /\ a.dirs = <<>> <=> b.dirs = <<>>
        /\ a.dirs # <<>> => b.dirs[1] = a.dirs[1]

\* A configuration is saved with the directories that have been read.
LEMMA SaveKeepsDirs ==
    ASSUME NEW old \in Seq(ConfigLines) \union {None}, NEW cfg, ConfigOK(cfg),
           LET a == LoadConfig(old, Directories)
           IN  /\ cfg.target = a.target
               /\ a.dirs = <<>> <=> cfg.dirs = <<>>
               /\ a.dirs # <<>> => cfg.dirs[1] = a.dirs[1]
    PROVE  SameDirs(old, ConfigText(cfg))
<1> DEFINE a == LoadConfig(old, Directories)
           b == LoadConfig(ConfigText(cfg), Directories)
<1>1. b.target = cfg.target
  <2>1. ConfigText(cfg) # None
    BY ConfigTextParts, ConfigAssumption
  <2> QED BY <2>1, ConfigTextTarget DEF LoadConfig
<1>2. cfg.dirs # <<>> => cfg.dirs[1] \in Directories \ DOMAIN Pieces
  <2>1. a.dirs \in Seq((Dirs \ DOMAIN Pieces) \intersect Directories)
    BY LoadConfigType
  <2>2. a.dirs # <<>> => a.dirs[1] \in (Dirs \ DOMAIN Pieces) \intersect Directories
    <3> DEFINE D == (Dirs \ DOMAIN Pieces) \intersect Directories
               s == a.dirs
    <3>1. s \in Seq(D)
      BY <2>1
    <3>2. s # <<>> => s[1] \in D
      <4> HIDE DEF s, D
      <4> QED BY <3>1
    <3> QED BY <3>2
  <2> HIDE DEF a
  <2> QED BY <2>2 DEF a
<1>3. (cfg.dirs = <<>> <=> b.dirs = <<>>) /\ (cfg.dirs # <<>> => b.dirs[1] = cfg.dirs[1])
  BY <1>2, ConfigTextFirst
<1> HIDE DEF b
<1> QED BY <1>1, <1>3 DEF SameDirs, b

\* What is added to a list leaves the first.
LEMMA AppendHead ==
    ASSUME NEW T, NEW s \in Seq(T), s # <<>>, NEW e
    PROVE  Append(s, e) # <<>> /\ Append(s, e)[1] = s[1]
<1> DEFINE U == T \union {e}
<1>1. s \in Seq(U)
  <2>1. \A i \in 1 .. Len(s) : s[i] \in U
    OBVIOUS
  <2> HIDE DEF U
  <2> QED BY <2>1
<1>2. e \in U
  OBVIOUS
<1> HIDE DEF U
<1> QED BY <1>1, <1>2

\* What is taken away from a list leaves a list.
LEMMA WithoutType ==
    ASSUME NEW T, NEW dirs \in Seq(T), NEW d
    PROVE  Without(dirs, d) \in Seq(T)
<1> DEFINE places == {i \in DOMAIN dirs : dirs[i] # d}
           S == {dirs[i] : i \in places \intersect DOMAIN dirs}
<1>1. Select(dirs, places) \in Seq(S)
  <2> HIDE DEF places
  <2> QED BY SelectFacts
<1>2. S \subseteq T
  OBVIOUS
<1> HIDE DEF places, S
<1>3. Select(dirs, places) \in Seq(T)
  BY <1>1, <1>2
<1> QED BY <1>3 DEF Without, places

\* The edits of a configuration give a configuration, ...
LEMMA ConfigEditType ==
    ASSUME NEW cfg, ConfigOK(cfg), NEW r, RequestOK(r), r.op \in ConfigOps
    PROVE  ConfigOK(ConfigEdit(r, cfg, IF r.path = None THEN None ELSE Prepare(r.path)))
<1> DEFINE d == IF r.path = None THEN None ELSE Prepare(r.path)
           new == ConfigEdit(r, cfg, d)
<1>1. cfg.dirs \in Seq(Dirs)
  BY DEF ConfigOK
<1>2. r.op \in {"set source", "add source", "remove dir", "target"} =>
          d \in Dirs \/ (d = None /\ r.op \in {"remove dir", "target"})
  BY DEF RequestOK
<1>3. r.op \in {"manager", "elevation"} => r.arg \in STRING \union {None}
  BY DEF RequestOK
<1> SUFFICES ConfigOK(new)
  OBVIOUS
<1> HIDE DEF d, new
<1>4. CASE r.op = "set source"
  <2>1. new = [cfg EXCEPT !.dirs = <<d>> \o Without(cfg.dirs, d)]
    BY <1>4 DEF ConfigEdit, SetSource, new
  <2>2. <<d>> \o Without(cfg.dirs, d) \in Seq(Dirs)
    <3> DEFINE w == Without(cfg.dirs, d)
    <3>1. w \in Seq(Dirs) /\ d \in Dirs
      BY <1>1, <1>2, <1>4, WithoutType
    <3> HIDE DEF w, Dirs
    <3> QED BY <3>1 DEF w
  <2> HIDE DEF Dirs
  <2> QED BY <2>1, <2>2 DEF ConfigOK
<1>5. CASE r.op = "add source"
  <2>1. new = [cfg EXCEPT !.dirs = IF Contains(cfg.dirs, d) THEN cfg.dirs ELSE Append(cfg.dirs, d)]
    BY <1>5 DEF ConfigEdit, AddSource, new
  <2>2. Append(cfg.dirs, d) \in Seq(Dirs)
    <3>1. d \in Dirs
      BY <1>2, <1>5
    <3> HIDE DEF Dirs
    <3> QED BY <1>1, <3>1
  <2> HIDE DEF Dirs
  <2> QED BY <1>1, <2>1, <2>2 DEF ConfigOK
<1>6. CASE r.op = "remove dir"
  <2>1. new = IF d = None THEN [cfg EXCEPT !.target = None]
              ELSE [cfg EXCEPT !.target = IF cfg.target = d THEN None ELSE cfg.target,
                               !.dirs = Without(cfg.dirs, d)]
    BY <1>6 DEF ConfigEdit, RemoveDir, new
  <2>2. Without(cfg.dirs, d) \in Seq(Dirs)
    BY <1>1, WithoutType
  <2> HIDE DEF Dirs
  <2> QED BY <2>1, <2>2 DEF ConfigOK
<1>7. CASE r.op = "target"
  <2>1. new = [cfg EXCEPT !.target = d]
    BY <1>7 DEF ConfigEdit, SetTarget, new
  <2> HIDE DEF Dirs
  <2> QED BY <1>2, <1>7, <2>1 DEF ConfigOK
<1>8. CASE r.op = "manager"
  <2>1. new = [cfg EXCEPT !.manager = r.arg]
    BY <1>8 DEF ConfigEdit, SetManager, new
  <2> HIDE DEF Dirs
  <2> QED BY <1>3, <1>8, <2>1 DEF ConfigOK
<1>9. CASE r.op = "elevation"
  <2>1. new = [cfg EXCEPT !.elevation = r.arg]
    BY <1>9 DEF ConfigEdit, SetElevation, new
  <2> HIDE DEF Dirs
  <2> QED BY <1>3, <1>9, <2>1 DEF ConfigOK
<1> QED BY <1>4, <1>5, <1>6, <1>7, <1>8, <1>9 DEF ConfigOps

\* ... and those that are not about the target or the source in force ...
KeepsDirs(r, cfg) ==
    r.op \in {"manager", "elevation"} \/ (r.op = "add source" /\ cfg.dirs # <<>>)

\* ... keep both.
LEMMA ConfigEditKeeps ==
    ASSUME NEW cfg, ConfigOK(cfg), NEW r, RequestOK(r), NEW d,
           KeepsDirs(r, cfg), NEW new, new = ConfigEdit(r, cfg, d)
    PROVE  /\ new.target = cfg.target
           /\ cfg.dirs = <<>> <=> new.dirs = <<>>
           /\ cfg.dirs # <<>> => new.dirs[1] = cfg.dirs[1]
<1>0. DOMAIN cfg = {"dirs", "target", "manager", "elevation"} /\ cfg.dirs \in Seq(Dirs)
  BY DEF ConfigOK
<1>1. CASE r.op = "manager"
  <2>1. new = [cfg EXCEPT !.manager = r.arg]
    BY <1>1 DEF ConfigEdit, SetManager
  <2> QED BY <1>0, <2>1
<1>2. CASE r.op = "elevation"
  <2>1. new = [cfg EXCEPT !.elevation = r.arg]
    BY <1>2 DEF ConfigEdit, SetElevation
  <2> QED BY <1>0, <2>1
<1>3. CASE r.op = "add source" /\ cfg.dirs # <<>>
  <2> DEFINE s == cfg.dirs
             more == IF Contains(s, d) THEN s ELSE Append(s, d)
  <2>1. new = [cfg EXCEPT !.dirs = more]
    BY <1>3 DEF ConfigEdit, AddSource
  <2>2. more # <<>> /\ more[1] = s[1]
    <3>1. s \in Seq(Dirs) /\ s # <<>>
      BY <1>0, <1>3
    <3> HIDE DEF s
    <3> QED BY <3>1, AppendHead
  <2> HIDE DEF more
  <2>3. new.dirs = more /\ new.target = cfg.target
    BY <1>0, <2>1
  <2> QED BY <1>3, <2>2, <2>3
<1> QED BY <1>1, <1>2, <1>3 DEF KeepsDirs

\* A manifest of lines.
LEMMA ParseType ==
    ASSUME NEW text \in Seq(ManifestLines)
    PROVE  ManifestOK(ParseManifest(text))
<1>1. LastValue(text, "TARGET") \in Dirs \union {None}
  <2>1. \A line \in ManifestLines : line[1] = "TARGET" => line[2] \in Dirs
    BY DEF ManifestLines
  <2> QED BY <2>1, LastValueType
<1>2. ASSUME NEW key \in {"REQUIRED", "OPTIONAL", "CONFLICTS"}
      PROVE  ListIn(text, key) \subseteq STRING
  <2>1. ToSet(text) \subseteq ManifestLines
    BY DEF ToSet
  <2>2. \A line \in ManifestLines : line[1] = key => line[2] \subseteq STRING
    BY DEF ManifestLines
  <2> QED BY <2>1, <2>2 DEF ListIn
<1> QED BY <1>1, <1>2 DEF ParseManifest, ManifestOK

\* A manifest is saved as lines, with its target.
LEMMA ManifestTextFacts ==
    ASSUME NEW m, ManifestOK(m)
    PROVE  /\ ManifestText(m) \in Seq(ManifestLines)
           /\ LastValue(ManifestText(m), "TARGET") = m.target
<1> DEFINE first == Line("TARGET", m.target)
           rest == << <<"REQUIRED", m.required>>, <<"OPTIONAL", m.optional>>,
                      <<"CONFLICTS", m.conflicts>> >>
<1>1. m.target = None \/ <<"TARGET", m.target>> \in ManifestLines
  BY DEF ManifestOK, ManifestLines
<1>2. first \in Seq(ManifestLines) /\ LastValue(first, "TARGET") = m.target
  <2> DEFINE e == <<>>
  <2>1. e \in Seq(ManifestLines) /\ DOMAIN e = {}
    <3> HIDE DEF ManifestLines
    <3> QED OBVIOUS
  <2>2. e \o first \in Seq(ManifestLines) /\ LastValue(e \o first, "TARGET") = m.target
    <3>1. \A i \in DOMAIN e : e[i][1] # "TARGET"
      BY <2>1
    <3>2. e \in Seq(ManifestLines)
      BY <2>1
    <3> HIDE DEF e
    <3> QED BY <1>1, <3>1, <3>2, LastValueLine
  <2>3. first \in Seq(ManifestLines)
    <3> HIDE DEF ManifestLines
    <3> QED BY <1>1 DEF Line
  <2>4. e \o first = first
    <3> HIDE DEF first, ManifestLines
    <3> QED BY <2>3
  <2> HIDE DEF first, e
  <2> QED BY <2>2, <2>4
<1>3. rest \in Seq(ManifestLines) /\ \A i \in DOMAIN rest : rest[i][1] # "TARGET"
  <2>1. /\ <<"REQUIRED", m.required>> \in ManifestLines
        /\ <<"OPTIONAL", m.optional>> \in ManifestLines
        /\ <<"CONFLICTS", m.conflicts>> \in ManifestLines
    BY DEF ManifestOK, ManifestLines
  <2>2. DOMAIN rest = {1, 2, 3}
    OBVIOUS
  <2> QED BY <2>1, <2>2
<1>4. ManifestText(m) = first \o rest
  BY DEF ManifestText
<1> HIDE DEF first, rest
<1>5. first \o rest \in Seq(ManifestLines)
  BY <1>2, <1>3
<1>6. LastValue(first \o rest, "TARGET") = LastValue(first, "TARGET")
  BY <1>2, <1>3, LastValueSkips
<1> QED BY <1>2, <1>4, <1>5, <1>6

-----------------------------------------------------------------------------
(* Patterns *)

\* Neither none nor one.
LEMMA TwoOrMore == \A n \in Nat : n > 1 <=> n # 0 /\ n # 1
OBVIOUS

\* A pattern that is not peculiar goes for what gitignore(5) says.
LEMMA ReadAsGit ==
    ASSUME NEW pat \in Pats, NEW path, NEW isDir, ~Peculiar(pat, path)
    PROVE  Matches(pat, path) <=> GitIgnores(pat, path, isDir)
<1>0. pat.segs \in Seq(STRING) /\ pat.segs # <<>>
  BY DEF Pats
<1>1. /\ ~pat.dir /\ pat.segs[1] # ""
      /\ ~(Len(pat.segs) = 1 /\ HasGlob(pat) /\ path \in Spans[pat.segs[1]])
  BY Zenon DEF Peculiar
<1>2. Head(pat.segs) = pat.segs[1] /\ Len(pat.segs) \in Nat /\ Len(pat.segs) # 0
  BY <1>0
<1>3. CASE Len(pat.segs) = 1
  <2>1. ~(Len(pat.segs) > 1)
    BY <1>3
  <2>2. Matches(pat, path) <=> NameFits(pat.segs[1], Last(path))
    BY <1>1, <1>3, <2>1, Zenon DEF Matches
  <2>3. GitIgnores(pat, path, isDir) <=> NameFits(pat.segs[1], Last(path))
    BY <1>1, <2>1, Zenon DEF GitIgnores
  <2> QED BY <2>2, <2>3
<1>4. CASE Len(pat.segs) > 1
  <2>1. ~(Len(pat.segs) = 1)
    BY <1>2, <1>4, TwoOrMore, Zenon
  <2>2. Matches(pat, path) <=> PathFits(pat.segs, path)
    BY <1>1, <1>4, <2>1, Zenon DEF Matches
  <2>3. GitIgnores(pat, path, isDir) <=> PathFits(pat.segs, path)
    BY <1>1, <1>2, <1>4, Zenon DEF GitIgnores
  <2> QED BY <2>2, <2>3
<1>5. Len(pat.segs) = 1 \/ Len(pat.segs) > 1
  BY <1>2, TwoOrMore, Zenon
<1> QED BY <1>3, <1>4, <1>5

\* The files of the stores, and what is in them.
LEMMA FileKinds ==
    /\ ConfigNames \subseteq StoreFiles /\ ManifestFiles \subseteq StoreFiles
    /\ IgnoreFiles \subseteq StoreFiles /\ RegistryFile \in StoreFiles
    /\ \A f \in ConfigNames : f[2] \in {"home", "legacy", "system"}
    /\ \A f \in ManifestFiles : f[2] \in {".symdeps", ".stowdeps"}
    /\ \A f \in IgnoreFiles : f[2] \in {".symignore", ".stowignore"}
    /\ RegistryFile[2] = "symdep.registry"
<1>1. \A f \in ConfigNames : f[2] \in {"home", "legacy", "system"}
  BY DEF ConfigNames, ConfigFiles
<1>2. \A f \in ManifestFiles : f[2] \in {".symdeps", ".stowdeps"}
  BY DEF ManifestFiles
<1>3. \A f \in IgnoreFiles : f[2] \in {".symignore", ".stowignore"}
  BY DEF IgnoreFiles
<1>4. RegistryFile[2] = "symdep.registry"
  BY DEF RegistryFile
<1> QED BY <1>1, <1>2, <1>3, <1>4 DEF StoreFiles

\* The lines of a file are told by its name.
LEMMA LinesOfFiles ==
    /\ \A f \in ConfigNames : LinesOf(f) = ConfigLines
    /\ \A f \in ManifestFiles : LinesOf(f) = ManifestLines
    /\ \A f \in IgnoreFiles : LinesOf(f) = Lines
    /\ LinesOf(RegistryFile) = STRING
<1>1. /\ \A f \in ConfigNames : f \notin ManifestFiles \union IgnoreFiles \union {RegistryFile}
      /\ \A f \in ManifestFiles : f \notin IgnoreFiles \union {RegistryFile}
      /\ RegistryFile \notin IgnoreFiles
  BY FileKinds
<1>2. \A f \in ConfigNames : LinesOf(f) = ConfigLines
  BY <1>1 DEF LinesOf
<1>3. \A f \in ManifestFiles : LinesOf(f) = ManifestLines
  BY <1>1 DEF LinesOf
<1>4. \A f \in IgnoreFiles : LinesOf(f) = Lines
  BY <1>1 DEF LinesOf
<1>5. LinesOf(RegistryFile) = STRING
  BY <1>1 DEF LinesOf
<1> QED BY <1>2, <1>3, <1>4, <1>5

\* Every file holds lines of its kind.
TextsOK ==
    /\ DOMAIN disk = StoreFiles
    /\ \A f \in StoreFiles : disk[f] \in Seq(LinesOf(f)) \union {None}

\* The ignore files do.
LEMMA IgnoreTexts ==
    ASSUME TextsOK
    PROVE  \A f \in IgnoreFiles : disk[f] \in Seq(Lines) \union {None}
BY FileKinds, LinesOfFiles DEF TextsOK

\* What is written in the files of a package, or by default, is a pattern.
LEMMA WrittenType ==
    ASSUME TextsOK, NEW p \in Packages
    PROVE  Written(p) \subseteq Pats
<1>1. \A d \in {"", p} : IgnoreFile(disk, d) \in IgnoreFiles
  BY DEF IgnoreFile, IgnoreFiles
<1>2. ASSUME NEW f \in IgnoreFiles, disk[f] # None
      PROVE  {l.pat : l \in ToSet(disk[f])} \subseteq Pats
  <2>1. ToSet(disk[f]) \subseteq Lines
    BY <1>2, IgnoreTexts DEF ToSet
  <2>2. \A l \in Lines : l.pat \in Pats
    BY DEF Lines
  <2> QED BY <2>1, <2>2
<1> QED BY <1>1, <1>2, IgnoreAssumption DEF Written

\* The rules of a package are what is written for it, but for what follows a "#".
LEMMA RulesWritten ==
    ASSUME NEW p \in Packages
    PROVE  /\ \A pat \in Written(p) :
                  pat \notin DOMAIN Cut => pat = None \/ pat \in PackageRules(disk, p)
           /\ \A pat \in PackageRules(disk, p) : \E raw \in Written(p) :
                  raw = pat \/ (raw \in DOMAIN Cut /\ pat = Uncomment(raw) /\ pat # None)
<1> DEFINE files == {IgnoreFile(disk, d) : d \in {e \in {"", p} : disk[IgnoreFile(disk, e)] # None}}
<1>1. Written(p) = Resource \union UNION {{l.pat : l \in ToSet(disk[f])} : f \in files}
  BY DEF Written
<1>2. PackageRules(disk, p) = DefaultRules \union UNION {Patterns(disk[f]) : f \in files}
  <2>1. \A d \in {"", p} : IF disk[IgnoreFile(disk, d)] = None THEN RulesOf(disk, d) = {}
                                 ELSE IgnoreFile(disk, d) \in files
    BY DEF RulesOf, Patterns
  <2>2. RulesOf(disk, "") \union RulesOf(disk, p) = UNION {Patterns(disk[f]) : f \in files}
    BY <2>1 DEF RulesOf
  <2> QED BY <2>2 DEF PackageRules, GlobalRules
<1>3. \A f \in files :
          Patterns(disk[f]) = {Uncomment(x) : x \in {l.pat : l \in ToSet(disk[f])}} \ {None}
  BY DEF Patterns, ToSet
<1>4. \A pat \in Resource : pat \notin DOMAIN Cut => pat = None \/ pat \in DefaultRules
  BY DEF DefaultRules, Uncomment
<1>5. ASSUME NEW pat \in Written(p), pat \notin DOMAIN Cut, pat # None
      PROVE  pat \in PackageRules(disk, p)
  BY <1>1, <1>2, <1>3, <1>4, <1>5 DEF Uncomment
<1>6. ASSUME NEW pat \in PackageRules(disk, p)
      PROVE  \E raw \in Written(p) :
                 raw = pat \/ (raw \in DOMAIN Cut /\ pat = Uncomment(raw) /\ pat # None)
  <2>1. CASE pat \in DefaultRules
    BY <1>1, <2>1 DEF DefaultRules
  <2>2. CASE pat \notin DefaultRules
    <3>1. PICK f \in files : pat \in Patterns(disk[f])
      BY <1>2, <2>2
    <3>2. PICK raw \in {l.pat : l \in ToSet(disk[f])} : pat = Uncomment(raw) /\ pat # None
      BY <1>3, <3>1
    <3>3. raw \in Written(p)
      BY <1>1, <3>1, <3>2
    <3> QED BY <3>2, <3>3 DEF Uncomment
  <2> QED BY <2>1, <2>2
<1> QED BY <1>5, <1>6

\* A package's rules, read as those of git, tell which files are linked.
LEMMA RulesReadAsGit == TextsOK => IgnoredAsDocumented
<1> SUFFICES ASSUME TextsOK, NEW p \in Packages, NEW f \in {g.path : g \in Files[p]}
             PROVE  LET git == \E i \in 1 .. Len(f) : \E pat \in Written(p) :
                                   GitIgnores(pat, SubSeq(f, 1, i), i < Len(f))
                    IN  (f \in Collect({g.path : g \in Files[p]}, PackageRules(disk, p))) = git =>
                            \E pat \in Written(p) : \E i \in 1 .. Len(f) :
                                /\ Peculiar(pat, SubSeq(f, 1, i))
                                /\ \/ Matches(pat, SubSeq(f, 1, i))
                                   \/ GitIgnores(pat, SubSeq(f, 1, i), i < Len(f))
                                   \/ /\ Uncomment(pat) # None
                                      /\ Matches(Uncomment(pat), SubSeq(f, 1, i))
  BY DEF IgnoredAsDocumented
<1> DEFINE top(i) == SubSeq(f, 1, i)
           Git(pat, i) == GitIgnores(pat, top(i), i < Len(f))
           Rules == PackageRules(disk, p)
           linked == f \in Collect({g.path : g \in Files[p]}, Rules)
           Odd == \E pat \in Written(p) : \E i \in 1 .. Len(f) :
                      /\ Peculiar(pat, top(i))
                      /\ \/ Matches(pat, top(i)) \/ Git(pat, i)
                         \/ Uncomment(pat) # None /\ Matches(Uncomment(pat), top(i))
<1>1. linked <=> \A i \in 1 .. Len(f) : \A pat \in Rules : ~Matches(pat, top(i))
  BY DEF Collect, IsIgnored
<1>2. ASSUME linked, NEW i \in 1 .. Len(f), NEW pat \in Written(p), Git(pat, i) PROVE Odd
  <2>1. CASE pat \in DOMAIN Cut
    BY <1>2, <2>1 DEF Peculiar
  <2>2. CASE pat \notin DOMAIN Cut
    <3>1. CASE pat \in Rules
      BY <1>1, <1>2, <3>1, WrittenType, ReadAsGit
    <3>2. CASE pat \notin Rules
      BY <2>2, <3>2, RulesWritten, WrittenType, IgnoreAssumption
    <3> QED BY <3>1, <3>2
  <2> QED BY <2>1, <2>2
<1>3. ASSUME ~linked, \A i \in 1 .. Len(f) : \A pat \in Written(p) : ~Git(pat, i) PROVE Odd
  <2>1. PICK i \in 1 .. Len(f), pat \in Rules : Matches(pat, top(i))
    BY <1>1, <1>3
  <2>2. PICK raw \in Written(p) :
            raw = pat \/ (raw \in DOMAIN Cut /\ pat = Uncomment(raw) /\ pat # None)
    BY RulesWritten
  <2>3. CASE raw \in DOMAIN Cut
    BY <2>1, <2>2, <2>3 DEF Peculiar
  <2>4. CASE raw \notin DOMAIN Cut
    BY <1>3, <2>1, <2>2, <2>4, WrittenType, ReadAsGit
  <2> QED BY <2>3, <2>4
<1> QED BY <1>2, <1>3

-----------------------------------------------------------------------------
(* What commands write *)

\* A write <<kind, file, text or line>> of a request: to its own files, and of their lines.
WriteOK(r, e) ==
    \/ /\ r.op \in ConfigOps
       /\ e[1] = "write" /\ e[2] \in ConfigNames /\ e[3] \in Seq(ConfigLines)
    \/ /\ r.op \in ManifestOps /\ r.who \in Packages
       /\ e[1] = "write" /\ e[2] = <<r.who, ".symdeps">> /\ e[3] \in Seq(ManifestLines)
    \/ /\ r.op \in ManifestOps
       /\ e[1] = "append" /\ e[2] = RegistryFile /\ e[3] \in STRING
    \/ /\ r.op \in IgnoreOps /\ r.who \in Packages \union {""}
       /\ e[2] \in {<<r.who, ".symignore">>, <<r.who, ".stowignore">>}
       /\ \/ e[1] = "write" /\ e[3] \in Seq(Lines)
          \/ e[1] = "append" /\ e[3] \in Pats
          \/ e[1] = "delete" /\ e[3] = None

\* A list of writes.
Writes(r, todo) == todo \in Seq(ToSet(todo)) /\ \A i \in DOMAIN todo : WriteOK(r, todo[i])

CommandOK(k) ==
    /\ DOMAIN k = {"req", "todo", "base", "open"}
    /\ RequestOK(k.req)
    /\ k.todo # None => Writes(k.req, k.todo) /\ k.todo # <<>>
    /\ k.open => k.todo # None /\ k.todo[1][1] = "write"

CommandsOK ==
    /\ DOMAIN cmd = Terminals
    /\ \A c \in Terminals : cmd[c] # Idle => CommandOK(cmd[c])

IInv == job \in DOMAIN Jobs /\ up \subseteq Directories /\ TextsOK /\ CommandsOK

\* What a write puts into a file is of the kind of its lines.
LEMMA WriteTyped ==
    ASSUME NEW r, NEW e, WriteOK(r, e)
    PROVE  /\ e[2] \in StoreFiles
           /\ e[1] \in {"write", "append", "delete"}
           /\ e[1] = "write" => e[3] \in Seq(LinesOf(e[2]))
           /\ e[1] = "append" => \/ e[2] = RegistryFile /\ e[3] \in STRING
                                 \/ e[2] \in IgnoreFiles /\ e[2] # RegistryFile /\ e[3] \in Pats
           /\ e[1] = "delete" => e[2] \in IgnoreFiles /\ e[3] = None
<1>1. CASE r.op \in ConfigOps /\ e[1] = "write" /\ e[2] \in ConfigNames /\ e[3] \in Seq(ConfigLines)
  BY <1>1, FileKinds, LinesOfFiles
<1>2. CASE /\ r.who \in Packages
           /\ e[1] = "write" /\ e[2] = <<r.who, ".symdeps">> /\ e[3] \in Seq(ManifestLines)
  <2>1. e[2] \in ManifestFiles
    BY <1>2 DEF ManifestFiles
  <2> QED BY <1>2, <2>1, FileKinds, LinesOfFiles
<1>3. CASE e[1] = "append" /\ e[2] = RegistryFile /\ e[3] \in STRING
  BY <1>3, FileKinds
<1>4. CASE /\ r.who \in Packages \union {""}
           /\ e[2] \in {<<r.who, ".symignore">>, <<r.who, ".stowignore">>}
           /\ \/ e[1] = "write" /\ e[3] \in Seq(Lines)
              \/ e[1] = "append" /\ e[3] \in Pats
              \/ e[1] = "delete" /\ e[3] = None
  <2>1. e[2] \in IgnoreFiles
    <3>1. \A n \in {".symignore", ".stowignore"} : <<r.who, n>> \in IgnoreFiles
      BY <1>4 DEF IgnoreFiles
    <3> QED BY <1>4, <3>1
  <2> QED BY <1>4, <2>1, FileKinds, LinesOfFiles
<1> QED BY <1>1, <1>2, <1>3, <1>4 DEF WriteOK

\* A sequence is one over its own elements.
LEMMA OwnElements ==
    ASSUME NEW S, NEW s \in Seq(S)
    PROVE  s \in Seq(ToSet(s))
<1>1. \A i \in 1 .. Len(s) : s[i] \in ToSet(s)
  BY DEF ToSet
<1>2. s \in [1 .. Len(s) -> ToSet(s)]
  <2> HIDE DEF ToSet
  <2>1. s = [i \in 1 .. Len(s) |-> s[i]]
    OBVIOUS
  <2> QED BY <1>1, <2>1
<1> QED BY <1>2

\* Nothing is at no place.
LEMMA NoPlace == \A i \in DOMAIN <<>> : FALSE
OBVIOUS

\* Lists of writes of no, of one and of two lists.
LEMMA NoWrite == \A r : Writes(r, <<>>)
BY DEF Writes, ToSet

\* One write.
LEMMA OneWrite ==
    ASSUME NEW r, NEW e, WriteOK(r, e)
    PROVE  Writes(r, <<e>>)
<1>1. <<e>> \in Seq({e}) /\ ToSet(<<e>>) = {e} /\ DOMAIN <<e>> = {1} /\ <<e>>[1] = e
  BY DEF ToSet
<1> QED BY <1>1 DEF Writes

\* Two lists, one after the other.
LEMMA TwoWrites ==
    ASSUME NEW r, NEW s, NEW t, Writes(r, s), Writes(r, t)
    PROVE  Writes(r, s \o t)
<1> DEFINE S == ToSet(s) \union ToSet(t)
<1>1. s \in Seq(S) /\ t \in Seq(S)
  BY DEF Writes, ToSet
<1>2. s \o t \in Seq(S) /\ Len(s \o t) = Len(s) + Len(t) /\ DOMAIN (s \o t) = 1 .. Len(s) + Len(t)
  BY <1>1
<1>3. \A i \in DOMAIN (s \o t) :
          \/ i \in DOMAIN s /\ (s \o t)[i] = s[i]
          \/ i - Len(s) \in DOMAIN t /\ (s \o t)[i] = t[i - Len(s)]
  BY <1>1, <1>2
<1>4. \A i \in DOMAIN (s \o t) : WriteOK(r, (s \o t)[i])
  BY <1>3 DEF Writes
<1>5. s \o t \in Seq(ToSet(s \o t))
  <2> DEFINE u == s \o t
  <2>1. u \in Seq(ToSet(s) \union ToSet(t))
    BY <1>2
  <2>2. u \in Seq(ToSet(u))
    <3> HIDE DEF u
    <3> QED BY <2>1, OwnElements
  <2> QED BY <2>2
<1> QED BY <1>4, <1>5 DEF Writes

\* The rest of a list of writes.
LEMMA RestOfWrites ==
    ASSUME NEW r, NEW s, Writes(r, s), s # <<>>
    PROVE  /\ 1 \in DOMAIN s /\ Len(s) \in Nat
           /\ WriteOK(r, s[1]) /\ Writes(r, Tail(s)) /\ (Len(s) # 1 => Tail(s) # <<>>)
           /\ \A i \in DOMAIN Tail(s) : i + 1 \in DOMAIN s /\ Tail(s)[i] = s[i + 1]
<1>1. s \in Seq(ToSet(s)) /\ Len(s) \in Nat \ {0} /\ 1 \in DOMAIN s
  BY DEF Writes
<1>2. Tail(s) \in Seq(ToSet(s)) /\ Len(Tail(s)) = Len(s) - 1
      /\ DOMAIN Tail(s) = 1 .. Len(s) - 1
  BY <1>1
<1>3. \A i \in DOMAIN Tail(s) : i + 1 \in DOMAIN s /\ Tail(s)[i] = s[i + 1]
  BY <1>1, <1>2
<1>4. Tail(s) \in Seq(ToSet(Tail(s)))
  <2> DEFINE u == Tail(s)
  <2>1. u \in Seq(ToSet(s))
    BY <1>2
  <2>2. u \in Seq(ToSet(u))
    <3> HIDE DEF u
    <3> QED BY <2>1, OwnElements
  <2> QED BY <2>2
<1>5. \A i \in DOMAIN Tail(s) : WriteOK(r, Tail(s)[i])
  BY <1>3 DEF Writes
<1>6. Writes(r, Tail(s))
  BY <1>4, <1>5 DEF Writes
<1>7. WriteOK(r, s[1])
  BY <1>1 DEF Writes
<1>8. Len(s) \in Nat /\ (Len(s) # 1 => Tail(s) # <<>>)
  BY <1>1, <1>2
<1> QED BY <1>1, <1>3, <1>6, <1>7, <1>8, Zenon

\* Lines added and taken away.
LEMMA LineType ==
    ASSUME NEW pat \in Pats
    PROVE  LineOf(pat) \in Lines
BY DEF LineOf, Lines

\* A line is added behind the last one, which an editor may have left without a newline.
LEMMA AppendLineType ==
    ASSUME NEW text \in Seq(Lines), NEW pat \in Pats
    PROVE  AppendLine(text, pat) \in Seq(Lines)
<1>1. CASE text # <<>> /\ Last(text).open
  <2>1. Last(text) \in Lines /\ Front(text) \in Seq(Lines)
    BY <1>1 DEF Last, Front
  <2> DEFINE new == [Last(text) EXCEPT !.open = FALSE, !.pat = IF Last(text).note THEN @ ELSE Junk]
  <2>2. new \in Lines
    BY <2>1, IgnoreAssumption DEF Lines
  <2>3. AppendLine(text, pat) = Append(Front(text), new)
    BY <1>1 DEF AppendLine
  <2> HIDE DEF new
  <2> QED BY <2>1, <2>2, <2>3
<1>2. CASE ~(text # <<>> /\ Last(text).open)
  BY <1>2, LineType DEF AppendLine
<1> QED BY <1>1, <1>2

\* The lines that give a pattern are taken away, and no other pattern comes in.
LEMMA RemoveLinesType ==
    ASSUME NEW text \in Seq(Lines), NEW pat
    PROVE  /\ RemoveLines(text, pat) \in Seq(Lines)
           /\ Patterns(RemoveLines(text, pat)) \subseteq Patterns(text)
<1> DEFINE S == {l \in Lines : \E i \in DOMAIN text : l.pat = text[i].pat}
           rest == [i \in DOMAIN text |-> IF text[i].pat = pat /\ ~text[i].note THEN <<>>
                                          ELSE << [text[i] EXCEPT !.open = FALSE] >>]
<1>1. \A i \in DOMAIN text : [text[i] EXCEPT !.open = FALSE] \in S
  <2>1. \A l \in Lines : [l EXCEPT !.open = FALSE] \in Lines
                         /\ [l EXCEPT !.open = FALSE].pat = l.pat
    BY DEF Lines
  <2>2. \A i \in DOMAIN text : text[i] \in Lines
    OBVIOUS
  <2> HIDE DEF Lines
  <2> QED BY <2>1, <2>2
<1>2. \A i \in DOMAIN text : rest[i] \in Seq(S)
  <2> HIDE DEF S
  <2> QED BY <1>1
<1>3. rest \in [1 .. Len(text) -> Seq(S)] /\ Len(text) \in Nat
  <2> HIDE DEF rest, S
  <2>1. rest = [i \in DOMAIN text |-> rest[i]]
    BY DEF rest
  <2> QED BY <1>2, <2>1
<1>4. rest \in Seq(Seq(S))
  <2> HIDE DEF rest, S
  <2> QED BY <1>3
<1>5. RemoveLines(text, pat) = FlattenSeq(rest)
  BY DEF RemoveLines
<1> DEFINE new == RemoveLines(text, pat)
<1>6. new \in Seq(S)
  <2> HIDE DEF rest, S
  <2> QED BY <1>4, <1>5, FlattenType
<1>7. new \in Seq(Lines)
  <2> HIDE DEF new, Lines
  <2> QED BY <1>6
<1>8. \A i \in DOMAIN new : \E j \in DOMAIN text : new[i].pat = text[j].pat
  <2>1. \A i \in DOMAIN new : new[i] \in S
    <3> HIDE DEF new, S
    <3> QED BY <1>6
  <2> HIDE DEF new, rest
  <2> QED BY <2>1
<1>9. text # None
  BY IgnoreAssumption
<1>10. Patterns(new) \subseteq Patterns(text)
  <2> HIDE DEF new, rest, S, Lines
  <2> QED BY <1>8, <1>9 DEF Patterns
<1> QED BY <1>7, <1>10

-----------------------------------------------------------------------------
(* What commands plan *)

\* The configuration file is one of three.
LEMMA ConfigFileNamed ==
    ASSUME NEW d
    PROVE  ConfigFile(d) \in ConfigNames
<1> DEFINE there == {i \in DOMAIN ConfigFiles : d[ConfigFiles[i]] # None}
<1>1. DOMAIN ConfigFiles = 1 .. 3
  BY DEF ConfigFiles
<1>2. there # {} => Min(there) \in there
  <2>1. there \subseteq Nat
    BY <1>1
  <2> HIDE DEF there
  <2> QED BY <2>1, MinOf
<1>3. \E i \in 1 .. 3 : ConfigFile(d) = ConfigFiles[i]
  BY <1>1, <1>2 DEF ConfigFile
<1> QED BY <1>1, <1>3 DEF ConfigNames

\* A plan that writes only what its request may write.
PlanOK(r, plan) == plan.todo = <<>> \/ Writes(r, plan.todo)

\* A plan is made of the writes that are given, or of none.
LEMMA PlanOrAnswerOK ==
    ASSUME NEW r, NEW todo, Writes(r, todo), NEW answer
    PROVE  PlanOK(r, Plan(todo)) /\ PlanOK(r, Said(answer))
BY DEF PlanOK, Plan, Said

\* The configuration in force is one, and its file holds it.
LEMMA TheConfigType ==
    ASSUME TextsOK
    PROVE  /\ disk[ConfigFile(disk)] \in Seq(ConfigLines) \union {None}
           /\ ConfigOK(TheConfig)
<1>1. disk[ConfigFile(disk)] \in Seq(ConfigLines) \union {None}
  BY ConfigFileNamed, FileKinds, LinesOfFiles DEF TextsOK
<1> QED BY <1>1, LoadConfigType DEF TheConfig

\* The configuration an edit saves.
Edited(r) == ConfigEdit(r, TheConfig, IF r.path = None THEN None ELSE Prepare(r.path))

\* An edit of the configuration is one write, or none.
LEMMA ConfigPlanShape ==
    ASSUME NEW r
    PROVE  \/ \E answer : ConfigPlan(r) = Said(answer)
           \/ ConfigPlan(r) = Plan(<< <<"write", ConfigFile(disk), ConfigText(Edited(r))>> >>)
BY Zenon DEF ConfigPlan, Edited

\* The edits of the configuration.
LEMMA ConfigPlanOK ==
    ASSUME TextsOK, NEW r, RequestOK(r), r.op \in ConfigOps
    PROVE  PlanOK(r, ConfigPlan(r))
<1> DEFINE e == <<"write", ConfigFile(disk), ConfigText(Edited(r))>>
<1>1. ConfigOK(Edited(r))
  BY TheConfigType, ConfigEditType DEF Edited
<1>2. WriteOK(r, e)
  BY <1>1, ConfigTextParts, ConfigFileNamed DEF WriteOK
<1>3. Writes(r, <<e>>)
  <2> HIDE DEF e
  <2> QED BY <1>2, OneWrite
<1>4. (\E answer : ConfigPlan(r) = Said(answer)) \/ ConfigPlan(r) = Plan(<<e>>)
  BY ConfigPlanShape
<1> HIDE DEF e
<1> QED BY <1>3, <1>4, PlanOrAnswerOK

\* The manifest that is read.
LEMMA LoadManifestType ==
    ASSUME TextsOK, NEW p \in Packages
    PROVE  ManifestOK(LoadManifest(disk, p))
<1>1. ManifestFile(disk, p) \in ManifestFiles
  BY DEF ManifestFile, ManifestFiles
<1>2. disk[ManifestFile(disk, p)] \in Seq(ManifestLines) \union {None}
  BY <1>1, FileKinds, LinesOfFiles DEF TextsOK
<1>3. ManifestOK(EmptyManifest)
  BY DEF ManifestOK, EmptyManifest
<1> QED BY <1>2, <1>3, ParseType DEF LoadManifest, HasManifest

\* Saving a manifest.
LEMMA SavesOK ==
    ASSUME NEW r, r.op \in ManifestOps, r.who \in Packages, NEW m, ManifestOK(m)
    PROVE  Writes(r, SaveManifest(r.who, m))
<1> DEFINE e == <<"write", <<r.who, ".symdeps">>, ManifestText(m)>>
<1>1. WriteOK(r, e)
  BY ManifestTextFacts DEF WriteOK
<1> HIDE DEF e
<1>2. Writes(r, <<e>>)
  BY <1>1, OneWrite
<1> QED BY <1>2 DEF SaveManifest, e

\* An edit of a manifest saves one, and only two of the edits change its target.
LEMMA ManifestPlanShape ==
    ASSUME TextsOK, NEW r, RequestOK(r), r.op \in ManifestOps \ {"scan -i", "scan -y"}
    PROVE  \E m : /\ ManifestOK(m) /\ ManifestPlan(r) = Plan(SaveManifest(r.who, m))
                  /\ r.op = "create" => m.target = None
                  /\ r.op \notin {"create", "deps target"} =>
                         m.target = LoadManifest(disk, r.who).target
<1> DEFINE m == LoadManifest(disk, r.who)
<1>1. ManifestOK(m)
  BY LoadManifestType DEF RequestOK, ManifestOps
<1>2. /\ r.op = "deps target" => r.arg \in Dirs \union {None}
      /\ r.op \in {"deps add", "deps edit", "deps remove"} => r.arg \in STRING
  BY DEF RequestOK
<1> HIDE DEF m
<1>3. \A kind : DepType(kind) \in {"required", "optional", "conflicts"}
  BY DEF DepType
<1>4. \A k : ManifestOK(k) /\ r.arg \in STRING =>
          /\ ManifestOK(RemoveDep(k, r.arg)) /\ RemoveDep(k, r.arg).target = k.target
          /\ ManifestOK(AddDep(k, r.arg, r.kind)) /\ AddDep(k, r.arg, r.kind).target = k.target
  BY <1>3 DEF ManifestOK, RemoveDep, AddDep
<1>5. CASE r.op = "create"
  <2>1. ManifestPlan(r) = Plan(SaveManifest(r.who, EmptyManifest))
    BY <1>5 DEF ManifestPlan
  <2>2. ManifestOK(EmptyManifest) /\ EmptyManifest.target = None
    BY DEF ManifestOK, EmptyManifest
  <2> QED BY <1>5, <2>1, <2>2
<1>6. CASE r.op = "deps target"
  <2>1. ManifestPlan(r) = Plan(SaveManifest(r.who, SetTargetPath(m, r.arg)))
    BY <1>6 DEF ManifestPlan, m
  <2>2. ManifestOK(SetTargetPath(m, r.arg))
    BY <1>1, <1>2, <1>6 DEF ManifestOK, SetTargetPath
  <2> QED BY <1>6, <2>1, <2>2
<1>7. CASE r.op = "deps add"
  <2>1. ManifestPlan(r) = Plan(SaveManifest(r.who, AddDep(m, r.arg, r.kind)))
    BY <1>7 DEF ManifestPlan, m
  <2> QED BY <1>1, <1>2, <1>4, <1>7, <2>1 DEF m
<1>8. CASE r.op = "deps edit"
  <2>1. ManifestPlan(r) = Plan(SaveManifest(r.who, AddDep(RemoveDep(m, r.arg), r.arg, r.kind)))
    BY <1>8 DEF ManifestPlan, EditDep, m
  <2> QED BY <1>1, <1>2, <1>4, <1>8, <2>1 DEF m
<1>9. CASE r.op = "deps remove"
  <2>1. ManifestPlan(r) = Plan(SaveManifest(r.who, RemoveDep(m, r.arg)))
    BY <1>9 DEF ManifestPlan, m
  <2> QED BY <1>1, <1>2, <1>4, <1>9, <2>1 DEF m
<1> QED BY <1>5, <1>6, <1>7, <1>8, <1>9 DEF ManifestOps

\* The edits of a manifest.
LEMMA ManifestPlanOK ==
    ASSUME TextsOK, NEW r, RequestOK(r), r.op \in ManifestOps \ {"scan -i", "scan -y"}
    PROVE  PlanOK(r, ManifestPlan(r))
<1>1. PICK m : ManifestOK(m) /\ ManifestPlan(r) = Plan(SaveManifest(r.who, m))
  BY ManifestPlanShape
<1>2. r.op \in ManifestOps /\ r.who \in Packages
  BY DEF RequestOK
<1> QED BY <1>1, <1>2, SavesOK, PlanOrAnswerOK

\* What is found in a file of a package are words.
LEMMA WordsFound ==
    ASSUME NEW f \in SourceFiles
    PROVE  /\ Interpreter(f.lines) \subseteq STRING
           /\ UNION {LineTokens(l) : l \in ToSet(f.lines)} \subseteq STRING
<1> DEFINE L == [comment : BOOLEAN, words : Seq(STRING)]
           lines == f.lines
<1>1. lines \in Seq(L)
  BY DEF SourceFiles
<1> HIDE DEF lines
<1>2. \A l \in L : l.words \in Seq(STRING)
  OBVIOUS
<1>3. \A words \in Seq(STRING) : ToSet(words) \subseteq STRING
  BY DEF ToSet
<1>4. ToSet(lines) \subseteq L
  <2> HIDE DEF L
  <2> QED BY <1>1 DEF ToSet
<1> HIDE DEF L
<1>5. UNION {LineTokens(l) : l \in ToSet(lines)} \subseteq STRING
  BY <1>2, <1>3, <1>4 DEF LineTokens
<1>6. Interpreter(lines) \subseteq STRING
  <2> DEFINE words == lines[1].words
             places == {i \in 2 .. Len(words) : words[i] \notin {"-S", "env", "exec"}}
  <2>1. SUFFICES ASSUME lines # <<>>, places # {} PROVE words[Min(places)] \in STRING
    BY DEF Interpreter
  <2>2. words \in Seq(STRING)
    BY <1>1, <1>2, <2>1
  <2> HIDE DEF words
  <2>3. Min(places) \in places
    <3>1. places \subseteq Nat
      OBVIOUS
    <3> HIDE DEF places
    <3> QED BY <2>1, <3>1, MinOf
  <2>4. Min(places) \in 1 .. Len(words)
    <3>1. places \subseteq 1 .. Len(words)
      BY <2>2
    <3> HIDE DEF places
    <3> QED BY <2>3, <3>1
  <2> HIDE DEF places
  <2> QED BY <2>2, <2>4
<1> QED BY <1>5, <1>6 DEF lines

\* What is picked in a scan: new tools in some order, all of them by `scan -y`.
Picked(r, picked) ==
    /\ picked \in Seq(ToSet(picked)) /\ ToSet(picked) \subseteq NewInvocations(r.who)
    /\ r.op = "scan -y" => ToSet(picked) = NewInvocations(r.who)

\* There are finitely many new ones.
LEMMA NewAreFinite ==
    ASSUME TextsOK, NEW p
    PROVE  IsFiniteSet(NewInvocations(p))
<1>1. NewInvocations(p) \subseteq Packages \union Tools
  BY DEF NewInvocations, Invocations, Candidates, AllPackages
<1>2. IsFiniteSet(Tools)
  <2>1. CASE disk[RegistryFile] = None
    BY <2>1, StoresAssumption DEF Tools, ToolsOf
  <2>2. CASE disk[RegistryFile] # None
    <3> DEFINE text == disk[RegistryFile]
    <3>1. text \in Seq(STRING)
      BY <2>2, FileKinds, LinesOfFiles DEF TextsOK
    <3> HIDE DEF text
    <3>2. text \in Surjection(1 .. Len(text), ToSet(text)) /\ IsFiniteSet(1 .. Len(text))
      <4>1. text \in [1 .. Len(text) -> ToSet(text)]
        BY <3>1, OwnElements
      <4>2. \A x \in ToSet(text) : \E i \in 1 .. Len(text) : text[i] = x
        BY <3>1 DEF ToSet
      <4>3. Len(text) \in Nat
        BY <3>1
      <4> QED BY <4>1, <4>2, <4>3, FS_Interval DEF Surjection
    <3>3. IsFiniteSet(ToSet(text))
      BY <3>2, FS_Surjection
    <3> QED BY <2>2, <3>3 DEF Tools, ToolsOf, text
  <2> QED BY <2>1, <2>2
<1>3. IsFiniteSet(Packages \union Tools)
  BY <1>2, StoresAssumption, FS_Union
<1> QED BY <1>1, <1>3, FS_Subset

\* Some elements of a finite set, in some order.
LEMMA InSomeOrder ==
    ASSUME NEW S, IsFiniteSet(S), NEW chosen \in SUBSET S, NEW picked \in SetToSeqs(chosen)
    PROVE  picked \in Seq(ToSet(picked)) /\ ToSet(picked) \subseteq S
<1>1. picked \in [1 .. Cardinality(chosen) -> chosen] /\ Cardinality(chosen) \in Nat
  BY FS_Subset, FS_CardinalityType DEF SetToSeqs
<1>2. picked \in Seq(chosen)
  BY <1>1
<1> QED BY <1>2, OwnElements DEF ToSet

\* A plan of a scan follows from what is picked.
ScanPlanned(r, plan) == \E picked : Picked(r, picked) /\ plan = ScanPlan(r, picked)

\* They all do.
LEMMA PlansPick ==
    ASSUME NEW r, NEW plan, TextsOK, Runs, r.op \in {"scan -i", "scan -y"}, plan \in Plans(r)
    PROVE  ScanPlanned(r, plan)
<1> USE DEF ConfigOps, ManifestOps, IgnoreOps
<1>1. IsFiniteSet(NewInvocations(r.who))
  BY NewAreFinite
<1>2. CASE r.op = "scan -i"
  <2>1. Plans(r) = {ScanPlan(r, picked) : picked \in Selections(r.who)}
    BY <1>2 DEF Plans
  <2>2. PICK picked \in Selections(r.who) : plan = ScanPlan(r, picked)
    BY <2>1
  <2>3. PICK chosen \in SUBSET NewInvocations(r.who) : picked \in SetToSeqs(chosen)
    BY <2>2 DEF Selections
  <2>4. Picked(r, picked)
    BY <1>1, <1>2, <2>3, InSomeOrder, Zenon DEF Picked
  <2> QED BY <2>4, <2>2, Zenon DEF ScanPlanned
<1>3. CASE r.op = "scan -y"
  <2> DEFINE picked == SetToSeq(NewInvocations(r.who))
  <2>1. Plans(r) = {ScanPlan(r, picked)}
    BY <1>3 DEF Plans
  <2>2. picked \in Seq(NewInvocations(r.who)) /\ ToSet(picked) = NewInvocations(r.who)
    BY <1>1, SetToSeqType, Zenon
  <2> HIDE DEF picked
  <2>3. picked \in Seq(ToSet(picked)) /\ ToSet(picked) \subseteq NewInvocations(r.who)
    BY <2>2, Zenon
  <2>4. Picked(r, picked)
    BY <2>2, <2>3, Zenon DEF Picked
  <2> QED BY <2>1, <2>4, Zenon DEF ScanPlanned
<1> QED BY <1>2, <1>3

\* The tools to register, one by one.
LEMMA RegistersOK ==
    ASSUME NEW r, r.op \in ManifestOps, NEW picked, picked \in Seq(ToSet(picked)),
           ToSet(picked) \subseteq STRING,
           NEW todo, todo = [i \in DOMAIN picked |-> <<"append", RegistryFile, picked[i]>>]
    PROVE  Writes(r, todo) /\ \A i \in DOMAIN todo : todo[i][2] = RegistryFile
<1>1. \A i \in DOMAIN picked : picked[i] \in STRING
  BY DEF ToSet
<1>2. DOMAIN todo = DOMAIN picked /\ DOMAIN picked = 1 .. Len(picked) /\ Len(picked) \in Nat
  OBVIOUS
<1>3. \A i \in DOMAIN todo : todo[i] = <<"append", RegistryFile, picked[i]>>
  OBVIOUS
<1>4. \A i \in DOMAIN todo : WriteOK(r, todo[i]) /\ todo[i][2] = RegistryFile
  BY <1>1, <1>2, <1>3 DEF WriteOK
<1>5. todo \in Seq(ToSet(todo))
  <2> DEFINE S == ToSet(todo)
  <2>1. \A i \in DOMAIN todo : todo[i] \in S
    BY DEF ToSet
  <2>2. todo \in [1 .. Len(picked) -> S]
    BY <1>2, <2>1
  <2> HIDE DEF S
  <2>3. todo \in Seq(S)
    BY <1>2, <2>2
  <2> QED BY <2>3 DEF S
<1> QED BY <1>4, <1>5 DEF Writes

\* What a scan adds to the registry and to the manifest.
LEMMA ScanPlanWrites ==
    ASSUME TextsOK, NEW r, RequestOK(r), r.op \in {"scan -i", "scan -y"},
           NEW picked, Picked(r, picked)
    PROVE  LET old == LoadManifest(disk, r.who)
               shebangs == Shebangs(Scanned(r.who), r.who)
               new == ScanInto(old, shebangs, ToSet(picked))
           IN  /\ ManifestOK(old) /\ ManifestOK(new) /\ new.target = old.target
               /\ shebangs \subseteq STRING /\ ToSet(picked) \subseteq STRING
               /\ \/ ScanPlan(r, picked) = Said("nothing") /\ new = old
                  \/ \E first : /\ Writes(r, first)
                                /\ \A i \in DOMAIN first : first[i][2] = RegistryFile
                                /\ ScanPlan(r, picked) = Plan(first \o SaveManifest(r.who, new))
<1> DEFINE chosen == ToSet(picked)
           register == [i \in DOMAIN picked |-> <<"append", RegistryFile, picked[i]>>]
           old == LoadManifest(disk, r.who)
           shebangs == Shebangs(Scanned(r.who), r.who)
           new == ScanInto(old, shebangs, chosen)
<1>0. r.op \in ManifestOps /\ r.who \in Packages
  BY DEF RequestOK, ManifestOps
<1>1. \A f \in Scanned(r.who) : f \in SourceFiles
  BY <1>0, StoresAssumption DEF Scanned
<1>2. shebangs \subseteq STRING
  <2> DEFINE inFiles == UNION {Interpreter(f.lines) : f \in {g \in Scanned(r.who) : g.plain}}
             itself == {r.who} \intersect OnPath
  <2>1. inFiles \subseteq STRING
    BY <1>1, WordsFound
  <2>2. itself \subseteq STRING
    BY ManifestAssumption
  <2>3. shebangs = inFiles \union itself
    BY DEF Shebangs
  <2> HIDE DEF inFiles, itself, shebangs
  <2> QED BY <2>1, <2>2, <2>3
<1>3. chosen \subseteq STRING
  <2> DEFINE words(f) == UNION {LineTokens(l) : l \in ToSet(f.lines)}
             inFiles == UNION {words(f) : f \in {g \in Scanned(r.who) : g.plain}}
  <2>1. \A f \in Scanned(r.who) : words(f) \subseteq STRING
    BY <1>1, WordsFound
  <2>2. NewInvocations(r.who) \subseteq inFiles
    BY DEF NewInvocations, Invocations
  <2>4. chosen \subseteq NewInvocations(r.who)
    BY DEF Picked
  <2> HIDE DEF words
  <2>3. inFiles \subseteq STRING
    BY <2>1
  <2> HIDE DEF inFiles, chosen
  <2> QED BY <2>2, <2>3, <2>4
<1>7. Writes(r, register) /\ \A i \in DOMAIN register : register[i][2] = RegistryFile
  <2>1. picked \in Seq(ToSet(picked)) /\ ToSet(picked) \subseteq STRING
    BY <1>3, Zenon DEF Picked, chosen
  <2> QED BY <1>0, <2>1, RegistersOK, Zenon
<1>8. ManifestOK(old) /\ ManifestOK(new) /\ new.target = old.target
  <2>1. ManifestOK(old)
    BY <1>0, LoadManifestType
  <2> HIDE DEF old, shebangs, chosen
  <2> QED BY <1>2, <1>3, <2>1 DEF ManifestOK, ScanInto
<1> HIDE DEF register
<1>9. \/ ScanPlan(r, picked) = Said("nothing") /\ new = old
      \/ \E first \in {register, <<>>} :
            ScanPlan(r, picked) = Plan(first \o SaveManifest(r.who, new))
  BY DEF ScanPlan, register
<1>10. Writes(r, <<>>) /\ \A i \in DOMAIN <<>> : <<>>[i][2] = RegistryFile
  BY NoPlace, NoWrite
<1> HIDE DEF new, old, shebangs, chosen
<1>11. \/ ScanPlan(r, picked) = Said("nothing") /\ new = old
       \/ \E first : /\ Writes(r, first)
                     /\ \A i \in DOMAIN first : first[i][2] = RegistryFile
                     /\ ScanPlan(r, picked) = Plan(first \o SaveManifest(r.who, new))
  BY <1>7, <1>9, <1>10
<1> QED BY <1>2, <1>3, <1>8, <1>11, Zenon DEF new, old, shebangs, chosen

\* In short.
LEMMA ScanPlanShape ==
    ASSUME TextsOK, NEW r, RequestOK(r), r.op \in {"scan -i", "scan -y"},
           NEW picked, Picked(r, picked)
    PROVE  \/ ScanPlan(r, picked) = Said("nothing")
           \/ \E first, m : /\ Writes(r, first)
                            /\ \A i \in DOMAIN first : first[i][2] = RegistryFile
                            /\ ManifestOK(m) /\ m.target = LoadManifest(disk, r.who).target
                            /\ ScanPlan(r, picked) = Plan(first \o SaveManifest(r.who, m))
BY ScanPlanWrites, Zenon

\* A scan.
LEMMA ScanPlanOK ==
    ASSUME TextsOK, NEW r, RequestOK(r), r.op \in {"scan -i", "scan -y"},
           NEW picked, Picked(r, picked)
    PROVE  PlanOK(r, ScanPlan(r, picked))
<1>1. CASE ScanPlan(r, picked) = Said("nothing")
  BY <1>1, NoWrite, PlanOrAnswerOK
<1>2. ASSUME NEW first, NEW m, Writes(r, first), ManifestOK(m),
             ScanPlan(r, picked) = Plan(first \o SaveManifest(r.who, m))
      PROVE  PlanOK(r, ScanPlan(r, picked))
  <2>1. r.op \in ManifestOps /\ r.who \in Packages
    BY DEF RequestOK, ManifestOps
  <2> QED BY <1>2, <2>1, SavesOK, TwoWrites, PlanOrAnswerOK
<1> QED BY <1>1, <1>2, ScanPlanShape

\* The edits of an ignore file; taking lines away, and the file.
LEMMA IgnorePlanShape ==
    ASSUME TextsOK, NEW r, RequestOK(r), r.op \in IgnoreOps
    PROVE  LET file == IgnoreFile(disk, r.who)
               text == disk[file]
           IN  /\ PlanOK(r, IgnorePlan(r))
               /\ r.op = "ignore remove" /\ IgnorePlan(r).todo # <<>> =>
                     /\ text # None
                     /\ IgnorePlan(r).todo = << <<"write", file, RemoveLines(text, r.arg)>> >>
               /\ r.op = "ignore clear" /\ IgnorePlan(r).todo # <<>> =>
                     text # None /\ IgnorePlan(r).todo = << <<"delete", file, None>> >>
<1> DEFINE file == IgnoreFile(disk, r.who)
           text == disk[file]
           init == IF text = None THEN << <<"write", file, TemplateText>> >> ELSE <<>>
           add  == IF AddedAlready(disk, r.who, IF text = None THEN TemplateText ELSE text, r.arg)
                   THEN <<>> ELSE << <<"append", file, r.arg>> >>
           gone == << <<"write", file, RemoveLines(text, r.arg)>> >>
           none == << <<"delete", file, None>> >>
<1>1. /\ r.who \in Packages \union {""} /\ text \in Seq(Lines) \union {None}
      /\ file \in {<<r.who, ".symignore">>, <<r.who, ".stowignore">>}
  <2>1. r.who \in Packages \union {""}
    BY DEF RequestOK
  <2>2. file \in {<<r.who, ".symignore">>, <<r.who, ".stowignore">>}
    BY DEF IgnoreFile
  <2>3. file \in IgnoreFiles
    BY <2>1 DEF IgnoreFile, IgnoreFiles
  <2> QED BY <2>1, <2>2, <2>3, IgnoreTexts
<1>2. Writes(r, init)
  <2>1. TemplateText \in Seq(Lines)
    <3>1. \A i \in DOMAIN Template : LineOf(Template[i]) \in Lines
      BY IgnoreAssumption, LineType
    <3> QED BY <3>1, IgnoreAssumption DEF TemplateText
  <2>2. WriteOK(r, <<"write", file, TemplateText>>)
    <3> HIDE DEF file
    <3> QED BY <1>1, <2>1 DEF WriteOK
  <2> HIDE DEF file
  <2> QED BY <2>2, OneWrite, NoWrite
<1>3. r.op \in {"ignore add", "ignore remove"} => r.arg \in Pats
  BY DEF RequestOK
<1>4. r.op = "ignore add" => Writes(r, add)
  <2>1. r.arg \in Pats => WriteOK(r, <<"append", file, r.arg>>)
    <3> HIDE DEF file
    <3> QED BY <1>1 DEF WriteOK
  <2> QED BY <1>3, <2>1, OneWrite, NoWrite
<1>5. text # None => Writes(r, gone)
  <2>1. text # None => WriteOK(r, <<"write", file, RemoveLines(text, r.arg)>>)
    <3> HIDE DEF file
    <3> QED BY <1>1, RemoveLinesType DEF WriteOK
  <2> QED BY <2>1, OneWrite
<1>6. Writes(r, none)
  <2>1. WriteOK(r, <<"delete", file, None>>)
    <3> HIDE DEF file
    <3> QED BY <1>1 DEF WriteOK
  <2> QED BY <2>1, OneWrite
<1>7. r.op = "ignore add" => Writes(r, init \o add)
  <2> HIDE DEF init, add
  <2> QED BY <1>2, <1>4, TwoWrites
<1> DEFINE todo == CASE r.op = "ignore init"   -> init
                     [] r.op = "ignore add"    -> init \o add
                     [] r.op = "ignore remove" ->
                            IF text # None /\ HasLine(text, r.arg) THEN gone ELSE <<>>
                     [] r.op = "ignore clear"  -> IF text # None THEN none ELSE <<>>
<1>8. IgnorePlan(r) = IF todo = <<>> THEN Said("nothing") ELSE Plan(todo)
  BY DEF IgnorePlan
<1> HIDE DEF init, add, text, file
<1>9. todo = <<>> \/ Writes(r, todo)
  BY <1>2, <1>5, <1>6, <1>7 DEF IgnoreOps
<1>10. r.op = "ignore remove" /\ todo # <<>> => text # None /\ todo = gone
  OBVIOUS
<1>11. r.op = "ignore clear" /\ todo # <<>> => text # None /\ todo = none
  OBVIOUS
<1> HIDE DEF todo
<1>12. IgnorePlan(r).todo = todo
  BY <1>8 DEF Said, Plan
<1> HIDE DEF gone, none
<1>13. PlanOK(r, IgnorePlan(r))
  BY <1>9, <1>12 DEF PlanOK
<1> QED BY <1>10, <1>11, <1>12, <1>13 DEF gone, none, text, file

\* A scan, whatever is picked.
LEMMA ScanPlansOK ==
    ASSUME NEW r, NEW plan, TextsOK, RequestOK(r), r.op \in {"scan -i", "scan -y"}, Runs,
           plan \in Plans(r)
    PROVE  PlanOK(r, plan)
<1>1. ScanPlanned(r, plan)
  BY PlansPick, Zenon
<1>2. PICK picked : Picked(r, picked) /\ plan = ScanPlan(r, picked)
  BY <1>1, Zenon DEF ScanPlanned
<1> QED BY <1>2, ScanPlanOK, Zenon

\* Whatever is asked, what is planned are writes to the files of the request.
LEMMA PlansOK ==
    ASSUME TextsOK, NEW r, RequestOK(r), r.op \notin LinkOps, NEW plan \in Plans(r)
    PROVE  PlanOK(r, plan)
<1> USE DEF ConfigOps, ManifestOps, IgnoreOps, LinkOps
<1>1. CASE r.op \in ConfigOps
  <2>1. Plans(r) = {ConfigPlan(r)}
    BY <1>1 DEF Plans
  <2> QED BY <1>1, <2>1, ConfigPlanOK
<1>2. CASE r.op \notin ConfigOps /\ ~Runs
  <2>1. Plans(r) = {Said("failed")}
    BY <1>2 DEF Plans
  <2> QED BY <2>1 DEF PlanOK, Said
<1>3. CASE r.op \in {"scan -i", "scan -y"} /\ Runs
  BY <1>3, ScanPlansOK, Zenon
<1>5. CASE r.op \in ManifestOps \ {"scan -i", "scan -y"} /\ Runs
  <2>1. Plans(r) = {ManifestPlan(r)}
    BY <1>5 DEF Plans
  <2> QED BY <1>5, <2>1, ManifestPlanOK
<1>6. CASE r.op \in IgnoreOps /\ Runs
  <2>1. Plans(r) = {IgnorePlan(r)}
    BY <1>6 DEF Plans
  <2> QED BY <1>6, <2>1, IgnorePlanShape
<1> QED BY <1>1, <1>2, <1>3, <1>5, <1>6 DEF RequestOK

-----------------------------------------------------------------------------
(* The steps *)

\* The command of a terminal changes, those of the others do not.
LEMMA NewCommand ==
    ASSUME CommandsOK, NEW c \in Terminals, NEW k, cmd' = [cmd EXCEPT ![c] = k],
           k = Idle \/ CommandOK(k)
    PROVE  CommandsOK'
BY DEF CommandsOK

\* A command that has ended ...
LEMMA Ends ==
    ASSUME CommandsOK, NEW c \in Terminals, NEW answer, End(c, answer)
    PROVE  CommandsOK'
BY NewCommand DEF End

\* ... or goes on with its next write.
LEMMA Finishes ==
    ASSUME CommandsOK, NEW c \in Terminals, Working(c), Finish(c)
    PROVE  CommandsOK'
<1>1. /\ CommandOK(cmd[c]) /\ Writes(cmd[c].req, cmd[c].todo)
      /\ cmd[c].todo # <<>> /\ cmd[c].todo # None
  BY DEF CommandsOK, CommandOK, Working
<1>2. CASE Len(cmd[c].todo) = 1
  BY <1>2, Ends DEF Finish
<1>3. CASE Len(cmd[c].todo) # 1
  <2> DEFINE k == [cmd[c] EXCEPT !.todo = Tail(@), !.open = FALSE]
  <2>1. cmd' = [cmd EXCEPT ![c] = k]
    BY <1>3 DEF Finish
  <2>2. /\ DOMAIN k = {"req", "todo", "base", "open"} /\ k.req = cmd[c].req
        /\ k.todo = Tail(cmd[c].todo) /\ k.open = FALSE
    BY <1>1 DEF CommandOK
  <2>3. CommandOK(k)
    <3> HIDE DEF k
    <3> QED BY <1>1, <1>3, <2>2, RestOfWrites DEF CommandOK
  <2> HIDE DEF k
  <2> QED BY <2>1, <2>3, NewCommand
<1> QED BY <1>2, <1>3

\* A file gets a new text.
LEMMA NewText ==
    ASSUME TextsOK, NEW f, NEW text, disk' = [disk EXCEPT ![f] = text],
           f \in StoreFiles => text \in Seq(LinesOf(f)) \union {None}
    PROVE  TextsOK'
BY DEF TextsOK

\* The write at hand is one its request may plan.
LEMMA AtHand ==
    ASSUME CommandsOK, NEW c \in Terminals, Working(c)
    PROVE  /\ CommandOK(cmd[c]) /\ WriteOK(cmd[c].req, cmd[c].todo[1])
           /\ cmd[c].todo # None /\ cmd[c].todo # <<>> /\ 1 \in DOMAIN cmd[c].todo
           /\ File(c) \in StoreFiles
           /\ Kind(c) = "write" => Text(c) \in Seq(LinesOf(File(c)))
           /\ Kind(c) = "append" =>
                 \/ File(c) = RegistryFile /\ Text(c) \in STRING
                 \/ File(c) \in IgnoreFiles /\ File(c) # RegistryFile /\ Text(c) \in Pats
           /\ Kind(c) = "delete" => File(c) \in IgnoreFiles
<1>1. CommandOK(cmd[c]) /\ Writes(cmd[c].req, cmd[c].todo)
      /\ cmd[c].todo # <<>> /\ cmd[c].todo # None
  BY DEF CommandsOK, CommandOK, Working
<1>2. WriteOK(cmd[c].req, cmd[c].todo[1]) /\ 1 \in DOMAIN cmd[c].todo
  BY <1>1, RestOfWrites
<1> DEFINE e == cmd[c].todo[1]
<1>3. /\ e[2] \in StoreFiles
      /\ e[1] = "write" => e[3] \in Seq(LinesOf(e[2]))
      /\ e[1] = "append" => \/ e[2] = RegistryFile /\ e[3] \in STRING
                            \/ e[2] \in IgnoreFiles /\ e[2] # RegistryFile /\ e[3] \in Pats
      /\ e[1] = "delete" => e[2] \in IgnoreFiles
  BY <1>2, WriteTyped
<1> QED BY <1>1, <1>2, <1>3, Zenon DEF File, Kind, Text

\* Induction: one lemma per action.
LEMMA InitTyped == Init => IInv
BY StoresAssumption DEF Init, IInv, TextsOK, CommandsOK

\* A request is one of the job.
LEMMA AskTyped ==
    ASSUME IInv, NEW c \in Terminals, Ask(c)
    PROVE  IInv'
<1>1. PICK r \in Jobs[job].requests : cmd' = [cmd EXCEPT ![c] = Command(r)]
  BY DEF Ask
<1>2. RequestOK(r)
  BY StoresAssumption DEF IInv
<1>3. CommandOK(Command(r))
  <2>1. /\ DOMAIN Command(r) = {"req", "todo", "base", "open"} /\ Command(r).req = r
        /\ Command(r).todo = None /\ Command(r).open = FALSE
    BY DEF Command
  <2> QED BY <1>2, <2>1 DEF CommandOK
<1>4. CommandsOK'
  BY <1>1, <1>3, NewCommand DEF IInv
<1> QED BY <1>4 DEF IInv, TextsOK, Ask

\* A plan follows from the files as they are now.
LEMMA LoadTyped ==
    ASSUME IInv, NEW c \in Terminals, Load(c)
    PROVE  IInv'
<1> DEFINE r == cmd[c].req
<1>1. CommandOK(cmd[c]) /\ r.op \notin LinkOps
  BY DEF IInv, CommandsOK, Load, Starting
<1>2. PICK plan \in Plans(r) :
          IF plan.todo = <<>> THEN End(c, plan.answer)
          ELSE cmd' = [cmd EXCEPT
                           ![c].todo = plan.todo,
                           ![c].base = [f \in {plan.todo[i][2] : i \in DOMAIN plan.todo} |->
                                            disk[f]]]
  BY DEF Load
<1>3. PlanOK(r, plan)
  BY <1>1, <1>2, PlansOK DEF IInv, CommandOK
<1>4. CASE plan.todo = <<>>
  BY <1>2, <1>4, Ends DEF IInv, TextsOK, Load
<1>5. CASE plan.todo # <<>>
  <2> DEFINE base == [f \in {plan.todo[i][2] : i \in DOMAIN plan.todo} |-> disk[f]]
             k == [cmd[c] EXCEPT !.todo = plan.todo, !.base = base]
  <2>1. cmd' = [cmd EXCEPT ![c] = k]
    <3> HIDE DEF base
    <3>1. cmd' = [cmd EXCEPT ![c].todo = plan.todo, ![c].base = base]
      BY <1>2, <1>5 DEF base
    <3> QED BY <3>1 DEF IInv, CommandsOK
  <2> HIDE DEF base
  <2>2. /\ DOMAIN k = {"req", "todo", "base", "open"} /\ k.req = cmd[c].req
        /\ k.todo = plan.todo /\ k.open = cmd[c].open
    BY <1>1 DEF CommandOK
  <2>3. ~cmd[c].open
    BY <1>1 DEF CommandOK, Load, Starting
  <2> HIDE DEF k
  <2>4. CommandOK(k)
    BY <1>1, <1>3, <1>5, <2>2, <2>3 DEF CommandOK, PlanOK
  <2>5. CommandsOK'
    BY <2>1, <2>4, NewCommand DEF IInv
  <2> QED BY <2>5 DEF IInv, TextsOK, Load
<1> QED BY <1>4, <1>5

\* A file that is opened to be written is empty.
LEMMA TruncateTyped ==
    ASSUME IInv, NEW c \in Terminals, Truncate(c)
    PROVE  IInv'
<1>1. TextsOK'
  <2>1. disk' = [disk EXCEPT ![File(c)] = <<>>] /\ <<>> \in Seq(LinesOf(File(c)))
    BY DEF Truncate
  <2> QED BY <2>1, NewText DEF IInv
<1>2. CommandOK(cmd[c]) /\ Kind(c) = "write" /\ cmd[c].todo # None
  BY DEF IInv, CommandsOK, Truncate, Working
<1> DEFINE k == [cmd[c] EXCEPT !.open = TRUE]
<1>3. cmd' = [cmd EXCEPT ![c] = k]
  BY DEF Truncate
<1>4. /\ DOMAIN k = {"req", "todo", "base", "open"} /\ k.req = cmd[c].req
      /\ k.todo = cmd[c].todo
  BY <1>2 DEF CommandOK
<1> HIDE DEF k
<1>5. CommandOK(k)
  BY <1>2, <1>4 DEF CommandOK, Kind
<1>6. CommandsOK'
  BY <1>3, <1>5, NewCommand DEF IInv
<1> QED BY <1>1, <1>6 DEF IInv, Truncate

\* A text is written over what another command has written since.
LEMMA FlushTyped ==
    ASSUME IInv, NEW c \in Terminals, Flush(c)
    PROVE  IInv'
<1>1. Working(c) /\ Kind(c) = "write" /\ Finish(c) /\ UNCHANGED <<up, job>>
  BY DEF IInv, CommandsOK, CommandOK, Flush, Working, Kind
<1>2. CommandsOK'
  BY <1>1, Finishes DEF IInv
<1>3. TextsOK'
  <2>1. CASE UNCHANGED disk
    BY <2>1 DEF IInv, TextsOK
  <2>2. CASE disk # disk'
    <3> DEFINE old == disk[File(c)]
               L == LinesOf(File(c))
               rests == {<<>>} \union {SubSeq(old, i, Len(old)) :
                                       i \in Len(Text(c)) + 1 .. Len(old)}
    <3>1. old # None /\ \E rest \in rests : disk' = [disk EXCEPT ![File(c)] = Text(c) \o rest]
      BY <2>2 DEF Flush
    <3>2. ASSUME NEW rest \in rests PROVE Text(c) \o rest \in Seq(L)
      <4>1. Text(c) \in Seq(L) /\ old \in Seq(L)
        BY <1>1, <3>1, AtHand DEF IInv, TextsOK
      <4> HIDE DEF L, old
      <4>2. rest \in Seq(L)
        <5>1. CASE rest = <<>>
          BY <5>1
        <5>2. ASSUME NEW i \in Len(Text(c)) + 1 .. Len(old), rest = SubSeq(old, i, Len(old))
              PROVE  rest \in Seq(L)
          <6>1. i \in Nat \ {0} /\ i \in 1 .. Len(old) /\ Len(old) \in Nat
            BY <4>1
          <6> QED BY <4>1, <5>2, <6>1
        <5> QED BY <3>2, <5>1, <5>2
      <4> QED BY <4>1, <4>2
    <3> QED BY <3>1, <3>2, NewText DEF IInv
  <2> QED BY <2>1, <2>2
<1> QED BY <1>1, <1>2, <1>3 DEF IInv

\* A line is added to a file that another command may have changed, or is not.
LEMMA AppendTyped ==
    ASSUME IInv, NEW c \in Terminals, AppendStep(c) \/ Register(c) \/ AppendFails(c)
    PROVE  IInv'
<1>1. Working(c) /\ Kind(c) = "append" /\ Finish(c) /\ UNCHANGED <<up, job>>
  BY DEF AppendStep, Register, AppendFails
<1> DEFINE text == Before(File(c))
           L == LinesOf(File(c))
<1>2. text \in Seq(L) /\ disk[File(c)] \in Seq(L) \union {None}
  <2>1. disk[File(c)] \in Seq(L) \union {None}
    BY <1>1, AtHand DEF IInv, TextsOK
  <2> HIDE DEF L
  <2> QED BY <2>1 DEF Before
<1>3. \/ \E new \in {text, disk[File(c)]} : disk' = [disk EXCEPT ![File(c)] = new]
      \/ File(c) = RegistryFile /\ disk' = [disk EXCEPT ![File(c)] = Append(text, Text(c))]
      \/ File(c) # RegistryFile /\ disk' = [disk EXCEPT ![File(c)] = AppendLine(text, Text(c))]
  BY DEF AppendStep, Register, AppendFails
<1>4. \/ File(c) = RegistryFile /\ Text(c) \in STRING
      \/ File(c) \in IgnoreFiles /\ File(c) # RegistryFile /\ Text(c) \in Pats
  BY <1>1, AtHand DEF IInv
<1> HIDE DEF text, L
<1>5. File(c) = RegistryFile => Append(text, Text(c)) \in Seq(L)
  <2>1. File(c) = RegistryFile => Text(c) \in L
    BY <1>4, LinesOfFiles DEF L
  <2> QED BY <1>2, <2>1
<1>6. File(c) # RegistryFile => AppendLine(text, Text(c)) \in Seq(L)
  <2>1. File(c) # RegistryFile => L = Lines /\ Text(c) \in Pats
    BY <1>4, LinesOfFiles DEF L
  <2> QED BY <1>2, <2>1, AppendLineType
<1>7. TextsOK'
  <2>1. PICK new \in Seq(L) \union {None} : disk' = [disk EXCEPT ![File(c)] = new]
    BY <1>2, <1>3, <1>5, <1>6
  <2> QED BY <2>1, NewText DEF IInv, L
<1> QED BY <1>1, <1>7, Finishes DEF IInv

\* A file is deleted.
LEMMA DeleteTyped ==
    ASSUME IInv, NEW c \in Terminals, Delete(c)
    PROVE  IInv'
<1>1. /\ Working(c) /\ Finish(c) /\ UNCHANGED <<up, job>>
      /\ disk' = [disk EXCEPT ![File(c)] = None]
  BY DEF Delete
<1> QED BY <1>1, NewText, Finishes DEF IInv

\* The rest writes nothing.
LEMMA OthersTyped ==
    ASSUME IInv, NEW c \in Terminals, LinkStep(c) \/ FlushFails(c) \/ OpenFails(c) \/ Kill(c)
    PROVE  IInv'
<1>1. UNCHANGED <<disk, up, job>>
  BY DEF LinkStep, FlushFails, OpenFails, Kill
<1>2. \/ \E answer : End(c, answer)
      \/ Working(c) /\ Finish(c)
  BY DEF LinkStep, FlushFails, OpenFails, Kill
<1>3. CommandsOK'
  BY <1>2, Ends, Finishes DEF IInv
<1> QED BY <1>1, <1>3 DEF IInv, TextsOK

\* Disks come and go; nothing happens.
LEMMA StillTyped ==
    ASSUME IInv, Mount \/ UNCHANGED vars
    PROVE  IInv'
<1>1. CASE Mount
  <2>1. up' \subseteq Directories
    BY <1>1, StoresAssumption DEF IInv, Mount
  <2> QED BY <1>1, <2>1 DEF IInv, TextsOK, CommandsOK, Mount
<1>2. CASE UNCHANGED vars
  BY <1>2 DEF IInv, TextsOK, CommandsOK, vars
<1> QED BY <1>1, <1>2

\* Everything the proofs rest on.
LEMMA Invariance == Spec => []IInv
<1>1. IInv /\ [Next]_vars => IInv'
  BY AskTyped, LoadTyped, TruncateTyped, FlushTyped, AppendTyped, DeleteTyped, OthersTyped,
       StillTyped
    DEF Next
<1> QED BY <1>1, InitTyped, PTL DEF Spec

\* Through all edits, kills and failures every file of the stores holds lines of its own
\* kind: no command writes what another one could not read.
THEOREM StoresTyped == Spec => []TextsOK
<1>1. IInv => TextsOK
  BY DEF IInv
<1> QED BY <1>1, Invariance, PTL

\* A file of a package is linked exactly when gitignore(5) says so of the patterns that
\* somebody has written, unless one of them is peculiar at that file: is_path_ignored
\* reads a final slash, a leading slash, a "#" and a "*" its own way.  Negation by "!" is
\* neither read nor promised.
THEOREM IgnoresAsGit == Spec => []IgnoredAsDocumented
<1>1. IInv => IgnoredAsDocumented
  BY RulesReadAsGit DEF IInv
<1> QED BY <1>1, Invariance, PTL

-----------------------------------------------------------------------------
(* Where the links of a package are looked for *)

\* The configuration in a state of the files once every disk is back, ...
ConfigIn(d) == LoadConfig(d[ConfigFile(d)], Directories)

\* ... the place of a package's links, ...
From(d) == Source(ConfigIn(d), Directories)

At(d, p) == PackageTarget(d, p, ConfigIn(d), Directories)

\* ... and the links `unlink` looks for.
Found(d, p) == LinksOf(d, p, From(d), At(d, p))

\* The target of a package's manifest.
LegacyTarget(d, p) ==
    IF d[<<p, ".stowdeps">>] = None THEN None ELSE LastValue(d[<<p, ".stowdeps">>], "TARGET")

ListedTarget(d, p) ==
    IF d[<<p, ".symdeps">>] # None THEN LastValue(d[<<p, ".symdeps">>], "TARGET")
    ELSE LegacyTarget(d, p)

\* It is the one the manifest that is read has.
LEMMA ManifestTarget ==
    ASSUME NEW d, NEW p
    PROVE  LoadManifest(d, p).target = ListedTarget(d, p)
BY DEF LoadManifest, HasManifest, ManifestFile, ParseManifest, EmptyManifest, ListedTarget,
       LegacyTarget

\* The place follows from the configuration and the target of the manifest.
LEMMA SamePlace ==
    ASSUME NEW d, NEW e, NEW p, SameDirs(d[ConfigFile(d)], e[ConfigFile(e)]),
           ListedTarget(d, p) = ListedTarget(e, p)
    PROVE  From(e) = From(d) /\ At(e, p) = At(d, p)
<1> DEFINE a == ConfigIn(d)
           b == ConfigIn(e)
<1>1. /\ b.target = a.target
      /\ a.dirs = <<>> <=> b.dirs = <<>>
      /\ a.dirs # <<>> => b.dirs[1] = a.dirs[1]
  BY DEF SameDirs, ConfigIn
<1>2. LoadManifest(d, p).target = LoadManifest(e, p).target
  BY ManifestTarget
<1> HIDE DEF a, b
<1>3. PackageTarget(e, p, b, Directories) = PackageTarget(d, p, a, Directories)
  BY <1>1, <1>2 DEF PackageTarget, TargetForPkg
<1>4. Source(b, Directories) = Source(a, Directories)
  <2>1. (IF a.dirs = <<>> THEN None ELSE a.dirs[1]) = (IF b.dirs = <<>> THEN None ELSE b.dirs[1])
    BY <1>1
  <2> QED BY <2>1 DEF Source, SourceDir
<1> QED BY <1>3, <1>4 DEF From, At, a, b

\* With the same place and no new rules no link is lost.
LEMMA FewerRules ==
    ASSUME NEW d, NEW e, NEW p, From(e) = From(d), At(e, p) = At(d, p),
           RulesOf(e, "") \subseteq RulesOf(d, ""), RulesOf(e, p) \subseteq RulesOf(d, p)
    PROVE  Found(d, p) \subseteq Found(e, p)
<1> DEFINE files == {g.path : g \in Files[p]}
<1>1. PackageRules(e, p) \subseteq PackageRules(d, p)
  BY DEF PackageRules, GlobalRules
<1>2. Collect(files, PackageRules(d, p)) \subseteq Collect(files, PackageRules(e, p))
  BY <1>1 DEF Collect, IsIgnored
<1> HIDE DEF files
<1> QED BY <1>2 DEF Found, LinksOf, files

-----------------------------------------------------------------------------
(* Which file is read *)

\* The configuration file is the first of three that exists, ...
LEMMA ConfigFileSame ==
    ASSUME NEW d, NEW e, \A f \in ConfigNames : d[f] = None <=> e[f] = None
    PROVE  ConfigFile(d) = ConfigFile(e)
<1>1. \A i \in DOMAIN ConfigFiles : d[ConfigFiles[i]] = None <=> e[ConfigFiles[i]] = None
  BY DEF ConfigNames
<1>2. {i \in DOMAIN ConfigFiles : d[ConfigFiles[i]] # None}
          = {i \in DOMAIN ConfigFiles : e[ConfigFiles[i]] # None}
  BY <1>1
<1> QED BY <1>2 DEF ConfigFile

\* ... and stays that one when it is written.
LEMMA ConfigFileStays ==
    ASSUME NEW d, ConfigNames \subseteq DOMAIN d, NEW text, text # None
    PROVE  ConfigFile([d EXCEPT ![ConfigFile(d)] = text]) = ConfigFile(d)
<1> DEFINE F == ConfigFile(d)
           e == [d EXCEPT ![F] = text]
           there == {i \in DOMAIN ConfigFiles : d[ConfigFiles[i]] # None}
           after == {i \in DOMAIN ConfigFiles : e[ConfigFiles[i]] # None}
           m == IF there = {} THEN 1 ELSE Min(there)
<1>1. DOMAIN ConfigFiles = 1 .. 3 /\ \A i, j \in 1 .. 3 : ConfigFiles[i] = ConfigFiles[j] => i = j
  BY DEF ConfigFiles
<1>2. m \in 1 .. 3 /\ (there # {} => m \in there)
  <2>1. there \subseteq Nat
    BY <1>1
  <2>2. there \subseteq 1 .. 3
    BY <1>1
  <2> HIDE DEF there
  <2>3. CASE there = {}
    BY <2>3
  <2>4. CASE there # {}
    <3>1. Min(there) \in there
      BY <2>1, <2>4, MinOf
    <3>2. m = Min(there)
      BY <2>4
    <3> HIDE DEF m
    <3> QED BY <2>2, <3>1, <3>2
  <2> QED BY <2>3, <2>4
<1>3. F = ConfigFiles[m]
  BY DEF ConfigFile
<1>4. \A i \in 1 .. 3 : ConfigFiles[i] \in DOMAIN d
  BY <1>1 DEF ConfigNames
<1>5. \A i \in 1 .. 3 : e[ConfigFiles[i]] # None <=> (i = m \/ d[ConfigFiles[i]] # None)
  <2> HIDE DEF m, F
  <2> QED BY <1>1, <1>2, <1>3, <1>4
<1>6. after = there \union {m}
  <2> HIDE DEF m, F, e
  <2> QED BY <1>1, <1>2, <1>5
<1>7. CASE there = {}
  <2>1. after = {1} /\ Min(after) = 1
    <3>1. m = 1 /\ after = {1}
      BY <1>6, <1>7
    <3> HIDE DEF after
    <3> QED BY <3>1 DEF Min
  <2>2. ConfigFile(e) = ConfigFiles[1]
    BY <2>1 DEF ConfigFile
  <2>3. F = ConfigFiles[1]
    BY <1>3, <1>7
  <2> HIDE DEF e, F
  <2>4. ConfigFile(e) = F
    BY <2>2, <2>3
  <2> QED BY <2>4 DEF e, F
<1>8. CASE there # {}
  <2>1. after = there
    BY <1>2, <1>6, <1>8
  <2>2. ConfigFile(e) = F
    <3> HIDE DEF e
    <3> QED BY <2>1 DEF ConfigFile
  <2> QED BY <2>2
<1> QED BY <1>7, <1>8

\* The ignore file of a directory is one of two, ...
LEMMA IgnoreFileSame ==
    ASSUME NEW d, NEW e, NEW q,
           \A name \in {".symignore", ".stowignore"} :
               d[<<q, name>>] = None <=> e[<<q, name>>] = None
    PROVE  IgnoreFile(d, q) = IgnoreFile(e, q)
BY DEF IgnoreFile

\* Whose the ignore files are: those of the packages, or "" for the repository.
Owners == Packages \union {""}

\* A file gets a text.
Puts(d, F, text, e) == e = [d EXCEPT ![F] = text]

\* ... and stays that one when it is written.
LEMMA IgnoreFileStays ==
    ASSUME NEW d, IgnoreFiles \subseteq DOMAIN d, NEW text, text # None,
           NEW q \in Owners, NEW p \in Owners, NEW F, F = IgnoreFile(d, q),
           NEW e, Puts(d, F, text, e)
    PROVE  IgnoreFile(e, p) = IgnoreFile(d, p)
<1>1. \A name \in {".symignore", ".stowignore"} :
          <<q, name>> \in DOMAIN d /\ <<p, name>> \in DOMAIN d
  BY DEF IgnoreFiles, Owners
<1>2. CASE p = q
  BY <1>1, <1>2 DEF IgnoreFile, Puts
<1>3. CASE p # q
  BY <1>1, <1>3 DEF IgnoreFile, Puts
<1> QED BY <1>2, <1>3

-----------------------------------------------------------------------------
(* What a write does to the links *)

\* The packages a file matters to.
Affected(f) == IF f \in ConfigNames \/ f[1] = "" THEN Packages ELSE {f[1]}

\* An ignore file that hides the legacy one.
Hides(f, d) == f[2] = ".symignore" /\ d[<<f[1], ".stowignore">>] # None

\* A write that loses no link: of the registry, of a configuration or a manifest with the
\* same directories, of an ignore file with no new pattern; or an ignore file is deleted
\* and hides no other.
Harmless(e, old, d) ==
    \/ e[2] = RegistryFile
    \/ e[1] = "write" /\ e[2] \in ConfigNames /\ SameDirs(old, e[3])
    \/ /\ e[1] = "write" /\ e[2] \in ManifestFiles
       /\ LastValue(e[3], "TARGET") =
              IF old # None THEN LastValue(old, "TARGET") ELSE LegacyTarget(d, e[2][1])
    \/ /\ e[1] = "write" /\ e[2] \in IgnoreFiles
       /\ old # None /\ Patterns(e[3]) \subseteq Patterns(old)
    \/ e[1] = "delete" /\ e[2] \in IgnoreFiles /\ ~Hides(e[2], d)

\* A file that is not of the configuration leaves it alone, ...
LEMMA OtherConfig ==
    ASSUME NEW d, DOMAIN d = StoreFiles, NEW F, F \notin ConfigNames,
           NEW text, NEW e, Puts(d, F, text, e)
    PROVE  ConfigFile(e) = ConfigFile(d) /\ SameDirs(d[ConfigFile(d)], e[ConfigFile(e)])
<1>1. \A f \in ConfigNames : e[f] = d[f]
  BY FileKinds DEF Puts
<1>2. ConfigFile(e) = ConfigFile(d)
  BY <1>1, ConfigFileSame
<1>3. e[ConfigFile(e)] = d[ConfigFile(d)]
  BY <1>1, <1>2, ConfigFileNamed
<1> QED BY <1>2, <1>3 DEF SameDirs

\* ... one that is not the manifest of a package leaves its target, ...
LEMMA OtherTarget ==
    ASSUME NEW d, DOMAIN d = StoreFiles, NEW p \in Packages,
           NEW F, F # <<p, ".symdeps">>, F # <<p, ".stowdeps">>,
           NEW text, NEW e, Puts(d, F, text, e)
    PROVE  ListedTarget(e, p) = ListedTarget(d, p)
<1>1. <<p, ".symdeps">> \in DOMAIN d /\ <<p, ".stowdeps">> \in DOMAIN d
  BY FileKinds DEF ManifestFiles
<1>2. e[<<p, ".symdeps">>] = d[<<p, ".symdeps">>] /\ e[<<p, ".stowdeps">>] = d[<<p, ".stowdeps">>]
  BY <1>1 DEF Puts
<1> QED BY <1>2 DEF ListedTarget, LegacyTarget

\* ... and one that is not an ignore file of a directory leaves its rules.
LEMMA OtherRules ==
    ASSUME NEW d, DOMAIN d = StoreFiles, NEW q \in Owners,
           NEW F, F # <<q, ".symignore">>, F # <<q, ".stowignore">>,
           NEW text, NEW e, Puts(d, F, text, e)
    PROVE  IgnoreFile(e, q) = IgnoreFile(d, q) /\ RulesOf(e, q) = RulesOf(d, q)
<1>1. <<q, ".symignore">> \in DOMAIN d /\ <<q, ".stowignore">> \in DOMAIN d
  BY FileKinds DEF IgnoreFiles, Owners
<1>2. /\ e[<<q, ".symignore">>] = d[<<q, ".symignore">>]
      /\ e[<<q, ".stowignore">>] = d[<<q, ".stowignore">>]
  BY <1>1 DEF Puts
<1> QED BY <1>2 DEF RulesOf, IgnoreFile

\* A configuration with the same directories is read where it is written.
LEMMA ConfigWritten ==
    ASSUME NEW d, DOMAIN d = StoreFiles, NEW F, F = ConfigFile(d),
           NEW text, text # None, SameDirs(d[F], text), NEW e, Puts(d, F, text, e)
    PROVE  SameDirs(d[ConfigFile(d)], e[ConfigFile(e)])
<1>1. F \in DOMAIN d /\ ConfigNames \subseteq DOMAIN d
  BY ConfigFileNamed, FileKinds
<1>2. ConfigFile(e) = F
  BY <1>1, ConfigFileStays DEF Puts
<1>3. e[F] = text
  BY <1>1 DEF Puts
<1> QED BY <1>2, <1>3

\* A manifest with the same target is read as it was.
LEMMA TargetWritten ==
    ASSUME NEW d, DOMAIN d = StoreFiles, NEW p \in Packages, NEW F, F = <<p, ".symdeps">>,
           NEW text, text # None,
           LastValue(text, "TARGET") =
               IF d[F] # None THEN LastValue(d[F], "TARGET") ELSE LegacyTarget(d, p),
           NEW e, Puts(d, F, text, e)
    PROVE  ListedTarget(e, p) = ListedTarget(d, p)
<1>1. F \in DOMAIN d
  BY FileKinds DEF ManifestFiles
<1>2. e[<<p, ".symdeps">>] = text
  BY <1>1 DEF Puts
<1> QED BY <1>2 DEF ListedTarget

\* An ignore file with no new pattern gives no new rule, ...
LEMMA RulesLess ==
    ASSUME NEW d, DOMAIN d = StoreFiles, NEW F \in IgnoreFiles, NEW text, text # None,
           d[F] # None, Patterns(text) \subseteq Patterns(d[F]), NEW q \in Owners,
           NEW e, Puts(d, F, text, e)
    PROVE  RulesOf(e, q) \subseteq RulesOf(d, q)
<1> DEFINE sym == <<q, ".symignore">>
           stow == <<q, ".stowignore">>
<1>1. sym \in IgnoreFiles /\ stow \in IgnoreFiles
  BY DEF IgnoreFiles, Owners
<1>2. \A f \in IgnoreFiles : (f # F => e[f] = d[f]) /\ (d[f] = None <=> e[f] = None)
  BY FileKinds DEF Puts
<1>3. e[F] = text
  BY FileKinds DEF Puts
<1>4. IgnoreFile(e, q) = IgnoreFile(d, q)
  BY <1>1, <1>2 DEF IgnoreFile
<1>5. IgnoreFile(d, q) \in IgnoreFiles
  BY <1>1 DEF IgnoreFile
<1>6. CASE IgnoreFile(d, q) = F
  BY <1>3, <1>4, <1>6 DEF RulesOf
<1>7. CASE IgnoreFile(d, q) # F
  BY <1>2, <1>4, <1>5, <1>7 DEF RulesOf
<1> QED BY <1>6, <1>7

\* ... nor does a file that is deleted, unless it hid another.
LEMMA RulesGone ==
    ASSUME NEW d, DOMAIN d = StoreFiles, NEW F \in IgnoreFiles,
           ~Hides(F, d), NEW q \in Owners, NEW e, Puts(d, F, None, e)
    PROVE  RulesOf(e, q) \subseteq RulesOf(d, q)
<1> DEFINE sym == <<q, ".symignore">>
           stow == <<q, ".stowignore">>
<1>0. sym \in DOMAIN d /\ stow \in DOMAIN d /\ sym # stow
  BY FileKinds DEF IgnoreFiles, Owners
<1>1. CASE F # sym /\ F # stow
  <2>1. F # <<q, ".symignore">> /\ F # <<q, ".stowignore">>
    BY <1>1
  <2>2. RulesOf(e, q) = RulesOf(d, q)
    BY <2>1, OtherRules
  <2> QED BY <2>2
<1>2. CASE F = sym
  <2>1. d[stow] = None
    BY <1>2 DEF Hides
  <2>2. e[sym] = None /\ e[stow] = None
    <3> HIDE DEF sym, stow
    <3> QED BY <1>0, <1>2, <2>1 DEF Puts
  <2>3. RulesOf(e, q) = {}
    BY <2>2 DEF RulesOf, IgnoreFile, Patterns
  <2> QED BY <2>3
<1>3. CASE F = stow
  <2>1. e[sym] = d[sym] /\ e[stow] = None
    <3> HIDE DEF sym, stow
    <3> QED BY <1>0, <1>3 DEF Puts
  <2>2. CASE d[sym] = None
    <3>1. RulesOf(e, q) = {}
      BY <2>1, <2>2 DEF RulesOf, IgnoreFile, Patterns
    <3> QED BY <3>1
  <2>3. CASE d[sym] # None
    <3>1. RulesOf(e, q) = RulesOf(d, q)
      BY <2>1, <2>3 DEF RulesOf, IgnoreFile
    <3> QED BY <3>1
  <2> QED BY <2>2, <2>3
<1> QED BY <1>1, <1>2, <1>3

\* No command writes a legacy manifest.
LEMMA NotLegacy ==
    ASSUME NEW r, NEW w, WriteOK(r, w)
    PROVE  w[2] \notin Packages \X {".stowdeps"}
<1>1. ASSUME w[2] \in Packages \X {".stowdeps"} PROVE w[2][2] = ".stowdeps"
  BY <1>1
<1>2. w[2] \in ConfigNames => w[2][2] # ".stowdeps"
  BY FileKinds
<1>3. w[2] = RegistryFile => w[2][2] # ".stowdeps"
  BY FileKinds
<1>4. w[2] \in {<<r.who, ".symdeps">>, <<r.who, ".symignore">>, <<r.who, ".stowignore">>} =>
          w[2][2] # ".stowdeps"
  OBVIOUS
<1> QED BY <1>1, <1>2, <1>3, <1>4 DEF WriteOK

\* The registry is only added to.
LEMMA RegistryAppended ==
    ASSUME NEW r, NEW w, WriteOK(r, w), w[1] # "append"
    PROVE  w[2] # RegistryFile
<1>1. RegistryFile[2] = "symdep.registry"
  BY FileKinds
<1>2. w[2] \in ConfigNames => w[2][2] # "symdep.registry"
  BY FileKinds
<1>3. w[2] \in {<<r.who, ".symdeps">>, <<r.who, ".symignore">>, <<r.who, ".stowignore">>} =>
          w[2][2] # "symdep.registry"
  OBVIOUS
<1> QED BY <1>1, <1>2, <1>3 DEF WriteOK

\* A package that a file does not matter to, or that the write does not harm, has the
\* links it had.
LEMMA WrittenFound ==
    ASSUME NEW d, DOMAIN d = StoreFiles, NEW r, NEW w, WriteOK(r, w),
           NEW F, F = w[2], NEW text,
           w[1] = "write" => text = w[3] /\ text # None,
           w[1] = "delete" => text = None,
           F \in ConfigNames => F = ConfigFile(d),
           NEW p \in Packages,
           p \notin Affected(F) \/ Harmless(w, d[F], d),
           NEW e, Puts(d, F, text, e)
    PROVE  Found(d, p) \subseteq Found(e, p)
<1> DEFINE free == p \notin Affected(F)
<1>1. F \in StoreFiles /\ F \notin Packages \X {".stowdeps"}
  BY WriteTyped, NotLegacy
<1>2. SameDirs(d[ConfigFile(d)], e[ConfigFile(e)])
  <2>1. CASE F \notin ConfigNames
    BY <2>1, OtherConfig
  <2>2. CASE F \in ConfigNames
    <3>1. F = ConfigFile(d) /\ ~free
      BY <2>2 DEF Affected
    <3>2. F \notin ManifestFiles /\ F \notin IgnoreFiles /\ F # RegistryFile
      BY <2>2, FileKinds
    <3>3. w[1] = "write" /\ SameDirs(d[F], w[3])
      BY <3>1, <3>2 DEF Harmless
    <3> QED BY <3>1, <3>3, ConfigWritten
  <2> QED BY <2>1, <2>2
<1>3. ListedTarget(d, p) = ListedTarget(e, p)
  <2>1. CASE F # <<p, ".symdeps">> /\ F # <<p, ".stowdeps">>
    BY <2>1, OtherTarget
  <2>2. CASE F = <<p, ".stowdeps">>
    BY <1>1, <2>2
  <2>3. CASE F = <<p, ".symdeps">>
    <3>1. F \in ManifestFiles /\ F[1] = p
      BY <2>3 DEF ManifestFiles
    <3>2. F \notin ConfigNames /\ F \notin IgnoreFiles /\ F # RegistryFile
      BY <2>3, FileKinds
    <3>3. ~free
      BY <3>1 DEF Affected
    <3>4. /\ w[1] = "write"
          /\ LastValue(w[3], "TARGET") =
                 IF d[F] # None THEN LastValue(d[F], "TARGET") ELSE LegacyTarget(d, p)
      BY <3>1, <3>2, <3>3 DEF Harmless
    <3> QED BY <2>3, <3>4, TargetWritten
  <2> QED BY <2>1, <2>2, <2>3
<1>4. ASSUME NEW q, q \in Owners, q = "" \/ q = p PROVE RulesOf(e, q) \subseteq RulesOf(d, q)
  <2>1. CASE F # <<q, ".symignore">> /\ F # <<q, ".stowignore">>
    <3>1. RulesOf(e, q) = RulesOf(d, q)
      BY <1>4, <2>1, OtherRules
    <3> QED BY <3>1
  <2>2. CASE F = <<q, ".symignore">> \/ F = <<q, ".stowignore">>
    <3>1. F \in IgnoreFiles /\ F[1] = q
      <4>1. <<q, ".symignore">> \in IgnoreFiles /\ <<q, ".stowignore">> \in IgnoreFiles
        BY <1>4 DEF IgnoreFiles, Owners
      <4>2. F \in IgnoreFiles
        BY <2>2, <4>1
      <4>3. F[1] = q
        <5>1. CASE F = <<q, ".symignore">>
          BY <5>1
        <5>2. CASE F = <<q, ".stowignore">>
          BY <5>2
        <5> QED BY <2>2, <5>1, <5>2
      <4> QED BY <4>2, <4>3
    <3>2. F \notin ConfigNames /\ F \notin ManifestFiles /\ F # RegistryFile
      BY <3>1, FileKinds
    <3>3. ~free
      BY <1>4, <3>1 DEF Affected
    <3>4. \/ w[1] = "write" /\ d[F] # None /\ Patterns(text) \subseteq Patterns(d[F])
          \/ w[1] = "delete" /\ ~Hides(F, d)
      BY <3>2, <3>3 DEF Harmless
    <3>5. CASE w[1] = "write" /\ d[F] # None /\ Patterns(text) \subseteq Patterns(d[F])
      BY <1>4, <3>1, <3>5, RulesLess
    <3>6. CASE w[1] = "delete" /\ ~Hides(F, d)
      <4>1. Puts(d, F, None, e)
        BY <3>6
      <4> QED BY <1>4, <3>1, <3>6, <4>1, RulesGone
    <3> QED BY <3>4, <3>5, <3>6
  <2> QED BY <2>1, <2>2
<1>5. From(e) = From(d) /\ At(e, p) = At(d, p)
  BY <1>2, <1>3, SamePlace
<1>6. RulesOf(e, "") \subseteq RulesOf(d, "") /\ RulesOf(e, p) \subseteq RulesOf(d, p)
  BY <1>4 DEF Owners
<1> QED BY <1>5, <1>6, FewerRules

-----------------------------------------------------------------------------
(* The invariant behind the links *)

\* The command writes the file it has read, and nobody else does.
OpenAs(k, d, old) ==
    k.open =>
        /\ d[k.todo[1][2]] = <<>> /\ old[k.todo[1][2]] = k.base[k.todo[1][2]]
        /\ k.req.op \in IgnoreOps => IgnoreFile(d, k.req.who) = k.todo[1][2]

\* A write that is planned is of the file that is read, and loses no link but those of
\* packages that are moved.
WriteKeeps(w, base, d, gone) ==
    /\ w[2] \in ConfigNames => w[2] = ConfigFile(d)
    /\ Affected(w[2]) \subseteq gone \/ Harmless(w, base[w[2]], d)

PlanKeeps(k, d, gone) ==
    k.todo # None => \A i \in DOMAIN k.todo : WriteKeeps(k.todo[i], k.base, d, gone)

FilesKept == \A f \in StoreFiles : kept[f] = disk[f] \/ IsOpen(f)

OneWriter == \A c, d \in Terminals : cmd[c].open /\ cmd[d].open /\ File(c) = File(d) => c = d

LinksKept == \A l \in placed : l.pkg \in Packages /\ (l.pkg \in moved \/ l \in Found(kept, l.pkg))

\* Until the promise is broken.
Kept ==
    /\ FilesKept /\ OneWriter /\ LinksKept
    /\ ConfigFile(kept) = ConfigFile(disk)
    /\ \A c \in Terminals : OpenAs(cmd[c], disk, kept) /\ PlanKeeps(cmd[c], disk, moved)

KeepInv == IInv /\ DOMAIN kept = StoreFiles /\ (broken = {} => Kept)

\* A terminal without a command writes nothing.
LEMMA IdleFacts == Idle.open = FALSE /\ Idle.todo = None
BY DEF Idle, Command

\* The legacy files change no manifest, and none comes into being.
Legacy(d, e) ==
    /\ \A p \in Packages : e[<<p, ".stowdeps">>] = d[<<p, ".stowdeps">>]
    /\ \A q \in Owners : d[<<q, ".stowignore">>] = None => e[<<q, ".stowignore">>] = None

\* Then a harmless write stays harmless, ...
LEMMA HarmlessStays ==
    ASSUME NEW w, NEW old, NEW d, NEW e, Harmless(w, old, d), Legacy(d, e)
    PROVE  Harmless(w, old, e)
<1>1. CASE /\ w[1] = "write" /\ w[2] \in ManifestFiles
           /\ LastValue(w[3], "TARGET") =
                  IF old # None THEN LastValue(old, "TARGET") ELSE LegacyTarget(d, w[2][1])
  <2>1. w[2][1] \in Packages
    BY <1>1 DEF ManifestFiles
  <2>2. LegacyTarget(e, w[2][1]) = LegacyTarget(d, w[2][1])
    BY <2>1 DEF Legacy, LegacyTarget
  <2> QED BY <1>1, <2>2 DEF Harmless
<1>2. CASE w[1] = "delete" /\ w[2] \in IgnoreFiles /\ ~Hides(w[2], d)
  <2>1. w[2][1] \in Owners
    BY <1>2 DEF IgnoreFiles, Owners
  <2>2. ~Hides(w[2], e)
    BY <1>2, <2>1 DEF Legacy, Hides
  <2> QED BY <1>2, <2>2 DEF Harmless
<1> QED BY <1>1, <1>2 DEF Harmless

\* ... and a plan stays one that loses no link.
LEMMA PlanStays ==
    ASSUME NEW k, NEW d, NEW gone, PlanKeeps(k, d, gone), NEW e, ConfigFile(e) = ConfigFile(d),
           Legacy(d, e), NEW more, gone \subseteq more
    PROVE  PlanKeeps(k, e, more)
BY HarmlessStays DEF PlanKeeps, WriteKeeps

\* A command writes on while nobody changes its file.
LEMMA OpenStays ==
    ASSUME NEW k, NEW d, NEW old, OpenAs(k, d, old), NEW e, NEW new,
           k.open => /\ e[k.todo[1][2]] = d[k.todo[1][2]] /\ new[k.todo[1][2]] = old[k.todo[1][2]]
                     /\ k.req.op \in IgnoreOps =>
                            IgnoreFile(e, k.req.who) = IgnoreFile(d, k.req.who)
    PROVE  OpenAs(k, e, new)
BY DEF OpenAs

\* The files without the writes that are under way have the same legacy files.
LEMMA LegacyKept ==
    ASSUME IInv, Kept
    PROVE  Legacy(disk, kept)
<1>1. ASSUME NEW c \in Terminals, cmd[c].open
      PROVE  disk[File(c)] # None /\ File(c) \notin Packages \X {".stowdeps"}
  <2>1. Working(c)
    BY <1>1, IdleFacts DEF IInv, CommandsOK, CommandOK, Working
  <2>2. WriteOK(cmd[c].req, cmd[c].todo[1]) /\ Kind(c) = "write"
    BY <1>1, <2>1, AtHand DEF IInv, CommandOK, Kind
  <2>3. File(c) \notin Packages \X {".stowdeps"}
    BY <2>2, NotLegacy DEF File
  <2>4. disk[File(c)] = <<>>
    BY <1>1 DEF Kept, OpenAs, File
  <2>5. <<>> # None
    <3>1. <<>> \in Seq(ConfigLines)
      OBVIOUS
    <3> QED BY <3>1, ConfigAssumption
  <2> QED BY <2>3, <2>4, <2>5
<1>2. ASSUME NEW p \in Packages PROVE kept[<<p, ".stowdeps">>] = disk[<<p, ".stowdeps">>]
  <2>1. <<p, ".stowdeps">> \in StoreFiles
    BY FileKinds DEF ManifestFiles
  <2> QED BY <1>1, <2>1 DEF Kept, FilesKept, IsOpen, Writing, File
<1>3. ASSUME NEW q \in Owners, disk[<<q, ".stowignore">>] = None
      PROVE  kept[<<q, ".stowignore">>] = None
  <2>1. <<q, ".stowignore">> \in StoreFiles
    BY FileKinds DEF IgnoreFiles, Owners
  <2> QED BY <1>1, <1>3, <2>1 DEF Kept, FilesKept, IsOpen, Writing, File
<1> QED BY <1>2, <1>3 DEF Legacy

\* The file that is read gets a text: it stays the one that is read.
LEMMA WhichFile ==
    ASSUME NEW d, DOMAIN d = StoreFiles, NEW r, NEW w, WriteOK(r, w), NEW F, F = w[2],
           F \in ConfigNames => F = ConfigFile(d),
           r.op \in IgnoreOps => IgnoreFile(d, r.who) = F,
           NEW text, text = None => F = RegistryFile, NEW e, Puts(d, F, text, e)
    PROVE  /\ ConfigFile(e) = ConfigFile(d) /\ Legacy(d, e)
           /\ \A q \in Owners : IgnoreFile(e, q) = IgnoreFile(d, q)
<1>1. ConfigFile(e) = ConfigFile(d)
  <2>1. CASE F \in ConfigNames
    <3>1. ConfigNames \subseteq DOMAIN d /\ text # None
      BY <2>1, FileKinds
    <3> QED BY <2>1, <3>1, ConfigFileStays DEF Puts
  <2>2. CASE F \notin ConfigNames
    BY <2>2, OtherConfig
  <2> QED BY <2>1, <2>2
<1>2. r.op \in IgnoreOps => r.who \in Owners
  BY DEF WriteOK, Owners, IgnoreOps, ConfigOps, ManifestOps
<1>3. r.op \notin IgnoreOps => F \notin IgnoreFiles
  <2>1. r.op \notin IgnoreOps =>
            \/ F \in ConfigNames \/ F = RegistryFile
            \/ (r.who \in Packages /\ F = <<r.who, ".symdeps">>)
    BY DEF WriteOK
  <2>2. \A p \in Packages : <<p, ".symdeps">> \in ManifestFiles
    BY DEF ManifestFiles
  <2>3. \A f \in IgnoreFiles : f \notin ConfigNames /\ f \notin ManifestFiles /\ f # RegistryFile
    BY FileKinds
  <2> QED BY <2>1, <2>2, <2>3
<1>4. ASSUME NEW q \in Owners PROVE IgnoreFile(e, q) = IgnoreFile(d, q)
  <2>1. CASE r.op \in IgnoreOps
    <3>1. IgnoreFiles \subseteq DOMAIN d /\ text # None
      <4>1. F[2] \in {".symignore", ".stowignore"}
        BY <2>1 DEF IgnoreFile
      <4> QED BY <4>1, FileKinds
    <3> QED BY <1>2, <2>1, <3>1, IgnoreFileStays
  <2>2. CASE r.op \notin IgnoreOps
    <3>1. <<q, ".symignore">> \in IgnoreFiles /\ <<q, ".stowignore">> \in IgnoreFiles
      BY DEF IgnoreFiles, Owners
    <3> QED BY <1>3, <2>2, <3>1, OtherRules
  <2> QED BY <2>1, <2>2
<1>5. ASSUME NEW p \in Packages PROVE e[<<p, ".stowdeps">>] = d[<<p, ".stowdeps">>]
  <2>1. <<p, ".stowdeps">> \in DOMAIN d
    BY FileKinds DEF ManifestFiles
  <2>2. F # <<p, ".stowdeps">>
    BY NotLegacy
  <2> QED BY <2>1, <2>2 DEF Puts
<1>6. ASSUME NEW q \in Owners, d[<<q, ".stowignore">>] = None
      PROVE  e[<<q, ".stowignore">>] = None
  <2>1. <<q, ".stowignore">> \in DOMAIN d /\ <<q, ".stowignore">> \in IgnoreFiles
    BY FileKinds DEF IgnoreFiles, Owners
  <2>2. F # <<q, ".stowignore">>
    <3>1. SUFFICES ASSUME F = <<q, ".stowignore">> PROVE FALSE
      OBVIOUS
    <3>2. IgnoreFile(d, r.who) = <<q, ".stowignore">>
      BY <1>3, <2>1, <3>1
    <3>3. r.who = q
      BY <3>2 DEF IgnoreFile
    <3> QED BY <1>6, <3>2, <3>3 DEF IgnoreFile
  <2> QED BY <1>6, <2>1, <2>2 DEF Puts
<1>7. Legacy(d, e)
  BY <1>5, <1>6 DEF Legacy
<1> QED BY <1>1, <1>4, <1>7

\* The rest of a plan.
LEMMA FinishKeeps ==
    ASSUME CommandsOK, NEW c \in Terminals, Working(c), Finish(c), NEW d, NEW gone,
           PlanKeeps(cmd[c], d, gone)
    PROVE  \E k : cmd' = [cmd EXCEPT ![c] = k] /\ k.open = FALSE /\ PlanKeeps(k, d, gone)
<1>1. /\ CommandOK(cmd[c]) /\ Writes(cmd[c].req, cmd[c].todo)
      /\ cmd[c].todo # <<>> /\ cmd[c].todo # None
  BY DEF CommandsOK, CommandOK, Working
<1>2. CASE Len(cmd[c].todo) = 1
  <2>1. cmd' = [cmd EXCEPT ![c] = Idle]
    BY <1>2 DEF Finish, End
  <2> QED BY <2>1, IdleFacts DEF PlanKeeps
<1>3. CASE Len(cmd[c].todo) # 1
  <2> DEFINE k == [cmd[c] EXCEPT !.todo = Tail(@), !.open = FALSE]
  <2>1. cmd' = [cmd EXCEPT ![c] = k]
    BY <1>3 DEF Finish
  <2>2. /\ k.todo = Tail(cmd[c].todo) /\ k.open = FALSE /\ k.base = cmd[c].base
    BY <1>1 DEF CommandOK
  <2>3. \A i \in DOMAIN Tail(cmd[c].todo) :
            i + 1 \in DOMAIN cmd[c].todo /\ Tail(cmd[c].todo)[i] = cmd[c].todo[i + 1]
    BY <1>1, RestOfWrites
  <2>4. PlanKeeps(k, d, gone)
    <3> HIDE DEF k
    <3> QED BY <1>1, <2>2, <2>3 DEF PlanKeeps
  <2> HIDE DEF k
  <2> QED BY <2>1, <2>2, <2>4
<1> QED BY <1>2, <1>3

\* The environment of the commands stays what it is.
LEMMA FoundLater ==
    ASSUME UNCHANGED job, NEW p
    PROVE  Found(kept, p)' = Found(kept', p)
BY DEF Found, From, At, Source, PackageTarget

\* A write of which nothing is under way any more.
LEMMA WriteEnds ==
    ASSUME IInv, DOMAIN kept = StoreFiles, Kept, NEW c \in Terminals, Working(c), Finish(c),
           NEW F, F = File(c), NEW text,
           Puts(disk, F, text, disk'), Puts(kept, F, text, kept'),
           \A d \in Terminals : cmd[d].open /\ File(d) = F => d = c,
           Kind(c) = "write" => text = Text(c) /\ text # None /\ kept[F] = cmd[c].base[F],
           Kind(c) = "delete" => text = None,
           ConfigFile(disk') = ConfigFile(disk), Legacy(disk, disk'),
           \A d \in Terminals \ {c} : cmd[d].open /\ cmd[d].req.op \in IgnoreOps =>
               IgnoreFile(disk', cmd[d].req.who) = IgnoreFile(disk, cmd[d].req.who),
           UNCHANGED <<placed, moved, job>>
    PROVE  Kept' /\ DOMAIN kept' = StoreFiles
<1> DEFINE w == cmd[c].todo[1]
<1>1. /\ F = w[2] /\ F \in StoreFiles /\ WriteOK(cmd[c].req, w) /\ cmd[c].todo # None
      /\ w[1] = Kind(c) /\ w[3] = Text(c) /\ 1 \in DOMAIN cmd[c].todo
  <2>1. /\ WriteOK(cmd[c].req, w) /\ cmd[c].todo # None /\ F \in StoreFiles
        /\ 1 \in DOMAIN cmd[c].todo
    BY AtHand DEF IInv
  <2> QED BY <2>1 DEF File, Kind, Text
<1>2. WriteKeeps(w, cmd[c].base, disk, moved)
  BY <1>1 DEF Kept, PlanKeeps
<1> HIDE DEF w
<1>3. PICK k : /\ cmd' = [cmd EXCEPT ![c] = k] /\ k.open = FALSE
               /\ PlanKeeps(k, disk, moved)
  <2>1. PlanKeeps(cmd[c], disk, moved)
    BY DEF Kept
  <2> QED BY <2>1, FinishKeeps DEF IInv
<1>4. cmd'[c] = k /\ \A d \in Terminals \ {c} : cmd'[d] = cmd[d]
  BY <1>3 DEF IInv, CommandsOK
<1>5. /\ disk'[F] = text /\ kept'[F] = text /\ DOMAIN kept' = StoreFiles
      /\ \A f \in StoreFiles : f # F => disk'[f] = disk[f] /\ kept'[f] = kept[f]
  BY <1>1 DEF Puts, IInv, TextsOK
<1>6. FilesKept'
  <2>1. ASSUME NEW f \in StoreFiles, f # F, kept[f] # disk[f]
        PROVE  \E d \in Terminals : cmd'[d].open /\ cmd'[d].todo[1][2] = f
    <3>1. PICK d \in Terminals : cmd[d].open /\ cmd[d].todo[1][2] = f
      BY <2>1 DEF Kept, FilesKept, IsOpen, Writing
    <3>2. d # c
      BY <1>1, <2>1, <3>1 DEF w
    <3> QED BY <1>4, <3>1, <3>2
  <2> QED BY <1>5, <2>1 DEF FilesKept, IsOpen, Writing
<1>7. OneWriter'
  BY <1>3, <1>4 DEF Kept, OneWriter, File
<1>8. ConfigFile(kept') = ConfigFile(disk')
  <2>1. ConfigFile(kept) = ConfigFile(disk)
    BY DEF Kept
  <2>2. CASE F \notin ConfigNames
    BY <2>1, <2>2, OtherConfig
  <2>3. CASE F \in ConfigNames
    <3>1. F = ConfigFile(kept) /\ text # None
      <4>1. F = ConfigFile(disk)
        BY <1>1, <1>2, <2>3 DEF WriteKeeps
      <4>2. Kind(c) = "write"
        <5>1. F \notin IgnoreFiles /\ F # RegistryFile
          BY <2>3, FileKinds
        <5> QED BY <1>1, <5>1, WriteTyped
      <4> QED BY <2>1, <4>1, <4>2
    <3>2. ConfigNames \subseteq DOMAIN kept
      BY FileKinds
    <3> QED BY <2>1, <3>1, <3>2, ConfigFileStays DEF Puts
  <2> QED BY <2>2, <2>3
<1>9. ASSUME NEW d \in Terminals
      PROVE  OpenAs(cmd'[d], disk', kept') /\ PlanKeeps(cmd'[d], disk', moved')
  <2>1. CASE d = c
    <3>1. OpenAs(k, disk', kept')
      BY <1>3 DEF OpenAs
    <3>2. PlanKeeps(k, disk', moved')
      BY <1>3, PlanStays
    <3> QED BY <1>4, <2>1, <3>1, <3>2
  <2>2. CASE d # c
    <3>1. OpenAs(cmd[d], disk, kept) /\ PlanKeeps(cmd[d], disk, moved)
      BY DEF Kept
    <3>2. PlanKeeps(cmd[d], disk', moved')
      BY <3>1, PlanStays
    <3>3. cmd[d].open => cmd[d].todo[1][2] # F /\ cmd[d].todo[1][2] \in StoreFiles
      <4>1. cmd[d].open => Working(d)
        BY IdleFacts DEF IInv, CommandsOK, CommandOK, Working
      <4> QED BY <2>2, <4>1, AtHand DEF IInv, File
    <3>4. OpenAs(cmd[d], disk', kept')
      <4>1. cmd[d].open =>
                /\ disk'[cmd[d].todo[1][2]] = disk[cmd[d].todo[1][2]]
                /\ kept'[cmd[d].todo[1][2]] = kept[cmd[d].todo[1][2]]
        BY <1>5, <3>3
      <4>2. cmd[d].open /\ cmd[d].req.op \in IgnoreOps =>
               IgnoreFile(disk', cmd[d].req.who) = IgnoreFile(disk, cmd[d].req.who)
        BY <2>2
      <4> QED BY <3>1, <4>1, <4>2, OpenStays
    <3> QED BY <1>4, <2>2, <3>2, <3>4
  <2> QED BY <2>1, <2>2
<1>10. LinksKept'
  <2>1. ASSUME NEW l \in placed, l.pkg \notin moved PROVE l \in Found(kept', l.pkg)
    <3> DEFINE p == l.pkg
    <3>1. p \in Packages /\ l \in Found(kept, p)
      BY <2>1 DEF Kept, LinksKept
    <3>2. p \notin Affected(F) \/ Harmless(w, cmd[c].base[F], disk)
      BY <1>1, <1>2, <2>1, <3>1 DEF WriteKeeps
    <3>3. p \notin Affected(F) \/ Harmless(w, cmd[c].base[F], kept)
      BY <3>2, LegacyKept, HarmlessStays
    <3>4. p \notin Affected(F) \/ Harmless(w, kept[F], kept)
      <4>1. CASE Kind(c) = "write"
        BY <3>3, <4>1
      <4>2. CASE Kind(c) # "write"
        BY <1>1, <3>3, <4>2 DEF Harmless
      <4> QED BY <4>1, <4>2
    <3>5. F \in ConfigNames => F = ConfigFile(kept)
      BY <1>1, <1>2 DEF WriteKeeps, Kept
    <3> HIDE DEF p
    <3>6. Found(kept, p) \subseteq Found(kept', p)
      BY <1>1, <3>1, <3>4, <3>5, WrittenFound
    <3> QED BY <3>1, <3>6 DEF p
  <2> QED BY <2>1, FoundLater DEF Kept, LinksKept
<1> QED BY <1>5, <1>6, <1>7, <1>8, <1>9, <1>10 DEF Kept

\* A step that changes no file and one command, which writes nothing before and after it.
LEMMA QuietKeeps ==
    ASSUME IInv, DOMAIN kept = StoreFiles, Kept, NEW c \in Terminals, ~cmd[c].open,
           NEW k, cmd' = [cmd EXCEPT ![c] = k], k.open = FALSE,
           UNCHANGED <<disk, kept>>, moved \subseteq moved', PlanKeeps(k, disk, moved'),
           LinksKept'
    PROVE  Kept'
<1>1. cmd'[c] = k /\ \A d \in Terminals \ {c} : cmd'[d] = cmd[d]
  BY DEF IInv, CommandsOK
<1>2. FilesKept'
  <2>1. ASSUME NEW f \in StoreFiles, kept[f] # disk[f]
        PROVE  \E d \in Terminals : cmd'[d].open /\ cmd'[d].todo[1][2] = f
    <3>1. PICK d \in Terminals : cmd[d].open /\ cmd[d].todo[1][2] = f
      BY <2>1 DEF Kept, FilesKept, IsOpen, Writing
    <3> QED BY <1>1, <3>1
  <2> QED BY <2>1 DEF FilesKept, IsOpen, Writing
<1>3. OneWriter'
  BY <1>1 DEF Kept, OneWriter, File
<1>4. ASSUME NEW d \in Terminals
      PROVE  OpenAs(cmd'[d], disk', kept') /\ PlanKeeps(cmd'[d], disk', moved')
  <2>1. CASE d = c
    <3>1. OpenAs(k, disk', kept')
      BY DEF OpenAs
    <3> QED BY <1>1, <2>1, <3>1
  <2>2. CASE d # c
    <3>1. OpenAs(cmd[d], disk, kept) /\ PlanKeeps(cmd[d], disk, moved)
      BY DEF Kept
    <3>2. PlanKeeps(cmd[d], disk, moved')
      BY <3>1 DEF PlanKeeps, WriteKeeps
    <3> QED BY <1>1, <2>2, <3>1, <3>2
  <2> QED BY <2>1, <2>2
<1> QED BY <1>2, <1>3, <1>4 DEF Kept

\* The links that are there stay where they are.
LEMMA SameLinks ==
    ASSUME Kept, UNCHANGED <<placed, kept, job>>, moved \subseteq moved'
    PROVE  LinksKept'
<1>1. ASSUME NEW l \in placed, l.pkg \notin moved' PROVE l \in Found(kept', l.pkg)
  <2>1. l.pkg \notin moved
    BY <1>1
  <2> QED BY <2>1 DEF Kept, LinksKept
<1> QED BY <1>1, FoundLater DEF Kept, LinksKept

\* A write that overlaps no other is of the file that was read and that is read now.
LEMMA NoOverlap ==
    ASSUME NEW c \in Terminals, Overlaps(c) = {}
    PROVE  /\ ~IsOpen(File(c))
           /\ Kind(c) = "write" => disk[File(c)] = cmd[c].base[File(c)]
           /\ cmd[c].req.op \in IgnoreOps => IgnoreFile(disk, cmd[c].req.who) = File(c)
BY DEF Overlaps

\* A file is opened to be written.
LEMMA TruncateKept ==
    ASSUME KeepInv, NEW c \in Terminals, Truncate(c)
    PROVE  KeepInv'
<1> SUFFICES ASSUME broken' = {} PROVE Kept'
  BY TruncateTyped DEF KeepInv, Truncate
<1> DEFINE F == File(c)
           k == [cmd[c] EXCEPT !.open = TRUE]
           w == cmd[c].todo[1]
<1>1. /\ Working(c) /\ Kind(c) = "write" /\ ~cmd[c].open /\ disk' = [disk EXCEPT ![F] = <<>>]
      /\ cmd' = [cmd EXCEPT ![c] = k] /\ UNCHANGED <<placed, moved, kept, job>>
      /\ broken = {} /\ Overlaps(c) = {}
  BY DEF Truncate
<1>2. IInv /\ Kept /\ DOMAIN disk = StoreFiles
  BY <1>1 DEF KeepInv, IInv, TextsOK
<1>3. /\ ~IsOpen(F) /\ disk[F] = cmd[c].base[F]
      /\ cmd[c].req.op \in IgnoreOps => IgnoreFile(disk, cmd[c].req.who) = F
  BY <1>1, NoOverlap
<1>4. /\ CommandOK(cmd[c]) /\ WriteOK(cmd[c].req, w) /\ cmd[c].todo # None
      /\ F \in StoreFiles /\ F = w[2] /\ 1 \in DOMAIN cmd[c].todo
  BY <1>1, <1>2, AtHand DEF IInv, File
<1>5. PlanKeeps(cmd[c], disk, moved) /\ WriteKeeps(w, cmd[c].base, disk, moved)
  BY <1>2, <1>4 DEF Kept, PlanKeeps
<1>6. /\ ConfigFile(disk') = ConfigFile(disk) /\ Legacy(disk, disk')
      /\ \A q \in Owners : IgnoreFile(disk', q) = IgnoreFile(disk, q)
  <2>1. Puts(disk, F, <<>>, disk')
    BY <1>1 DEF Puts
  <2>2. <<>> # None
    <3>1. <<>> \in Seq(ConfigLines)
      OBVIOUS
    <3> QED BY <3>1, ConfigAssumption
  <2>3. F \in ConfigNames => F = ConfigFile(disk)
    BY <1>4, <1>5 DEF WriteKeeps
  <2>4. PICK text : text # None /\ Puts(disk, F, text, disk')
    BY <2>1, <2>2
  <2>5. PICK r : WriteOK(r, w) /\ (r.op \in IgnoreOps => IgnoreFile(disk, r.who) = F)
    BY <1>3, <1>4
  <2> HIDE DEF F, w
  <2> QED BY <1>2, <1>4, <2>3, <2>4, <2>5, WhichFile
<1>7. k.open = TRUE /\ k.req = cmd[c].req /\ k.todo = cmd[c].todo /\ k.base = cmd[c].base
  BY <1>4 DEF CommandOK
<1> HIDE DEF k
<1>8. cmd'[c] = k /\ \A d \in Terminals \ {c} : cmd'[d] = cmd[d]
  BY <1>1, <1>2 DEF IInv, CommandsOK
<1>9. disk'[F] = <<>> /\ \A f \in StoreFiles : f # F => disk'[f] = disk[f]
  <2> HIDE DEF F
  <2> QED BY <1>1, <1>2, <1>4
<1>10. kept[F] = disk[F]
  BY <1>2, <1>3, <1>4 DEF Kept, FilesKept
<1>11. FilesKept'
  <2>1. ASSUME NEW f \in StoreFiles, f # F, kept[f] # disk[f]
        PROVE  \E d \in Terminals : cmd'[d].open /\ cmd'[d].todo[1][2] = f
    <3>1. PICK d \in Terminals : cmd[d].open /\ cmd[d].todo[1][2] = f
      BY <1>2, <2>1 DEF Kept, FilesKept, IsOpen, Writing
    <3>2. d # c
      BY <1>1, <3>1
    <3> QED BY <1>8, <3>1, <3>2
  <2>2. cmd'[c].open /\ cmd'[c].todo[1][2] = F
    BY <1>7, <1>8 DEF File
  <2> HIDE DEF F
  <2> QED BY <1>1, <1>9, <2>1, <2>2 DEF FilesKept, IsOpen, Writing
<1>12. OneWriter'
  <2>1. \A d \in Terminals : cmd[d].open => cmd[d].todo[1][2] # cmd[c].todo[1][2]
    BY <1>3 DEF IsOpen, Writing, File
  <2>2. \A d, e \in Terminals :
            cmd[d].open /\ cmd[e].open /\ cmd[d].todo[1][2] = cmd[e].todo[1][2] => d = e
    BY <1>2 DEF Kept, OneWriter, File
  <2> QED BY <1>7, <1>8, <2>1, <2>2 DEF OneWriter, File
<1>13. ConfigFile(kept') = ConfigFile(disk')
  BY <1>1, <1>2, <1>6 DEF Kept
<1>14. ASSUME NEW d \in Terminals
       PROVE  OpenAs(cmd'[d], disk', kept') /\ PlanKeeps(cmd'[d], disk', moved')
  <2>1. CASE d = c
    <3>1. OpenAs(k, disk', kept')
      <4>1. cmd[c].req.op \in IgnoreOps => cmd[c].req.who \in Owners
        BY <1>4 DEF WriteOK, Owners, IgnoreOps, ConfigOps, ManifestOps
      <4>2. k.todo[1][2] = F
        BY <1>7 DEF File
      <4> HIDE DEF F
      <4> QED BY <1>1, <1>3, <1>6, <1>7, <1>9, <1>10, <4>1, <4>2 DEF OpenAs
    <3>2. PlanKeeps(k, disk, moved)
      BY <1>5, <1>7 DEF PlanKeeps
    <3>3. PlanKeeps(k, disk', moved')
      BY <1>1, <1>6, <3>2, PlanStays
    <3> QED BY <1>8, <2>1, <3>1, <3>3
  <2>2. CASE d # c
    <3>1. OpenAs(cmd[d], disk, kept) /\ PlanKeeps(cmd[d], disk, moved)
      BY <1>2 DEF Kept
    <3>2. PlanKeeps(cmd[d], disk', moved')
      BY <1>1, <1>6, <3>1, PlanStays
    <3>3. cmd[d].open => /\ cmd[d].todo[1][2] # F /\ cmd[d].todo[1][2] \in StoreFiles
                         /\ WriteOK(cmd[d].req, cmd[d].todo[1])
      <4>1. cmd[d].open => Working(d)
        BY <1>2, IdleFacts DEF IInv, CommandsOK, CommandOK, Working
      <4>2. cmd[d].open => cmd[d].todo[1][2] # F
        BY <1>3 DEF IsOpen, Writing
      <4> QED BY <1>2, <4>1, <4>2, AtHand DEF IInv, File
    <3>4. cmd[d].open /\ cmd[d].req.op \in IgnoreOps => cmd[d].req.who \in Owners
      BY <3>3 DEF WriteOK, Owners, IgnoreOps, ConfigOps, ManifestOps
    <3>5. OpenAs(cmd[d], disk', kept')
      <4> HIDE DEF F
      <4>1. cmd[d].open => disk'[cmd[d].todo[1][2]] = disk[cmd[d].todo[1][2]]
        BY <1>9, <3>3
      <4> QED BY <1>1, <1>6, <3>1, <3>4, <4>1, OpenStays
    <3> QED BY <1>8, <2>2, <3>2, <3>5
  <2> QED BY <2>1, <2>2
<1>15. LinksKept'
  BY <1>1, <1>2, SameLinks
<1> QED BY <1>11, <1>12, <1>13, <1>14, <1>15 DEF Kept

\* What is known of a command that works while the promise holds.
LEMMA WorkKept ==
    ASSUME IInv, Kept, NEW c \in Terminals, Working(c)
    PROVE  LET w == cmd[c].todo[1] IN
           /\ File(c) = w[2] /\ Kind(c) = w[1] /\ Text(c) = w[3] /\ File(c) \in StoreFiles
           /\ CommandOK(cmd[c]) /\ WriteOK(cmd[c].req, w)
           /\ File(c) \in ConfigNames => File(c) = ConfigFile(disk)
           /\ cmd[c].req.op \in IgnoreOps => cmd[c].req.who \in Owners
           /\ \A d \in Terminals : cmd[d].open /\ cmd[d].req.op \in IgnoreOps =>
                  cmd[d].req.who \in Owners
<1> DEFINE w == cmd[c].todo[1]
<1>1. /\ CommandOK(cmd[c]) /\ WriteOK(cmd[c].req, w) /\ cmd[c].todo # None
      /\ File(c) \in StoreFiles /\ 1 \in DOMAIN cmd[c].todo
  BY AtHand DEF IInv
<1>2. WriteKeeps(w, cmd[c].base, disk, moved)
  BY <1>1 DEF Kept, PlanKeeps
<1>3. \A d \in Terminals : cmd[d] # Idle => RequestOK(cmd[d].req)
  BY DEF IInv, CommandsOK, CommandOK
<1>4. \A r : RequestOK(r) /\ r.op \in IgnoreOps => r.who \in Owners
  BY DEF RequestOK, Owners
<1>5. cmd[c] # Idle /\ \A d \in Terminals : cmd[d].open => cmd[d] # Idle
  BY IdleFacts DEF Working
<1> QED BY <1>1, <1>2, <1>3, <1>4, <1>5 DEF WriteKeeps, File, Kind, Text

\* A text that is not None.
LEMMA Texts ==
    ASSUME NEW f \in StoreFiles, f # RegistryFile, NEW text \in Seq(LinesOf(f))
    PROVE  text # None
<1>1. text \in Seq(ConfigLines) \/ text \in Seq(ManifestLines) \/ text \in Seq(Lines)
  BY LinesOfFiles DEF StoreFiles
<1> QED BY <1>1, ConfigAssumption, ManifestAssumption, IgnoreAssumption

\* A file that has been opened gets its text, and nothing else.
LEMMA FlushPuts ==
    ASSUME IInv, Kept, DOMAIN kept = StoreFiles, broken = {}, NEW c \in Terminals, Flush(c)
    PROVE  /\ Working(c) /\ cmd[c].open /\ Finish(c) /\ Kind(c) = "write"
           /\ File(c) \in StoreFiles /\ Text(c) # None
           /\ disk[File(c)] = <<>> /\ kept[File(c)] = cmd[c].base[File(c)]
           /\ cmd[c].req.op \in IgnoreOps => IgnoreFile(disk, cmd[c].req.who) = File(c)
           /\ Puts(disk, File(c), Text(c), disk') /\ Puts(kept, File(c), Text(c), kept')
<1> DEFINE F == File(c)
           text == Text(c)
<1>2. DOMAIN disk = StoreFiles
  BY DEF IInv, TextsOK
<1>3. /\ Working(c) /\ cmd[c].open /\ Finish(c) /\ Kind(c) = "write"
      /\ kept' = [kept EXCEPT ![F] = disk'[F]]
  BY DEF IInv, CommandsOK, CommandOK, Flush, Settle, Working, Kind
<1>4. /\ disk[F] = <<>> /\ kept[F] = cmd[c].base[F]
      /\ cmd[c].req.op \in IgnoreOps => IgnoreFile(disk, cmd[c].req.who) = F
  BY <1>3 DEF Kept, OpenAs, File
<1>5. text \in Seq(LinesOf(F)) /\ F \in StoreFiles /\ text # None
  <2>1. text \in Seq(LinesOf(F)) /\ F \in StoreFiles
    BY <1>3, AtHand DEF IInv
  <2>2. F # RegistryFile
    BY <1>3, WorkKept, RegistryAppended
  <2> QED BY <2>1, <2>2, Texts
<1>6. disk' = [disk EXCEPT ![F] = text]
  <2>1. PICK rest \in {<<>>} \union {SubSeq(disk[F], i, Len(disk[F])) :
                                        i \in Len(text) + 1 .. Len(disk[F])} :
            disk' = [disk EXCEPT ![F] = text \o rest]
    BY DEF Flush
  <2>2. rest = <<>>
    <3>1. Len(disk[F]) = 0
      BY <1>4
    <3>2. Len(text) \in Nat
      <4> HIDE DEF text, F
      <4> QED BY <1>5
    <3>3. Len(text) + 1 .. Len(disk[F]) = {}
      BY <3>1, <3>2
    <3> HIDE DEF text, F
    <3> QED BY <2>1, <3>3
  <2>3. text \o <<>> = text
    <3> HIDE DEF text, F
    <3> QED BY <1>5
  <2> QED BY <2>1, <2>2, <2>3
<1>7. Puts(disk, F, text, disk') /\ Puts(kept, F, text, kept')
  <2> HIDE DEF F, text
  <2> QED BY <1>2, <1>3, <1>5, <1>6 DEF Puts
<1> QED BY <1>3, <1>4, <1>5, <1>7

\* Then the promise is what it was.
LEMMA FlushKept ==
    ASSUME KeepInv, NEW c \in Terminals, Flush(c)
    PROVE  KeepInv'
<1>0. IInv' /\ broken \subseteq broken'
  BY FlushTyped DEF KeepInv, Flush
<1>1. DOMAIN kept' = StoreFiles /\ UNCHANGED <<placed, moved, job>>
  BY DEF KeepInv, Flush, Settle
<1> SUFFICES ASSUME broken = {} PROVE Kept'
  BY <1>0, <1>1 DEF KeepInv
<1> DEFINE F == File(c)
           text == Text(c)
<1>2. IInv /\ Kept /\ DOMAIN disk = StoreFiles /\ DOMAIN kept = StoreFiles
  BY DEF KeepInv, IInv, TextsOK
<1>3. /\ Working(c) /\ cmd[c].open /\ Finish(c) /\ Kind(c) = "write"
      /\ F \in StoreFiles /\ text # None
      /\ disk[F] = <<>> /\ kept[F] = cmd[c].base[F]
      /\ cmd[c].req.op \in IgnoreOps => IgnoreFile(disk, cmd[c].req.who) = F
      /\ Puts(disk, F, text, disk') /\ Puts(kept, F, text, kept')
  BY <1>2, FlushPuts
<1> HIDE DEF F, text
<1>8. /\ F \in ConfigNames => F = ConfigFile(disk)
      /\ F = cmd[c].todo[1][2] /\ WriteOK(cmd[c].req, cmd[c].todo[1])
      /\ \A d \in Terminals : cmd[d].open /\ cmd[d].req.op \in IgnoreOps =>
             cmd[d].req.who \in Owners
  BY <1>2, <1>3, WorkKept DEF F
<1>9. /\ ConfigFile(disk') = ConfigFile(disk) /\ Legacy(disk, disk')
      /\ \A q \in Owners : IgnoreFile(disk', q) = IgnoreFile(disk, q)
  <2>0. F \in ConfigNames => F = ConfigFile(disk)
    BY <1>8
  <2>1. PICK r, w : /\ WriteOK(r, w) /\ F = w[2]
                    /\ r.op \in IgnoreOps => IgnoreFile(disk, r.who) = F
    BY <1>3, <1>8
  <2>2. PICK new : (new = None => F = RegistryFile) /\ Puts(disk, F, new, disk')
    BY <1>3
  <2>3. PICK d, e : d = disk /\ e = disk' /\ DOMAIN d = StoreFiles
    BY <1>2
  <2>4. /\ ConfigFile(e) = ConfigFile(d) /\ Legacy(d, e)
        /\ \A q \in Owners : IgnoreFile(e, q) = IgnoreFile(d, q)
    BY <2>0, <2>1, <2>2, <2>3, WhichFile
  <2> QED BY <2>3, <2>4
<1>10. \A d \in Terminals : cmd[d].open /\ File(d) = F => d = c
  BY <1>2, <1>3 DEF Kept, OneWriter, F
<1> QED BY <1>1, <1>2, <1>3, <1>8, <1>9, <1>10, WriteEnds DEF F, text

\* A line is added to the file that is read.
LEMMA AppendPuts ==
    ASSUME IInv, Kept, DOMAIN kept = StoreFiles, NEW c \in Terminals,
           AppendStep(c) \/ Register(c), Overlaps(c) = {}
    PROVE  /\ Working(c) /\ Finish(c) /\ Kind(c) = "append" /\ ~IsOpen(File(c))
           /\ cmd[c].req.op \in IgnoreOps => IgnoreFile(disk, cmd[c].req.who) = File(c)
           /\ \E text : /\ text = None => File(c) = RegistryFile
                        /\ Puts(disk, File(c), text, disk') /\ Puts(kept, File(c), text, kept')
           /\ File(c) # RegistryFile =>
                 \E old \in Seq(Lines) :
                     /\ old = IF disk[File(c)] = None THEN <<>> ELSE disk[File(c)]
                     /\ Puts(kept, File(c), AppendLine(old, Text(c)), kept')
<1> DEFINE F == File(c)
           text == disk'[F]
           old == IF disk[F] = None THEN <<>> ELSE disk[F]
<1>2. DOMAIN disk = StoreFiles
  BY DEF IInv, TextsOK
<1>3. /\ Working(c) /\ Finish(c) /\ Kind(c) = "append"
      /\ kept' = [kept EXCEPT ![F] = disk'[F]]
  BY DEF AppendStep, Register, Settle
<1>4. /\ ~IsOpen(F)
      /\ cmd[c].req.op \in IgnoreOps => IgnoreFile(disk, cmd[c].req.who) = F
  BY NoOverlap
<1>5. F \in StoreFiles
  BY <1>3, WorkKept
<1>6. disk' = [disk EXCEPT ![F] = text]
  <2>1. PICK new : disk' = [disk EXCEPT ![F] = new]
    BY DEF AppendStep, Register
  <2>2. text = new
    <3> HIDE DEF F
    <3> QED BY <1>2, <1>5, <2>1
  <2> QED BY <2>1, <2>2
<1>7. ASSUME F # RegistryFile
      PROVE  text = AppendLine(old, Text(c)) /\ old \in Seq(Lines) /\ text # None
  <2>1. disk' = [disk EXCEPT ![F] = AppendLine(old, Text(c))]
    BY <1>7 DEF AppendStep, Register, Before
  <2>2. text = AppendLine(old, Text(c))
    <3> HIDE DEF F, old
    <3> QED BY <1>2, <1>5, <2>1
  <2>3. F \in IgnoreFiles /\ Text(c) \in Pats
    BY <1>3, <1>7, AtHand DEF IInv
  <2>4. old \in Seq(Lines)
    <3>1. disk[F] \in Seq(Lines) \union {None}
      BY <1>2, <1>5, <2>3, LinesOfFiles DEF IInv, TextsOK
    <3> HIDE DEF F
    <3> QED BY <3>1
  <2>5. text \in Seq(Lines)
    <3> HIDE DEF old, text, F
    <3> QED BY <2>2, <2>3, <2>4, AppendLineType
  <2> QED BY <2>2, <2>4, <2>5, IgnoreAssumption
<1> HIDE DEF F, text
<1>8. Puts(disk, F, text, disk') /\ Puts(kept, F, text, kept')
  BY <1>2, <1>3, <1>5, <1>6 DEF Puts, text
<1>9. F # RegistryFile =>
          \E line \in Seq(Lines) : /\ line = IF disk[F] = None THEN <<>> ELSE disk[F]
                                   /\ Puts(kept, F, AppendLine(line, Text(c)), kept')
  BY <1>7, <1>8
<1>10. \E new : /\ new = None => F = RegistryFile
                /\ Puts(disk, F, new, disk') /\ Puts(kept, F, new, kept')
  BY <1>7, <1>8
<1> QED BY <1>3, <1>4, <1>9, <1>10 DEF F

\* Then the promise is what it was.
LEMMA AppendKept ==
    ASSUME KeepInv, NEW c \in Terminals, AppendStep(c) \/ Register(c)
    PROVE  KeepInv'
<1>0. IInv' /\ broken' = broken \union Overlaps(c)
  BY AppendTyped DEF KeepInv, AppendStep, Register
<1>1. DOMAIN kept' = StoreFiles /\ UNCHANGED <<placed, moved, job>>
  BY DEF KeepInv, AppendStep, Register, Settle
<1> SUFFICES ASSUME broken = {}, Overlaps(c) = {} PROVE Kept'
  BY <1>0, <1>1 DEF KeepInv
<1> DEFINE F == File(c)
<1>2. IInv /\ Kept /\ DOMAIN disk = StoreFiles /\ DOMAIN kept = StoreFiles
  BY DEF KeepInv, IInv, TextsOK
<1>3. /\ Working(c) /\ Finish(c) /\ Kind(c) = "append" /\ ~IsOpen(F)
      /\ cmd[c].req.op \in IgnoreOps => IgnoreFile(disk, cmd[c].req.who) = F
  BY <1>2, AppendPuts
<1>4. PICK text : /\ text = None => F = RegistryFile
                  /\ Puts(disk, F, text, disk') /\ Puts(kept, F, text, kept')
  BY <1>2, AppendPuts
<1> HIDE DEF F
<1>8. /\ F \in ConfigNames => F = ConfigFile(disk)
      /\ F = cmd[c].todo[1][2] /\ WriteOK(cmd[c].req, cmd[c].todo[1])
      /\ \A d \in Terminals : cmd[d].open /\ cmd[d].req.op \in IgnoreOps =>
             cmd[d].req.who \in Owners
  BY <1>2, <1>3, WorkKept DEF F
<1>9. /\ ConfigFile(disk') = ConfigFile(disk) /\ Legacy(disk, disk')
      /\ \A q \in Owners : IgnoreFile(disk', q) = IgnoreFile(disk, q)
  <2>0. F \in ConfigNames => F = ConfigFile(disk)
    BY <1>8
  <2>1. PICK r, w : /\ WriteOK(r, w) /\ F = w[2]
                    /\ r.op \in IgnoreOps => IgnoreFile(disk, r.who) = F
    BY <1>3, <1>8
  <2>2. PICK new : (new = None => F = RegistryFile) /\ Puts(disk, F, new, disk')
    BY <1>4
  <2> QED BY <1>2, <2>0, <2>1, <2>2, WhichFile
<1>10. \A d \in Terminals : cmd[d].open /\ File(d) = F => d = c
  BY <1>3 DEF IsOpen, Writing, File
<1> QED BY <1>1, <1>2, <1>3, <1>4, <1>8, <1>9, <1>10, WriteEnds DEF F

\* An ignore file that is read is deleted.
LEMMA DeleteKept ==
    ASSUME KeepInv, NEW c \in Terminals, Delete(c)
    PROVE  KeepInv'
<1>0. IInv' /\ broken' = broken \union Overlaps(c) \union Undercuts
  BY DeleteTyped DEF KeepInv, Delete
<1>1. DOMAIN kept' = StoreFiles
  BY DEF KeepInv, Delete, Settle
<1> SUFFICES ASSUME broken = {}, Overlaps(c) = {} PROVE Kept'
  BY <1>0, <1>1 DEF KeepInv
<1> DEFINE F == File(c)
           mine == cmd[c].req.who
<1>2. IInv /\ Kept /\ DOMAIN disk = StoreFiles /\ DOMAIN kept = StoreFiles
  BY DEF KeepInv, IInv, TextsOK
<1>3. /\ Working(c) /\ Finish(c) /\ Kind(c) = "delete" /\ disk' = [disk EXCEPT ![F] = None]
      /\ kept' = [kept EXCEPT ![F] = disk'[F]] /\ UNCHANGED <<placed, moved, job>>
  BY DEF Delete, Settle
<1>4. /\ F \in StoreFiles /\ F \in IgnoreFiles /\ cmd[c].req.op \in IgnoreOps
      /\ \A d \in Terminals : cmd[d].open /\ cmd[d].req.op \in IgnoreOps =>
             cmd[d].req.who \in Owners
  <2>1. F \in IgnoreFiles
    BY <1>2, <1>3, AtHand DEF IInv
  <2>2. /\ cmd[c].req.op \in IgnoreOps /\ F \in StoreFiles
        /\ \A d \in Terminals : cmd[d].open /\ cmd[d].req.op \in IgnoreOps =>
               cmd[d].req.who \in Owners
    BY <1>2, <1>3, WorkKept DEF WriteOK
  <2> QED BY <2>1, <2>2
<1>5. ~IsOpen(F) /\ IgnoreFile(disk, mine) = F
  BY <1>4, NoOverlap
<1>6. Puts(disk, F, None, disk') /\ Puts(kept, F, None, kept')
  <2> HIDE DEF F
  <2> QED BY <1>2, <1>3, <1>4 DEF Puts
<1> HIDE DEF F, mine
<1>7. ConfigFile(disk') = ConfigFile(disk)
  <2>1. F \notin ConfigNames
    BY <1>4, FileKinds
  <2> QED BY <1>2, <1>6, <2>1, OtherConfig
<1>8. Legacy(disk, disk')
  <2>1. ASSUME NEW p \in Packages PROVE disk'[<<p, ".stowdeps">>] = disk[<<p, ".stowdeps">>]
    <3>1. <<p, ".stowdeps">> \in DOMAIN disk /\ <<p, ".stowdeps">> \in ManifestFiles
      BY <1>2, FileKinds DEF ManifestFiles
    <3>2. <<p, ".stowdeps">> # F
      BY <1>4, <3>1, FileKinds
    <3> QED BY <1>6, <3>1, <3>2 DEF Puts
  <2>2. ASSUME NEW q \in Owners, disk[<<q, ".stowignore">>] = None
        PROVE  disk'[<<q, ".stowignore">>] = None
    <3>1. <<q, ".stowignore">> \in DOMAIN disk
      BY <1>2, FileKinds DEF IgnoreFiles, Owners
    <3> QED BY <1>6, <2>2, <3>1 DEF Puts
  <2> QED BY <2>1, <2>2 DEF Legacy
<1>9. ASSUME NEW d \in Terminals \ {c}, cmd[d].open, cmd[d].req.op \in IgnoreOps
      PROVE  IgnoreFile(disk', cmd[d].req.who) = IgnoreFile(disk, cmd[d].req.who)
  <2> DEFINE q == cmd[d].req.who
  <2>1. q \in Owners
    BY <1>4, <1>9
  <2>2. IgnoreFile(disk, q) # F
    <3>1. IgnoreFile(disk, q) = cmd[d].todo[1][2]
      BY <1>2, <1>9 DEF Kept, OpenAs
    <3> QED BY <1>5, <1>9, <3>1 DEF IsOpen, Writing
  <2> HIDE DEF q
  <2>3. q # mine
    BY <1>5, <2>2
  <2>4. F # <<q, ".symignore">> /\ F # <<q, ".stowignore">>
    BY <1>5, <2>3 DEF IgnoreFile
  <2>5. IgnoreFile(disk', q) = IgnoreFile(disk, q)
    BY <1>2, <1>6, <2>1, <2>4, OtherRules
  <2> QED BY <2>5 DEF q
<1>10. \A d \in Terminals : cmd[d].open /\ File(d) = F => d = c
  BY <1>5 DEF IsOpen, Writing, File
<1>11. PICK text : text = None /\ Puts(disk, F, text, disk') /\ Puts(kept, F, text, kept')
  BY <1>6
<1> QED BY <1>2, <1>3, <1>7, <1>8, <1>9, <1>10, <1>11, WriteEnds DEF F

\* A command is started.
LEMMA AskKept ==
    ASSUME KeepInv, NEW c \in Terminals, Ask(c)
    PROVE  KeepInv'
<1> SUFFICES ASSUME broken = {} PROVE Kept'
  BY AskTyped DEF KeepInv, Ask
<1>1. PICK r : cmd' = [cmd EXCEPT ![c] = Command(r)]
  BY DEF Ask
<1>2. Command(r).open = FALSE /\ PlanKeeps(Command(r), disk, moved')
  BY DEF Command, PlanKeeps
<1>3. ~cmd[c].open /\ UNCHANGED <<disk, placed, moved, kept, job>>
  BY IdleFacts DEF Ask
<1>4. LinksKept'
  BY <1>3, SameLinks DEF KeepInv
<1> QED BY <1>1, <1>2, <1>3, <1>4, QuietKeeps DEF KeepInv

\* A file cannot be opened, the file system is full, a command is killed.
LEMMA FailuresKept ==
    ASSUME KeepInv, NEW c \in Terminals,
           FlushFails(c) \/ AppendFails(c) \/ OpenFails(c) \/ Kill(c)
    PROVE  KeepInv'
<1>1. IInv' /\ DOMAIN kept' = StoreFiles
  <2>1. IInv'
    BY OthersTyped, AppendTyped DEF KeepInv
  <2>2. DOMAIN kept' = StoreFiles
    BY DEF KeepInv, FlushFails, AppendFails, OpenFails, Kill, Settle
  <2> QED BY <2>1, <2>2
<1> SUFFICES ASSUME broken' = {} PROVE Kept'
  BY <1>1 DEF KeepInv
<1>2. /\ Working(c) /\ ~cmd[c].open /\ broken = {} /\ UNCHANGED <<disk, placed, moved, kept, job>>
      /\ Finish(c) \/ \E answer : End(c, answer)
  BY DEF FlushFails, AppendFails, OpenFails, Kill
<1>3. IInv /\ Kept /\ DOMAIN kept = StoreFiles
  BY <1>2 DEF KeepInv
<1>4. PICK k : cmd' = [cmd EXCEPT ![c] = k] /\ k.open = FALSE /\ PlanKeeps(k, disk, moved)
  <2>1. CASE Finish(c)
    <3>1. PlanKeeps(cmd[c], disk, moved)
      BY <1>3 DEF Kept
    <3> QED BY <1>2, <1>3, <2>1, <3>1, FinishKeeps DEF IInv
  <2>2. ASSUME NEW answer, End(c, answer)
        PROVE  cmd' = [cmd EXCEPT ![c] = Idle] /\ PlanKeeps(Idle, disk, moved)
    BY <2>2, IdleFacts DEF End, PlanKeeps
  <2> QED BY <1>2, <2>1, <2>2, IdleFacts
<1>5. LinksKept'
  BY <1>2, <1>3, SameLinks
<1> QED BY <1>2, <1>3, <1>4, <1>5, QuietKeeps

\* Disks come and go; nothing happens.
LEMMA StillKept ==
    ASSUME KeepInv, Mount \/ UNCHANGED vars
    PROVE  KeepInv'
<1>1. UNCHANGED <<disk, cmd, placed, moved, broken, kept, job>> /\ IInv'
  <2>1. UNCHANGED <<disk, cmd, placed, moved, broken, kept, job>>
    BY DEF Mount, vars
  <2> QED BY <2>1, StillTyped DEF KeepInv
<1>2. ASSUME broken = {} PROVE Kept'
  <2>1. Kept
    BY <1>2 DEF KeepInv
  <2>2. LinksKept'
    BY <1>1, <2>1, SameLinks
  <2>3. FilesKept' /\ OneWriter'
    BY <1>1, <2>1 DEF Kept, FilesKept, OneWriter, IsOpen, Writing, File
  <2> QED BY <1>1, <2>1, <2>2, <2>3 DEF Kept
<1> QED BY <1>1, <1>2 DEF KeepInv

-----------------------------------------------------------------------------
(* What is planned loses no link *)

\* A request that does not break the promise.
LEMMA Unbroken ==
    ASSUME NEW r, NEW plan, plan.answer # "failed", Breaks(r, plan) = {}
    PROVE  /\ \A f \in Reads(r) : ~IsOpen(f)
           /\ r.op \in ConfigOps => ~SomeAbsent
           /\ r.op \in {"scan -i", "scan -y"} => Bundled \subseteq Tools
           /\ r.op = "create" => ~HasManifest(disk, r.who)
           /\ r.op = "ignore clear" => \/ disk[<<r.who, ".symignore">>] = None
                                       \/ disk[<<r.who, ".stowignore">>] = None
           /\ r.op \in {"set source", "add source"} => r.arg \notin DOMAIN Pieces
           /\ r.op \in {"ignore add", "ignore remove"} => Uncomment(r.arg) = r.arg
           /\ LET text == disk[IgnoreFile(disk, r.who)] IN
              /\ r.op = "ignore add" => text \in {None, <<>>} \/ ~Last(text).open
              /\ r.op = "ignore remove" => \/ text = None
                                           \/ r.arg \notin Patterns(RemoveLines(text, r.arg))
<1> DEFINE text == disk[IgnoreFile(disk, r.who)]
           breach ==
              [overlap |-> \E f \in Reads(r) : IsOpen(f),
               absent  |-> r.op \in ConfigOps /\ SomeAbsent,
               hidden  |-> r.op \in {"scan -i", "scan -y"} /\ ~(Bundled \subseteq Tools),
               colon   |-> r.op \in {"set source", "add source"} /\ r.arg \in DOMAIN Pieces,
               created |-> r.op = "create" /\ HasManifest(disk, r.who),
               hash    |-> r.op \in {"ignore add", "ignore remove"} /\ Uncomment(r.arg) # r.arg,
               glued   |-> r.op = "ignore add" /\ text \notin {None, <<>>} /\ Last(text).open,
               note    |-> r.op = "ignore remove" /\ text # None
                               /\ r.arg \in Patterns(RemoveLines(text, r.arg)),
               legacy  |-> r.op = "ignore clear" /\ disk[<<r.who, ".symignore">>] # None
                               /\ disk[<<r.who, ".stowignore">>] # None]
<1>1. Breaks(r, plan) = {b \in DOMAIN breach : breach[b]}
  BY DEF Breaks
<1>2. /\ {"overlap", "absent", "hidden", "colon", "created", "hash", "glued", "note", "legacy"}
            \subseteq DOMAIN breach
      /\ breach["overlap"] = (\E f \in Reads(r) : IsOpen(f))
      /\ breach["absent"] = (r.op \in ConfigOps /\ SomeAbsent)
      /\ breach["hidden"] = (r.op \in {"scan -i", "scan -y"} /\ ~(Bundled \subseteq Tools))
      /\ breach["created"] = (r.op = "create" /\ HasManifest(disk, r.who))
      /\ breach["legacy"] = (/\ r.op = "ignore clear" /\ disk[<<r.who, ".symignore">>] # None
                             /\ disk[<<r.who, ".stowignore">>] # None)
      /\ breach["colon"] = (r.op \in {"set source", "add source"} /\ r.arg \in DOMAIN Pieces)
      /\ breach["hash"] =
            (r.op \in {"ignore add", "ignore remove"} /\ Uncomment(r.arg) # r.arg)
      /\ breach["glued"] =
            (r.op = "ignore add" /\ text \notin {None, <<>>} /\ Last(text).open)
      /\ breach["note"] = (/\ r.op = "ignore remove" /\ text # None
                           /\ r.arg \in Patterns(RemoveLines(text, r.arg)))
  OBVIOUS
<1> HIDE DEF breach
<1>3. /\ ~breach["overlap"] /\ ~breach["absent"] /\ ~breach["created"] /\ ~breach["legacy"]
      /\ ~breach["colon"] /\ ~breach["hash"] /\ ~breach["glued"] /\ ~breach["note"]
      /\ ~breach["hidden"]
  BY <1>1, <1>2
<1> QED BY <1>2, <1>3

\* All writes of a plan.
AllKeep(todo, gone) == \A i \in DOMAIN todo : WriteKeeps(todo[i], disk, disk, gone)

\* What a plan is made of.
LEMMA PlanFields ==
    ASSUME NEW todo
    PROVE  Plan(todo).todo = todo /\ Plan(todo).answer = "done"
BY DEF Plan

\* The elements of a sequence with one more behind it.
LEMMA BehindIt ==
    ASSUME NEW T, NEW s \in Seq(T), NEW e
    PROVE  \A i \in DOMAIN (s \o <<e>>) :
               \/ i \in DOMAIN s /\ (s \o <<e>>)[i] = s[i]
               \/ (s \o <<e>>)[i] = e
<1> DEFINE U == T \union {e}
<1>1. s \in Seq(U) /\ <<e>> \in Seq(U)
  <2>1. \A i \in 1 .. Len(s) : s[i] \in U
    OBVIOUS
  <2> QED BY <2>1
<1>2. Len(<<e>>) = 1 /\ <<e>>[1] = e
  OBVIOUS
<1> HIDE DEF U
<1>3. s \o <<e>> \in Seq(U) /\ Len(s \o <<e>>) = Len(s) + 1
  BY <1>1, <1>2
<1>4. DOMAIN (s \o <<e>>) = 1 .. Len(s) + 1 /\ DOMAIN s = 1 .. Len(s) /\ Len(s) \in Nat
  BY <1>1, <1>3
<1>5. \A i \in 1 .. Len(s) : (s \o <<e>>)[i] = s[i]
  BY <1>1, <1>2
<1>6. (s \o <<e>>)[Len(s) + 1] = e
  BY <1>1, <1>2
<1> QED BY <1>4, <1>5, <1>6

\* A plan of one write.
LEMMA OneKeeps ==
    ASSUME NEW w, NEW gone, WriteKeeps(w, disk, disk, gone)
    PROVE  AllKeep(<<w>>, gone)
<1>1. DOMAIN <<w>> = {1} /\ <<w>>[1] = w
  OBVIOUS
<1> QED BY <1>1 DEF AllKeep

\* The edits of the configuration.
LEMMA ConfigKeeps ==
    ASSUME TextsOK, NEW r, RequestOK(r), r.op \in ConfigOps, NEW plan, plan = ConfigPlan(r),
           plan.todo # <<>>, Breaks(r, plan) = {}
    PROVE  AllKeep(plan.todo, Moves(r, plan))
<1> DEFINE old == disk[ConfigFile(disk)]
           w == <<"write", ConfigFile(disk), ConfigText(Edited(r))>>
<1>1. plan = Plan(<<w>>)
  BY ConfigPlanShape DEF Said
<1>2. plan.todo = <<w>> /\ plan.answer = "done"
  BY <1>1 DEF Plan
<1>3. ~SomeAbsent
  BY <1>2, Unbroken
<1>4. ConfigFile(disk) \in ConfigNames
  BY ConfigFileNamed
<1>5. ConfigOK(TheConfig) /\ old \in Seq(ConfigLines) \union {None}
  BY TheConfigType
<1>6. CASE \/ r.op \in {"set source", "remove dir", "target"}
           \/ r.op = "add source" /\ TheConfig.dirs = <<>>
  <2>1. Moves(r, plan) = Packages
    BY <1>6 DEF Moves
  <2>2. WriteKeeps(w, disk, disk, Moves(r, plan))
    BY <1>4, <2>1 DEF WriteKeeps, Affected
  <2> HIDE DEF w
  <2> QED BY <1>2, <2>2, OneKeeps
<1>7. CASE \/ r.op \in {"manager", "elevation"}
           \/ r.op = "add source" /\ TheConfig.dirs # <<>>
  <2> DEFINE new == Edited(r)
  <2>1. /\ new.target = TheConfig.target
        /\ TheConfig.dirs = <<>> <=> new.dirs = <<>>
        /\ TheConfig.dirs # <<>> => new.dirs[1] = TheConfig.dirs[1]
    <3>1. PICK d : new = ConfigEdit(r, TheConfig, d)
      BY DEF Edited
    <3>2. KeepsDirs(r, TheConfig)
      BY <1>7 DEF KeepsDirs
    <3> HIDE DEF new
    <3> QED BY <1>5, <3>1, <3>2, ConfigEditKeeps
  <2>2. ConfigOK(new)
    BY <1>5, ConfigEditType DEF Edited
  <2>3. LoadConfig(old, Directories) = TheConfig
    BY <1>3 DEF SomeAbsent
  <2>4. SameDirs(old, ConfigText(new))
    <3> HIDE DEF new, old
    <3> QED BY <1>5, <2>1, <2>2, <2>3, SaveKeepsDirs
  <2>5. Harmless(w, disk[w[2]], disk)
    BY <1>4, <2>4 DEF Harmless
  <2>6. WriteKeeps(w, disk, disk, Moves(r, plan))
    BY <2>5 DEF WriteKeeps
  <2> HIDE DEF w
  <2> QED BY <1>2, <2>6, OneKeeps
<1> QED BY <1>6, <1>7 DEF ConfigOps

\* A manifest that is saved with the target it had, or that is given another one.
LEMMA ManifestKeeps ==
    ASSUME NEW p \in Packages, NEW m, ManifestOK(m), NEW gone,
           \/ m.target = LoadManifest(disk, p).target
           \/ gone = IF p = "" THEN Packages ELSE {p}
    PROVE  WriteKeeps(<<"write", <<p, ".symdeps">>, ManifestText(m)>>, disk, disk, gone)
<1> DEFINE F == <<p, ".symdeps">>
           w == <<"write", F, ManifestText(m)>>
<1>1. F \in ManifestFiles /\ F \notin ConfigNames /\ F[1] = p
  <2>1. F \in ManifestFiles
    BY DEF ManifestFiles
  <2> QED BY <2>1, FileKinds
<1>2. CASE gone = IF p = "" THEN Packages ELSE {p}
  BY <1>1, <1>2 DEF WriteKeeps, Affected
<1>3. CASE m.target = LoadManifest(disk, p).target
  <2>1. LastValue(ManifestText(m), "TARGET") = ListedTarget(disk, p)
    BY <1>3, ManifestTextFacts, ManifestTarget
  <2>2. Harmless(w, disk[F], disk)
    BY <1>1, <2>1 DEF Harmless, ListedTarget
  <2> QED BY <1>1, <2>2 DEF WriteKeeps
<1> QED BY <1>2, <1>3

\* The edits of a manifest, ...
LEMMA ManifestPlanKeeps ==
    ASSUME TextsOK, NEW r, RequestOK(r), r.op \in ManifestOps \ {"scan -i", "scan -y"},
           NEW plan, plan = ManifestPlan(r), plan.todo # <<>>, Breaks(r, plan) = {}
    PROVE  AllKeep(plan.todo, Moves(r, plan))
<1>1. PICK m : /\ ManifestOK(m) /\ plan = Plan(SaveManifest(r.who, m))
               /\ r.op = "create" => m.target = None
               /\ r.op \notin {"create", "deps target"} =>
                      m.target = LoadManifest(disk, r.who).target
  BY ManifestPlanShape
<1> DEFINE w == <<"write", <<r.who, ".symdeps">>, ManifestText(m)>>
<1>2. plan.todo = <<w>> /\ plan.answer = "done" /\ r.who \in Packages
  <2>1. r.who \in Packages
    BY DEF RequestOK
  <2>2. plan.todo = SaveManifest(r.who, m) /\ plan.answer = "done"
    BY <1>1, PlanFields
  <2> QED BY <2>1, <2>2 DEF SaveManifest
<1>3. r.op # "deps target" => m.target = LoadManifest(disk, r.who).target
  <2>1. r.op = "create" => LoadManifest(disk, r.who).target = None
    <3>1. r.op = "create" => ~HasManifest(disk, r.who)
      BY <1>2, Unbroken
    <3> QED BY <3>1 DEF LoadManifest, EmptyManifest
  <2> QED BY <1>1, <2>1
<1>4. r.op = "deps target" => Moves(r, plan) = IF r.who = "" THEN Packages ELSE {r.who}
  BY DEF Moves
<1>5. WriteKeeps(w, disk, disk, Moves(r, plan))
  BY <1>1, <1>2, <1>3, <1>4, ManifestKeeps
<1> HIDE DEF w
<1> QED BY <1>2, <1>5, OneKeeps

\* ... a scan, ...
LEMMA ScanPlanKeeps ==
    ASSUME TextsOK, NEW r, RequestOK(r), r.op \in {"scan -i", "scan -y"},
           NEW picked, Picked(r, picked), NEW plan, plan = ScanPlan(r, picked),
           plan.todo # <<>>, NEW gone
    PROVE  AllKeep(plan.todo, gone)
<1>1. plan # Said("nothing")
  <2>1. Said("nothing").todo = <<>>
    BY DEF Said
  <2> QED BY <2>1
<1>2. PICK first, m : /\ Writes(r, first) /\ \A i \in DOMAIN first : first[i][2] = RegistryFile
                      /\ ManifestOK(m) /\ m.target = LoadManifest(disk, r.who).target
                      /\ plan = Plan(first \o SaveManifest(r.who, m))
  BY <1>1, ScanPlanShape
<1> DEFINE w == <<"write", <<r.who, ".symdeps">>, ManifestText(m)>>
<1>3. plan.todo = first \o <<w>> /\ r.who \in Packages
  <2>1. r.who \in Packages
    BY DEF RequestOK, ManifestOps
  <2>2. plan.todo = first \o SaveManifest(r.who, m)
    BY <1>2, PlanFields
  <2> QED BY <2>1, <2>2 DEF SaveManifest
<1>4. WriteKeeps(w, disk, disk, gone)
  BY <1>2, <1>3, ManifestKeeps
<1>5. \A e : e[2] = RegistryFile => WriteKeeps(e, disk, disk, gone)
  <2>1. RegistryFile \notin ConfigNames
    BY FileKinds
  <2> QED BY <2>1 DEF WriteKeeps, Harmless
<1> HIDE DEF w
<1>6. \A i \in DOMAIN (first \o <<w>>) :
          \/ i \in DOMAIN first /\ (first \o <<w>>)[i] = first[i]
          \/ (first \o <<w>>)[i] = w
  <2>1. first \in Seq(ToSet(first))
    BY <1>2 DEF Writes
  <2> QED BY <2>1, BehindIt
<1> QED BY <1>2, <1>3, <1>4, <1>5, <1>6 DEF AllKeep

\* Whatever is picked.
LEMMA ScansKeep ==
    ASSUME NEW r, NEW plan, TextsOK, RequestOK(r), r.op \in {"scan -i", "scan -y"}, Runs,
           plan \in Plans(r), plan.todo # <<>>, NEW gone
    PROVE  AllKeep(plan.todo, gone)
<1>1. ScanPlanned(r, plan)
  BY PlansPick, Zenon
<1>2. PICK picked : Picked(r, picked) /\ plan = ScanPlan(r, picked)
  BY <1>1, Zenon DEF ScanPlanned
<1> QED BY <1>2, ScanPlanKeeps, Zenon

\* ... and the edits of an ignore file.
LEMMA IgnorePlanKeeps ==
    ASSUME TextsOK, NEW r, RequestOK(r), r.op \in IgnoreOps,
           NEW plan, plan = IgnorePlan(r), plan.todo # <<>>, plan.answer = "done",
           Breaks(r, plan) = {}
    PROVE  AllKeep(plan.todo, Moves(r, plan))
<1> DEFINE file == IgnoreFile(disk, r.who)
           text == disk[file]
<1>1. r.who \in Owners /\ file \in IgnoreFiles /\ text \in Seq(Lines) \union {None}
  <2>1. r.who \in Owners
    BY DEF RequestOK, Owners
  <2>2. file \in IgnoreFiles
    BY <2>1 DEF IgnoreFile, IgnoreFiles, Owners
  <2> QED BY <2>1, <2>2, IgnoreTexts
<1>2. CASE r.op \in {"ignore init", "ignore add"}
  <2>1. Moves(r, plan) = IF r.who = "" THEN Packages ELSE {r.who}
    BY <1>2 DEF Moves
  <2>2. ASSUME NEW i \in DOMAIN plan.todo
        PROVE  WriteKeeps(plan.todo[i], disk, disk, Moves(r, plan))
    <3> DEFINE F == plan.todo[i][2]
    <3>1. F = <<r.who, ".symignore">> \/ F = <<r.who, ".stowignore">>
      <4>1. WriteOK(r, plan.todo[i])
        BY IgnorePlanShape DEF PlanOK, Writes
      <4> QED BY <4>1 DEF WriteOK, IgnoreOps, ConfigOps, ManifestOps
    <3>2. F \in IgnoreFiles /\ F[1] = r.who
      <4>1. <<r.who, ".symignore">> \in IgnoreFiles /\ <<r.who, ".stowignore">> \in IgnoreFiles
        BY <1>1 DEF IgnoreFiles, Owners
      <4> QED BY <3>1, <4>1
    <3>3. F \notin ConfigNames
      BY <3>2, FileKinds
    <3> QED BY <2>1, <3>2, <3>3 DEF WriteKeeps, Affected
  <2> QED BY <2>2 DEF AllKeep
<1>3. CASE r.op = "ignore remove"
  <2> DEFINE w == <<"write", file, RemoveLines(text, r.arg)>>
  <2>1. text # None /\ plan.todo = <<w>>
    BY <1>3, IgnorePlanShape
  <2>2. Harmless(w, text, disk)
    BY <1>1, <2>1, RemoveLinesType DEF Harmless
  <2>3. WriteKeeps(w, disk, disk, Moves(r, plan))
    BY <1>1, <2>2, FileKinds DEF WriteKeeps
  <2> HIDE DEF w
  <2> QED BY <2>1, <2>3, OneKeeps
<1>4. CASE r.op = "ignore clear"
  <2> DEFINE w == <<"delete", file, None>>
  <2>1. text # None /\ plan.todo = <<w>>
    BY <1>4, IgnorePlanShape
  <2>2. ~Hides(file, disk)
    <3>1. \/ disk[<<r.who, ".symignore">>] = None
          \/ disk[<<r.who, ".stowignore">>] = None
      BY <1>4, Unbroken
    <3>2. CASE file = <<r.who, ".symignore">>
      <4>1. disk[<<r.who, ".symignore">>] # None
        BY <2>1, <3>2
      <4>2. disk[<<r.who, ".stowignore">>] = None
        BY <3>1, <4>1
      <4> HIDE DEF file
      <4> QED BY <3>2, <4>2 DEF Hides
    <3>3. CASE file = <<r.who, ".stowignore">>
      <4> HIDE DEF file
      <4> QED BY <3>3 DEF Hides
    <3> QED BY <3>2, <3>3 DEF IgnoreFile
  <2>3. WriteKeeps(w, disk, disk, Moves(r, plan))
    BY <1>1, <2>2, FileKinds DEF WriteKeeps, Harmless
  <2> HIDE DEF w
  <2> QED BY <2>1, <2>3, OneKeeps
<1> QED BY <1>2, <1>3, <1>4 DEF IgnoreOps

\* What is planned for an ignore file is done.
LEMMA IgnorePlanDone ==
    ASSUME NEW r
    PROVE  IgnorePlan(r).todo # <<>> => IgnorePlan(r).answer = "done"
<1>1. IgnorePlan(r) = Said("nothing") \/ \E todo : IgnorePlan(r) = Plan(todo)
  BY Zenon DEF IgnorePlan
<1>2. Said("nothing").todo = <<>>
  BY DEF Said
<1> QED BY <1>1, <1>2, PlanFields

\* No plan loses a link but those of the packages it moves.
LEMMA PlannedKeep ==
    ASSUME TextsOK, NEW r, RequestOK(r), r.op \notin LinkOps, NEW plan \in Plans(r),
           plan.todo # <<>>, Breaks(r, plan) = {}
    PROVE  AllKeep(plan.todo, Moves(r, plan))
<1> USE DEF ConfigOps, ManifestOps, IgnoreOps, LinkOps
<1>1. CASE r.op \in ConfigOps
  <2>1. plan = ConfigPlan(r)
    BY <1>1 DEF Plans
  <2> QED BY <1>1, <2>1, ConfigKeeps
<1>2. CASE r.op \notin ConfigOps /\ ~Runs
  <2>1. plan = Said("failed")
    BY <1>2 DEF Plans
  <2> QED BY <2>1 DEF Said
<1>3. CASE r.op \in {"scan -i", "scan -y"} /\ Runs
  BY <1>3, ScansKeep, Zenon
<1>5. CASE r.op \in ManifestOps \ {"scan -i", "scan -y"} /\ Runs
  <2>1. plan = ManifestPlan(r)
    BY <1>5 DEF Plans
  <2> QED BY <1>5, <2>1, ManifestPlanKeeps
<1>6. CASE r.op \in IgnoreOps /\ Runs
  <2>1. plan = IgnorePlan(r)
    BY <1>6 DEF Plans
  <2> QED BY <1>6, <2>1, IgnorePlanKeeps, IgnorePlanDone
<1> QED BY <1>1, <1>2, <1>3, <1>5, <1>6 DEF RequestOK

\* A command reads its stores and plans its writes.
LEMMA LoadKept ==
    ASSUME KeepInv, NEW c \in Terminals, Load(c)
    PROVE  KeepInv'
<1> SUFFICES ASSUME broken' = {} PROVE Kept'
  BY LoadTyped DEF KeepInv, Load
<1> DEFINE r == cmd[c].req
<1>1. /\ CommandOK(cmd[c]) /\ r.op \notin LinkOps /\ ~cmd[c].open
      /\ UNCHANGED <<disk, placed, kept, job>>
  BY DEF KeepInv, IInv, CommandsOK, CommandOK, Load, Starting
<1>2. PICK plan \in Plans(r) :
          /\ IF plan.todo = <<>> THEN End(c, plan.answer)
             ELSE cmd' = [cmd EXCEPT
                              ![c].todo = plan.todo,
                              ![c].base = [f \in {plan.todo[i][2] : i \in DOMAIN plan.todo} |->
                                               disk[f]]]
          /\ broken' = broken \union Breaks(r, plan)
          /\ moved' = moved \union Moves(r, plan)
  BY DEF Load
<1>3. broken = {} /\ Breaks(r, plan) = {} /\ moved \subseteq moved'
  BY <1>2
<1>4. IInv /\ Kept /\ DOMAIN kept = StoreFiles
  BY <1>3 DEF KeepInv
<1>5. LinksKept'
  BY <1>1, <1>3, <1>4, SameLinks
<1>6. CASE plan.todo = <<>>
  <2>1. cmd' = [cmd EXCEPT ![c] = Idle]
    BY <1>2, <1>6 DEF End
  <2>2. PlanKeeps(Idle, disk, moved')
    BY IdleFacts DEF PlanKeeps
  <2> QED BY <1>1, <1>3, <1>4, <1>5, <2>1, <2>2, IdleFacts, QuietKeeps
<1>7. CASE plan.todo # <<>>
  <2> DEFINE base == [f \in {plan.todo[i][2] : i \in DOMAIN plan.todo} |-> disk[f]]
             k == [cmd[c] EXCEPT !.todo = plan.todo, !.base = base]
  <2>1. \A i \in DOMAIN plan.todo : base[plan.todo[i][2]] = disk[plan.todo[i][2]]
    OBVIOUS
  <2>2. cmd' = [cmd EXCEPT ![c] = k]
    <3> HIDE DEF base
    <3>1. cmd' = [cmd EXCEPT ![c].todo = plan.todo, ![c].base = base]
      BY <1>2, <1>7 DEF base
    <3> QED BY <1>4, <3>1 DEF IInv, CommandsOK
  <2> HIDE DEF base
  <2>3. k.todo = plan.todo /\ k.base = base /\ k.open = FALSE
    BY <1>1 DEF CommandOK, Load, Starting
  <2> HIDE DEF k
  <2>4. AllKeep(plan.todo, Moves(r, plan))
    <3>1. PICK q : q = r /\ RequestOK(q) /\ q.op \notin LinkOps /\ plan \in Plans(q)
      BY <1>1, <1>2 DEF CommandOK
    <3> QED BY <1>3, <1>4, <1>7, <3>1, PlannedKeep DEF IInv
  <2>5. PlanKeeps(k, disk, moved')
    <3>1. ASSUME NEW i \in DOMAIN plan.todo
          PROVE  WriteKeeps(plan.todo[i], base, disk, moved')
      <4>1. WriteKeeps(plan.todo[i], disk, disk, Moves(r, plan))
        BY <2>4, <3>1 DEF AllKeep
      <4>2. Moves(r, plan) \subseteq moved'
        BY <1>2
      <4> QED BY <2>1, <3>1, <4>1, <4>2 DEF WriteKeeps
    <3> QED BY <2>3, <3>1 DEF PlanKeeps
  <2> QED BY <1>1, <1>3, <1>4, <1>5, <2>2, <2>3, <2>5, QuietKeeps
<1> QED BY <1>6, <1>7

-----------------------------------------------------------------------------
(* Links are made where they are looked for *)

\* A file that nobody writes, and one that is not there, is what it was.
LEMMA ReadAsKept ==
    ASSUME IInv, Kept, NEW f \in StoreFiles
    PROVE  (~IsOpen(f) => kept[f] = disk[f]) /\ (disk[f] = None => kept[f] = None)
<1>1. ASSUME IsOpen(f) PROVE disk[f] # None
  <2>1. PICK c \in Terminals : cmd[c].open /\ cmd[c].todo[1][2] = f
    BY <1>1 DEF IsOpen, Writing
  <2>2. disk[f] = <<>>
    BY <2>1 DEF Kept, OpenAs
  <2>3. <<>> # None
    <3>1. <<>> \in Seq(ConfigLines)
      OBVIOUS
    <3> QED BY <3>1, ConfigAssumption
  <2> QED BY <2>2, <2>3
<1> QED BY <1>1 DEF Kept, FilesKept

\* The rules of a directory whose ignore file nobody writes.
LEMMA RulesAsKept ==
    ASSUME IInv, Kept, NEW q \in Owners, ~IsOpen(IgnoreFile(disk, q))
    PROVE  RulesOf(kept, q) = RulesOf(disk, q)
<1> DEFINE sym == <<q, ".symignore">>
           stow == <<q, ".stowignore">>
<1>1. sym \in StoreFiles /\ stow \in StoreFiles
  BY FileKinds DEF IgnoreFiles, Owners
<1>2. (disk[sym] = None => kept[sym] = None) /\ (disk[stow] = None => kept[stow] = None)
  BY <1>1, ReadAsKept
<1>3. CASE disk[sym] = None /\ disk[stow] # None
  <2>1. IgnoreFile(disk, q) = stow
    BY <1>3 DEF IgnoreFile
  <2>2. kept[stow] = disk[stow]
    BY <1>1, <2>1, ReadAsKept
  <2>3. IgnoreFile(kept, q) = stow
    BY <1>2, <1>3, <2>2 DEF IgnoreFile
  <2> QED BY <2>1, <2>2, <2>3 DEF RulesOf
<1>4. CASE ~(disk[sym] = None /\ disk[stow] # None)
  <2>1. IgnoreFile(disk, q) = sym
    BY <1>4 DEF IgnoreFile
  <2>2. kept[sym] = disk[sym]
    BY <1>1, <2>1, ReadAsKept
  <2>3. IgnoreFile(kept, q) = sym
    BY <1>2, <1>4, <2>2 DEF IgnoreFile
  <2> QED BY <2>1, <2>2, <2>3 DEF RulesOf
<1> QED BY <1>3, <1>4

\* A directory that is usable now is once every disk is back.
LEMMA UsableLater ==
    ASSUME up \subseteq Directories, NEW d, Usable(d, up) # None
    PROVE  Usable(d, Directories) = Usable(d, up)
BY DEF Usable

\* The source and the target of a package, once every disk is back.
LEMMA PlaceLater ==
    ASSUME up \subseteq Directories, NEW cfg, Source(cfg, up) = Repo, NEW p,
           PackageTarget(disk, p, cfg, up) # None
    PROVE  /\ Source(cfg, Directories) = Repo
           /\ PackageTarget(disk, p, cfg, Directories) = PackageTarget(disk, p, cfg, up)
<1>1. Repo # None
  BY StoresAssumption
<1>2. \E d : Source(cfg, up) = Usable(d, up) /\ Source(cfg, Directories) = Usable(d, Directories)
  BY DEF Source, SourceDir
<1>3. \E d : /\ PackageTarget(disk, p, cfg, up) = Usable(d, up)
             /\ PackageTarget(disk, p, cfg, Directories) = Usable(d, Directories)
  BY DEF PackageTarget, TargetForPkg
<1> QED BY <1>1, <1>2, <1>3, UsableLater

\* The links of a package whose files nobody writes are made where they are looked for.
LEMMA MadeIsFound ==
    ASSUME IInv, Kept, NEW p \in Packages, ~SomeAbsent, Source(TheConfig, up) = Repo,
           PackageTarget(disk, p, TheConfig, up) # None, ~IsOpen(ConfigFile(disk)),
           ~IsOpen(IgnoreFile(disk, "")), ~IsOpen(<<p, ".symdeps">>), ~IsOpen(IgnoreFile(disk, p))
    PROVE  LinksOf(disk, p, Repo, PackageTarget(disk, p, TheConfig, up)) = Found(kept, p)
<1>1. ConfigIn(kept) = TheConfig
  <2>1. ConfigFile(kept) = ConfigFile(disk)
    BY DEF Kept
  <2>2. kept[ConfigFile(disk)] = disk[ConfigFile(disk)]
    BY ReadAsKept, ConfigFileNamed, FileKinds
  <2>3. LoadConfig(disk[ConfigFile(disk)], Directories) = TheConfig
    BY DEF SomeAbsent
  <2> QED BY <2>1, <2>2, <2>3 DEF ConfigIn
<1>2. LoadManifest(kept, p).target = LoadManifest(disk, p).target
  <2>1. <<p, ".symdeps">> \in StoreFiles
    BY FileKinds DEF ManifestFiles
  <2>2. kept[<<p, ".symdeps">>] = disk[<<p, ".symdeps">>]
    BY <2>1, ReadAsKept
  <2>3. kept[<<p, ".stowdeps">>] = disk[<<p, ".stowdeps">>]
    BY LegacyKept DEF Legacy
  <2>4. ListedTarget(kept, p) = ListedTarget(disk, p)
    BY <2>2, <2>3 DEF ListedTarget, LegacyTarget
  <2> QED BY <2>4, ManifestTarget
<1>3. From(kept) = Repo /\ At(kept, p) = PackageTarget(disk, p, TheConfig, up)
  <2>1. At(kept, p) = PackageTarget(disk, p, TheConfig, Directories)
    BY <1>1, <1>2 DEF At, PackageTarget
  <2>2. From(kept) = Source(TheConfig, Directories)
    BY <1>1 DEF From
  <2>3. PICK cfg : cfg = TheConfig
    OBVIOUS
  <2>4. /\ Source(cfg, Directories) = Repo
        /\ PackageTarget(disk, p, cfg, Directories) = PackageTarget(disk, p, cfg, up)
    BY <2>3, PlaceLater DEF IInv
  <2> QED BY <2>1, <2>2, <2>3, <2>4
<1>4. PackageRules(kept, p) = PackageRules(disk, p)
  <2>1. p \in Owners /\ "" \in Owners
    BY DEF Owners
  <2>2. RulesOf(kept, p) = RulesOf(disk, p) /\ RulesOf(kept, "") = RulesOf(disk, "")
    BY <2>1, RulesAsKept
  <2> QED BY <2>2 DEF PackageRules, GlobalRules
<1> QED BY <1>3, <1>4 DEF Found, LinksOf

\* A link is one of its package.
LEMMA LinkOwner ==
    ASSUME NEW d, NEW p, NEW from, NEW at, NEW l \in LinksOf(d, p, from, at)
    PROVE  l.pkg = p
<1>1. \E f : l = [pkg |-> p, file |-> f, from |-> from, at |-> at]
  BY DEF LinksOf
<1> QED BY <1>1

\* What a command about a package reads.
LEMMA ReadsOf ==
    ASSUME NEW r, r.op \notin ConfigOps, NEW p \in Packages, r.op = "all" \/ r.who = p
    PROVE  {ConfigFile(disk), IgnoreFile(disk, ""), <<p, ".symdeps">>, IgnoreFile(disk, p)}
               \subseteq Reads(r)
<1> DEFINE its == IF r.op = "all" THEN Packages ELSE {r.who} \intersect Packages
           own(q) == {<<q, ".symdeps">>, IgnoreFile(disk, q)}
<1>1. Reads(r) = {ConfigFile(disk)} \union
                     ({IgnoreFile(disk, "")} \union UNION {own(q) : q \in its})
  BY DEF Reads
<1>2. p \in its
  OBVIOUS
<1> HIDE DEF its
<1>3. own(p) \subseteq UNION {own(q) : q \in its}
  BY <1>2
<1> QED BY <1>1, <1>3

\* A package is linked, all are, or one is unlinked.
LEMMA LinkStepKept ==
    ASSUME KeepInv, NEW c \in Terminals, LinkStep(c)
    PROVE  KeepInv'
<1> SUFFICES ASSUME broken' = {} PROVE Kept'
  BY OthersTyped DEF KeepInv, LinkStep
<1>1. PICK r : /\ r = cmd[c].req /\ RequestOK(r) /\ r.op \in LinkOps
  BY DEF KeepInv, IInv, CommandsOK, CommandOK, LinkStep, Starting
<1>2. /\ ~cmd[c].open /\ cmd' = [cmd EXCEPT ![c] = Idle]
      /\ UNCHANGED <<disk, kept, job>>
  BY DEF KeepInv, IInv, CommandsOK, CommandOK, LinkStep, Starting, End
<1>3. PICK outcome : /\ outcome = Linking(r) /\ placed' = outcome.links
                     /\ moved' = moved \union outcome.moves
                     /\ broken = {} /\ Breaks(r, outcome) = {}
  BY <1>1 DEF LinkStep
<1>4. IInv /\ Kept /\ DOMAIN kept = StoreFiles /\ moved \subseteq moved'
  BY <1>3 DEF KeepInv
<1> DEFINE at(p) == IF r.op = "all" THEN GlobalTarget(TheConfig, up)
                    ELSE PackageTarget(disk, p, TheConfig, up)
           whom == IF r.op = "all" THEN AllPackages ELSE {r.who}
           links == UNION {LinksOf(disk, p, Repo, at(p)) : p \in whom}
           fails == ~Runs \/ \E p \in whom : at(p) = None
<1>5. LinksKept'
  <2>1. CASE fails
    <3>1. outcome = [answer |-> "failed", links |-> placed, moves |-> {}]
      BY <1>3, <2>1 DEF Linking
    <3>2. UNCHANGED placed
      BY <1>3, <3>1
    <3> QED BY <1>2, <1>4, <3>2, SameLinks
  <2>2. CASE ~fails
    <3>1. /\ outcome.answer = "done" /\ outcome.links \subseteq placed \union links
          /\ outcome.moves =
                 {p \in whom : SomeAbsent \/ at(p) # PackageTarget(disk, p, TheConfig, up)}
      BY <1>3, <2>2 DEF Linking
    <3>2. \A f \in Reads(r) : ~IsOpen(f)
      BY <1>3, <3>1, Unbroken
    <3>3. whom \subseteq Packages
      BY <1>1 DEF AllPackages, RequestOK, LinkOps
    <3>4. ASSUME NEW p \in whom, p \notin moved', NEW l \in LinksOf(disk, p, Repo, at(p))
          PROVE  l \in Found(kept, p)
      <4>1. p \in Packages /\ ~SomeAbsent /\ at(p) = PackageTarget(disk, p, TheConfig, up)
        BY <1>3, <3>1, <3>3, <3>4
      <4>2. Source(TheConfig, up) = Repo /\ at(p) # None
        BY <2>2, <3>4 DEF Runs
      <4>3. {ConfigFile(disk), IgnoreFile(disk, ""), <<p, ".symdeps">>, IgnoreFile(disk, p)}
                \subseteq Reads(r)
        <5>1. r.op = "all" \/ r.who = p
          BY <3>4
        <5>2. r.op \notin ConfigOps
          BY <1>1 DEF LinkOps, ConfigOps
        <5> QED BY <4>1, <5>1, <5>2, ReadsOf
      <4>4. LinksOf(disk, p, Repo, PackageTarget(disk, p, TheConfig, up)) = Found(kept, p)
        BY <1>4, <3>2, <4>1, <4>2, <4>3, MadeIsFound
      <4> QED BY <3>4, <4>1, <4>4
    <3>5. \A p \in whom : \A l \in LinksOf(disk, p, Repo, at(p)) : l.pkg = p
      BY LinkOwner
    <3> HIDE DEF at, whom
    <3>6. ASSUME NEW l \in placed'
          PROVE  l.pkg \in Packages /\ (l.pkg \in moved' \/ l \in Found(kept, l.pkg))
      <4>1. CASE l \in placed
        BY <1>4, <4>1 DEF Kept, LinksKept
      <4>2. CASE l \in links
        BY <3>3, <3>4, <3>5, <4>2
      <4> QED BY <1>3, <3>1, <3>6, <4>1, <4>2
    <3> QED BY <1>2, <3>6, FoundLater DEF LinksKept
  <2> QED BY <2>1, <2>2
<1>6. PlanKeeps(Idle, disk, moved')
  BY IdleFacts DEF PlanKeeps
<1> QED BY <1>2, <1>4, <1>5, <1>6, IdleFacts, QuietKeeps

\* The invariant holds from the start ...
LEMMA KeepInit == Init => KeepInv
<1> SUFFICES ASSUME Init PROVE KeepInv
  OBVIOUS
<1>1. IInv /\ kept = disk /\ placed = {} /\ broken = {} /\ cmd = [c \in Terminals |-> Idle]
  BY InitTyped DEF Init
<1>2. \A c \in Terminals : cmd[c] = Idle
  BY <1>1
<1>3. \A c \in Terminals : OpenAs(cmd[c], disk, kept) /\ PlanKeeps(cmd[c], disk, moved)
  BY <1>2, IdleFacts DEF OpenAs, PlanKeeps
<1>4. FilesKept /\ OneWriter /\ LinksKept
  BY <1>1, <1>2, IdleFacts DEF FilesKept, OneWriter, LinksKept
<1> QED BY <1>1, <1>3, <1>4 DEF KeepInv, Kept, IInv, TextsOK

\* ... and for ever.
LEMMA KeepInvariance == Spec => []KeepInv
<1>1. KeepInv /\ [Next]_vars => KeepInv'
  <2> SUFFICES ASSUME KeepInv, [Next]_vars PROVE KeepInv'
    OBVIOUS
  <2>1. ASSUME NEW c \in Terminals, Ask(c) PROVE KeepInv'
    BY <2>1, AskKept
  <2>2. ASSUME NEW c \in Terminals, Load(c) PROVE KeepInv'
    BY <2>2, LoadKept
  <2>3. ASSUME NEW c \in Terminals, LinkStep(c) PROVE KeepInv'
    BY <2>3, LinkStepKept
  <2>4. ASSUME NEW c \in Terminals, Truncate(c) PROVE KeepInv'
    BY <2>4, TruncateKept
  <2>5. ASSUME NEW c \in Terminals, Flush(c) PROVE KeepInv'
    BY <2>5, FlushKept
  <2>6. ASSUME NEW c \in Terminals,
               FlushFails(c) \/ AppendFails(c) \/ OpenFails(c) \/ Kill(c)
        PROVE  KeepInv'
    BY <2>6, FailuresKept
  <2>7. ASSUME NEW c \in Terminals, AppendStep(c) \/ Register(c) PROVE KeepInv'
    BY <2>7, AppendKept
  <2>8. ASSUME NEW c \in Terminals, Delete(c) PROVE KeepInv'
    BY <2>8, DeleteKept
  <2>9. CASE Mount \/ UNCHANGED vars
    BY <2>9, StillKept
  <2> QED BY <2>1, <2>2, <2>3, <2>4, <2>5, <2>6, <2>7, <2>8, <2>9 DEF Next
<1> QED BY <1>1, KeepInit, PTL DEF Spec

\* As long as no command has overlapped another's write, been killed in one or met one of the
\* other things that break the promise, every link that `link` or `all` has made is found
\* again by `unlink` with the stores as they are, unless an edit moved its package.
THEOREM LinksStay == Spec => []LinksStayReachable
<1>1. KeepInv => LinksStayReachable
  BY DEF KeepInv, Kept, LinksKept, LinksStayReachable, Found, From, At, ConfigIn
<1> QED BY <1>1, KeepInvariance, PTL

-----------------------------------------------------------------------------
(* What a selection and a flattened sequence hold *)

\* Of a selection: from where an element comes, in order, and that none is missing.
Ordered(s, h, seq, places, n) ==
    /\ h \in [1 .. Len(s) -> {p \in places : p <= n}]
    /\ \A i \in 1 .. Len(s) : s[i] = seq[h[i]]
    /\ \A i, j \in 1 .. Len(s) : i < j => h[i] < h[j]
    /\ \A p \in places : p <= n => \E i \in 1 .. Len(s) : h[i] = p

\* The elements that are kept, in their order.
LEMMA SelectOrder ==
    ASSUME NEW T, NEW seq \in Seq(T), NEW places, places \subseteq DOMAIN seq
    PROVE  \E h : Ordered(Select(seq, places), h, seq, places, Len(seq))
<1> DEFINE N == Len(seq)
           S == {seq[i] : i \in places \intersect DOMAIN seq}
<1>1. N \in Nat /\ DOMAIN seq = 1 .. N
  OBVIOUS
<1>2. PICK part \in [0 .. N -> Seq(S)] :
          Keeping(part, seq, places, N) /\ Select(seq, places) = part[N]
  BY SelectSteps
<1> DEFINE W == {n \in 0 .. N : \E h : Ordered(part[n], h, seq, places, n)}
<1>3. 0 \in W
  <2> DEFINE h == [i \in {} |-> 0]
  <2>1. part[0] = <<>> /\ 0 \in 0 .. N
    BY <1>1, <1>2 DEF Keeping
  <2>2. \A p \in places : ~(p <= 0)
    BY <1>1
  <2>3. Ordered(<<>>, h, seq, places, 0)
    BY <2>2 DEF Ordered
  <2> QED BY <2>1, <2>3
<1>4. ASSUME NEW n \in W \intersect (0 .. N - 1) PROVE n + 1 \in W
  <2>1. n + 1 \in 1 .. N /\ (n + 1) - 1 = n /\ n + 1 \in 0 .. N /\ n \in 0 .. N /\ n \in Nat
    BY <1>1
  <2> DEFINE s == part[n]
             L == Len(s)
  <2>2. PICK h : Ordered(s, h, seq, places, n)
    OBVIOUS
  <2>3. part[n + 1] = IF n + 1 \in places THEN Append(s, seq[n + 1]) ELSE s
    BY <1>2, <2>1 DEF Keeping
  <2>4. s \in Seq(S) /\ L \in Nat
    <3> HIDE DEF S
    <3> QED BY <1>2, <2>1
  <2>5. \A p \in places : p \in Nat /\ (p <= n + 1 <=> p <= n \/ p = n + 1)
    BY <1>1, <2>1
  <2> HIDE DEF s, W
  <2>6. CASE n + 1 \notin places
    <3>1. {p \in places : p <= n + 1} = {p \in places : p <= n}
      BY <2>5, <2>6
    <3>2. Ordered(s, h, seq, places, n + 1)
      BY <2>2, <2>5, <2>6, <3>1 DEF Ordered
    <3> QED BY <2>1, <2>3, <2>6, <3>2 DEF W
  <2>7. CASE n + 1 \in places
    <3> DEFINE t == Append(s, seq[n + 1])
               g == [i \in 1 .. L + 1 |-> IF i = L + 1 THEN n + 1 ELSE h[i]]
    <3>1. seq[n + 1] \in S
      BY <1>1, <2>1, <2>7
    <3>2. Len(t) = L + 1 /\ t[L + 1] = seq[n + 1] /\ \A i \in 1 .. L : t[i] = s[i]
      <4> HIDE DEF S
      <4> QED BY <2>4, <3>1
    <3>3. \A i \in 1 .. L : i \in 1 .. L + 1 /\ i # L + 1 /\ g[i] = h[i]
      BY <2>4
    <3>4. g[L + 1] = n + 1 /\ L + 1 \in 1 .. L + 1
      BY <2>4
    <3>5. \A i \in 1 .. L + 1 : i \in 1 .. L \/ i = L + 1
      BY <2>4
    <3>6. \A i \in 1 .. L : h[i] \in places /\ h[i] <= n
      BY <2>2 DEF Ordered
    <3>7. g \in [1 .. L + 1 -> {p \in places : p <= n + 1}]
      <4>1. \A i \in 1 .. L + 1 : g[i] \in {p \in places : p <= n + 1}
        BY <2>5, <2>7, <3>3, <3>4, <3>5, <3>6
      <4> QED BY <4>1
    <3> HIDE DEF t, g, L
    <3>8. \A i \in 1 .. L + 1 : t[i] = seq[g[i]]
      BY <2>2, <3>2, <3>3, <3>4, <3>5 DEF Ordered, L
    <3>9. \A i, j \in 1 .. L + 1 : i < j => g[i] < g[j]
      <4> SUFFICES ASSUME NEW i \in 1 .. L + 1, NEW j \in 1 .. L + 1, i < j PROVE g[i] < g[j]
        OBVIOUS
      <4>1. i \in 1 .. L
        BY <2>4, <3>5
      <4>2. CASE j \in 1 .. L
        BY <2>2, <3>3, <4>1, <4>2 DEF Ordered, L
      <4>3. CASE j = L + 1
        BY <2>1, <2>5, <3>3, <3>4, <3>6, <4>1, <4>3
      <4> QED BY <3>5, <4>2, <4>3
    <3>10. \A p \in places : p <= n + 1 => \E i \in 1 .. L + 1 : g[i] = p
      <4> SUFFICES ASSUME NEW p \in places, p <= n + 1 PROVE \E i \in 1 .. L + 1 : g[i] = p
        OBVIOUS
      <4>1. CASE p = n + 1
        BY <3>4, <4>1
      <4>2. CASE p <= n
        <5>1. PICK i \in 1 .. L : h[i] = p
          BY <2>2, <4>2 DEF Ordered, L
        <5> QED BY <3>3, <5>1
      <4> QED BY <2>5, <4>1, <4>2
    <3>11. Ordered(t, g, seq, places, n + 1)
      BY <3>2, <3>7, <3>8, <3>9, <3>10 DEF Ordered
    <3> QED BY <2>1, <2>3, <2>7, <3>11 DEF W, t
  <2> QED BY <2>6, <2>7
<1>5. 0 .. N \subseteq W
  <2> HIDE DEF W, N
  <2> QED BY <1>1, <1>3, <1>4, UpwardsFromZero
<1>6. N \in W
  BY <1>1, <1>5
<1> QED BY <1>2, <1>6

\* Everything is kept.
LEMMA SelectAll ==
    ASSUME NEW T, NEW seq \in Seq(T)
    PROVE  Select(seq, DOMAIN seq) = seq
<1> DEFINE N == Len(seq)
           places == DOMAIN seq
           S == {seq[i] : i \in places \intersect DOMAIN seq}
<1>1. N \in Nat /\ DOMAIN seq = 1 .. N
  OBVIOUS
<1>2. PICK part \in [0 .. N -> Seq(S)] :
          Keeping(part, seq, places, N) /\ Select(seq, places) = part[N]
  BY SelectSteps
<1> DEFINE W == {n \in 0 .. N : Len(part[n]) = n /\ \A i \in 1 .. n : part[n][i] = seq[i]}
<1>3. 0 \in W
  <2>1. part[0] = <<>> /\ 0 \in 0 .. N
    BY <1>1, <1>2 DEF Keeping
  <2> QED BY <2>1
<1>4. ASSUME NEW n \in W \intersect (0 .. N - 1) PROVE n + 1 \in W
  <2>1. n + 1 \in 1 .. N /\ (n + 1) - 1 = n /\ n + 1 \in 0 .. N /\ n \in 0 .. N /\ n \in Nat
    BY <1>1
  <2> DEFINE s == part[n]
  <2>2. part[n + 1] = Append(s, seq[n + 1])
    BY <1>1, <1>2, <2>1 DEF Keeping
  <2>3. s \in Seq(S) /\ seq[n + 1] \in S
    <3>1. seq[n + 1] \in S
      BY <1>1, <2>1
    <3> HIDE DEF S
    <3> QED BY <1>2, <2>1, <3>1
  <2>4. Len(s) = n /\ \A i \in 1 .. n : s[i] = seq[i]
    OBVIOUS
  <2> HIDE DEF s, S
  <2>5. /\ Len(Append(s, seq[n + 1])) = n + 1
        /\ \A i \in 1 .. n + 1 : Append(s, seq[n + 1])[i] = seq[i]
    BY <2>1, <2>3, <2>4
  <2> QED BY <2>1, <2>2, <2>5
<1>5. 0 .. N \subseteq W
  <2> HIDE DEF W, N
  <2> QED BY <1>1, <1>3, <1>4, UpwardsFromZero
<1>6. N \in W
  BY <1>1, <1>5
<1>7. part[N] \in Seq(S)
  <2> HIDE DEF S
  <2> QED BY <1>1, <1>2
<1> DEFINE all == part[N]
<1>8. Len(all) = N /\ \A i \in 1 .. N : all[i] = seq[i]
  BY <1>6
<1> HIDE DEF all, S
<1>9. all = seq
  BY <1>1, <1>7, <1>8 DEF all
<1> QED BY <1>2, <1>9 DEF all

\* Sequences of one element each, and then nothing.
LEMMA FlattenSingletons ==
    ASSUME NEW S, NEW dirs \in Seq(S), NEW ss \in Seq(Seq(S)), Len(dirs) <= Len(ss),
           \A i \in 1 .. Len(ss) : ss[i] = IF i <= Len(dirs) THEN <<dirs[i]>> ELSE <<>>
    PROVE  FlattenSeq(ss) = dirs
<1> DEFINE N == Len(ss)
           K == Len(dirs)
<1>0. N \in Nat /\ K \in Nat /\ K <= N /\ \A i \in 1 .. K : dirs[i] \in S
  OBVIOUS
<1>00. \A i \in 1 .. N : (i <= K => ss[i] = <<dirs[i]>>) /\ (~(i <= K) => ss[i] = <<>>)
  OBVIOUS
<1>1. CASE ss = <<>>
  <2>1. FlattenSeq(ss) = <<>>
    BY <1>1 DEF FlattenSeq
  <2> QED BY <1>1, <2>1
<1>2. CASE ss # <<>>
  <2>1. PICK flat \in [1 .. N -> Seq(S)] : Flattens(flat, ss, N) /\ FlattenSeq(ss) = flat[N]
    BY <1>2, FlattenSteps
  <2> DEFINE least(n) == IF n <= K THEN n ELSE K
             Good(s, n) == Len(s) = n /\ \A i \in 1 .. n : s[i] = dirs[i]
             W == {n \in 1 .. N : Good(flat[n], least(n))}
  <2>2. N \in Nat \ {0} /\ 1 \in 1 .. N
    BY <1>2
  <2> HIDE DEF N, K
  <2>3. 1 \in W
    <3>1. flat[1] = ss[1]
      BY <2>1, <2>2 DEF Flattens
    <3>2. CASE K = 0
      <4>1. flat[1] = <<>> /\ least(1) = 0
        BY <1>00, <2>2, <3>1, <3>2
      <4>2. Good(<<>>, 0)
        OBVIOUS
      <4> QED BY <2>2, <4>1, <4>2
    <3>3. CASE K # 0
      <4>1. flat[1] = <<dirs[1]>> /\ least(1) = 1
        BY <1>0, <1>00, <2>2, <3>1, <3>3
      <4>2. Good(<<dirs[1]>>, 1)
        OBVIOUS
      <4> QED BY <2>2, <4>1, <4>2
    <3> QED BY <3>2, <3>3
  <2>4. ASSUME NEW n \in W \intersect (1 .. N - 1) PROVE n + 1 \in W
    <3>1. n \in 1 .. N /\ n + 1 \in 1 .. N /\ n + 1 # 1 /\ (n + 1) - 1 = n
      BY <2>2
    <3>2. PICK s \in Seq(S) : s = flat[n] /\ flat[n + 1] = s \o ss[n + 1] /\ Good(s, least(n))
      BY <2>1, <3>1 DEF Flattens
    <3>4. CASE n + 1 <= K
      <4>1. ss[n + 1] = <<dirs[n + 1]>> /\ dirs[n + 1] \in S
        BY <1>0, <1>00, <3>1, <3>4
      <4>2. PICK e \in S : e = dirs[n + 1]
        BY <4>1
      <4>3. least(n) = n /\ least(n + 1) = n + 1 /\ n \in Nat
        BY <1>0, <2>2, <3>4
      <4>4. s \o <<e>> = Append(s, e)
        OBVIOUS
      <4>5. Len(s) = n /\ \A i \in 1 .. n : s[i] = dirs[i]
        BY <3>2, <4>3
      <4>6. Len(Append(s, e)) = n + 1 /\ \A i \in 1 .. n + 1 : Append(s, e)[i] = dirs[i]
        BY <4>2, <4>3, <4>5
      <4>7. Good(flat[n + 1], n + 1)
        BY <3>2, <4>1, <4>2, <4>4, <4>6
      <4> HIDE DEF Good, least
      <4> QED BY <3>1, <4>3, <4>7
    <3>5. CASE ~(n + 1 <= K)
      <4>1. ss[n + 1] = <<>>
        BY <1>00, <3>1, <3>5
      <4>2. s \o <<>> = s
        OBVIOUS
      <4>3. least(n) = K /\ least(n + 1) = K
        BY <1>0, <2>2, <3>5
      <4> HIDE DEF least, Good
      <4> QED BY <3>1, <3>2, <4>1, <4>2, <4>3
    <3> QED BY <3>4, <3>5
  <2>5. 1 .. N \subseteq W
    <3> HIDE DEF W
    <3> QED BY <2>2, <2>3, <2>4, Upwards
  <2>6. PICK all \in Seq(S) : all = flat[N] /\ Good(all, K)
    <3>1. N \in W /\ least(N) = K
      BY <1>0, <2>2, <2>5
    <3> HIDE DEF least, Good
    <3> QED BY <2>1, <2>2, <3>1
  <2>7. all = dirs
    BY <2>6, SeqEqual DEF K
  <2> QED BY <2>1, <2>6, <2>7
<1> QED BY <1>1, <1>2

\* Nothing is lost.
LEMMA FlattenHas ==
    ASSUME NEW S, NEW ss \in Seq(Seq(S)), NEW p \in DOMAIN ss, NEW q \in DOMAIN ss[p]
    PROVE  \E j \in DOMAIN FlattenSeq(ss) : FlattenSeq(ss)[j] = ss[p][q]
<1> DEFINE N == Len(ss)
           e == ss[p][q]
           Has(s) == \E j \in DOMAIN s : s[j] = e
<1>1. N \in Nat \ {0} /\ ss # <<>> /\ p \in 1 .. N /\ \A i \in 1 .. N : ss[i] \in Seq(S)
  OBVIOUS
<1>2. PICK flat \in [1 .. N -> Seq(S)] : Flattens(flat, ss, N) /\ FlattenSeq(ss) = flat[N]
  BY <1>1, FlattenSteps
<1>0. \A a, b \in Seq(S) : Has(a) \/ Has(b) => Has(a \o b)
  <2> HIDE DEF e
  <2> SUFFICES ASSUME NEW a \in Seq(S), NEW b \in Seq(S), Has(a) \/ Has(b) PROVE Has(a \o b)
    OBVIOUS
  <2>1. ASSUME NEW j \in DOMAIN a, a[j] = e PROVE Has(a \o b)
    <3>1. j \in DOMAIN (a \o b) /\ (a \o b)[j] = a[j]
      BY ConcatProperties
    <3> QED BY <2>1, <3>1
  <2>2. ASSUME NEW j \in DOMAIN b, b[j] = e PROVE Has(a \o b)
    <3>1. Len(a) + j \in DOMAIN (a \o b) /\ (a \o b)[Len(a) + j] = b[j]
      BY ConcatProperties
    <3> QED BY <2>2, <3>1
  <2> QED BY <2>1, <2>2
<1>00. Has(ss[p])
  OBVIOUS
<1> DEFINE W == {n \in 1 .. N : p <= n => Has(flat[n])}
<1> HIDE DEF Has, N
<1>3. 1 \in W
  <2>1. 1 \in 1 .. N /\ (p <= 1 => p = 1)
    BY <1>1
  <2>2. flat[1] = ss[1]
    BY <1>2, <2>1 DEF Flattens
  <2> QED BY <1>00, <2>1, <2>2
<1>4. ASSUME NEW n \in W \intersect (1 .. N - 1) PROVE n + 1 \in W
  <2>1. n \in 1 .. N /\ n + 1 \in 1 .. N /\ n + 1 # 1 /\ (n + 1) - 1 = n
    BY <1>1
  <2>2. flat[n + 1] = flat[n] \o ss[n + 1]
    BY <1>2, <2>1 DEF Flattens
  <2>3. flat[n] \in Seq(S) /\ ss[n + 1] \in Seq(S)
    BY <1>1, <1>2, <2>1
  <2>4. p <= n + 1 => p <= n \/ p = n + 1
    BY <1>1, <2>1
  <2> QED BY <1>0, <1>00, <2>1, <2>2, <2>3, <2>4
<1>5. 1 .. N \subseteq W
  <2> HIDE DEF W
  <2> QED BY <1>1, <1>3, <1>4, Upwards
<1>6. N \in W /\ p <= N
  BY <1>1, <1>5
<1>7. Has(FlattenSeq(ss))
  BY <1>2, <1>6
<1> QED BY <1>7 DEF Has

\* One sequence after another.
LEMMA Joined ==
    ASSUME NEW S, NEW a \in Seq(S), NEW b \in Seq(S)
    PROVE  /\ a \o b \in Seq(S) /\ Len(a \o b) = Len(a) + Len(b)
           /\ \A i \in DOMAIN a : i \in DOMAIN (a \o b) /\ (a \o b)[i] = a[i]
           /\ \A i \in DOMAIN b : Len(a) + i \in DOMAIN (a \o b) /\ (a \o b)[Len(a) + i] = b[i]
           /\ \A i \in DOMAIN (a \o b) :
                  \/ i \in DOMAIN a /\ (a \o b)[i] = a[i]
                  \/ i - Len(a) \in DOMAIN b /\ (a \o b)[i] = b[i - Len(a)]
<1>1. /\ a \o b \in Seq(S) /\ Len(a \o b) = Len(a) + Len(b)
      /\ \A i \in 1 .. Len(a) + Len(b) :
             (a \o b)[i] = IF i <= Len(a) THEN a[i] ELSE b[i - Len(a)]
  BY ConcatProperties
<1>2. /\ DOMAIN a = 1 .. Len(a) /\ Len(a) \in Nat /\ DOMAIN b = 1 .. Len(b) /\ Len(b) \in Nat
      /\ DOMAIN (a \o b) = 1 .. Len(a) + Len(b)
  BY <1>1, LenProperties
<1> DEFINE ab == a \o b
           m == Len(a)
           n == Len(b)
<1> HIDE DEF ab, m, n
<1>3. \A i \in 1 .. m : i \in 1 .. m + n /\ ab[i] = a[i]
  BY <1>1, <1>2 DEF ab, m, n
<1>4. \A i \in 1 .. n : m + i \in 1 .. m + n /\ ab[m + i] = b[i]
  BY <1>1, <1>2 DEF ab, m, n
<1>5. \A i \in 1 .. m + n :
          \/ i \in 1 .. m /\ ab[i] = a[i]
          \/ i - m \in 1 .. n /\ ab[i] = b[i - m]
  BY <1>1, <1>2 DEF ab, m, n
<1> QED BY <1>1, <1>2, <1>3, <1>4, <1>5 DEF ab, m, n

\* No line gives a setting.
NoLine(s, key) == \A i \in DOMAIN s : s[i][1] # key

\* The text of a configuration: its parts, and what their lines give.
Parted(cfg, A, target, manager, elevation) ==
    /\ A = SourceLines(cfg) /\ target = Line("TARGET_DIR", cfg.target)
    /\ manager = Line("PKG_MANAGER", cfg.manager)
    /\ elevation = Line("ELEVATION_TOOL", cfg.elevation)
    /\ A \o target \in Seq(ConfigLines) /\ (A \o target) \o manager \in Seq(ConfigLines)
    /\ ConfigText(cfg) = ((A \o target) \o manager) \o elevation
    /\ \A key \in {"TARGET_DIR", "PKG_MANAGER", "ELEVATION_TOOL"} : NoLine(A, key)
    /\ \A key : key # "TARGET_DIR" => NoLine(target, key)
    /\ \A key : key # "PKG_MANAGER" => NoLine(manager, key)
    /\ \A key : key # "ELEVATION_TOOL" => NoLine(elevation, key)

\* It has these parts.
LEMMA SavedParts ==
    ASSUME NEW cfg, ConfigOK(cfg)
    PROVE  \E A, target, manager, elevation \in Seq(ConfigLines) :
               Parted(cfg, A, target, manager, elevation)
<1> DEFINE A == SourceLines(cfg)
           target == Line("TARGET_DIR", cfg.target)
           manager == Line("PKG_MANAGER", cfg.manager)
           elevation == Line("ELEVATION_TOOL", cfg.elevation)
<1>1. /\ target \in Seq(ConfigLines) /\ manager \in Seq(ConfigLines)
      /\ elevation \in Seq(ConfigLines)
  BY LinesTyped
<1>2. /\ A \in Seq(ConfigLines) /\ A \o target \in Seq(ConfigLines)
      /\ (A \o target) \o manager \in Seq(ConfigLines)
      /\ ConfigText(cfg) = ((A \o target) \o manager) \o elevation
  BY ConfigTextParts
<1>3. \A key \in {"TARGET_DIR", "PKG_MANAGER", "ELEVATION_TOOL"} : NoLine(A, key)
  BY DEF NoLine, SourceLines
<1>4. /\ \A key : key # "TARGET_DIR" => NoLine(target, key)
      /\ \A key : key # "PKG_MANAGER" => NoLine(manager, key)
      /\ \A key : key # "ELEVATION_TOOL" => NoLine(elevation, key)
  <2>1. \A i \in DOMAIN target : target[i][1] = "TARGET_DIR"
    BY LineKeys
  <2>2. \A i \in DOMAIN manager : manager[i][1] = "PKG_MANAGER"
    BY LineKeys
  <2>3. \A i \in DOMAIN elevation : elevation[i][1] = "ELEVATION_TOOL"
    BY LineKeys
  <2> HIDE DEF target, manager, elevation
  <2> QED BY <2>1, <2>2, <2>3 DEF NoLine
<1>5. Parted(cfg, A, target, manager, elevation)
  BY <1>2, <1>3, <1>4 DEF Parted
<1> HIDE DEF A, target, manager, elevation
<1> QED BY <1>1, <1>2, <1>5

\* The line that gives a setting, behind others.
LEMMA LineRead ==
    ASSUME NEW s \in Seq(ConfigLines), NEW key, NEW value,
           value = None \/ <<key, value>> \in ConfigLines, NoLine(s, key)
    PROVE  LastValue(s \o Line(key, value), key) = value
<1>1. \A i \in DOMAIN s : s[i][1] # key
  BY DEF NoLine
<1> QED BY <1>1, LastValueLine

\* Every setting that is saved is the one that is read, ...
LEMMA SavedSettings ==
    ASSUME NEW cfg, ConfigOK(cfg)
    PROVE  /\ LastValue(ConfigText(cfg), "TARGET_DIR") = cfg.target
           /\ LastValue(ConfigText(cfg), "PKG_MANAGER") = cfg.manager
           /\ LastValue(ConfigText(cfg), "ELEVATION_TOOL") = cfg.elevation
<1>1. PICK A, target, manager, elevation \in Seq(ConfigLines) :
          Parted(cfg, A, target, manager, elevation)
  BY SavedParts
<1>2. \A a, b \in Seq(ConfigLines) : \A key :
          NoLine(a, key) /\ NoLine(b, key) => NoLine(a \o b, key)
  BY Joined DEF NoLine
<1>3. PICK B, C \in Seq(ConfigLines) :
          /\ B = A \o target /\ C = B \o manager /\ ConfigText(cfg) = C \o elevation
          /\ NoLine(B, "PKG_MANAGER") /\ NoLine(B, "ELEVATION_TOOL") /\ NoLine(C, "ELEVATION_TOOL")
  <2>1. /\ A \o target \in Seq(ConfigLines) /\ (A \o target) \o manager \in Seq(ConfigLines)
        /\ ConfigText(cfg) = ((A \o target) \o manager) \o elevation
    BY <1>1 DEF Parted
  <2>2. /\ NoLine(A, "PKG_MANAGER") /\ NoLine(A, "ELEVATION_TOOL")
        /\ NoLine(target, "PKG_MANAGER") /\ NoLine(target, "ELEVATION_TOOL")
        /\ NoLine(manager, "ELEVATION_TOOL")
    BY <1>1 DEF Parted
  <2>3. NoLine(A \o target, "PKG_MANAGER") /\ NoLine(A \o target, "ELEVATION_TOOL")
    BY <1>2, <2>2
  <2>4. NoLine((A \o target) \o manager, "ELEVATION_TOOL")
    BY <1>2, <2>1, <2>2, <2>3
  <2> QED BY <2>1, <2>3, <2>4
<1>4. PICK m, e : m = cfg.manager /\ e = cfg.elevation
  OBVIOUS
<1>5. /\ m = None \/ <<"PKG_MANAGER", m>> \in ConfigLines
      /\ e = None \/ <<"ELEVATION_TOOL", e>> \in ConfigLines
  BY <1>4 DEF ConfigOK, ConfigLines
<1>7. LastValue(B \o Line("PKG_MANAGER", m), "PKG_MANAGER") = m
  BY <1>3, <1>5, LineRead
<1>8. LastValue(C \o elevation, "PKG_MANAGER") = LastValue(C, "PKG_MANAGER")
  <2>1. NoLine(elevation, "PKG_MANAGER")
    BY <1>1 DEF Parted
  <2> QED BY <2>1, LastValueSkips DEF NoLine
<1>9. LastValue(C \o Line("ELEVATION_TOOL", e), "ELEVATION_TOOL") = e
  BY <1>3, <1>5, LineRead
<1> QED BY <1>1, <1>3, <1>4, <1>7, <1>8, <1>9, ConfigTextTarget DEF Parted

\* ... and so are the directories without ":".
LEMMA SavedDirs ==
    ASSUME NEW cfg, ConfigOK(cfg), cfg.dirs \in Seq(Dirs \ DOMAIN Pieces)
    PROVE  Tokens(ConfigText(cfg)) = cfg.dirs
<1>1. PICK A, target, manager, elevation \in Seq(ConfigLines) :
          Parted(cfg, A, target, manager, elevation)
  BY SavedParts
<1> DEFINE D == Dirs \ DOMAIN Pieces
           text == ConfigText(cfg)
           K == Len(cfg.dirs)
           Starts(s) == /\ s \in Seq(ConfigLines) /\ K <= Len(s)
                        /\ \A i \in 1 .. Len(s) :
                              /\ i <= K => s[i][1] = "SOURCE_DIRS" /\ s[i][2] = cfg.dirs[i]
                              /\ ~(i <= K) => s[i][1] # "SOURCE_DIRS"
<1>2. K \in Nat /\ DOMAIN cfg.dirs = 1 .. K /\ \A i \in 1 .. K : cfg.dirs[i] \in D
  <2> HIDE DEF D
  <2> QED BY LenProperties, ElementOfSeq DEF D
<1>3. Starts(A)
  <2>1. Len(A) = K /\ \A i \in 1 .. K : A[i] = <<"SOURCE_DIRS", cfg.dirs[i]>>
    <3>1. A = [i \in 1 .. K |-> <<"SOURCE_DIRS", cfg.dirs[i]>>]
      BY <1>1, <1>2 DEF SourceLines, Parted
    <3>2. DOMAIN A = 1 .. Len(A) /\ Len(A) \in Nat
      BY LenProperties
    <3> HIDE DEF K
    <3> QED BY <1>2, <3>1, <3>2
  <2> HIDE DEF K
  <2> QED BY <1>2, <2>1
<1>4. ASSUME NEW s, NEW t \in Seq(ConfigLines), Starts(s), NoLine(t, "SOURCE_DIRS")
      PROVE  Starts(s \o t)
  <2> HIDE DEF K
  <2>1. s \in Seq(ConfigLines)
    BY <1>4
  <2>2. /\ s \o t \in Seq(ConfigLines) /\ Len(s \o t) = Len(s) + Len(t)
        /\ Len(s) \in Nat /\ Len(t) \in Nat
        /\ \A i \in 1 .. Len(s) + Len(t) :
               (s \o t)[i] = IF i <= Len(s) THEN s[i] ELSE t[i - Len(s)]
    BY <2>1, ConcatProperties, LenProperties
  <2>3. \A i \in 1 .. Len(t) : t[i][1] # "SOURCE_DIRS"
    BY <1>4, LenProperties DEF NoLine
  <2> QED BY <1>2, <1>4, <2>2, <2>3
<1>5. Starts(text)
  <2> HIDE DEF Starts
  <2>0. NoLine(target, "SOURCE_DIRS") /\ NoLine(manager, "SOURCE_DIRS")
        /\ NoLine(elevation, "SOURCE_DIRS")
    BY <1>1 DEF Parted
  <2>1. Starts(A \o target)
    BY <1>3, <1>4, <2>0
  <2>2. Starts((A \o target) \o manager)
    BY <1>4, <2>0, <2>1
  <2> QED BY <1>1, <1>4, <2>0, <2>2 DEF Parted
<1> DEFINE cut(i) == IF text[i][1] # "SOURCE_DIRS" THEN <<>>
                     ELSE IF text[i][2] \in DOMAIN Pieces THEN Pieces[text[i][2]]
                     ELSE <<text[i][2]>>
           ss == [i \in DOMAIN text |-> cut(i)]
<1>6. ss \in Seq(Seq(D)) /\ Tokens(text) = FlattenSeq(ss)
  BY <1>5, CutType DEF Tokens
<1> HIDE DEF text
<1>7. /\ DOMAIN text = 1 .. Len(text) /\ Len(text) \in Nat
      /\ K <= Len(text)
      /\ \A i \in 1 .. Len(text) : cut(i) = IF i <= K THEN <<cfg.dirs[i]>> ELSE <<>>
  BY <1>2, <1>5, LenProperties
<1> HIDE DEF cut, K, Starts
<1>8. Len(ss) = Len(text) /\ \A i \in 1 .. Len(ss) : ss[i] = cut(i)
  <2>1. DOMAIN ss = 1 .. Len(text) /\ DOMAIN ss = 1 .. Len(ss) /\ Len(ss) \in Nat
    <3> HIDE DEF D
    <3> QED BY <1>6, <1>7, LenProperties
  <2> QED BY <1>7, <2>1
<1>9. cfg.dirs \in Seq(D)
  OBVIOUS
<1> HIDE DEF ss, D
<1>10. FlattenSeq(ss) = cfg.dirs
  BY <1>6, <1>7, <1>8, <1>9, FlattenSingletons DEF K
<1> QED BY <1>6, <1>10 DEF text

\* What is saved is read again, once every disk is back.
LEMMA LoadSaved ==
    ASSUME NEW cfg, ConfigOK(cfg), cfg.dirs \in Seq((Dirs \ DOMAIN Pieces) \intersect Directories),
           IsInjective(cfg.dirs)
    PROVE  LoadConfig(ConfigText(cfg), Directories) = cfg
<1> DEFINE D == (Dirs \ DOMAIN Pieces) \intersect Directories
           text == ConfigText(cfg)
           K == Len(cfg.dirs)
<1>1. cfg.dirs \in Seq(Dirs \ DOMAIN Pieces)
  <2>1. D \subseteq Dirs \ DOMAIN Pieces
    OBVIOUS
  <2> HIDE DEF D
  <2> QED BY <2>1, SeqMonotonic DEF D
<1>2. Tokens(text) = cfg.dirs
  BY <1>1, SavedDirs
<1>3. K \in Nat /\ DOMAIN cfg.dirs = 1 .. K /\ \A i \in 1 .. K : cfg.dirs[i] \in D
  <2> HIDE DEF D
  <2> QED BY LenProperties, ElementOfSeq DEF D
<1>4. {i \in DOMAIN cfg.dirs : /\ cfg.dirs[i] \in Directories
                               /\ \A j \in 1 .. i - 1 : cfg.dirs[j] # cfg.dirs[i]} = DOMAIN cfg.dirs
  <2>1. \A i \in 1 .. K : \A j \in 1 .. i - 1 : j \in 1 .. K /\ j # i
    BY <1>3
  <2>2. \A i, j \in 1 .. K : cfg.dirs[i] = cfg.dirs[j] => i = j
    BY <1>3 DEF IsInjective
  <2> QED BY <1>3, <2>1, <2>2
<1>5. Distinct(cfg.dirs, Directories) = cfg.dirs
  BY <1>1, <1>4, SelectAll DEF Distinct
<1>6. text # None
  BY ConfigTextParts, ConfigAssumption
<1>7. LoadConfig(text, Directories) =
          [dirs |-> cfg.dirs, target |-> cfg.target, manager |-> cfg.manager,
           elevation |-> cfg.elevation]
  BY <1>2, <1>5, <1>6, SavedSettings DEF LoadConfig
<1> QED BY <1>7 DEF ConfigOK

-----------------------------------------------------------------------------
(* The edits of the configuration do what they promise *)

\* The pairs of other directories, in their order.
LEMMA OtherPairs ==
    ASSUME NEW dirs, NEW d, NEW x
    PROVE  x \in Promise!Others(dirs, d) <=>
               \E i, j \in DOMAIN dirs :
                   i <= j /\ dirs[i] # d /\ dirs[j] # d /\ x = <<dirs[i], dirs[j]>>
BY DEF Promise!Others

\* What is found in another sequence, in the same order.
LEMMA OthersAmong ==
    ASSUME NEW s, NEW t, NEW d, NEW h,
           \A i \in DOMAIN s : s[i] # d => h[i] \in DOMAIN t /\ t[h[i]] = s[i],
           \A i, j \in DOMAIN s : i <= j /\ s[i] # d /\ s[j] # d => h[i] <= h[j]
    PROVE  Promise!Others(s, d) \subseteq Promise!Others(t, d)
<1> SUFFICES ASSUME NEW x \in Promise!Others(s, d) PROVE x \in Promise!Others(t, d)
  OBVIOUS
<1>1. PICK i, j \in DOMAIN s : i <= j /\ s[i] # d /\ s[j] # d /\ x = <<s[i], s[j]>>
  BY OtherPairs
<1>2. /\ h[i] \in DOMAIN t /\ h[j] \in DOMAIN t /\ h[i] <= h[j]
      /\ t[h[i]] = s[i] /\ t[h[j]] = s[j]
  BY <1>1
<1> QED BY <1>1, <1>2, OtherPairs

\* A directory is taken away: it is gone, and the others are as they were.
LEMMA WithoutFacts ==
    ASSUME NEW T, NEW dirs \in Seq(T), NEW d
    PROVE  /\ Without(dirs, d) \in Seq(T)
           /\ \A i \in DOMAIN Without(dirs, d) : Without(dirs, d)[i] # d
           /\ IsInjective(dirs) => IsInjective(Without(dirs, d))
           /\ Promise!Others(Without(dirs, d), d) = Promise!Others(dirs, d)
<1> DEFINE places == {i \in DOMAIN dirs : dirs[i] # d}
           w == Without(dirs, d)
           n == Len(w)
<1>1. w \in Seq(T) /\ n \in Nat /\ DOMAIN w = 1 .. n
  <2>1. w \in Seq(T)
    BY WithoutType
  <2> HIDE DEF w
  <2> QED BY <2>1, LenProperties
<1>2. DOMAIN dirs = 1 .. Len(dirs) /\ Len(dirs) \in Nat
  BY LenProperties
<1>3. w = Select(dirs, places)
  BY DEF Without
<1>4. PICK h : Ordered(w, h, dirs, places, Len(dirs))
  <2> HIDE DEF w
  <2>1. places \subseteq DOMAIN dirs
    OBVIOUS
  <2> HIDE DEF places
  <2> QED BY <1>3, <2>1, SelectOrder
<1> HIDE DEF w, n
<1>5. \A i \in 1 .. n : h[i] \in 1 .. Len(dirs) /\ w[i] = dirs[h[i]] /\ dirs[h[i]] # d
  BY <1>2, <1>4 DEF Ordered, n
<1>6. \A i, j \in 1 .. n : i < j => h[i] < h[j]
  BY <1>4 DEF Ordered, n
<1>7. \A p \in 1 .. Len(dirs) : dirs[p] # d => \E i \in 1 .. n : h[i] = p
  BY <1>2, <1>4 DEF Ordered, n
<1>8. IsInjective(dirs) => IsInjective(w)
  <2> SUFFICES ASSUME IsInjective(dirs), NEW i \in 1 .. n, NEW j \in 1 .. n, w[i] = w[j]
               PROVE  i = j
    BY <1>1 DEF IsInjective
  <2>1. h[i] = h[j]
    BY <1>2, <1>5 DEF IsInjective
  <2> QED BY <1>1, <1>2, <1>5, <1>6, <2>1
<1>9. Promise!Others(w, d) \subseteq Promise!Others(dirs, d)
  <2>1. \A i, j \in 1 .. n : i <= j => h[i] <= h[j]
    BY <1>1, <1>2, <1>5, <1>6
  <2> QED BY <1>1, <1>2, <1>5, <2>1, OthersAmong
<1>10. Promise!Others(dirs, d) \subseteq Promise!Others(w, d)
  <2> DEFINE g == [p \in DOMAIN dirs |-> CHOOSE i \in 1 .. n : h[i] = p]
  <2>1. \A p \in DOMAIN dirs : dirs[p] # d => g[p] \in 1 .. n /\ h[g[p]] = p
    BY <1>2, <1>7
  <2> HIDE DEF g
  <2>2. \A p \in DOMAIN dirs : dirs[p] # d => g[p] \in DOMAIN w /\ w[g[p]] = dirs[p]
    BY <1>1, <1>5, <2>1
  <2>3. ASSUME NEW p \in DOMAIN dirs, NEW q \in DOMAIN dirs, p <= q, dirs[p] # d, dirs[q] # d
        PROVE  g[p] <= g[q]
    <3>1. /\ g[p] \in 1 .. n /\ h[g[p]] = p /\ g[q] \in 1 .. n /\ h[g[q]] = q
      BY <2>1, <2>3
    <3>2. g[q] < g[p] => q < p
      BY <1>6, <3>1
    <3> QED BY <1>1, <1>2, <2>3, <3>1, <3>2
  <2> QED BY <2>2, <2>3, OthersAmong
<1> QED BY <1>1, <1>5, <1>8, <1>9, <1>10 DEF w

\* One directory more, at the end ...
LEMMA AppendFacts ==
    ASSUME NEW T, NEW dirs \in Seq(T), NEW d \in T, \A i \in DOMAIN dirs : dirs[i] # d
    PROVE  /\ Append(dirs, d) \in Seq(T)
           /\ IsInjective(dirs) => IsInjective(Append(dirs, d))
           /\ Promise!Others(Append(dirs, d), d) = Promise!Others(dirs, d)
           /\ d \in ToSet(Append(dirs, d))
<1> DEFINE a == Append(dirs, d)
           n == Len(dirs)
<1>1. /\ DOMAIN dirs = 1 .. n /\ n \in Nat /\ a \in Seq(T) /\ DOMAIN a = 1 .. n + 1
      /\ a[n + 1] = d /\ \A i \in 1 .. n : a[i] = dirs[i]
  OBVIOUS
<1>2. \A i \in 1 .. n + 1 : i \in 1 .. n \/ i = n + 1
  BY <1>1
<1> DEFINE same == [i \in 1 .. n + 1 |-> i]
<1>3. /\ \A i \in 1 .. n + 1 : same[i] = i
      /\ n + 1 \in 1 .. n + 1 /\ \A i \in 1 .. n : i \in 1 .. n + 1
  BY <1>1
<1> HIDE DEF a, n, same
<1>4. IsInjective(dirs) => IsInjective(a)
  BY <1>1, <1>2 DEF IsInjective
<1>5. Promise!Others(a, d) \subseteq Promise!Others(dirs, d)
  BY <1>1, <1>2, <1>3, OthersAmong
<1>6. Promise!Others(dirs, d) \subseteq Promise!Others(a, d)
  BY <1>1, <1>3, OthersAmong
<1>7. d \in ToSet(a)
  BY <1>1, <1>3 DEF ToSet
<1> QED BY <1>1, <1>4, <1>5, <1>6, <1>7 DEF a

\* ... or in front.
LEMMA InFrontFacts ==
    ASSUME NEW T, NEW dirs \in Seq(T), NEW d \in T, \A i \in DOMAIN dirs : dirs[i] # d
    PROVE  /\ <<d>> \o dirs \in Seq(T)
           /\ IsInjective(dirs) => IsInjective(<<d>> \o dirs)
           /\ Promise!Others(<<d>> \o dirs, d) = Promise!Others(dirs, d)
           /\ Head(<<d>> \o dirs) = d
<1> DEFINE a == <<d>> \o dirs
           n == Len(dirs)
<1>1. /\ DOMAIN dirs = 1 .. n /\ n \in Nat /\ a \in Seq(T) /\ DOMAIN a = 1 .. n + 1
      /\ a[1] = d /\ \A i \in 2 .. n + 1 : a[i] = dirs[i - 1]
  <2>1. <<d>> \in Seq(T) /\ Len(<<d>>) = 1 /\ <<d>>[1] = d
    OBVIOUS
  <2>2. /\ a \in Seq(T) /\ Len(a) = 1 + n
        /\ \A i \in 1 .. 1 + n : a[i] = IF i <= 1 THEN <<d>>[i] ELSE dirs[i - 1]
    BY <2>1, ConcatProperties
  <2>3. DOMAIN dirs = 1 .. n /\ n \in Nat /\ DOMAIN a = 1 .. 1 + n
    BY <2>2, LenProperties
  <2> HIDE DEF a, n
  <2> QED BY <2>1, <2>2, <2>3
<1>2. \A i \in 1 .. n + 1 : i = 1 \/ (i \in 2 .. n + 1 /\ i - 1 \in 1 .. n)
  BY <1>1
<1> DEFINE up1 == [i \in 1 .. n |-> i + 1]
           down == [i \in 1 .. n + 1 |-> i - 1]
<1>3. /\ \A i \in 1 .. n : up1[i] = i + 1 /\ i + 1 \in 2 .. n + 1 /\ i + 1 \in 1 .. n + 1
      /\ \A i \in 1 .. n + 1 : down[i] = i - 1
      /\ \A i, j \in 1 .. n : i <= j => i + 1 <= j + 1
      /\ \A i, j \in 1 .. n + 1 : i <= j => i - 1 <= j - 1
      /\ \A i \in 1 .. n : (i + 1) - 1 = i
  BY <1>1
<1> HIDE DEF a, n, up1, down
<1>4. IsInjective(dirs) => IsInjective(a)
  <2> SUFFICES ASSUME IsInjective(dirs), NEW i \in 1 .. n + 1, NEW j \in 1 .. n + 1, a[i] = a[j]
               PROVE  i = j
    BY <1>1 DEF IsInjective
  <2>1. CASE i = 1 /\ j = 1
    BY <2>1
  <2>2. CASE i = 1 /\ j \in 2 .. n + 1 /\ j - 1 \in 1 .. n
    BY <1>1, <2>2
  <2>3. CASE j = 1 /\ i \in 2 .. n + 1 /\ i - 1 \in 1 .. n
    BY <1>1, <2>3
  <2>4. CASE /\ i \in 2 .. n + 1 /\ i - 1 \in 1 .. n
             /\ j \in 2 .. n + 1 /\ j - 1 \in 1 .. n
    <3>1. i - 1 = j - 1
      BY <1>1, <2>4 DEF IsInjective
    <3> QED BY <1>1, <3>1
  <2> QED BY <1>2, <2>1, <2>2, <2>3, <2>4
<1>5. Promise!Others(a, d) \subseteq Promise!Others(dirs, d)
  <2>1. \A i \in DOMAIN a : a[i] # d => down[i] \in DOMAIN dirs /\ dirs[down[i]] = a[i]
    BY <1>1, <1>2, <1>3
  <2>2. \A i, j \in DOMAIN a : i <= j /\ a[i] # d /\ a[j] # d => down[i] <= down[j]
    BY <1>1, <1>3
  <2> QED BY <2>1, <2>2, OthersAmong
<1>6. Promise!Others(dirs, d) \subseteq Promise!Others(a, d)
  <2>1. \A i \in DOMAIN dirs : dirs[i] # d => up1[i] \in DOMAIN a /\ a[up1[i]] = dirs[i]
    <3> SUFFICES ASSUME NEW i \in 1 .. n PROVE up1[i] \in DOMAIN a /\ a[up1[i]] = dirs[i]
      BY <1>1
    <3>1. up1[i] = i + 1 /\ i + 1 \in 2 .. n + 1 /\ i + 1 \in DOMAIN a /\ (i + 1) - 1 = i
      BY <1>1, <1>3
    <3> QED BY <1>1, <3>1
  <2>2. \A i, j \in DOMAIN dirs : i <= j /\ dirs[i] # d /\ dirs[j] # d => up1[i] <= up1[j]
    BY <1>1, <1>3
  <2> QED BY <2>1, <2>2, OthersAmong
<1>7. Head(a) = d
  BY <1>1
<1> QED BY <1>1, <1>4, <1>5, <1>6, <1>7 DEF a

\* A directory that is read is read once.
LEMMA DistinctOnce ==
    ASSUME NEW T, NEW seq \in Seq(T), NEW u
    PROVE  IsInjective(Distinct(seq, u))
<1> DEFINE places == {i \in DOMAIN seq : seq[i] \in u /\ \A j \in 1 .. i - 1 : seq[j] # seq[i]}
           w == Distinct(seq, u)
           n == Len(w)
<1>1. PICK h : Ordered(w, h, seq, places, Len(seq))
  <2>1. places \subseteq DOMAIN seq /\ w = Select(seq, places)
    BY DEF Distinct
  <2> HIDE DEF w, places
  <2> QED BY <2>1, SelectOrder
<1>2. w \in Seq({seq[i] : i \in places \intersect DOMAIN seq})
  <2> HIDE DEF places
  <2> QED BY SelectFacts DEF Distinct, places
<1>3. n \in Nat /\ DOMAIN w = 1 .. n /\ DOMAIN seq = 1 .. Len(seq) /\ Len(seq) \in Nat
  <2> HIDE DEF w, places
  <2> QED BY <1>2, LenProperties
<1> HIDE DEF w, n
<1>4. \A i, j \in 1 .. n : i < j => w[i] # w[j]
  <2> SUFFICES ASSUME NEW i \in 1 .. n, NEW j \in 1 .. n, i < j PROVE w[i] # w[j]
    OBVIOUS
  <2>1. /\ h[i] \in places /\ h[j] \in places /\ h[i] < h[j]
        /\ w[i] = seq[h[i]] /\ w[j] = seq[h[j]]
    BY <1>1 DEF Ordered, n
  <2>2. h[i] \in 1 .. h[j] - 1
    BY <1>3, <2>1
  <2> QED BY <2>1, <2>2
<1>5. \A i, j \in 1 .. n : i = j \/ i < j \/ j < i
  BY <1>3
<1>6. IsInjective(w)
  BY <1>3, <1>4, <1>5 DEF IsInjective
<1> QED BY <1>6 DEF w

\* The directories that can be listed and are there.
Listable == (Dirs \ DOMAIN Pieces) \intersect Directories

\* A configuration as it is read when every disk is there.
Whole(cfg) == ConfigOK(cfg) /\ cfg.dirs \in Seq(Listable) /\ IsInjective(cfg.dirs)

\* It is read so.
LEMMA ReadWhole ==
    ASSUME NEW text \in Seq(ConfigLines) \union {None}
    PROVE  Whole(LoadConfig(text, Directories))
<1> DEFINE cfg == LoadConfig(text, Directories)
<1>1. ConfigOK(cfg) /\ cfg.dirs \in Seq(Listable)
  BY LoadConfigType DEF Listable
<1>2. CASE text = None
  <2>1. cfg.dirs = <<>>
    BY <1>2 DEF LoadConfig, EmptyConfig
  <2>2. IsInjective(<<>>)
    BY DEF IsInjective
  <2> QED BY <1>1, <2>1, <2>2 DEF Whole
<1>3. CASE text # None
  <2>1. cfg.dirs = Distinct(Tokens(text), Directories)
    BY <1>3 DEF LoadConfig
  <2>2. Tokens(text) \in Seq(Dirs \ DOMAIN Pieces)
    BY <1>3, TokensType
  <2>3. IsInjective(cfg.dirs)
    BY <2>1, <2>2, DistinctOnce
  <2> QED BY <1>1, <2>3 DEF Whole
<1> QED BY <1>2, <1>3

\* The edits that list a directory need one that can be listed.
Wanted(r, S) == r.op \in {"set source", "add source"} => r.arg \in S

\* The fields of a configuration.
LEMMA ConfigFields ==
    ASSUME NEW cfg, Whole(cfg)
    PROVE  /\ DOMAIN cfg = {"dirs", "target", "manager", "elevation"}
           /\ cfg.dirs \in Seq(Listable) /\ IsInjective(cfg.dirs)
           /\ \A i \in DOMAIN cfg.dirs : cfg.dirs[i] \in Listable
           /\ None \notin Listable
<1>1. cfg.dirs \in Seq(Listable)
  BY DEF Whole
<1>2. \A i \in DOMAIN cfg.dirs : cfg.dirs[i] \in Listable
  BY <1>1
<1>3. None \notin Listable
  BY StoresAssumption DEF Listable
<1> QED BY <1>1, <1>2, <1>3 DEF Whole, ConfigOK

\* A source in front, ...
LEMMA SetSourceFacts ==
    ASSUME NEW cfg, Whole(cfg), NEW d \in Listable, NEW new, new = SetSource(cfg, d)
    PROVE  /\ Promise!KeepsConfigBut({"dirs"}, cfg, new) /\ Promise!KeepsDirsBut(d, cfg, new)
           /\ Head(new.dirs) = d
           /\ new.dirs \in Seq(Listable) /\ IsInjective(new.dirs)
<1> DEFINE less == Without(cfg.dirs, d)
           dirs == <<d>> \o less
<1>1. /\ DOMAIN cfg = {"dirs", "target", "manager", "elevation"}
      /\ cfg.dirs \in Seq(Listable) /\ IsInjective(cfg.dirs)
  BY ConfigFields
<1>2. /\ less \in Seq(Listable) /\ IsInjective(less) /\ \A i \in DOMAIN less : less[i] # d
      /\ Promise!Others(less, d) = Promise!Others(cfg.dirs, d)
  BY <1>1, WithoutFacts
<1>3. new = [cfg EXCEPT !.dirs = dirs]
  BY DEF SetSource
<1> HIDE DEF less
<1>4. /\ dirs \in Seq(Listable) /\ IsInjective(dirs) /\ Head(dirs) = d
      /\ Promise!Others(dirs, d) = Promise!Others(less, d)
  BY <1>2, InFrontFacts
<1> HIDE DEF dirs
<1>5. new.dirs = dirs /\ Promise!KeepsConfigBut({"dirs"}, cfg, new)
  BY <1>1, <1>3 DEF Promise!KeepsConfigBut
<1>6. Promise!KeepsDirsBut(d, cfg, new)
  BY <1>2, <1>4, <1>5 DEF Promise!KeepsDirsBut, Promise!IsInjective, IsInjective
<1> QED BY <1>4, <1>5, <1>6

\* ... one more, ...
LEMMA AddSourceFacts ==
    ASSUME NEW cfg, Whole(cfg), NEW d \in Listable, NEW new, new = AddSource(cfg, d)
    PROVE  /\ Promise!KeepsConfigBut({"dirs"}, cfg, new) /\ Promise!KeepsDirsBut(d, cfg, new)
           /\ d \in ToSet(new.dirs)
           /\ cfg.dirs # <<>> => Head(new.dirs) = Head(cfg.dirs)
           /\ new.dirs \in Seq(Listable) /\ IsInjective(new.dirs)
           /\ new = cfg => d \in ToSet(cfg.dirs)
<1> DEFINE dirs == IF Contains(cfg.dirs, d) THEN cfg.dirs ELSE Append(cfg.dirs, d)
<1>1. /\ DOMAIN cfg = {"dirs", "target", "manager", "elevation"}
      /\ cfg.dirs \in Seq(Listable) /\ IsInjective(cfg.dirs)
  BY ConfigFields
<1>2. new = [cfg EXCEPT !.dirs = dirs]
  BY DEF AddSource
<1>3. /\ dirs \in Seq(Listable) /\ IsInjective(dirs) /\ d \in ToSet(dirs)
      /\ Promise!Others(dirs, d) = Promise!Others(cfg.dirs, d)
      /\ cfg.dirs # <<>> => Head(dirs) = Head(cfg.dirs)
  <2> DEFINE old == cfg.dirs
  <2>1. old \in Seq(Listable) /\ DOMAIN old = 1 .. Len(old)
    BY <1>1
  <2>2. CASE Contains(old, d)
    <3>1. d \in ToSet(old)
      BY <2>1, <2>2 DEF Contains, ToSet
    <3> QED BY <1>1, <2>2, <3>1
  <2>3. CASE ~Contains(old, d)
    <3>1. \A i \in DOMAIN old : old[i] # d
      BY <2>1, <2>3 DEF Contains, ToSet
    <3>2. d \in Listable /\ IsInjective(old)
      BY <1>1
    <3>3. /\ dirs = Append(old, d)
      BY <2>3
    <3>4. old # <<>> => Append(old, d) # <<>> /\ Append(old, d)[1] = old[1]
      BY <2>1, AppendHead
    <3>5. Head(old) = old[1] /\ Head(dirs) = dirs[1]
      BY DEF Head
    <3>6. cfg.dirs = old
      OBVIOUS
    <3> HIDE DEF old, dirs
    <3>7. /\ dirs \in Seq(Listable) /\ IsInjective(dirs) /\ d \in ToSet(dirs)
          /\ Promise!Others(dirs, d) = Promise!Others(old, d)
      BY <2>1, <3>1, <3>2, <3>3, AppendFacts
    <3> QED BY <3>3, <3>4, <3>5, <3>6, <3>7
  <2> QED BY <2>2, <2>3
<1> HIDE DEF dirs
<1>5. new.dirs = dirs /\ Promise!KeepsConfigBut({"dirs"}, cfg, new)
  BY <1>1, <1>2 DEF Promise!KeepsConfigBut
<1>6. Promise!KeepsDirsBut(d, cfg, new)
  BY <1>3, <1>5 DEF Promise!KeepsDirsBut, Promise!IsInjective, IsInjective
<1> QED BY <1>3, <1>5, <1>6

\* ... and one less, or no target.
LEMMA RemoveDirFacts ==
    ASSUME NEW cfg, Whole(cfg), NEW d, NEW new, new = RemoveDir(cfg, d)
    PROVE  /\ Promise!KeepsConfigBut({"dirs", "target"}, cfg, new)
           /\ Promise!KeepsDirsBut(d, cfg, new)
           /\ d \notin ToSet(new.dirs)
           /\ new.target = IF d \in {None, cfg.target} THEN None ELSE cfg.target
           /\ new.dirs \in Seq(Listable) /\ IsInjective(new.dirs)
           /\ new = cfg => /\ d \notin ToSet(cfg.dirs)
                           /\ cfg.target = None \/ d \notin {None, cfg.target}
<1> DEFINE less == Without(cfg.dirs, d)
<1>1. /\ DOMAIN cfg = {"dirs", "target", "manager", "elevation"}
      /\ cfg.dirs \in Seq(Listable) /\ IsInjective(cfg.dirs)
      /\ \A i \in DOMAIN cfg.dirs : cfg.dirs[i] \in Listable
      /\ None \notin Listable
  BY ConfigFields
<1>2. /\ less \in Seq(Listable) /\ IsInjective(less) /\ \A i \in DOMAIN less : less[i] # d
      /\ Promise!Others(less, d) = Promise!Others(cfg.dirs, d)
  BY <1>1, WithoutFacts
<1>3. CASE d = None
  <2>1. new = [cfg EXCEPT !.target = None]
    BY <1>3 DEF RemoveDir
  <2>2. new.dirs = cfg.dirs /\ new.target = None
    BY <1>1, <2>1
  <2>3. Promise!KeepsConfigBut({"dirs", "target"}, cfg, new)
    BY <1>1, <2>1 DEF Promise!KeepsConfigBut
  <2>4. Promise!KeepsDirsBut(d, cfg, new)
    BY <1>1, <2>2 DEF Promise!KeepsDirsBut, Promise!IsInjective, IsInjective
  <2>5. d \notin ToSet(cfg.dirs)
    BY <1>1, <1>3 DEF ToSet
  <2> QED BY <1>1, <1>3, <2>2, <2>3, <2>4, <2>5
<1>4. CASE d # None
  <2>1. new = [cfg EXCEPT !.target = IF @ = d THEN None ELSE @, !.dirs = less]
    BY <1>4 DEF RemoveDir
  <2> HIDE DEF less
  <2>2. new.dirs = less /\ new.target = IF cfg.target = d THEN None ELSE cfg.target
    BY <1>1, <2>1
  <2>3. Promise!KeepsConfigBut({"dirs", "target"}, cfg, new)
    BY <1>1, <2>1 DEF Promise!KeepsConfigBut
  <2>4. Promise!KeepsDirsBut(d, cfg, new)
    BY <1>2, <2>2 DEF Promise!KeepsDirsBut, Promise!IsInjective, IsInjective
  <2>5. d \notin ToSet(less)
    BY <1>2 DEF ToSet
  <2> QED BY <1>2, <1>4, <2>2, <2>3, <2>4, <2>5
<1> QED BY <1>3, <1>4

\* The directory an edit is about.
Meant(r) == IF r.path = None THEN None ELSE Prepare(r.path)

\* There is nothing to do in a configuration.
Settled(r, cfg) ==
    /\ r.op = "add source" => r.arg \in ToSet(cfg.dirs)
    /\ r.op = "remove dir" => /\ r.arg \notin ToSet(cfg.dirs)
                              /\ cfg.target = None \/ r.arg \notin {None, cfg.target}

\* Edits of a configuration do what is promised, and leave one that can be saved.
LEMMA EditEffect ==
    ASSUME NEW cfg, Whole(cfg), NEW r, RequestOK(r), r.op \in ConfigOps, Wanted(r, Listable),
           NEW new, new = ConfigEdit(r, cfg, Meant(r))
    PROVE  /\ Promise!ConfigEffect(r, cfg, new) /\ Whole(new)
           /\ new = cfg => Settled(r, cfg)
<1>0. ConfigOK(new)
  BY ConfigEditType DEF Meant, Whole
<1>00. /\ Meant(r) = r.arg \/ r.op \in {"manager", "elevation"}
       /\ \A s : Promise!ToSet(s) = ToSet(s)
  <2>1. Meant(r) = r.arg \/ r.op \in {"manager", "elevation"}
    BY Zenon DEF RequestOK, Meant, ConfigOps
  <2>2. \A s : Promise!ToSet(s) = ToSet(s)
    BY DEF Promise!ToSet, ToSet
  <2> QED BY <2>1, <2>2
<1>1. CASE r.op = "set source"
  <2>1. new = SetSource(cfg, r.arg) /\ r.arg \in Listable
    BY <1>00, <1>1, Zenon DEF ConfigEdit, Wanted
  <2>2. /\ Promise!KeepsConfigBut({"dirs"}, cfg, new) /\ Promise!KeepsDirsBut(r.arg, cfg, new)
        /\ Head(new.dirs) = r.arg
        /\ new.dirs \in Seq(Listable) /\ IsInjective(new.dirs)
    BY <2>1, SetSourceFacts, Zenon
  <2>3. Promise!ConfigEffect(r, cfg, new)
    BY <1>1, <2>2, Zenon DEF Promise!ConfigEffect
  <2>4. Settled(r, cfg)
    BY <1>1, Zenon DEF Settled
  <2> QED BY <1>0, <2>2, <2>3, <2>4, Zenon DEF Whole
<1>2. CASE r.op = "add source"
  <2>1. new = AddSource(cfg, r.arg) /\ r.arg \in Listable
    BY <1>00, <1>2, Zenon DEF ConfigEdit, Wanted
  <2>2. /\ Promise!KeepsConfigBut({"dirs"}, cfg, new) /\ Promise!KeepsDirsBut(r.arg, cfg, new)
        /\ r.arg \in ToSet(new.dirs)
        /\ cfg.dirs # <<>> => Head(new.dirs) = Head(cfg.dirs)
        /\ new.dirs \in Seq(Listable) /\ IsInjective(new.dirs)
        /\ new = cfg => r.arg \in ToSet(cfg.dirs)
    BY <2>1, AddSourceFacts, Zenon
  <2>3. Promise!ConfigEffect(r, cfg, new)
    BY <1>00, <1>2, <2>2, Zenon DEF Promise!ConfigEffect
  <2>4. new = cfg => Settled(r, cfg)
    BY <1>2, <2>2, Zenon DEF Settled
  <2> QED BY <1>0, <2>2, <2>3, <2>4, Zenon DEF Whole
<1>3. CASE r.op = "remove dir"
  <2>1. new = RemoveDir(cfg, r.arg)
    BY <1>00, <1>3, Zenon DEF ConfigEdit
  <2>2. /\ Promise!KeepsConfigBut({"dirs", "target"}, cfg, new)
        /\ Promise!KeepsDirsBut(r.arg, cfg, new)
        /\ r.arg \notin ToSet(new.dirs)
        /\ new.target = IF r.arg \in {None, cfg.target} THEN None ELSE cfg.target
        /\ new.dirs \in Seq(Listable) /\ IsInjective(new.dirs)
        /\ new = cfg => /\ r.arg \notin ToSet(cfg.dirs)
                        /\ cfg.target = None \/ r.arg \notin {None, cfg.target}
    BY <2>1, RemoveDirFacts, Zenon
  <2>3. Promise!ConfigEffect(r, cfg, new)
    BY <1>00, <1>3, <2>2, Zenon DEF Promise!ConfigEffect
  <2>4. new = cfg => Settled(r, cfg)
    BY <1>3, <2>2, Zenon DEF Settled
  <2> QED BY <1>0, <2>2, <2>3, <2>4, Zenon DEF Whole
<1>4. CASE r.op \in {"target", "manager", "elevation"}
  <2>1. new = [cfg EXCEPT ![r.op] = r.arg]
    BY <1>00, <1>4, Zenon DEF ConfigEdit, SetTarget, SetManager, SetElevation
  <2>2. /\ Promise!KeepsConfigBut({r.op}, cfg, new) /\ new[r.op] = r.arg
        /\ new.dirs \in Seq(Listable) /\ IsInjective(new.dirs)
    <3>1. PICK f, value : f = r.op /\ value = r.arg
      OBVIOUS
    <3>2. f \in {"target", "manager", "elevation"} /\ new = [cfg EXCEPT ![f] = value]
      BY <1>4, <2>1, <3>1
    <3>3. /\ DOMAIN cfg = {"dirs", "target", "manager", "elevation"}
          /\ cfg.dirs \in Seq(Listable) /\ IsInjective(cfg.dirs)
      BY ConfigFields
    <3>4. new.dirs = cfg.dirs
      BY <3>2, <3>3
    <3>5. Promise!KeepsConfigBut({f}, cfg, new) /\ new[f] = value
      BY <3>2, <3>3 DEF Promise!KeepsConfigBut
    <3> QED BY <3>1, <3>3, <3>4, <3>5
  <2>3. Promise!ConfigEffect(r, cfg, new)
    BY <1>4, <2>2, Zenon DEF Promise!ConfigEffect
  <2>4. Settled(r, cfg)
    BY <1>4, Zenon DEF Settled
  <2> QED BY <1>0, <2>2, <2>3, <2>4, Zenon DEF Whole
<1> QED BY <1>1, <1>2, <1>3, <1>4, Zenon DEF ConfigOps

\* What is planned for the configuration has the effect it should have, or there is
\* nothing to do.
LEMMA ConfigPlanServes ==
    ASSUME TextsOK, up \subseteq Directories, NEW r, RequestOK(r), r.op \in ConfigOps,
           NEW plan, plan = ConfigPlan(r), plan.answer # "failed", Breaks(r, plan) = {}
    PROVE  LET old == LoadConfig(disk[ConfigFile(disk)], Directories) IN
           \/ \E new : /\ plan.todo = << <<"write", ConfigFile(disk), ConfigText(new)>> >>
                       /\ Whole(new) /\ Promise!ConfigEffect(r, old, new)
           \/ /\ plan.todo = <<>> /\ plan.answer = "nothing"
              /\ r.op \in {"add source", "remove dir"} /\ Settled(r, old)
<1> DEFINE old == LoadConfig(disk[ConfigFile(disk)], Directories)
           d == Meant(r)
           new == ConfigEdit(r, TheConfig, d)
           w == <<"write", ConfigFile(disk), ConfigText(new)>>
<1>1. old = TheConfig
  <2>1. ~SomeAbsent
    BY Unbroken, Zenon
  <2> QED BY <2>1 DEF SomeAbsent
<1>2. Whole(old)
  <2>1. disk[ConfigFile(disk)] \in Seq(ConfigLines) \union {None}
    BY TheConfigType
  <2> QED BY <2>1, ReadWhole
<1>3. \/ plan = Said("failed")
      \/ plan = Said("nothing") /\ new = TheConfig /\ r.op \in {"add source", "remove dir"}
      \/ plan = Plan(<<w>>)
  BY Zenon DEF ConfigPlan, Meant
<1>4. plan # Said("failed") /\ ~(d # None /\ d \notin up /\ r.op # "remove dir")
  <2>1. Said("failed").answer = "failed"
    BY DEF Said
  <2>2. plan # Said("failed")
    BY <2>1
  <2> QED BY <2>2, Zenon DEF ConfigPlan, Meant
<1>5. Wanted(r, Listable)
  <2>1. r.op \in {"set source", "add source"} =>
            d = r.arg /\ r.arg \in Dirs /\ r.op # "remove dir"
    BY Zenon DEF RequestOK, Meant
  <2>2. None \notin Dirs
    BY ConfigAssumption
  <2>3. r.op \in {"set source", "add source"} => r.arg \notin DOMAIN Pieces
    BY Unbroken, Zenon
  <2>4. r.op \in {"set source", "add source"} =>
            r.arg \in Dirs /\ r.arg \notin DOMAIN Pieces /\ r.arg \in up
    BY <1>4, <2>1, <2>2, <2>3, Zenon
  <2>5. \A x : x \in Dirs /\ x \notin DOMAIN Pieces /\ x \in up => x \in Listable
    BY Zenon DEF Listable
  <2> QED BY <2>4, <2>5, Zenon DEF Wanted
<1> HIDE DEF d
<1>6. /\ Promise!ConfigEffect(r, old, new) /\ Whole(new)
      /\ new = old => Settled(r, old)
  <2> HIDE DEF old
  <2>1. Whole(TheConfig)
    BY <1>1, <1>2
  <2>2. Wanted(r, Listable) /\ new = ConfigEdit(r, TheConfig, Meant(r))
    BY <1>5 DEF d
  <2> HIDE DEF new
  <2> QED BY <1>1, <2>1, <2>2, EditEffect
<1> HIDE DEF old, new
<1>7. CASE plan = Said("nothing") /\ new = TheConfig /\ r.op \in {"add source", "remove dir"}
  <2>1. plan.todo = <<>> /\ plan.answer = "nothing"
    <3>1. plan = Said("nothing")
      BY <1>7, Zenon
    <3> QED BY <3>1 DEF Said
  <2>2. Settled(r, old)
    BY <1>1, <1>6, <1>7, Zenon
  <2> QED BY <1>7, <2>1, <2>2, Zenon DEF old
<1>8. CASE plan = Plan(<<w>>)
  <2>1. plan.todo = <<w>>
    BY <1>8, PlanFields
  <2> QED BY <1>6, <2>1, Zenon DEF old
<1> QED BY <1>3, <1>4, <1>7, <1>8, Zenon

-----------------------------------------------------------------------------
(* ... and so do the edits of the manifests ... *)

\* The fields of a manifest.
LEMMA ManifestFields ==
    ASSUME NEW m, ManifestOK(m)
    PROVE  /\ DOMAIN m = {"target", "required", "optional", "conflicts"}
           /\ m = [target |-> m.target, required |-> m.required, optional |-> m.optional,
                   conflicts |-> m.conflicts]
BY DEF ManifestOK

\* What the lines of a manifest give.
LEMMA SavedLists ==
    ASSUME NEW m, ManifestOK(m)
    PROVE  /\ ListIn(ManifestText(m), "REQUIRED") = m.required
           /\ ListIn(ManifestText(m), "OPTIONAL") = m.optional
           /\ ListIn(ManifestText(m), "CONFLICTS") = m.conflicts
<1> DEFINE first == Line("TARGET", m.target)
           rest == << <<"REQUIRED", m.required>>, <<"OPTIONAL", m.optional>>,
                      <<"CONFLICTS", m.conflicts>> >>
           text == ManifestText(m)
           R == <<"REQUIRED", m.required>>
           O == <<"OPTIONAL", m.optional>>
           C == <<"CONFLICTS", m.conflicts>>
<1>1. text = first \o rest
  BY DEF ManifestText
<1>2. /\ rest \in Seq(ManifestLines) /\ DOMAIN rest = 1 .. 3
      /\ rest[1] = R /\ rest[2] = O /\ rest[3] = C
  <2>1. R \in ManifestLines /\ O \in ManifestLines /\ C \in ManifestLines
    BY DEF ManifestOK, ManifestLines
  <2> HIDE DEF ManifestLines, R, O, C
  <2> QED BY <2>1 DEF R, O, C
<1>3. first \in Seq(ManifestLines) /\ \A i \in DOMAIN first : first[i][1] = "TARGET"
  <2>1. m.target = None \/ <<"TARGET", m.target>> \in ManifestLines
    BY DEF ManifestOK, ManifestLines
  <2>2. first \in Seq(ManifestLines)
    <3> HIDE DEF ManifestLines
    <3> QED BY <2>1 DEF Line
  <2> QED BY <2>2, LineKeys
<1> HIDE DEF first, rest
<1>4. /\ \A i \in DOMAIN rest : Len(first) + i \in DOMAIN text /\ text[Len(first) + i] = rest[i]
      /\ \A i \in DOMAIN text : \/ i \in DOMAIN first /\ text[i] = first[i]
                                \/ i - Len(first) \in DOMAIN rest /\ text[i] = rest[i - Len(first)]
  <2> HIDE DEF text, ManifestLines
  <2> QED BY <1>1, <1>2, <1>3, Joined
<1> HIDE DEF text
<1>5. /\ {R, O, C} \subseteq ToSet(text)
      /\ \A l \in ToSet(text) : l[1] = "TARGET" \/ l \in {R, O, C}
  <2>1. {R, O, C} \subseteq ToSet(text)
    <3>1. 1 \in DOMAIN rest /\ 2 \in DOMAIN rest /\ 3 \in DOMAIN rest
      BY <1>2
    <3> HIDE DEF R, O, C
    <3> QED BY <1>2, <1>4, <3>1 DEF ToSet
  <2>2. ASSUME NEW i \in DOMAIN text PROVE text[i][1] = "TARGET" \/ text[i] \in {R, O, C}
    <3> HIDE DEF R, O, C
    <3>1. CASE i \in DOMAIN first /\ text[i] = first[i]
      BY <1>3, <3>1
    <3>2. CASE i - Len(first) \in DOMAIN rest /\ text[i] = rest[i - Len(first)]
      <4>1. \A j \in 1 .. 3 : j = 1 \/ j = 2 \/ j = 3
        OBVIOUS
      <4> QED BY <1>2, <3>2, <4>1
    <3> QED BY <1>4, <3>1, <3>2
  <2> QED BY <2>1, <2>2 DEF ToSet
<1>6. /\ {l \in ToSet(text) : l[1] = "REQUIRED"} = {R}
      /\ {l \in ToSet(text) : l[1] = "OPTIONAL"} = {O}
      /\ {l \in ToSet(text) : l[1] = "CONFLICTS"} = {C}
  BY <1>5
<1>7. /\ UNION {line[2] : line \in {R}} = m.required
      /\ UNION {line[2] : line \in {O}} = m.optional
      /\ UNION {line[2] : line \in {C}} = m.conflicts
  OBVIOUS
<1> QED BY <1>6, <1>7 DEF ListIn, text

\* What is saved is read again.
LEMMA ParseSaved ==
    ASSUME NEW m, ManifestOK(m)
    PROVE  ParseManifest(ManifestText(m)) = m
<1>1. LastValue(ManifestText(m), "TARGET") = m.target
  BY ManifestTextFacts
<1> QED BY <1>1, SavedLists, ManifestFields DEF ParseManifest

\* A tool is in one of the three lists, or in none.
LEMMA PlacesOf ==
    ASSUME NEW m, NEW tool
    PROVE  /\ "required" \in Promise!Places(m, tool) <=> tool \in m.required
           /\ "optional" \in Promise!Places(m, tool) <=> tool \in m.optional
           /\ "conflicts" \in Promise!Places(m, tool) <=> tool \in m.conflicts
           /\ Promise!Places(m, tool) \subseteq {"required", "optional", "conflicts"}
           /\ Promise!Places(m, tool) = {} <=> tool \notin Listed(m)
BY DEF Promise!Places, Promise!Lists, Listed

\* The lists of two manifests agree but for some tools.
LEMMA ToolsKept ==
    ASSUME NEW tools, NEW m, NEW new
    PROVE  Promise!KeepsToolsBut(tools, m, new) <=>
               /\ new.required \ tools = m.required \ tools
               /\ new.optional \ tools = m.optional \ tools
               /\ new.conflicts \ tools = m.conflicts \ tools
BY DEF Promise!KeepsToolsBut, Promise!Lists

\* A tool is listed where it was, and in the list a kind stands for.
Gains(m, tool, kind, new) ==
    Promise!Places(new, tool) = Promise!Places(m, tool) \union {Promise!List(kind)}

\* A tool that is added is in its list as well.
LEMMA ToolAdded ==
    ASSUME NEW m, ManifestOK(m), NEW dep \in STRING, NEW kind, NEW more, more = AddDep(m, dep, kind)
    PROVE  /\ ManifestOK(more) /\ more.target = m.target
           /\ Promise!KeepsToolsBut({dep}, m, more) /\ Gains(m, dep, kind, more)
<1>1. m \in [target : Dirs \union {None}, required : SUBSET STRING,
             optional : SUBSET STRING, conflicts : SUBSET STRING]
  BY DEF ManifestOK
<1>2. /\ more = [m EXCEPT ![DepType(kind)] = m[DepType(kind)] \union {dep}]
      /\ DepType(kind) = Promise!List(kind)
      /\ DepType(kind) \in {"required", "optional", "conflicts"}
  BY DEF AddDep, DepType, Promise!List, Promise!Lists
<1>3. /\ ManifestOK(more) /\ more.target = m.target
      /\ more.required = IF DepType(kind) = "required" THEN m.required \union {dep} ELSE m.required
      /\ more.optional = IF DepType(kind) = "optional" THEN m.optional \union {dep} ELSE m.optional
      /\ more.conflicts =
             IF DepType(kind) = "conflicts" THEN m.conflicts \union {dep} ELSE m.conflicts
  <2>1. CASE DepType(kind) = "required"
    BY <1>1, <1>2, <2>1 DEF ManifestOK
  <2>2. CASE DepType(kind) = "optional"
    BY <1>1, <1>2, <2>2 DEF ManifestOK
  <2>3. CASE DepType(kind) = "conflicts"
    BY <1>1, <1>2, <2>3 DEF ManifestOK
  <2> QED BY <1>2, <2>1, <2>2, <2>3
<1>4. Promise!KeepsToolsBut({dep}, m, more)
  BY <1>3, ToolsKept
<1>5. \A l \in {"required", "optional", "conflicts"} :
          dep \in more[l] <=> (dep \in m[l] \/ l = DepType(kind))
  BY <1>2, <1>3
<1>6. Promise!Places(more, dep) = Promise!Places(m, dep) \union {DepType(kind)}
  BY <1>2, <1>5 DEF Promise!Places, Promise!Lists
<1> QED BY <1>2, <1>3, <1>4, <1>6 DEF Gains

\* The same of a request.
LEMMA ToolAddedFor ==
    ASSUME NEW r, r.arg \in STRING, NEW m, ManifestOK(m)
    PROVE  LET more == AddDep(m, r.arg, r.kind)
           IN  /\ ManifestOK(more) /\ more.target = m.target
               /\ Promise!KeepsToolsBut({r.arg}, m, more)
               /\ Gains(m, r.arg, r.kind, more)
<1> DEFINE more == AddDep(m, r.arg, r.kind)
<1>1. PICK dep, kind : dep = r.arg /\ kind = r.kind
  OBVIOUS
<1>2. dep \in STRING /\ more = AddDep(m, dep, kind)
  BY <1>1
<1> HIDE DEF more
<1>3. /\ ManifestOK(more) /\ more.target = m.target
      /\ Promise!KeepsToolsBut({dep}, m, more) /\ Gains(m, dep, kind, more)
  BY <1>2, ToolAdded
<1> QED BY <1>1, <1>3 DEF more

\* One that is removed is in none.
LEMMA ToolRemoved ==
    ASSUME NEW m, ManifestOK(m), NEW dep, NEW less, less = RemoveDep(m, dep)
    PROVE  /\ ManifestOK(less) /\ less.target = m.target
           /\ Promise!KeepsToolsBut({dep}, m, less)
           /\ Promise!Places(less, dep) = {}
<1>1. /\ less = [m EXCEPT !.required = @ \ {dep}, !.optional = @ \ {dep}, !.conflicts = @ \ {dep}]
      /\ m \in [target : Dirs \union {None}, required : SUBSET STRING,
                optional : SUBSET STRING, conflicts : SUBSET STRING]
  BY DEF RemoveDep, ManifestOK
<1>2. ManifestOK(less) /\ less.target = m.target
  BY <1>1 DEF ManifestOK
<1>3. /\ less.required = m.required \ {dep} /\ less.optional = m.optional \ {dep}
      /\ less.conflicts = m.conflicts \ {dep}
  BY <1>1
<1>4. Promise!KeepsToolsBut({dep}, m, less) /\ Promise!Places(less, dep) = {}
  BY <1>3, PlacesOf, ToolsKept DEF Listed
<1> QED BY <1>2, <1>4

\* Each of some tools is in a list.
AllListed(tools, m) == \A tool \in tools : Promise!Places(m, tool) # {}

\* What a scan that has found some tools does to the manifest.
ScanEffect(called, old, new, all) ==
    LET unlisted == {tool \in called : Promise!Places(old, tool) = {}}
    IN  /\ Promise!KeepsToolsBut(unlisted, old, new) /\ new.conflicts = old.conflicts
        /\ all => \A tool \in unlisted : Promise!Places(new, tool) # {}

\* A scan lists tools that were not listed, all of them if everything is picked.
LEMMA ScanFacts ==
    ASSUME NEW m, ManifestOK(m), NEW shebangs, NEW found, NEW chosen,
           chosen \subseteq found \ Listed(m), NEW new, new = ScanInto(m, shebangs, chosen)
    PROVE  /\ ScanEffect(shebangs \union found, m, new, chosen = found \ Listed(m))
           /\ chosen = found \ Listed(m) /\ new = m => AllListed(shebangs \union found, m)
<1>1. /\ new.required = m.required \union (shebangs \ Listed(m))
      /\ new.optional = m.optional \union chosen
      /\ new.conflicts = m.conflicts
  BY DEF ScanInto, ManifestOK
<1>2. \A tool : /\ Promise!Places(m, tool) = {} <=> tool \notin Listed(m)
                /\ Promise!Places(new, tool) = {} <=> tool \notin Listed(new)
  BY PlacesOf
<1>3. Promise!KeepsToolsBut({tool \in shebangs \union found : tool \notin Listed(m)}, m, new)
  BY <1>1, ToolsKept
<1>4. chosen = found \ Listed(m) =>
          \A tool \in shebangs \union found : tool \in Listed(new)
  BY <1>1 DEF Listed
<1> QED BY <1>1, <1>2, <1>3, <1>4 DEF ScanEffect, AllListed

\* The effect of a plan that saves a manifest.
Saves(r, plan, new) ==
    /\ plan = Plan(SaveManifest(r.who, new)) /\ ManifestOK(new)
    /\ Promise!ManifestEffect(r, LoadManifest(disk, r.who), new)

\* What `pkg create` and `deps` plan has the effect it should have.
LEMMA ManifestPlanServes ==
    ASSUME TextsOK, NEW r, RequestOK(r), r.op \in ManifestOps \ {"scan -i", "scan -y"},
           NEW plan, plan = ManifestPlan(r), Breaks(r, plan) = {}
    PROVE  \E new : Saves(r, plan, new)
<1> DEFINE m == LoadManifest(disk, r.who)
<1>1. ManifestOK(m)
  <2>1. r.who \in Packages
    BY Zenon DEF RequestOK
  <2> QED BY <2>1, LoadManifestType
<1>2. r.op = "deps target" => r.arg \in Dirs \union {None}
  BY Zenon DEF RequestOK
<1>3. r.op \in {"deps add", "deps edit", "deps remove"} => r.arg \in STRING
  BY Zenon DEF RequestOK
<1>4. CASE r.op = "create"
  <2>1. plan = Plan(SaveManifest(r.who, EmptyManifest))
    BY <1>4, Zenon DEF ManifestPlan
  <2>2. ~HasManifest(disk, r.who)
    <3>1. plan.answer # "failed"
      BY <2>1, PlanFields
    <3> QED BY <1>4, <3>1, Unbroken, Zenon
  <2>3. m = EmptyManifest
    BY <2>2, Zenon DEF LoadManifest
  <2>4. Promise!KeepsToolsBut({}, m, m)
    BY ToolsKept
  <2>5. Promise!ManifestEffect(r, m, EmptyManifest)
    BY <1>4, <2>3, <2>4, Zenon DEF Promise!ManifestEffect
  <2> QED BY <1>1, <2>1, <2>3, <2>5, Zenon DEF Saves
<1>5. CASE r.op = "deps target"
  <2> DEFINE new == SetTargetPath(m, r.arg)
  <2>1. plan = Plan(SaveManifest(r.who, new))
    BY <1>5, Zenon DEF ManifestPlan
  <2>2. ASSUME NEW k, ManifestOK(k), NEW t \in Dirs \union {None}
        PROVE  /\ ManifestOK(SetTargetPath(k, t)) /\ SetTargetPath(k, t).target = t
               /\ Promise!KeepsToolsBut({}, k, SetTargetPath(k, t))
    <3>1. SetTargetPath(k, t) = [k EXCEPT !.target = t]
      BY DEF SetTargetPath
    <3>2. ManifestOK(SetTargetPath(k, t)) /\ SetTargetPath(k, t).target = t
      BY <2>2, <3>1 DEF ManifestOK
    <3> QED BY <2>2, <3>1, <3>2, ToolsKept DEF ManifestOK
  <2>3. ManifestOK(new) /\ new.target = r.arg /\ Promise!KeepsToolsBut({}, m, new)
    BY <1>1, <1>2, <1>5, <2>2, Zenon
  <2>4. Promise!ManifestEffect(r, m, new)
    BY <1>5, <2>3, Zenon DEF Promise!ManifestEffect
  <2> QED BY <2>1, <2>3, <2>4, Zenon DEF Saves
<1>6. CASE r.op = "deps add"
  <2> DEFINE new == AddDep(m, r.arg, r.kind)
  <2>1. plan = Plan(SaveManifest(r.who, new))
    BY <1>6, Zenon DEF ManifestPlan
  <2>2. /\ ManifestOK(new) /\ new.target = m.target /\ Promise!KeepsToolsBut({r.arg}, m, new)
        /\ Gains(m, r.arg, r.kind, new)
    <3>1. r.arg \in STRING
      BY <1>3, <1>6, Zenon
    <3> HIDE DEF m
    <3> QED BY <1>1, <3>1, ToolAddedFor, Zenon
  <2>3. Promise!ManifestEffect(r, m, new)
    BY <1>6, <2>2, Zenon DEF Promise!ManifestEffect, Gains
  <2> QED BY <2>1, <2>2, <2>3, Zenon DEF Saves
<1>7. CASE r.op = "deps edit"
  <2> DEFINE less == RemoveDep(m, r.arg)
             new == AddDep(less, r.arg, r.kind)
  <2>1. plan = Plan(SaveManifest(r.who, new))
    BY <1>7, Zenon DEF ManifestPlan, EditDep
  <2>2. /\ ManifestOK(less) /\ less.target = m.target /\ Promise!KeepsToolsBut({r.arg}, m, less)
        /\ Promise!Places(less, r.arg) = {}
    <3>1. r.arg \in STRING
      BY <1>3, <1>7, Zenon
    <3> QED BY <1>1, <3>1, ToolRemoved, Zenon
  <2>3. /\ ManifestOK(new) /\ new.target = less.target
        /\ Promise!KeepsToolsBut({r.arg}, less, new)
        /\ Gains(less, r.arg, r.kind, new)
    <3>1. r.arg \in STRING
      BY <1>3, <1>7, Zenon
    <3> QED BY <2>2, <3>1, ToolAdded, Zenon
  <2>4. Promise!KeepsToolsBut({r.arg}, m, new)
    BY <2>2, <2>3, Zenon DEF Promise!KeepsToolsBut
  <2>5. Promise!Places(new, r.arg) = {Promise!List(r.kind)}
    <3>1. \A S, x : S = {} => S \union {x} = {x}
      BY Zenon
    <3> QED BY <2>2, <2>3, <3>1, Zenon DEF Gains
  <2>6. new.target = m.target
    BY <2>2, <2>3, Zenon
  <2>7. Promise!ManifestEffect(r, m, new)
    BY <1>7, <2>4, <2>5, <2>6, Zenon DEF Promise!ManifestEffect
  <2> QED BY <2>1, <2>3, <2>7, Zenon DEF Saves
<1>8. CASE r.op = "deps remove"
  <2> DEFINE new == RemoveDep(m, r.arg)
  <2>1. plan = Plan(SaveManifest(r.who, new))
    BY <1>8, Zenon DEF ManifestPlan
  <2>2. /\ ManifestOK(new) /\ new.target = m.target /\ Promise!KeepsToolsBut({r.arg}, m, new)
        /\ Promise!Places(new, r.arg) = {}
    <3>1. r.arg \in STRING
      BY <1>3, <1>8, Zenon
    <3> QED BY <1>1, <3>1, ToolRemoved, Zenon
  <2>3. Promise!ManifestEffect(r, m, new)
    BY <1>8, <2>2, Zenon DEF Promise!ManifestEffect
  <2> QED BY <2>1, <2>2, <2>3, Zenon DEF Saves
<1> QED BY <1>4, <1>5, <1>6, <1>7, <1>8, Zenon DEF ManifestOps

\* It adds tools of the package that no list has; all of them if all are picked.
LEMMA ScanAdds ==
    ASSUME NEW p, ScanFinds(p), NEW old, old = LoadManifest(disk, p), ManifestOK(old),
           NEW chosen \in SUBSET NewInvocations(p),
           NEW new, new = ScanInto(old, Shebangs(Scanned(p), p), chosen)
    PROVE  /\ ScanEffect(Uses[p], old, new, chosen = NewInvocations(p))
           /\ chosen = NewInvocations(p) /\ new = old => AllListed(Uses[p], old)
<1>1. PICK shebangs, found :
          /\ shebangs = Shebangs(Scanned(p), p)
          /\ found = Invocations(Scanned(p), p, Candidates(AllPackages, Tools))
  OBVIOUS
<1>2. Uses[p] = shebangs \union found
  BY <1>1 DEF ScanFinds
<1>3. NewInvocations(p) = found \ Listed(old)
  BY <1>1 DEF NewInvocations
<1>4. new = ScanInto(old, shebangs, chosen)
  BY <1>1
<1>5. /\ ScanEffect(shebangs \union found, old, new, chosen = found \ Listed(old))
      /\ chosen = found \ Listed(old) /\ new = old => AllListed(shebangs \union found, old)
  BY <1>3, <1>4, ScanFacts
<1> QED BY <1>2, <1>3, <1>5

\* What a scan plans has the effect it should have, or there is nothing to do.
ScanServed(r, plan) ==
    \/ \E first, new :
           /\ Writes(r, first) /\ \A i \in DOMAIN first : first[i][2] = RegistryFile
           /\ plan = Plan(first \o SaveManifest(r.who, new)) /\ ManifestOK(new)
           /\ Promise!ManifestEffect(r, LoadManifest(disk, r.who), new)
    \/ /\ plan = Said("nothing")
       /\ r.op = "scan -y" => AllListed(Uses[r.who], LoadManifest(disk, r.who))

\* It is so.
LEMMA ScanPlanServes ==
    ASSUME TextsOK, NEW r, RequestOK(r), r.op \in {"scan -i", "scan -y"}, ScanFinds(r.who),
           NEW picked, Picked(r, picked), NEW plan, plan = ScanPlan(r, picked)
    PROVE  ScanServed(r, plan)
<1> DEFINE chosen == ToSet(picked)
           old == LoadManifest(disk, r.who)
           shebangs == Shebangs(Scanned(r.who), r.who)
           new == ScanInto(old, shebangs, chosen)
           all == chosen = NewInvocations(r.who)
<1>1. /\ ManifestOK(old) /\ ManifestOK(new) /\ new.target = old.target
      /\ \/ plan = Said("nothing") /\ new = old
         \/ \E first : /\ Writes(r, first)
                       /\ \A i \in DOMAIN first : first[i][2] = RegistryFile
                       /\ plan = Plan(first \o SaveManifest(r.who, new))
  BY ScanPlanWrites, Zenon
<1>0. /\ chosen \subseteq NewInvocations(r.who)
      /\ r.op = "scan -y" => chosen = NewInvocations(r.who)
  BY Zenon DEF Picked
<1>2. ScanEffect(Uses[r.who], old, new, all) /\ (all /\ new = old => AllListed(Uses[r.who], old))
  BY <1>0, <1>1, ScanAdds, Zenon
<1>3. Promise!ManifestEffect(r, old, new)
  <2>1. CASE r.op = "scan -i"
    BY <1>1, <1>2, <2>1, Zenon DEF Promise!ManifestEffect, ScanEffect
  <2>2. CASE r.op = "scan -y"
    BY <1>0, <1>1, <1>2, <2>2, Zenon DEF Promise!ManifestEffect, ScanEffect
  <2> QED BY <2>1, <2>2, Zenon
<1> HIDE DEF new, old, all, chosen
<1>4. r.op = "scan -y" => all
  BY <1>0, Zenon DEF all
<1>5. CASE plan = Said("nothing") /\ new = old
  BY <1>2, <1>4, <1>5, Zenon DEF old, ScanServed
<1>6. ASSUME NEW first, Writes(r, first), \A i \in DOMAIN first : first[i][2] = RegistryFile,
             plan = Plan(first \o SaveManifest(r.who, new))
      PROVE  \E f, n :
                  /\ Writes(r, f) /\ \A i \in DOMAIN f : f[i][2] = RegistryFile
                  /\ plan = Plan(f \o SaveManifest(r.who, n)) /\ ManifestOK(n)
                  /\ Promise!ManifestEffect(r, LoadManifest(disk, r.who), n)
  BY <1>1, <1>3, <1>6, Zenon DEF old
<1> QED BY <1>1, <1>5, <1>6, Zenon DEF ScanServed

-----------------------------------------------------------------------------
(* ... and those of the ignore files. *)

\* The last line, if there is one, ends with a newline.
Closed(text) == text = <<>> \/ ~Last(text).open

\* The lines a removal leaves: each that is not the pattern, with its pattern.
LEMMA LinesLeft ==
    ASSUME NEW text \in Seq(Lines), NEW pat
    PROVE  LET new == RemoveLines(text, pat) IN
           /\ new \in Seq(Lines) /\ Closed(new)
           /\ \A i \in DOMAIN text : (text[i].pat = pat /\ ~text[i].note)
                                         \/ \E j \in DOMAIN new : new[j].pat = text[i].pat
<1> DEFINE S == {l \in Lines : ~l.open}
           rest == [i \in DOMAIN text |-> IF text[i].pat = pat /\ ~text[i].note THEN <<>>
                                          ELSE << [text[i] EXCEPT !.open = FALSE] >>]
           new == RemoveLines(text, pat)
<1>1. \A i \in DOMAIN text : /\ [text[i] EXCEPT !.open = FALSE] \in S
                             /\ [text[i] EXCEPT !.open = FALSE].pat = text[i].pat
  <2>1. \A l \in Lines : /\ [l EXCEPT !.open = FALSE] \in S
                         /\ [l EXCEPT !.open = FALSE].pat = l.pat
    BY DEF Lines
  <2>2. \A i \in DOMAIN text : text[i] \in Lines
    OBVIOUS
  <2> HIDE DEF Lines, S
  <2> QED BY <2>1, <2>2
<1>2. \A i \in DOMAIN text : rest[i] \in Seq(S)
  <2> HIDE DEF S
  <2> QED BY <1>1
<1>3. rest \in Seq(Seq(S)) /\ DOMAIN rest = DOMAIN text
  <2> HIDE DEF rest, S
  <2>1. rest = [i \in DOMAIN text |-> rest[i]]
    BY DEF rest
  <2>2. rest \in [1 .. Len(text) -> Seq(S)] /\ Len(text) \in Nat /\ DOMAIN text = 1 .. Len(text)
    BY <1>2, <2>1
  <2> QED BY <2>2
<1>4. new = FlattenSeq(rest)
  BY DEF RemoveLines
<1>5. new \in Seq(S)
  <2> HIDE DEF rest, S, new
  <2> QED BY <1>3, <1>4, FlattenType
<1>6. Closed(new)
  <2> HIDE DEF new
  <2>1. new = <<>> \/ Last(new) \in S
    <3> HIDE DEF S
    <3> QED BY <1>5 DEF Last
  <2> QED BY <2>1 DEF Closed
<1>7. new \in Seq(Lines)
  <2>1. S \subseteq Lines
    OBVIOUS
  <2> HIDE DEF new, S, Lines
  <2> QED BY <1>5, <2>1
<1>8. ASSUME NEW i \in DOMAIN text, ~(text[i].pat = pat /\ ~text[i].note)
      PROVE  \E j \in DOMAIN new : new[j].pat = text[i].pat
  <2>1. rest[i] = << [text[i] EXCEPT !.open = FALSE] >>
    BY <1>8
  <2>2. 1 \in DOMAIN rest[i] /\ rest[i][1].pat = text[i].pat
    BY <1>1, <2>1
  <2> HIDE DEF rest, S, new
  <2>3. \E j \in DOMAIN FlattenSeq(rest) : FlattenSeq(rest)[j] = rest[i][1]
    BY <1>3, <2>2, FlattenHas
  <2> QED BY <1>4, <2>2, <2>3
<1> HIDE DEF new
<1> QED BY <1>6, <1>7, <1>8 DEF new

\* After a removal the pattern is gone, and only it; if no line was the pattern, it was
\* not there.
LEMMA RemovedRules ==
    ASSUME NEW text \in Seq(Lines), NEW pat, Uncomment(pat) = pat,
           pat \notin Patterns(RemoveLines(text, pat))
    PROVE  /\ Patterns(RemoveLines(text, pat)) = Patterns(text) \ {pat}
           /\ ~HasLine(text, pat) => pat \notin Patterns(text)
<1> DEFINE new == RemoveLines(text, pat)
<1>1. /\ Patterns(new) \subseteq Patterns(text)
      /\ new \in Seq(Lines)
      /\ \A i \in DOMAIN text : (text[i].pat = pat /\ ~text[i].note)
                                    \/ \E j \in DOMAIN new : new[j].pat = text[i].pat
  BY LinesLeft, RemoveLinesType
<1>2. text # None /\ new # None
  BY <1>1, IgnoreAssumption
<1> HIDE DEF new
<1>3. ASSUME NEW q \in Patterns(text), q \notin Patterns(new)
      PROVE  q = pat /\ HasLine(text, pat)
  <2>1. PICK i \in DOMAIN text : q = Uncomment(text[i].pat) /\ q # None
    BY <1>2 DEF Patterns
  <2>2. \A j \in DOMAIN new : new[j].pat # text[i].pat
    BY <1>2, <1>3, <2>1 DEF Patterns
  <2>3. text[i].pat = pat /\ ~text[i].note
    BY <1>1, <2>2
  <2> QED BY <2>1, <2>3 DEF HasLine
<1>4. pat \notin Patterns(new)
  BY DEF new
<1> QED BY <1>1, <1>3, <1>4 DEF new

\* A line that is added gives its pattern, and takes none away.
LEMMA AddedRules ==
    ASSUME NEW text \in Seq(Lines), Closed(text), NEW pat \in Pats, Uncomment(pat) = pat
    PROVE  LET new == AppendLine(text, pat) IN
           pat \in Patterns(new) /\ Patterns(text) \subseteq Patterns(new)
<1> DEFINE new == AppendLine(text, pat)
<1>1. new = Append(text, LineOf(pat)) /\ LineOf(pat).pat = pat
  BY DEF AppendLine, Closed, LineOf
<1>2. text # None /\ new # None /\ pat # None
  BY AppendLineType, IgnoreAssumption
<1> HIDE DEF new
<1>3. /\ \A i \in DOMAIN text : i \in DOMAIN new /\ new[i] = text[i]
      /\ Len(text) + 1 \in DOMAIN new /\ new[Len(text) + 1].pat = pat
  <2> HIDE DEF Lines
  <2>1. new \in Seq(Lines \union {LineOf(pat)}) /\ Len(new) = Len(text) + 1
        /\ new[Len(text) + 1] = LineOf(pat)
    BY <1>1
  <2>2. \A i \in DOMAIN text : new[i] = text[i]
    BY <1>1
  <2> QED BY <1>1, <2>1, <2>2
<1>4. pat \in Patterns(new)
  BY <1>2, <1>3 DEF Patterns
<1>5. Patterns(text) \subseteq Patterns(new)
  BY <1>2, <1>3 DEF Patterns
<1> QED BY <1>4, <1>5 DEF new

\* Whatever is written ends with a newline.
LEMMA WrittenClosed ==
    /\ TemplateText \in Seq(Lines) /\ Closed(TemplateText)
    /\ \A text \in Seq(Lines), pat \in Pats : Closed(AppendLine(text, pat))
<1>1. \A i \in DOMAIN Template : LineOf(Template[i]) \in Lines /\ ~LineOf(Template[i]).open
  <2>1. \A pat \in Pats : LineOf(pat) \in Lines /\ ~LineOf(pat).open
    BY LineType DEF LineOf
  <2>2. \A i \in DOMAIN Template : Template[i] \in Pats
    BY IgnoreAssumption
  <2> QED BY <2>1, <2>2
<1>2. TemplateText \in Seq(Lines)
  BY <1>1, IgnoreAssumption DEF TemplateText
<1>3. Closed(TemplateText)
  <2> HIDE DEF Lines
  <2>1. TemplateText = <<>> \/ Len(TemplateText) \in DOMAIN Template
    <3>1. Template \in Seq(Pats)
      BY IgnoreAssumption
    <3> HIDE DEF Pats
    <3>2. DOMAIN TemplateText = DOMAIN Template
      BY DEF TemplateText
    <3> QED BY <1>2, <3>1, <3>2
  <2>2. TemplateText # <<>> => Last(TemplateText) = LineOf(Template[Len(TemplateText)])
    BY <2>1 DEF TemplateText, Last
  <2> QED BY <1>1, <2>1, <2>2 DEF Closed
<1>4. ASSUME NEW text \in Seq(Lines), NEW pat \in Pats PROVE Closed(AppendLine(text, pat))
  <2>1. ASSUME NEW s \in Seq(Lines), NEW l \in Lines, ~l.open PROVE Closed(Append(s, l))
    <3> HIDE DEF Lines
    <3>1. Last(Append(s, l)) = l
      BY DEF Last
    <3> QED BY <2>1, <3>1 DEF Closed
  <2>2. CASE text # <<>> /\ Last(text).open
    <3> DEFINE new == [Last(text) EXCEPT !.open = FALSE,
                                         !.pat = IF Last(text).note THEN @ ELSE Junk]
    <3>1. Last(text) \in Lines /\ Front(text) \in Seq(Lines)
      BY <2>2 DEF Last, Front
    <3>2. new \in Lines /\ ~new.open
      BY <3>1, IgnoreAssumption DEF Lines
    <3>3. AppendLine(text, pat) = Append(Front(text), new)
      BY <2>2 DEF AppendLine
    <3> HIDE DEF new
    <3> QED BY <2>1, <3>1, <3>2, <3>3
  <2>3. CASE ~(text # <<>> /\ Last(text).open)
    <3>1. AppendLine(text, pat) = Append(text, LineOf(pat))
      BY <2>3 DEF AppendLine
    <3>2. LineOf(pat) \in Lines /\ ~LineOf(pat).open
      BY LineType DEF LineOf
    <3> QED BY <2>1, <3>1, <3>2
  <2> QED BY <2>2, <2>3
<1> QED BY <1>2, <1>3, <1>4

\* The four edits of an ignore file.
Inits(r) == r.op = "ignore init"
Adds(r) == r.op = "ignore add"
Removes(r) == r.op = "ignore remove"
Clears(r) == r.op = "ignore clear"

\* There is an answer at once if nothing is to be written.
Todo(todo) == IF todo = <<>> THEN Said("nothing") ELSE Plan(todo)

\* Its writes, and the answer.
LEMMA TodoFields ==
    ASSUME NEW todo
    PROVE  Todo(todo).todo = todo /\ (todo = <<>> => Todo(todo).answer = "nothing")
BY PlanFields DEF Todo, Said

\* The file that is filled first, if there is none.
InitWrites(file) == IF disk[file] = None THEN << <<"write", file, TemplateText>> >> ELSE <<>>

\* The pattern that is added, if it is not there.
AddWrites(r, file) ==
    IF AddedAlready(disk, r.who, IF disk[file] = None THEN TemplateText ELSE disk[file], r.arg)
    THEN <<>> ELSE << <<"append", file, r.arg>> >>

\* The edit of an ignore file, by its kind.
LEMMA IgnorePlanOf ==
    ASSUME NEW r, NEW file, file = IgnoreFile(disk, r.who)
    PROVE  /\ Inits(r) => IgnorePlan(r) = Todo(InitWrites(file))
           /\ Adds(r) => IgnorePlan(r) = Todo(InitWrites(file) \o AddWrites(r, file))
           /\ Removes(r) =>
                 IgnorePlan(r) = Todo(IF disk[file] # None /\ HasLine(disk[file], r.arg)
                                      THEN << <<"write", file, RemoveLines(disk[file], r.arg)>> >>
                                      ELSE <<>>)
           /\ Clears(r) =>
                 IgnorePlan(r) = Todo(IF disk[file] # None
                                      THEN << <<"delete", file, None>> >> ELSE <<>>)
<1>1. CASE Inits(r)
  <2>1. IgnorePlan(r) = Todo(InitWrites(file))
    BY <1>1, Zenon DEF Inits, IgnorePlan, Todo, InitWrites
  <2>2. ~Adds(r) /\ ~Removes(r) /\ ~Clears(r)
    BY <1>1, Zenon DEF Inits, Adds, Removes, Clears
  <2> QED BY <2>1, <2>2, Zenon
<1>2. CASE Adds(r)
  <2>1. IgnorePlan(r) = Todo(InitWrites(file) \o AddWrites(r, file))
    BY <1>2, Zenon DEF Adds, IgnorePlan, Todo, InitWrites, AddWrites
  <2>2. ~Inits(r) /\ ~Removes(r) /\ ~Clears(r)
    BY <1>2, Zenon DEF Inits, Adds, Removes, Clears
  <2> QED BY <2>1, <2>2, Zenon
<1>3. CASE Removes(r)
  <2>1. IgnorePlan(r) = Todo(IF disk[file] # None /\ HasLine(disk[file], r.arg)
                             THEN << <<"write", file, RemoveLines(disk[file], r.arg)>> >>
                             ELSE <<>>)
    BY <1>3, Zenon DEF Removes, IgnorePlan, Todo
  <2>2. ~Inits(r) /\ ~Adds(r) /\ ~Clears(r)
    BY <1>3, Zenon DEF Inits, Adds, Removes, Clears
  <2> QED BY <2>1, <2>2, Zenon
<1>4. CASE Clears(r)
  <2>1. IgnorePlan(r) = Todo(IF disk[file] # None THEN << <<"delete", file, None>> >> ELSE <<>>)
    BY <1>4, Zenon DEF Clears, IgnorePlan, Todo
  <2>2. ~Inits(r) /\ ~Adds(r) /\ ~Removes(r)
    BY <1>4, Zenon DEF Inits, Adds, Removes, Clears
  <2> QED BY <2>1, <2>2, Zenon
<1> QED BY <1>1, <1>2, <1>3, <1>4, Zenon

\* The promise of a breach, for these edits.
LEMMA IgnoreUnbroken ==
    ASSUME NEW r, NEW plan, plan.answer # "failed", Breaks(r, plan) = {}
    PROVE  /\ Clears(r) => \/ disk[<<r.who, ".symignore">>] = None
                           \/ disk[<<r.who, ".stowignore">>] = None
           /\ Adds(r) \/ Removes(r) => Uncomment(r.arg) = r.arg
           /\ LET text == disk[IgnoreFile(disk, r.who)] IN
              /\ Adds(r) => text = None \/ Closed(text)
              /\ Removes(r) => text = None \/ r.arg \notin Patterns(RemoveLines(text, r.arg))
BY Unbroken, Zenon DEF Adds, Removes, Clears, Closed

\* The pattern of a request to add is there, in a text or in the rules of the repository.
Present(r, text, d) == r.arg \in Patterns(text) \/ (r.who # "" /\ r.arg \in RulesOf(d, ""))

\* A file is filled; the pattern asked for is there or comes next.
FillsFile(r, todo, base, d) ==
    \E f, text :
        /\ f = <<r.who, ".symignore">> /\ base[f] = None /\ d[<<r.who, ".stowignore">>] = None
        /\ text \in Seq(Lines) /\ Closed(text)
        /\ \/ /\ todo = << <<"write", f, text>> >>
              /\ Inits(r) \/ (Adds(r) /\ Present(r, text, d))
           \/ /\ todo = << <<"write", f, text>>, <<"append", f, r.arg>> >>
              /\ Adds(r) /\ Uncomment(r.arg) = r.arg

\* A pattern is added to a file.
AddsLine(r, todo, d) ==
    \E f : /\ Adds(r) /\ Uncomment(r.arg) = r.arg
           /\ todo = << <<"append", f, r.arg>> >> /\ (d[f] = None \/ Closed(d[f]))

\* A pattern is taken out.
RemovesLines(r, todo, base) ==
    \E f, text : /\ Removes(r) /\ todo = << <<"write", f, text>> >> /\ base[f] # None
                 /\ Closed(text) /\ Patterns(text) = Patterns(base[f]) \ {r.arg}

\* A file is removed that hides no other.
DeletesFile(r, todo, d) ==
    \E f : Clears(r) /\ todo = << <<"delete", f, None>> >> /\ ~Hides(f, d)

\* What is left to write has the effect an edit of an ignore file should have.
ServesRules(r, todo, base, d) ==
    \/ FillsFile(r, todo, base, d) \/ AddsLine(r, todo, d)
    \/ RemovesLines(r, todo, base) \/ DeletesFile(r, todo, d)

\* There is nothing to do.
RulesDone(r, d) ==
    /\ Adds(r) => r.arg \in RulesOf(d, r.who) \union RulesOf(d, "")
    /\ Removes(r) => r.arg \notin RulesOf(d, r.who)
    /\ Clears(r) => RulesOf(d, r.who) = {}

\* The files of a package or of the repository are those of a disk where no other
\* command is writing them.
AsRead(d, q) ==
    /\ d[IgnoreFile(disk, q)] = disk[IgnoreFile(disk, q)]
    /\ \A f \in StoreFiles : disk[f] = None => d[f] = None
    /\ RulesOf(d, "") = RulesOf(disk, "")

\* The same file is read there.
LEMMA ReadAlike ==
    ASSUME NEW d, NEW q \in Owners, d[IgnoreFile(disk, q)] = disk[IgnoreFile(disk, q)],
           \A f \in StoreFiles : disk[f] = None => d[f] = None
    PROVE  /\ IgnoreFile(d, q) = IgnoreFile(disk, q)
           /\ RulesOf(d, q) = Patterns(disk[IgnoreFile(disk, q)])
<1>1. <<q, ".symignore">> \in StoreFiles /\ <<q, ".stowignore">> \in StoreFiles
  BY FileKinds DEF IgnoreFiles, Owners
<1>2. IgnoreFile(d, q) = IgnoreFile(disk, q)
  BY <1>1 DEF IgnoreFile
<1> QED BY <1>2 DEF RulesOf

\* One element and another.
LEMMA InARow ==
    ASSUME NEW a, NEW b
    PROVE  <<a>> \o <<b>> = <<a, b>>
<1> DEFINE S == {a, b}
           s == <<a>> \o <<b>>
           t == <<a, b>>
<1>1. <<a>> \in Seq(S) /\ <<b>> \in Seq(S) /\ t \in Seq(S) /\ Len(t) = 2
  OBVIOUS
<1>2. s \in Seq(S) /\ Len(s) = 2 /\ s[1] = a /\ s[2] = b
  BY <1>1
<1>3. \A i \in 1 .. 2 : i = 1 \/ i = 2
  OBVIOUS
<1>4. t[1] = a /\ t[2] = b
  OBVIOUS
<1> HIDE DEF s, t, S
<1>5. s = t
  BY <1>1, <1>2, <1>3, <1>4, SeqEqual
<1> QED BY <1>5 DEF s, t

\* What is planned for an ignore file has the effect it should have, or there is nothing
\* to do.
LEMMA IgnorePlanServes ==
    ASSUME TextsOK, NEW r, RequestOK(r), r.op \in IgnoreOps, r.who \in Owners,
           NEW plan, plan = IgnorePlan(r), Breaks(r, plan) = {},
           NEW base, \A i \in DOMAIN plan.todo : base[plan.todo[i][2]] = disk[plan.todo[i][2]],
           NEW d, AsRead(d, r.who)
    PROVE  IF plan.todo = <<>> THEN plan.answer = "nothing" /\ RulesDone(r, d)
           ELSE ServesRules(r, plan.todo, base, d)
<1> DEFINE file == IgnoreFile(disk, r.who)
           text == disk[file]
<1>1. /\ text \in Seq(Lines) \union {None} /\ None \notin Seq(Lines)
      /\ file \in {<<r.who, ".symignore">>, <<r.who, ".stowignore">>}
      /\ file = <<r.who, ".symignore">> =>
             disk[<<r.who, ".stowignore">>] = None \/ text # None
      /\ text = None => file = <<r.who, ".symignore">> /\ d[<<r.who, ".stowignore">>] = None
  <2>1. file \in IgnoreFiles
    BY DEF IgnoreFile, IgnoreFiles, Owners
  <2>2. text \in Seq(Lines) \union {None}
    BY <2>1, IgnoreTexts
  <2>3. <<r.who, ".stowignore">> \in StoreFiles
    BY FileKinds DEF IgnoreFiles, Owners
  <2> QED BY <2>2, <2>3, IgnoreAssumption DEF IgnoreFile, AsRead
<1>2. d[file] = text /\ RulesOf(d, r.who) = Patterns(text) /\ RulesOf(d, "") = RulesOf(disk, "")
  BY ReadAlike DEF AsRead
<1>3. /\ plan.todo # <<>> => plan.answer = "done"
      /\ plan.answer # "failed"
  <2>1. plan.todo # <<>> => plan.answer = "done"
    BY IgnorePlanDone
  <2>2. plan.todo = <<>> => plan.answer = "nothing"
    <3>1. IgnorePlan(r) = Said("nothing") \/ \E todo : todo # <<>> /\ IgnorePlan(r) = Plan(todo)
      BY Zenon DEF IgnorePlan
    <3> QED BY <3>1, PlanFields DEF Said
  <2> QED BY <2>1, <2>2
<1>4. /\ Clears(r) => \/ disk[<<r.who, ".symignore">>] = None
                      \/ disk[<<r.who, ".stowignore">>] = None
      /\ Adds(r) \/ Removes(r) => Uncomment(r.arg) = r.arg /\ r.arg \in Pats /\ r.arg # None
      /\ Adds(r) => text = None \/ Closed(text)
      /\ Removes(r) => text = None \/ r.arg \notin Patterns(RemoveLines(text, r.arg))
  <2>1. Adds(r) \/ Removes(r) => r.arg \in Pats
    BY Zenon DEF RequestOK, Adds, Removes
  <2> QED BY <1>3, <2>1, IgnoreUnbroken, IgnoreAssumption
<1>5. \A t : HasLine(t, r.arg) /\ Uncomment(r.arg) = r.arg /\ r.arg # None /\ t # None =>
          r.arg \in Patterns(t)
  BY DEF HasLine, Patterns
<1>6. TemplateText \in Seq(Lines) /\ Closed(TemplateText)
  BY WrittenClosed
<1> DEFINE write == <<"write", file, TemplateText>>
           append == <<"append", file, r.arg>>
<1>7. /\ text = None => InitWrites(file) = <<write>>
      /\ text # None => InitWrites(file) = <<>>
  BY DEF InitWrites
<1>8. write[2] = file /\ \A t : <<"write", file, t>>[2] = file
  OBVIOUS
<1> HIDE DEF file, text
<1>9. CASE Inits(r)
  <2>1. plan = Todo(InitWrites(file))
    BY <1>9, IgnorePlanOf DEF file
  <2>2. plan.todo = InitWrites(file) /\ (plan.todo = <<>> => plan.answer = "nothing")
    BY <2>1, TodoFields
  <2>3. CASE text = None
    <3>1. plan.todo = <<write>>
      BY <1>7, <2>2, <2>3
    <3>2. base[file] = None
      BY <1>8, <2>3, <3>1 DEF text
    <3> QED BY <1>1, <1>6, <1>9, <2>3, <3>1, <3>2 DEF ServesRules, FillsFile
  <2>4. CASE text # None
    <3>1. ~Adds(r) /\ ~Removes(r) /\ ~Clears(r)
      BY <1>9, Zenon DEF Inits, Adds, Removes, Clears
    <3> QED BY <1>7, <2>2, <2>4, <3>1 DEF RulesDone
  <2> QED BY <2>3, <2>4
<1>10. CASE Adds(r)
  <2> DEFINE rest == AddWrites(r, file)
  <2>1. plan = Todo(InitWrites(file) \o rest)
    BY <1>10, IgnorePlanOf DEF file
  <2>2. /\ plan.todo = InitWrites(file) \o rest
        /\ plan.todo = <<>> => plan.answer = "nothing"
    BY <2>1, TodoFields
  <2>3. /\ text = None => \/ rest = <<>> /\ Present(r, TemplateText, d)
                          \/ rest = <<append>>
        /\ text # None => \/ rest = <<>> /\ Present(r, text, d)
                          \/ rest = <<append>>
    <3>1. \A t : AddedAlready(disk, r.who, t, r.arg) /\ t # None => Present(r, t, d)
      BY <1>2, <1>4, <1>5, <1>10 DEF AddedAlready, Present
    <3> QED BY <1>1, <1>6, <3>1 DEF AddWrites, text
  <2> HIDE DEF rest
  <2>4. CASE text = None /\ rest = <<>> /\ Present(r, TemplateText, d)
    <3>1. plan.todo = <<write>>
      BY <1>7, <2>2, <2>4
    <3>2. base[file] = None
      BY <1>8, <2>4, <3>1 DEF text
    <3> QED BY <1>1, <1>6, <1>10, <2>4, <3>1, <3>2 DEF ServesRules, FillsFile
  <2>5. CASE text = None /\ rest = <<append>>
    <3>1. plan.todo = <<write, append>>
      <4> HIDE DEF write, append
      <4> QED BY <1>7, <2>2, <2>5, InARow
    <3>2. base[file] = None
      BY <1>8, <2>5, <3>1 DEF text
    <3> QED BY <1>1, <1>4, <1>6, <1>10, <2>5, <3>1, <3>2 DEF ServesRules, FillsFile
  <2>6. CASE text # None /\ rest = <<>> /\ Present(r, text, d)
    <3>1. plan.todo = <<>>
      BY <1>7, <2>2, <2>6
    <3>2. ~Removes(r) /\ ~Clears(r)
      BY <1>10, Zenon DEF Adds, Removes, Clears
    <3> QED BY <1>2, <2>2, <2>6, <3>1, <3>2 DEF RulesDone, Present
  <2>7. CASE text # None /\ rest = <<append>>
    <3>1. plan.todo = <<append>>
      BY <1>7, <2>2, <2>7
    <3>2. d[file] = None \/ Closed(d[file])
      BY <1>2, <1>4, <1>10
    <3> QED BY <1>4, <1>10, <3>1, <3>2 DEF ServesRules, AddsLine
  <2> QED BY <2>3, <2>4, <2>5, <2>6, <2>7
<1>11. CASE Removes(r)
  <2> DEFINE new == RemoveLines(text, r.arg)
             todo == IF text # None /\ HasLine(text, r.arg)
                     THEN << <<"write", file, new>> >> ELSE <<>>
  <2>1. plan = Todo(todo)
    BY <1>11, IgnorePlanOf DEF file, text
  <2>2. plan.todo = todo /\ (plan.todo = <<>> => plan.answer = "nothing")
    BY <2>1, TodoFields
  <2>3. text # None => /\ Closed(new) /\ Patterns(new) = Patterns(text) \ {r.arg}
                       /\ ~HasLine(text, r.arg) => r.arg \notin Patterns(text)
    BY <1>1, <1>4, <1>11, LinesLeft, RemovedRules
  <2> HIDE DEF new
  <2>4. CASE text # None /\ HasLine(text, r.arg)
    <3>1. plan.todo = << <<"write", file, new>> >>
      BY <2>2, <2>4
    <3>2. base[file] = text
      BY <1>8, <3>1 DEF text
    <3> QED BY <1>11, <2>3, <2>4, <3>1, <3>2 DEF ServesRules, RemovesLines
  <2>5. CASE ~(text # None /\ HasLine(text, r.arg))
    <3>1. ~Adds(r) /\ ~Clears(r)
      BY <1>11, Zenon DEF Adds, Removes, Clears
    <3>2. r.arg \notin Patterns(text)
      BY <2>3, <2>5 DEF Patterns
    <3> QED BY <1>2, <2>2, <2>5, <3>1, <3>2 DEF RulesDone
  <2> QED BY <2>4, <2>5
<1>12. CASE Clears(r)
  <2> DEFINE todo == IF text # None THEN << <<"delete", file, None>> >> ELSE <<>>
  <2>1. plan = Todo(todo)
    BY <1>12, IgnorePlanOf DEF file, text
  <2>2. plan.todo = todo /\ (plan.todo = <<>> => plan.answer = "nothing")
    BY <2>1, TodoFields
  <2>3. CASE text # None
    <3>1. ~Hides(file, d)
      <4>1. file = <<r.who, ".symignore">> => disk[<<r.who, ".stowignore">>] = None
        BY <1>4, <1>12, <2>3 DEF text
      <4>2. <<r.who, ".stowignore">> \in StoreFiles
        BY FileKinds DEF IgnoreFiles, Owners
      <4>3. file = <<r.who, ".symignore">> => d[<<r.who, ".stowignore">>] = None
        BY <4>1, <4>2 DEF AsRead
      <4> QED BY <1>1, <4>3 DEF Hides
    <3> QED BY <1>12, <2>2, <2>3, <3>1 DEF ServesRules, DeletesFile
  <2>4. CASE text = None
    <3>1. ~Adds(r) /\ ~Removes(r)
      BY <1>12, Zenon DEF Adds, Removes, Clears
    <3>2. Patterns(text) = {}
      BY <2>4 DEF Patterns
    <3> QED BY <1>2, <2>2, <2>4, <3>1, <3>2 DEF RulesDone
  <2> QED BY <2>3, <2>4
<1>13. Inits(r) \/ Adds(r) \/ Removes(r) \/ Clears(r)
  BY Zenon DEF IgnoreOps, Inits, Adds, Removes, Clears
<1> QED BY <1>9, <1>10, <1>11, <1>12, <1>13

-----------------------------------------------------------------------------
(* What a command that has read its stores is about to do has the effect that its
   request promises, in the stores as they are until it writes. *)

\* The manifest of a package with these texts in its two files.
ManifestOf(new, legacy) ==
    IF new # None THEN ParseManifest(new)
    ELSE IF legacy # None THEN ParseManifest(legacy) ELSE EmptyManifest

\* It is what is loaded.
LEMMA LoadsManifest ==
    ASSUME NEW d, NEW p
    PROVE  LoadManifest(d, p) = ManifestOf(d[<<p, ".symdeps">>], d[<<p, ".stowdeps">>])
BY DEF LoadManifest, HasManifest, ManifestFile, ManifestOf

\* One write, of the configuration.
ServesConfig(r, todo, base) ==
    \E w : /\ todo = <<w>>
           /\ Promise!ConfigEffect(r, LoadConfig(base[w[2]], Directories),
                                   LoadConfig(w[3], Directories))

\* The manifest last, behind what is registered.
ServesManifest(r, todo, base, d) ==
    \A i \in DOMAIN todo :
        /\ i # Len(todo) => todo[i][2] = RegistryFile
        /\ i = Len(todo) =>
              /\ todo[i][2] # RegistryFile
              /\ Promise!ManifestEffect(r, ManifestOf(base[todo[i][2]], d[<<r.who, ".stowdeps">>]),
                                        ParseManifest(todo[i][3]))

\* The writes that are left have the effect of the request.
Serves(r, todo, base, d) ==
    /\ r.op \in ConfigOps => ServesConfig(r, todo, base)
    /\ r.op \in ManifestOps => ServesManifest(r, todo, base, d)
    /\ r.op \in IgnoreOps => ServesRules(r, todo, base, d)

\* There is nothing to do.
Done(r, d) ==
    /\ r.op \in ConfigOps =>
          r.op \in {"add source", "remove dir"} /\ Settled(r, ConfigIn(d))
    /\ r.op = "scan -y" => AllListed(Uses[r.who], LoadManifest(d, r.who))
    /\ r.op \in ManifestOps => r.op \in {"scan -i", "scan -y"}
    /\ r.op \in IgnoreOps => RulesDone(r, d)

\* The texts as a plan has read them.
BaseOf(base, todo) == \A i \in DOMAIN todo : base[todo[i][2]] = disk[todo[i][2]]

\* One element behind others.
LEMMA TheLast ==
    ASSUME NEW T, NEW s \in Seq(T), NEW e
    PROVE  \A i \in DOMAIN (s \o <<e>>) :
               /\ i = Len(s \o <<e>>) => (s \o <<e>>)[i] = e
               /\ i # Len(s \o <<e>>) => i \in DOMAIN s /\ (s \o <<e>>)[i] = s[i]
<1> DEFINE S == T \union {e}
           t == <<e>>
           u == s \o t
<1>1. s \in Seq(S) /\ t \in Seq(S) /\ Len(t) = 1 /\ DOMAIN t = {1} /\ t[1] = e
  <2>1. \A a : <<a>> \in Seq({a}) /\ Len(<<a>>) = 1 /\ DOMAIN <<a>> = {1} /\ <<a>>[1] = a
    OBVIOUS
  <2>2. t \in Seq({e}) /\ {e} \subseteq S /\ T \subseteq S
    BY <2>1
  <2>3. \A A, B : A \subseteq B => Seq(A) \subseteq Seq(B)
    OBVIOUS
  <2> HIDE DEF S
  <2> QED BY <2>1, <2>2, <2>3
<1>0. u = s \o t
  OBVIOUS
<1> HIDE DEF t, S, u
<1>2. /\ u \in Seq(S) /\ Len(u) = Len(s) + Len(t)
      /\ \A i \in DOMAIN u : \/ i \in DOMAIN s /\ u[i] = s[i]
                             \/ i - Len(s) \in DOMAIN t /\ u[i] = t[i - Len(s)]
  BY <1>0, <1>1, Joined
<1>3. Len(s) \in Nat /\ DOMAIN s = 1 .. Len(s) /\ DOMAIN u = 1 .. Len(u)
  BY <1>1, <1>2
<1>4. \A i \in DOMAIN u : /\ i = Len(u) => u[i] = e
                          /\ i # Len(u) => i \in DOMAIN s /\ u[i] = s[i]
  BY <1>1, <1>2, <1>3
<1> QED BY <1>4 DEF u, t

\* What is planned for a manifest serves its request.
LEMMA SavesServe ==
    ASSUME TextsOK, NEW r, r.who \in Packages, NEW first, Writes(r, first),
           \A i \in DOMAIN first : first[i][2] = RegistryFile,
           NEW new, ManifestOK(new),
           Promise!ManifestEffect(r, LoadManifest(disk, r.who), new),
           NEW todo, todo = first \o SaveManifest(r.who, new),
           NEW base, BaseOf(base, todo),
           NEW d, d[<<r.who, ".stowdeps">>] = disk[<<r.who, ".stowdeps">>]
    PROVE  ServesManifest(r, todo, base, d) /\ todo # <<>>
<1> DEFINE file == <<r.who, ".symdeps">>
           w == <<"write", file, ManifestText(new)>>
<1>1. w[2] = file /\ w[3] = ManifestText(new) /\ file # RegistryFile
  BY DEF RegistryFile
<1>2. ManifestOf(disk[file], d[<<r.who, ".stowdeps">>]) = LoadManifest(disk, r.who)
  BY LoadsManifest
<1>3. todo = first \o <<w>>
  BY DEF SaveManifest
<1>4. ParseManifest(ManifestText(new)) = new
  BY ParseSaved
<1> HIDE DEF file, w
<1>5. \A i \in DOMAIN todo : /\ i = Len(todo) => todo[i] = w
                             /\ i # Len(todo) => i \in DOMAIN first /\ todo[i] = first[i]
  BY <1>3, TheLast DEF Writes
<1>6. todo # <<>>
  <2>1. first \in Seq(ToSet(first))
    BY DEF Writes
  <2> QED BY <1>3, <2>1
<1>7. ASSUME NEW i \in DOMAIN todo
      PROVE  /\ i # Len(todo) => todo[i][2] = RegistryFile
             /\ i = Len(todo) =>
                   /\ todo[i][2] # RegistryFile
                   /\ Promise!ManifestEffect(r,
                          ManifestOf(base[todo[i][2]], d[<<r.who, ".stowdeps">>]),
                          ParseManifest(todo[i][3]))
  <2>1. CASE i # Len(todo)
    BY <1>5, <2>1
  <2>2. CASE i = Len(todo)
    <3>1. todo[i][2] = file /\ todo[i][3] = ManifestText(new)
      BY <1>1, <1>5, <2>2
    <3>2. base[todo[i][2]] = disk[file]
      BY <3>1 DEF BaseOf
    <3> QED BY <1>1, <1>2, <1>4, <2>2, <3>1, <3>2
  <2> QED BY <2>1, <2>2
<1> QED BY <1>6, <1>7 DEF ServesManifest

\* What a request has read is what is kept: nobody is writing it.
LEMMA ReadIsKept ==
    ASSUME IInv, Kept, NEW r, RequestOK(r), \A f \in Reads(r) : ~IsOpen(f)
    PROVE  /\ ConfigIn(kept) = LoadConfig(disk[ConfigFile(disk)], Directories)
           /\ r.op \in ManifestOps =>
                 /\ r.who \in Packages
                 /\ LoadManifest(kept, r.who) = LoadManifest(disk, r.who)
                 /\ kept[<<r.who, ".stowdeps">>] = disk[<<r.who, ".stowdeps">>]
           /\ r.op \in IgnoreOps => r.who \in Owners /\ AsRead(kept, r.who)
<1>1. ConfigIn(kept) = LoadConfig(disk[ConfigFile(disk)], Directories)
  <2>1. ConfigFile(disk) \in Reads(r)
    BY DEF Reads
  <2>2. ConfigFile(disk) \in StoreFiles
    BY ConfigFileNamed, FileKinds
  <2>3. kept[ConfigFile(disk)] = disk[ConfigFile(disk)] /\ ConfigFile(kept) = ConfigFile(disk)
    BY <2>1, <2>2, ReadAsKept DEF Kept
  <2> QED BY <2>3 DEF ConfigIn
<1>2. r.op \notin ConfigOps =>
          /\ ~IsOpen(IgnoreFile(disk, ""))
          /\ r.who \in Packages =>
                ~IsOpen(IgnoreFile(disk, r.who)) /\ ~IsOpen(<<r.who, ".symdeps">>)
  <2>1. r.op \notin ConfigOps => IgnoreFile(disk, "") \in Reads(r)
    BY Zenon DEF Reads
  <2>2. r.op \notin ConfigOps /\ r.who \in Packages =>
            IgnoreFile(disk, r.who) \in Reads(r) /\ <<r.who, ".symdeps">> \in Reads(r)
    BY ReadsOf, Zenon
  <2> QED BY <2>1, <2>2, Zenon
<1>3. ASSUME r.op \in ManifestOps
      PROVE  /\ r.who \in Packages
             /\ LoadManifest(kept, r.who) = LoadManifest(disk, r.who)
             /\ kept[<<r.who, ".stowdeps">>] = disk[<<r.who, ".stowdeps">>]
  <2>1. r.who \in Packages /\ r.op \notin ConfigOps
    BY <1>3, Zenon DEF RequestOK, ManifestOps, ConfigOps
  <2>2. <<r.who, ".symdeps">> \in StoreFiles
    BY <2>1, FileKinds DEF ManifestFiles
  <2>3. kept[<<r.who, ".symdeps">>] = disk[<<r.who, ".symdeps">>]
    BY <1>2, <2>1, <2>2, ReadAsKept
  <2>4. kept[<<r.who, ".stowdeps">>] = disk[<<r.who, ".stowdeps">>]
    BY <2>1, LegacyKept DEF Legacy
  <2> QED BY <2>1, <2>3, <2>4, LoadsManifest
<1>4. ASSUME r.op \in IgnoreOps
      PROVE  r.who \in Owners /\ AsRead(kept, r.who)
  <2>1. r.who \in Owners /\ r.op \notin ConfigOps
    BY <1>4, Zenon DEF RequestOK, IgnoreOps, ConfigOps, Owners
  <2>2. ~IsOpen(IgnoreFile(disk, r.who)) /\ ~IsOpen(IgnoreFile(disk, ""))
    BY <1>2, <2>1 DEF Owners
  <2>3. IgnoreFile(disk, r.who) \in StoreFiles /\ "" \in Owners
    BY <2>1, FileKinds DEF IgnoreFile, IgnoreFiles, Owners
  <2>4. kept[IgnoreFile(disk, r.who)] = disk[IgnoreFile(disk, r.who)]
    BY <2>2, <2>3, ReadAsKept
  <2>5. RulesOf(kept, "") = RulesOf(disk, "")
    BY <2>2, <2>3, RulesAsKept
  <2>6. \A f \in StoreFiles : disk[f] = None => kept[f] = None
    BY ReadAsKept
  <2> QED BY <2>1, <2>4, <2>5, <2>6 DEF AsRead
<1> QED BY <1>1, <1>3, <1>4

\* The plan of a request, by its kind.
LEMMA PlanOf ==
    ASSUME TextsOK, NEW r, RequestOK(r), r.op \notin LinkOps, NEW plan \in Plans(r)
    PROVE  \/ r.op \in ConfigOps /\ plan = ConfigPlan(r)
           \/ plan = Said("failed")
           \/ r.op \in ManifestOps \ {"scan -i", "scan -y"} /\ plan = ManifestPlan(r)
           \/ r.op \in {"scan -i", "scan -y"} /\ Runs /\ ScanPlanned(r, plan)
           \/ r.op \in IgnoreOps /\ plan = IgnorePlan(r)
<1> USE DEF ConfigOps, ManifestOps, IgnoreOps, LinkOps
<1>1. CASE r.op \in ConfigOps
  <2>1. plan = ConfigPlan(r)
    BY <1>1 DEF Plans
  <2> QED BY <1>1, <2>1
<1>2. CASE r.op \notin ConfigOps /\ ~Runs
  <2>1. plan = Said("failed")
    BY <1>2 DEF Plans
  <2> QED BY <2>1
<1>3. CASE r.op \in {"scan -i", "scan -y"} /\ Runs
  BY <1>3, PlansPick, Zenon
<1>5. CASE r.op \in ManifestOps \ {"scan -i", "scan -y"} /\ Runs
  <2>1. plan = ManifestPlan(r)
    BY <1>5 DEF Plans
  <2> QED BY <1>5, <2>1
<1>6. CASE r.op \in IgnoreOps /\ Runs
  <2>1. plan = IgnorePlan(r)
    BY <1>6 DEF Plans
  <2> QED BY <1>6, <2>1
<1> QED BY <1>1, <1>2, <1>3, <1>5, <1>6, Zenon DEF RequestOK

\* A request is for one store.
LEMMA OneStore ==
    ASSUME NEW r
    PROVE  /\ r.op \in ConfigOps => r.op \notin ManifestOps /\ r.op \notin IgnoreOps
           /\ r.op \in ManifestOps => r.op \notin ConfigOps /\ r.op \notin IgnoreOps
           /\ r.op \in IgnoreOps => r.op \notin ConfigOps /\ r.op \notin ManifestOps
           /\ r.op \in {"scan -i", "scan -y"} => r.op \in ManifestOps
           /\ r.op \in LinkOps =>
                 r.op \notin ConfigOps /\ r.op \notin ManifestOps /\ r.op \notin IgnoreOps
BY Zenon DEF ConfigOps, ManifestOps, IgnoreOps, LinkOps

\* What is planned for the configuration serves its request.
LEMMA ConfigSavesServe ==
    ASSUME NEW r, NEW new, Whole(new),
           Promise!ConfigEffect(r, LoadConfig(disk[ConfigFile(disk)], Directories), new),
           NEW todo, todo = << <<"write", ConfigFile(disk), ConfigText(new)>> >>,
           NEW base, BaseOf(base, todo)
    PROVE  ServesConfig(r, todo, base) /\ todo # <<>>
<1> DEFINE w == <<"write", ConfigFile(disk), ConfigText(new)>>
<1>1. w[2] = ConfigFile(disk) /\ w[3] = ConfigText(new)
  OBVIOUS
<1>2. todo = <<w>>
  OBVIOUS
<1> HIDE DEF w
<1>3. 1 \in DOMAIN todo /\ todo[1] = w /\ todo # <<>>
  BY <1>2
<1>4. base[w[2]] = disk[ConfigFile(disk)]
  BY <1>1, <1>3 DEF BaseOf
<1>5. LoadConfig(w[3], Directories) = new
  BY <1>1, LoadSaved DEF Whole, Listable
<1> QED BY <1>2, <1>3, <1>4, <1>5 DEF ServesConfig

\* An answer at once.
LEMMA SaidFields ==
    ASSUME NEW answer
    PROVE  Said(answer).todo = <<>> /\ Said(answer).answer = answer
BY DEF Said

\* Nothing is registered before the manifest is saved.
LEMMA NothingFirst ==
    ASSUME NEW p, NEW m
    PROVE  <<>> \o SaveManifest(p, m) = SaveManifest(p, m)
<1>1. \A w : <<>> \o <<w>> = <<w>>
  OBVIOUS
<1> QED BY <1>1 DEF SaveManifest

\* Every plan that breaks no promise serves its request, or there is nothing to do.
LEMMA PlanServes ==
    ASSUME IInv, Kept, NEW r, RequestOK(r), r.op \notin LinkOps, NEW plan \in Plans(r),
           Breaks(r, plan) = {},
           r.op \in {"scan -i", "scan -y"} /\ Runs /\ Bundled \subseteq Tools => ScanFinds(r.who),
           NEW base, BaseOf(base, plan.todo)
    PROVE  IF plan.todo = <<>>
           THEN plan.answer = "failed" \/ (plan.answer = "nothing" /\ Done(r, kept))
           ELSE Serves(r, plan.todo, base, kept)
<1>1. TextsOK /\ up \subseteq Directories
  BY DEF IInv
<1>2. CASE plan.answer = "failed"
  <2>1. plan.todo = <<>>
    <3>1. CASE r.op \in ConfigOps /\ plan = ConfigPlan(r)
      <4>1. \/ plan = Said("failed") \/ plan = Said("nothing")
            \/ \E todo : plan = Plan(todo)
        BY <3>1, Zenon DEF ConfigPlan
      <4>2. plan.todo = <<>> \/ plan.answer = "done"
        BY <4>1, PlanFields, SaidFields, Zenon
      <4> QED BY <1>2, <4>2, Zenon
    <3>2. CASE plan = Said("failed")
      BY <3>2, SaidFields, Zenon
    <3>3. CASE r.op \in ManifestOps \ {"scan -i", "scan -y"} /\ plan = ManifestPlan(r)
      <4>1. \E todo : plan = Plan(todo)
        BY <3>3, Zenon DEF ManifestPlan
      <4>2. plan.answer = "done"
        BY <4>1, PlanFields
      <4> QED BY <1>2, <4>2, Zenon
    <3>4. CASE ScanPlanned(r, plan)
      <4>1. plan = Said("nothing") \/ \E todo : plan = Plan(todo)
        BY <3>4, Zenon DEF ScanPlan, ScanPlanned
      <4>2. plan.todo = <<>> \/ plan.answer = "done"
        BY <4>1, PlanFields, SaidFields, Zenon
      <4> QED BY <1>2, <4>2, Zenon
    <3>5. CASE r.op \in IgnoreOps /\ plan = IgnorePlan(r)
      <4>1. plan.todo # <<>> => plan.answer = "done"
        BY <3>5, IgnorePlanDone, Zenon
      <4> QED BY <1>2, <4>1, Zenon
    <3> QED BY <3>1, <3>2, <3>3, <3>4, <3>5, <1>1, PlanOf, Zenon
  <2> QED BY <1>2, <2>1, Zenon
<1>3. CASE plan.answer # "failed"
  <2>1. \A f \in Reads(r) : ~IsOpen(f)
    BY <1>3, Unbroken, Zenon
  <2>2. /\ ConfigIn(kept) = LoadConfig(disk[ConfigFile(disk)], Directories)
        /\ r.op \in ManifestOps =>
              /\ r.who \in Packages
              /\ LoadManifest(kept, r.who) = LoadManifest(disk, r.who)
              /\ kept[<<r.who, ".stowdeps">>] = disk[<<r.who, ".stowdeps">>]
        /\ r.op \in IgnoreOps => r.who \in Owners /\ AsRead(kept, r.who)
    BY <2>1, ReadIsKept, Zenon
  <2>3. CASE r.op \in ConfigOps /\ plan = ConfigPlan(r)
    <3> DEFINE old == LoadConfig(disk[ConfigFile(disk)], Directories)
    <3>1. \/ \E new : /\ plan.todo = << <<"write", ConfigFile(disk), ConfigText(new)>> >>
                      /\ Whole(new) /\ Promise!ConfigEffect(r, old, new)
          \/ /\ plan.todo = <<>> /\ plan.answer = "nothing"
             /\ r.op \in {"add source", "remove dir"} /\ Settled(r, old)
      BY <1>1, <1>3, <2>3, ConfigPlanServes, Zenon
    <3> HIDE DEF old
    <3>2. CASE \E new : /\ plan.todo = << <<"write", ConfigFile(disk), ConfigText(new)>> >>
                        /\ Whole(new) /\ Promise!ConfigEffect(r, old, new)
      <4>1. ServesConfig(r, plan.todo, base) /\ plan.todo # <<>>
        BY <3>2, ConfigSavesServe, Zenon DEF old
      <4> QED BY <2>3, <4>1, OneStore, Zenon DEF Serves
    <3>3. CASE /\ plan.todo = <<>> /\ plan.answer = "nothing"
               /\ r.op \in {"add source", "remove dir"} /\ Settled(r, old)
      <4>1. Settled(r, ConfigIn(kept))
        BY <2>2, <3>3, Zenon DEF old
      <4>2. Done(r, kept)
        BY <2>3, <3>3, <4>1, OneStore, Zenon DEF Done
      <4> QED BY <3>3, <4>2, Zenon
    <3> QED BY <3>1, <3>2, <3>3, Zenon
  <2>4. CASE plan = Said("failed")
    BY <1>3, <2>4, SaidFields, Zenon
  <2>5. CASE r.op \in ManifestOps \ {"scan -i", "scan -y"} /\ plan = ManifestPlan(r)
    <3>1. PICK new : Saves(r, plan, new)
      BY <1>1, <2>5, ManifestPlanServes, Zenon
    <3>2. plan.todo = <<>> \o SaveManifest(r.who, new)
      <4>1. plan.todo = SaveManifest(r.who, new)
        BY <3>1, PlanFields, Zenon DEF Saves
      <4> QED BY <4>1, NothingFirst, Zenon
    <3>3. Writes(r, <<>>) /\ \A i \in DOMAIN <<>> : <<>>[i][2] = RegistryFile
      BY NoPlace, NoWrite
    <3>4. ServesManifest(r, plan.todo, base, kept) /\ plan.todo # <<>>
      BY <1>1, <2>2, <2>5, <3>1, <3>2, <3>3, SavesServe, Zenon DEF Saves
    <3> QED BY <2>5, <3>4, OneStore, Zenon DEF Serves
  <2>6. CASE r.op \in {"scan -i", "scan -y"} /\ Runs /\ ScanPlanned(r, plan)
    <3>0. PICK picked : Picked(r, picked) /\ plan = ScanPlan(r, picked)
      BY <2>6, Zenon DEF ScanPlanned
    <3>1. Bundled \subseteq Tools
      BY <1>3, <2>6, Unbroken, Zenon
    <3>2. ScanFinds(r.who)
      BY <2>6, <3>1, Zenon
    <3>3. ScanServed(r, plan)
      BY <1>1, <2>6, <3>0, <3>2, ScanPlanServes, Zenon
    <3>4. \/ \E first, new :
                /\ Writes(r, first) /\ \A i \in DOMAIN first : first[i][2] = RegistryFile
                /\ plan = Plan(first \o SaveManifest(r.who, new)) /\ ManifestOK(new)
                /\ Promise!ManifestEffect(r, LoadManifest(disk, r.who), new)
          \/ /\ plan = Said("nothing")
             /\ r.op = "scan -y" => AllListed(Uses[r.who], LoadManifest(disk, r.who))
      BY <2>6, <3>0, <3>2, <3>3, Zenon DEF ScanServed
    <3>5. r.op \in ManifestOps
      BY <2>6, OneStore, Zenon
    <3>6. ASSUME NEW first, NEW new, Writes(r, first),
                 \A i \in DOMAIN first : first[i][2] = RegistryFile,
                 plan = Plan(first \o SaveManifest(r.who, new)), ManifestOK(new),
                 Promise!ManifestEffect(r, LoadManifest(disk, r.who), new)
          PROVE  Serves(r, plan.todo, base, kept) /\ plan.todo # <<>>
      <4>1. plan.todo = first \o SaveManifest(r.who, new)
        BY <3>6, PlanFields, Zenon
      <4>2. ServesManifest(r, plan.todo, base, kept) /\ plan.todo # <<>>
        BY <1>1, <2>2, <3>5, <3>6, <4>1, SavesServe, Zenon
      <4> QED BY <3>5, <4>2, OneStore, Zenon DEF Serves
    <3>7. CASE /\ plan = Said("nothing")
               /\ r.op = "scan -y" => AllListed(Uses[r.who], LoadManifest(disk, r.who))
      <4>1. plan.todo = <<>> /\ plan.answer = "nothing"
        BY <3>7, SaidFields, Zenon
      <4>2. Done(r, kept)
        BY <2>2, <2>6, <3>5, <3>7, OneStore, Zenon DEF Done
      <4> QED BY <4>1, <4>2, Zenon
    <3> QED BY <3>4, <3>6, <3>7, Zenon
  <2>7. CASE r.op \in IgnoreOps /\ plan = IgnorePlan(r)
    <3>1. IF plan.todo = <<>> THEN plan.answer = "nothing" /\ RulesDone(r, kept)
          ELSE ServesRules(r, plan.todo, base, kept)
      BY <1>1, <2>2, <2>7, IgnorePlanServes, Zenon DEF BaseOf
    <3>2. r.op # "scan -y"
      BY <2>7, OneStore, Zenon
    <3> QED BY <2>7, <3>1, <3>2, OneStore, Zenon DEF Serves, Done
  <2> QED BY <2>3, <2>4, <2>5, <2>6, <2>7, <1>1, PlanOf, Zenon
<1> QED BY <1>2, <1>3, Zenon

-----------------------------------------------------------------------------
(* A write that reaches its file has the effect its request promises *)

\* The file a request writes, by its kind.
LEMMA OfStore ==
    ASSUME NEW r, NEW w, WriteOK(r, w)
    PROVE  /\ r.op \in ConfigOps => w[2] \in ConfigNames /\ w[1] = "write"
           /\ r.op \in ManifestOps =>
                 \/ r.who \in Packages /\ w[2] = <<r.who, ".symdeps">> /\ w[1] = "write"
                 \/ w[2] = RegistryFile /\ w[1] = "append"
           /\ r.op \in IgnoreOps =>
                 /\ r.who \in Owners /\ w[2] \in IgnoreFiles
                 /\ w[2] \in {<<r.who, ".symignore">>, <<r.who, ".stowignore">>}
                 /\ w[1] = "write" => w[3] \in Seq(Lines)
                 /\ w[1] = "append" => w[3] \in Pats
           /\ r.op \in ConfigOps \/ r.op \in ManifestOps \/ r.op \in IgnoreOps
<1>1. \/ /\ r.op \in ConfigOps /\ w[1] = "write" /\ w[2] \in ConfigNames
      \/ /\ r.op \in ManifestOps /\ r.who \in Packages
         /\ w[1] = "write" /\ w[2] = <<r.who, ".symdeps">>
      \/ /\ r.op \in ManifestOps /\ w[1] = "append" /\ w[2] = RegistryFile
      \/ /\ r.op \in IgnoreOps /\ r.who \in Owners
         /\ w[2] \in {<<r.who, ".symignore">>, <<r.who, ".stowignore">>}
         /\ w[1] = "write" => w[3] \in Seq(Lines)
         /\ w[1] = "append" => w[3] \in Pats
  <2>1. "write" # "append" /\ "delete" # "write" /\ "delete" # "append"
    OBVIOUS
  <2> QED BY <2>1, Zenon DEF WriteOK, Owners
<1>2. \A q \in Owners : <<q, ".symignore">> \in IgnoreFiles /\ <<q, ".stowignore">> \in IgnoreFiles
  BY DEF IgnoreFiles, Owners
<1> QED BY <1>1, <1>2, OneStore

\* A file that is of another store leaves the configuration, the manifest or the rules.
LEMMA OtherStores ==
    ASSUME NEW d, DOMAIN d = StoreFiles, NEW F, NEW text, NEW e, Puts(d, F, text, e)
    PROVE  /\ F \notin ConfigNames => ConfigIn(e) = ConfigIn(d)
           /\ \A p \in Packages : F \notin {<<p, ".symdeps">>, <<p, ".stowdeps">>} =>
                  LoadManifest(e, p) = LoadManifest(d, p)
           /\ \A q \in Owners : F \notin {<<q, ".symignore">>, <<q, ".stowignore">>} =>
                  RulesOf(e, q) = RulesOf(d, q)
<1>1. ASSUME F \notin ConfigNames PROVE ConfigIn(e) = ConfigIn(d)
  <2>1. \A f \in ConfigNames : e[f] = d[f]
    BY <1>1, FileKinds DEF Puts
  <2>2. ConfigFile(e) = ConfigFile(d)
    BY <1>1, OtherConfig
  <2>3. e[ConfigFile(e)] = d[ConfigFile(d)]
    BY <2>1, <2>2, ConfigFileNamed
  <2> QED BY <2>3 DEF ConfigIn
<1>2. ASSUME NEW p \in Packages, F \notin {<<p, ".symdeps">>, <<p, ".stowdeps">>}
      PROVE  LoadManifest(e, p) = LoadManifest(d, p)
  <2>1. <<p, ".symdeps">> \in DOMAIN d /\ <<p, ".stowdeps">> \in DOMAIN d
    BY FileKinds DEF ManifestFiles
  <2>2. /\ e[<<p, ".symdeps">>] = d[<<p, ".symdeps">>]
        /\ e[<<p, ".stowdeps">>] = d[<<p, ".stowdeps">>]
    BY <1>2, <2>1 DEF Puts
  <2> QED BY <2>2, LoadsManifest
<1>3. ASSUME NEW q \in Owners, F \notin {<<q, ".symignore">>, <<q, ".stowignore">>}
      PROVE  RulesOf(e, q) = RulesOf(d, q)
  BY <1>3, OtherRules
<1> QED BY <1>1, <1>2, <1>3

\* A write w of a request turns the files d into e: it is of the file that is read, which
\* gets the text or the line, or is deleted.
Lands(r, w, base, d, e) ==
    /\ DOMAIN d = StoreFiles /\ WriteOK(r, w)
    /\ w[2] \in ConfigNames => w[2] = ConfigFile(d)
    /\ r.op \in IgnoreOps => IgnoreFile(d, r.who) = w[2]
    /\ w[1] = "write" => d[w[2]] = base[w[2]] /\ w[3] # None /\ Puts(d, w[2], w[3], e)
    /\ w[1] = "append" /\ w[2] # RegistryFile =>
          \E old \in Seq(Lines) : /\ old = IF d[w[2]] = None THEN <<>> ELSE d[w[2]]
                                  /\ Puts(d, w[2], AppendLine(old, w[3]), e)
    /\ w[1] = "append" /\ w[2] = RegistryFile => \E text : Puts(d, w[2], text, e)
    /\ w[1] = "delete" => Puts(d, w[2], None, e)

\* It gets some text.
LEMMA LandsText ==
    ASSUME NEW r, NEW w, NEW base, NEW d, NEW e, Lands(r, w, base, d, e)
    PROVE  \E text : Puts(d, w[2], text, e)
<1>1. w[1] \in {"write", "append", "delete"}
  BY WriteTyped DEF Lands
<1> QED BY <1>1 DEF Lands

\* Everything stays that is not the store of the request.
Spares(r, d, e) ==
    /\ r.op \notin ConfigOps => ConfigIn(e) = ConfigIn(d)
    /\ \A p \in Packages :
          (r.op \in ManifestOps /\ p = r.who) \/ LoadManifest(e, p) = LoadManifest(d, p)
    /\ \A q \in Owners : (r.op \in IgnoreOps /\ q = r.who) \/ RulesOf(e, q) = RulesOf(d, q)

\* A write spares the other stores, the one of the registry all of them.
LEMMA OthersSpared ==
    ASSUME NEW r, NEW w, NEW base, NEW d, NEW e, Lands(r, w, base, d, e)
    PROVE  /\ Spares(r, d, e)
           /\ w[2] = RegistryFile =>
                 \A p \in Packages : LoadManifest(e, p) = LoadManifest(d, p)
<1>1. PICK text : Puts(d, w[2], text, e)
  BY LandsText
<1>2. DOMAIN d = StoreFiles /\ WriteOK(r, w)
  BY DEF Lands
<1> DEFINE F == w[2]
<1>3. /\ F \notin ConfigNames => ConfigIn(e) = ConfigIn(d)
      /\ \A p \in Packages : F \notin {<<p, ".symdeps">>, <<p, ".stowdeps">>} =>
             LoadManifest(e, p) = LoadManifest(d, p)
      /\ \A q \in Owners : F \notin {<<q, ".symignore">>, <<q, ".stowignore">>} =>
             RulesOf(e, q) = RulesOf(d, q)
  BY <1>1, <1>2, OtherStores
<1>4. /\ \A p \in Packages :
             <<p, ".symdeps">> \in ManifestFiles /\ <<p, ".stowdeps">> \in ManifestFiles
      /\ \A q \in Owners :
             <<q, ".symignore">> \in IgnoreFiles /\ <<q, ".stowignore">> \in IgnoreFiles
  BY DEF ManifestFiles, IgnoreFiles, Owners
<1>5. F \in ConfigNames => F \notin ManifestFiles /\ F \notin IgnoreFiles
  BY FileKinds
<1>6. F \in ManifestFiles => F \notin ConfigNames /\ F \notin IgnoreFiles
  BY FileKinds
<1>7. F \in IgnoreFiles => F \notin ConfigNames /\ F \notin ManifestFiles
  BY FileKinds
<1>8. F = RegistryFile => F \notin ConfigNames /\ F \notin ManifestFiles /\ F \notin IgnoreFiles
  BY FileKinds
<1>9. /\ r.op \in ConfigOps => F \in ConfigNames
      /\ r.op \in ManifestOps =>
             (r.who \in Packages /\ F = <<r.who, ".symdeps">>) \/ F = RegistryFile
      /\ r.op \in IgnoreOps => /\ r.who \in Owners /\ F \in IgnoreFiles
                               /\ F \in {<<r.who, ".symignore">>, <<r.who, ".stowignore">>}
      /\ r.op \in ConfigOps \/ r.op \in ManifestOps \/ r.op \in IgnoreOps
  BY <1>2, OfStore
<1> HIDE DEF F
<1>10. ASSUME NEW p \in Packages, F \in {<<p, ".symdeps">>, <<p, ".stowdeps">>}
       PROVE  r.op \in ManifestOps /\ p = r.who
  <2>1. F \in ManifestFiles /\ F[1] = p
    <3>1. F \in ManifestFiles
      BY <1>4, <1>10, Zenon
    <3>2. F[1] = p
      BY <1>10
    <3> QED BY <3>1, <3>2
  <2>2. r.op \in ManifestOps
    BY <1>6, <1>9, <2>1
  <2>3. F = <<r.who, ".symdeps">>
    BY <1>8, <1>9, <2>1, <2>2
  <2> QED BY <2>1, <2>2, <2>3
<1>11. ASSUME NEW q \in Owners, F \in {<<q, ".symignore">>, <<q, ".stowignore">>}
       PROVE  r.op \in IgnoreOps /\ q = r.who
  <2>1. F \in IgnoreFiles /\ F[1] = q
    <3>1. F \in IgnoreFiles
      BY <1>4, <1>11, Zenon
    <3>2. F[1] = q
      BY <1>11
    <3> QED BY <3>1, <3>2
  <2>2. r.op \in ManifestOps /\ F = <<r.who, ".symdeps">> /\ r.who \in Packages =>
            F \in ManifestFiles
    BY <1>4
  <2>3. r.op \in IgnoreOps
    BY <1>7, <1>8, <1>9, <2>1, <2>2
  <2>4. F \in {<<r.who, ".symignore">>, <<r.who, ".stowignore">>}
    BY <1>9, <2>3
  <2> QED BY <2>1, <2>3, <2>4
<1>12. r.op \notin ConfigOps => F \notin ConfigNames
  BY <1>4, <1>6, <1>7, <1>8, <1>9
<1>13. F = RegistryFile => \A p \in Packages : F \notin {<<p, ".symdeps">>, <<p, ".stowdeps">>}
  BY <1>4, <1>8
<1>14. Spares(r, d, e)
  BY <1>3, <1>10, <1>11, <1>12 DEF Spares
<1> QED BY <1>3, <1>13, <1>14 DEF F

\* One write, and two.
LEMMA OneOrTwo ==
    /\ \A a : Len(<<a>>) = 1 /\ <<a>>[1] = a
    /\ \A a, b : Len(<<a, b>>) = 2 /\ <<a, b>>[1] = a /\ Tail(<<a, b>>) = <<b>>
<1>1. ASSUME NEW a, NEW b PROVE Tail(<<a, b>>) = <<b>>
  <2> DEFINE s == <<a, b>>
             t == <<b>>
             S == {a, b}
  <2>1. s \in Seq(S) /\ Len(s) = 2 /\ s[2] = b /\ t \in Seq(S) /\ Len(t) = 1 /\ t[1] = b
    OBVIOUS
  <2> HIDE DEF s, t, S
  <2>2. Tail(s) \in Seq(S) /\ Len(Tail(s)) = 1 /\ Tail(s)[1] = b
    <3>1. s # <<>>
      BY <2>1
    <3>2. /\ Tail(s) \in Seq(S) /\ Len(Tail(s)) = Len(s) - 1
          /\ \A i \in 1 .. Len(Tail(s)) : Tail(s)[i] = s[i + 1]
      BY <2>1, <3>1, HeadTailProperties
    <3>3. 1 \in 1 .. 1 /\ 2 - 1 = 1 /\ 1 + 1 = 2
      OBVIOUS
    <3> QED BY <2>1, <3>2, <3>3
  <2>3. \A i \in 1 .. 1 : i = 1
    OBVIOUS
  <2>4. Tail(s) = t
    BY <2>1, <2>2, <2>3, SeqEqual
  <2> QED BY <2>4 DEF s, t
<1>2. \A a, b : Len(<<a, b>>) = 2 /\ <<a, b>>[1] = a
  OBVIOUS
<1>3. \A a : Len(<<a>>) = 1 /\ <<a>>[1] = a
  OBVIOUS
<1> QED BY <1>1, <1>2, <1>3

\* The effect of an edit of the ignore rules.
RulesChange(r, d, e) ==
    /\ Inits(r) => RulesOf(d, r.who) \subseteq RulesOf(e, r.who)
    /\ Adds(r) => /\ RulesOf(d, r.who) \subseteq RulesOf(e, r.who)
                  /\ r.arg \in RulesOf(e, r.who) \union RulesOf(d, "")
    /\ Removes(r) => RulesOf(e, r.who) = RulesOf(d, r.who) \ {r.arg}
    /\ Clears(r) => RulesOf(e, r.who) = {}

\* The effect of a request on the files.
HasEffect(r, d, e) ==
    /\ r.op \in ConfigOps => Promise!ConfigEffect(r, ConfigIn(d), ConfigIn(e))
    /\ r.op \in ManifestOps =>
          Promise!ManifestEffect(r, LoadManifest(d, r.who), LoadManifest(e, r.who))
    /\ r.op \in IgnoreOps => RulesChange(r, d, e)

\* The configuration that is written ...
LEMMA ConfigServed ==
    ASSUME NEW r, r.op \in ConfigOps, NEW todo, NEW base, ServesConfig(r, todo, base),
           NEW d, NEW e, Lands(r, todo[1], base, d, e)
    PROVE  Promise!ConfigEffect(r, ConfigIn(d), ConfigIn(e))
<1>1. PICK w : /\ todo = <<w>>
               /\ Promise!ConfigEffect(r, LoadConfig(base[w[2]], Directories),
                                       LoadConfig(w[3], Directories))
  BY Zenon DEF ServesConfig
<1>2. todo[1] = w
  BY <1>1
<1>3. /\ DOMAIN d = StoreFiles /\ w[2] \in ConfigNames /\ w[2] = ConfigFile(d)
      /\ d[w[2]] = base[w[2]] /\ w[3] # None /\ Puts(d, w[2], w[3], e)
  BY <1>2, OfStore DEF Lands
<1>4. w[2] \in DOMAIN d /\ ConfigNames \subseteq DOMAIN d
  BY <1>3, FileKinds
<1>5. ConfigFile(e) = w[2]
  BY <1>3, <1>4, ConfigFileStays DEF Puts
<1>6. e[w[2]] = w[3]
  BY <1>3, <1>4 DEF Puts
<1>7. /\ ConfigIn(e) = LoadConfig(w[3], Directories)
      /\ ConfigIn(d) = LoadConfig(base[w[2]], Directories)
  BY <1>3, <1>5, <1>6 DEF ConfigIn
<1> QED BY <1>1, <1>7, Zenon

\* ... and the manifest.
LEMMA ManifestServed ==
    ASSUME NEW r, r.op \in ManifestOps, NEW todo, Writes(r, todo), todo # <<>>, Len(todo) = 1,
           NEW base, NEW d, ServesManifest(r, todo, base, d),
           NEW e, Lands(r, todo[1], base, d, e)
    PROVE  Promise!ManifestEffect(r, LoadManifest(d, r.who), LoadManifest(e, r.who))
<1> DEFINE w == todo[1]
<1>1. 1 \in DOMAIN todo
  BY RestOfWrites
<1>2. /\ w[2] # RegistryFile
      /\ Promise!ManifestEffect(r, ManifestOf(base[w[2]], d[<<r.who, ".stowdeps">>]),
                                ParseManifest(w[3]))
  BY <1>1, Zenon DEF ServesManifest
<1>3. w[1] = "write" /\ w[2] = <<r.who, ".symdeps">> /\ r.who \in Packages
  BY <1>2, OfStore DEF Lands
<1>4. /\ DOMAIN d = StoreFiles /\ d[w[2]] = base[w[2]] /\ w[3] # None /\ Puts(d, w[2], w[3], e)
  BY <1>3 DEF Lands
<1>5. w[2] \in DOMAIN d
  BY <1>3, <1>4, FileKinds DEF ManifestFiles
<1> HIDE DEF w
<1>6. e[w[2]] = w[3]
  BY <1>4, <1>5 DEF Puts
<1>7. /\ LoadManifest(d, r.who) = ManifestOf(base[w[2]], d[<<r.who, ".stowdeps">>])
      /\ LoadManifest(e, r.who) = ParseManifest(w[3])
  BY <1>3, <1>4, <1>6, LoadsManifest DEF ManifestOf
<1> QED BY <1>2, <1>7, Zenon

\* The rules of a directory: those in the file that is read, before and after a write.
LEMMA RulesWithText ==
    ASSUME NEW r, r.op \in IgnoreOps, NEW w, NEW base, NEW d, NEW e, Lands(r, w, base, d, e),
           NEW F, F = w[2], NEW text, Puts(d, F, text, e), text # None
    PROVE  RulesOf(d, r.who) = Patterns(d[F]) /\ RulesOf(e, r.who) = Patterns(text) /\ e[F] = text
<1>1. /\ DOMAIN d = StoreFiles /\ IgnoreFile(d, r.who) = F /\ r.who \in Owners
      /\ F \in IgnoreFiles
  BY OfStore DEF Lands
<1>2. IgnoreFiles \subseteq DOMAIN d
  BY <1>1, FileKinds
<1>3. IgnoreFile(e, r.who) = F
  BY <1>1, <1>2, IgnoreFileStays
<1>4. e[F] = text
  BY <1>1, <1>2 DEF Puts
<1> QED BY <1>1, <1>3, <1>4 DEF RulesOf

\* An edit of an ignore file is of one kind.
LEMMA OneEdit ==
    ASSUME NEW r
    PROVE  /\ Inits(r) => ~Adds(r) /\ ~Removes(r) /\ ~Clears(r)
           /\ Adds(r) => ~Inits(r) /\ ~Removes(r) /\ ~Clears(r)
           /\ Removes(r) => ~Inits(r) /\ ~Adds(r) /\ ~Clears(r)
           /\ Clears(r) => ~Inits(r) /\ ~Adds(r) /\ ~Removes(r)
BY Zenon DEF Inits, Adds, Removes, Clears

\* What a write of an ignore file has to do: the last one has the effect of its request, one
\* before it fills a file; the text ends with a newline; a line that is added takes no rule.
RulesServedBy(r, todo, base, d, e) ==
    LET w == todo[1] IN
    /\ Len(todo) = 1 => RulesChange(r, d, e)
    /\ Len(todo) # 1 => Adds(r) /\ RulesOf(d, r.who) = {} /\ ServesRules(r, Tail(todo), base, e)
    /\ e[w[2]] = None \/ Closed(e[w[2]])
    /\ w[1] = "append" => RulesOf(d, r.who) \subseteq RulesOf(e, r.who)

\* The file that gets a text.
LEMMA TextPut ==
    ASSUME NEW r, r.op \in IgnoreOps, NEW w, NEW base, NEW d, NEW e, Lands(r, w, base, d, e),
           NEW F, F = w[2], NEW text, Puts(d, F, text, e)
    PROVE  e[F] = text
<1>1. F \in IgnoreFiles /\ DOMAIN d = StoreFiles
  BY OfStore DEF Lands
<1>2. F \in DOMAIN d
  BY <1>1, FileKinds
<1> QED BY <1>2 DEF Puts

\* The file is filled.
LEMMA FillServes ==
    ASSUME NEW r, r.op \in IgnoreOps, NEW todo, NEW base, NEW d, FillsFile(r, todo, base, d),
           NEW e, Lands(r, todo[1], base, d, e)
    PROVE  RulesServedBy(r, todo, base, d, e)
<1>1. PICK f, text :
          /\ f = <<r.who, ".symignore">> /\ base[f] = None /\ d[<<r.who, ".stowignore">>] = None
          /\ text \in Seq(Lines) /\ Closed(text)
          /\ \/ /\ todo = << <<"write", f, text>> >>
                /\ Inits(r) \/ (Adds(r) /\ Present(r, text, d))
             \/ /\ todo = << <<"write", f, text>>, <<"append", f, r.arg>> >>
                /\ Adds(r) /\ Uncomment(r.arg) = r.arg
  BY Zenon DEF FillsFile
<1> DEFINE w == <<"write", f, text>>
           more == <<"append", f, r.arg>>
<1>2. w[1] = "write" /\ w[2] = f /\ w[3] = text
  OBVIOUS
<1>3. \/ todo = <<w>> /\ (Inits(r) \/ (Adds(r) /\ Present(r, text, d)))
      \/ todo = <<w, more>> /\ Adds(r) /\ Uncomment(r.arg) = r.arg
  BY <1>1
<1> HIDE DEF w
<1>4. more = <<"append", f, r.arg>>
  OBVIOUS
<1> HIDE DEF more
<1>5. /\ todo[1] = w
      /\ Len(todo) = 1 => todo = <<w>>
      /\ Len(todo) # 1 => todo = <<w, more>> /\ Tail(todo) = <<more>>
  <2>1. CASE todo = <<w>>
    BY <2>1, OneOrTwo
  <2>2. CASE todo = <<w, more>>
    <3>1. Len(todo) = 2 /\ todo[1] = w /\ Tail(todo) = <<more>>
      BY <2>2, OneOrTwo
    <3> QED BY <2>2, <3>1
  <2> QED BY <1>3, <2>1, <2>2
<1>6. d[f] = None /\ Puts(d, f, text, e) /\ text # None
  BY <1>1, <1>2, <1>5 DEF Lands
<1>0. Lands(r, w, base, d, e)
  BY <1>5
<1>7. RulesOf(d, r.who) = {} /\ RulesOf(e, r.who) = Patterns(text) /\ e[f] = text
  <2>1. RulesOf(d, r.who) = Patterns(d[f]) /\ RulesOf(e, r.who) = Patterns(text) /\ e[f] = text
    BY <1>0, <1>2, <1>6, RulesWithText
  <2> QED BY <1>6, <2>1 DEF Patterns
<1>9. ASSUME Len(todo) = 1 PROVE RulesChange(r, d, e)
  <2>1. todo = <<w>> /\ (todo = <<w, more>> => Len(todo) = 2)
    BY <1>5, <1>9, OneOrTwo
  <2>2. Inits(r) \/ (Adds(r) /\ Present(r, text, d))
    BY <1>3, <1>9, <2>1
  <2>3. ~Removes(r) /\ ~Clears(r) /\ (Inits(r) => ~Adds(r))
    BY <2>2, OneEdit
  <2>4. Present(r, text, d) => r.arg \in Patterns(text) \/ r.arg \in RulesOf(d, "")
    BY Zenon DEF Present
  <2> QED BY <1>7, <2>2, <2>3, <2>4, Zenon DEF RulesChange
<1>10. ASSUME Len(todo) # 1
       PROVE  Adds(r) /\ RulesOf(d, r.who) = {} /\ ServesRules(r, Tail(todo), base, e)
  <2>1. Tail(todo) = <<more>> /\ todo # <<w>>
    BY <1>5, <1>10, OneOrTwo
  <2>2. Adds(r) /\ Uncomment(r.arg) = r.arg
    BY <1>3, <2>1
  <2>3. AddsLine(r, Tail(todo), e)
    BY <1>1, <1>4, <1>7, <2>1, <2>2, Zenon DEF AddsLine
  <2> QED BY <1>7, <2>2, <2>3 DEF ServesRules
<1>11. todo[1][2] = f /\ todo[1][1] = "write" /\ "write" # "append"
  BY <1>2, <1>5
<1> QED BY <1>1, <1>7, <1>9, <1>10, <1>11 DEF RulesServedBy

\* A line is added.
LEMMA AddServes ==
    ASSUME NEW r, r.op \in IgnoreOps, NEW todo, NEW base, NEW d, AddsLine(r, todo, d),
           NEW e, Lands(r, todo[1], base, d, e)
    PROVE  RulesServedBy(r, todo, base, d, e)
<1>1. PICK f : /\ Adds(r) /\ Uncomment(r.arg) = r.arg
               /\ todo = << <<"append", f, r.arg>> >> /\ (d[f] = None \/ Closed(d[f]))
  BY Zenon DEF AddsLine
<1> DEFINE w == <<"append", f, r.arg>>
<1>2. w[1] = "append" /\ w[2] = f /\ w[3] = r.arg
  OBVIOUS
<1>3. todo = <<w>>
  BY <1>1
<1> HIDE DEF w
<1>4. todo[1] = w /\ Len(todo) = 1
  BY <1>3, OneOrTwo
<1>0. Lands(r, w, base, d, e)
  BY <1>4
<1>5. f # RegistryFile
  <2>1. f \in IgnoreFiles
    BY <1>0, <1>2, OfStore DEF Lands
  <2> QED BY <2>1, FileKinds
<1>6. PICK old \in Seq(Lines) :
          /\ old = IF d[f] = None THEN <<>> ELSE d[f]
          /\ Puts(d, f, AppendLine(old, r.arg), e)
  BY <1>2, <1>4, <1>5 DEF Lands
<1>7. r.arg \in Pats
  BY <1>2, <1>4, OfStore DEF Lands
<1> DEFINE text == AppendLine(old, r.arg)
<1>8. Closed(old)
  BY <1>1, <1>6 DEF Closed
<1>9. /\ r.arg \in Patterns(text) /\ Patterns(old) \subseteq Patterns(text)
      /\ Closed(text)
  BY <1>1, <1>7, <1>8, AddedRules, WrittenClosed
<1>10. text # None
  <2>1. text \in Seq(Lines)
    BY <1>7, AppendLineType
  <2> QED BY <2>1, IgnoreAssumption
<1> HIDE DEF text
<1>11. Patterns(d[f]) \subseteq Patterns(old)
  BY <1>6 DEF Patterns
<1>12. /\ RulesOf(d, r.who) = Patterns(d[f]) /\ RulesOf(e, r.who) = Patterns(text)
       /\ e[f] = text
  <2>1. Puts(d, f, text, e)
    BY <1>6 DEF text
  <2> QED BY <1>0, <1>2, <1>10, <2>1, RulesWithText
<1>13. RulesChange(r, d, e)
  <2>1. ~Inits(r) /\ ~Removes(r) /\ ~Clears(r)
    BY <1>1, OneEdit
  <2>2. RulesOf(d, r.who) \subseteq RulesOf(e, r.who) /\ r.arg \in RulesOf(e, r.who)
    BY <1>9, <1>11, <1>12
  <2>3. r.arg \in RulesOf(e, r.who) \union RulesOf(d, "")
    BY <2>2, Zenon
  <2> QED BY <2>1, <2>2, <2>3, Zenon DEF RulesChange
<1>14. RulesOf(d, r.who) \subseteq RulesOf(e, r.who)
  BY <1>9, <1>11, <1>12
<1> QED BY <1>2, <1>4, <1>9, <1>12, <1>13, <1>14 DEF RulesServedBy

\* Lines are taken out.
LEMMA RemoveServes ==
    ASSUME NEW r, r.op \in IgnoreOps, NEW todo, NEW base, RemovesLines(r, todo, base),
           NEW d, NEW e, Lands(r, todo[1], base, d, e)
    PROVE  RulesServedBy(r, todo, base, d, e)
<1>1. PICK f, text :
          /\ Removes(r) /\ todo = << <<"write", f, text>> >> /\ base[f] # None
          /\ Closed(text) /\ Patterns(text) = Patterns(base[f]) \ {r.arg}
  BY Zenon DEF RemovesLines
<1> DEFINE w == <<"write", f, text>>
<1>2. w[1] = "write" /\ w[2] = f /\ w[3] = text
  OBVIOUS
<1>3. todo = <<w>>
  BY <1>1
<1> HIDE DEF w
<1>4. todo[1] = w /\ Len(todo) = 1
  BY <1>3, OneOrTwo
<1>5. d[f] = base[f] /\ Puts(d, f, text, e) /\ text # None
  BY <1>2, <1>4 DEF Lands
<1>0. Lands(r, w, base, d, e)
  BY <1>4
<1>6. /\ RulesOf(d, r.who) = Patterns(base[f]) /\ RulesOf(e, r.who) = Patterns(text)
      /\ e[f] = text
  <2>1. RulesOf(d, r.who) = Patterns(d[f]) /\ RulesOf(e, r.who) = Patterns(text) /\ e[f] = text
    BY <1>0, <1>2, <1>5, RulesWithText
  <2> QED BY <1>5, <2>1
<1>7. RulesOf(e, r.who) = RulesOf(d, r.who) \ {r.arg}
  BY <1>1, <1>6
<1>8. ~Inits(r) /\ ~Adds(r) /\ ~Clears(r)
  BY <1>1, OneEdit
<1>9. RulesChange(r, d, e)
  BY <1>7, <1>8, Zenon DEF RulesChange
<1>10. "write" # "append"
  OBVIOUS
<1> QED BY <1>1, <1>2, <1>4, <1>6, <1>9, <1>10 DEF RulesServedBy

\* The file is deleted.
LEMMA DeleteServes ==
    ASSUME NEW r, r.op \in IgnoreOps, NEW todo, NEW base, NEW d, DeletesFile(r, todo, d),
           NEW e, Lands(r, todo[1], base, d, e)
    PROVE  RulesServedBy(r, todo, base, d, e)
<1>1. PICK f : Clears(r) /\ todo = << <<"delete", f, None>> >> /\ ~Hides(f, d)
  BY Zenon DEF DeletesFile
<1> DEFINE w == <<"delete", f, None>>
<1>2. w[1] = "delete" /\ w[2] = f
  OBVIOUS
<1>3. todo = <<w>>
  BY <1>1
<1> HIDE DEF w
<1>4. todo[1] = w /\ Len(todo) = 1
  BY <1>3, OneOrTwo
<1>5. /\ Puts(d, f, None, e) /\ IgnoreFile(d, r.who) = f /\ DOMAIN d = StoreFiles
      /\ r.who \in Owners
  BY <1>2, <1>4, OfStore DEF Lands
<1>6. e[f] = None
  <2>1. Lands(r, w, base, d, e)
    BY <1>4
  <2> QED BY <1>2, <1>5, <2>1, TextPut
<1>7. <<r.who, ".symignore">> \in DOMAIN d /\ <<r.who, ".stowignore">> \in DOMAIN d
  BY <1>5, FileKinds DEF IgnoreFiles, Owners
<1>8. e[<<r.who, ".symignore">>] = None /\ e[<<r.who, ".stowignore">>] = None
  <2>1. CASE f = <<r.who, ".symignore">>
    <3>1. d[<<r.who, ".stowignore">>] = None
      BY <1>1, <2>1 DEF Hides
    <3> QED BY <1>5, <1>6, <1>7, <2>1, <3>1 DEF Puts
  <2>2. CASE f = <<r.who, ".stowignore">>
    <3>1. d[<<r.who, ".symignore">>] = None
      BY <1>5, <2>2 DEF IgnoreFile
    <3> QED BY <1>5, <1>6, <1>7, <2>2, <3>1 DEF Puts
  <2> QED BY <1>5, <2>1, <2>2 DEF IgnoreFile
<1>9. RulesOf(e, r.who) = {}
  BY <1>8 DEF RulesOf, IgnoreFile, Patterns
<1>10. ~Inits(r) /\ ~Adds(r) /\ ~Removes(r)
  BY <1>1, OneEdit
<1>11. RulesChange(r, d, e)
  BY <1>9, <1>10, Zenon DEF RulesChange
<1>12. "delete" # "append"
  OBVIOUS
<1> QED BY <1>2, <1>4, <1>6, <1>11, <1>12 DEF RulesServedBy

\* Every write of an ignore file does what it has to do.
LEMMA RulesServed ==
    ASSUME NEW r, r.op \in IgnoreOps, NEW todo, NEW base, NEW d, ServesRules(r, todo, base, d),
           NEW e, Lands(r, todo[1], base, d, e)
    PROVE  RulesServedBy(r, todo, base, d, e)
BY FillServes, AddServes, RemoveServes, DeleteServes, Zenon DEF ServesRules

\* A write of the file that is read makes no legacy file.
LEMMA LandsLegacy ==
    ASSUME NEW r, NEW w, NEW base, NEW d, NEW e, Lands(r, w, base, d, e)
    PROVE  Legacy(d, e)
<1>1. PICK text : Puts(d, w[2], text, e)
  BY LandsText
<1>2. PICK F : F = w[2] /\ Puts(d, F, text, e)
  BY <1>1
<1>3. DOMAIN d = StoreFiles /\ WriteOK(r, w) /\ (r.op \in IgnoreOps => IgnoreFile(d, r.who) = F)
  BY <1>2 DEF Lands
<1>4. ASSUME NEW p \in Packages PROVE e[<<p, ".stowdeps">>] = d[<<p, ".stowdeps">>]
  <2>1. <<p, ".stowdeps">> \in DOMAIN d
    BY <1>3, FileKinds DEF ManifestFiles
  <2>2. F # <<p, ".stowdeps">>
    BY <1>2, <1>3, NotLegacy
  <2> QED BY <1>2, <2>1, <2>2 DEF Puts
<1>5. ASSUME NEW q \in Owners, d[<<q, ".stowignore">>] = None
      PROVE  e[<<q, ".stowignore">>] = None
  <2>1. <<q, ".stowignore">> \in DOMAIN d /\ <<q, ".stowignore">> \in IgnoreFiles
    BY <1>3, FileKinds DEF IgnoreFiles, Owners
  <2>2. F # <<q, ".stowignore">>
    <3>1. SUFFICES ASSUME F = <<q, ".stowignore">> PROVE FALSE
      OBVIOUS
    <3>2. r.op \in IgnoreOps
      <4>1. F \in IgnoreFiles
        BY <2>1, <3>1
      <4>2. F \notin ConfigNames /\ F \notin ManifestFiles /\ F # RegistryFile
        BY <4>1, FileKinds
      <4>3. r.op \in ManifestOps => F \in ManifestFiles \/ F = RegistryFile
        <5>1. \A p \in Packages : <<p, ".symdeps">> \in ManifestFiles
          BY DEF ManifestFiles
        <5> QED BY <1>2, <1>3, <5>1, OfStore
      <4>4. r.op \in ConfigOps => F \in ConfigNames
        BY <1>2, <1>3, OfStore
      <4> QED BY <1>3, <4>2, <4>3, <4>4, OfStore
    <3>3. IgnoreFile(d, r.who) = <<q, ".stowignore">>
      BY <1>3, <3>1, <3>2
    <3>4. r.who = q
      BY <3>3 DEF IgnoreFile
    <3> QED BY <1>5, <3>3, <3>4 DEF IgnoreFile
  <2> QED BY <1>2, <1>5, <2>1, <2>2 DEF Puts
<1> QED BY <1>4, <1>5 DEF Legacy

\* What is left of the writes of a manifest when the first has been done or passed over.
LEMMA RestServes ==
    ASSUME NEW r, r.who \in Packages, NEW todo, Writes(r, todo), todo # <<>>,
           NEW base, NEW d, ServesManifest(r, todo, base, d), NEW e, Legacy(d, e)
    PROVE  /\ Len(todo) # 1 => todo[1][2] = RegistryFile /\ ServesManifest(r, Tail(todo), base, e)
           /\ Len(todo) = 1 => todo[1][2] # RegistryFile
<1>1. e[<<r.who, ".stowdeps">>] = d[<<r.who, ".stowdeps">>]
  BY DEF Legacy
<1>2. 1 \in DOMAIN todo /\ Len(todo) \in Nat
  BY RestOfWrites
<1>3. /\ Len(todo) # 1 => todo[1][2] = RegistryFile
      /\ Len(todo) = 1 => todo[1][2] # RegistryFile
  BY <1>2 DEF ServesManifest
<1>4. Len(Tail(todo)) = Len(todo) - 1
  <2>1. todo \in Seq(ToSet(todo))
    BY DEF Writes
  <2> QED BY <2>1, HeadTailProperties
<1>5. ASSUME NEW i \in DOMAIN Tail(todo)
      PROVE  LET v == Tail(todo)[i]
             IN  /\ i # Len(Tail(todo)) => v[2] = RegistryFile
                 /\ i = Len(Tail(todo)) =>
                       /\ v[2] # RegistryFile
                       /\ Promise!ManifestEffect(r,
                              ManifestOf(base[v[2]], e[<<r.who, ".stowdeps">>]),
                              ParseManifest(v[3]))
  <2>1. i + 1 \in DOMAIN todo /\ Tail(todo)[i] = todo[i + 1] /\ i \in Nat
    <3>1. i + 1 \in DOMAIN todo /\ Tail(todo)[i] = todo[i + 1]
      BY RestOfWrites
    <3>2. i \in Nat
      <4>1. Tail(todo) \in Seq(ToSet(Tail(todo)))
        BY RestOfWrites DEF Writes
      <4> QED BY <4>1
    <3> QED BY <3>1, <3>2
  <2>2. i = Len(Tail(todo)) <=> i + 1 = Len(todo)
    BY <1>2, <1>4, <2>1
  <2> QED BY <1>1, <2>1, <2>2, Zenon DEF ServesManifest
<1>6. ServesManifest(r, Tail(todo), base, e)
  BY <1>5, Zenon DEF ServesManifest
<1> QED BY <1>3, <1>6

\* Every write does what it has to do.
LEMMA Served ==
    ASSUME NEW r, RequestOK(r), NEW todo, Writes(r, todo), todo # <<>>,
           NEW base, NEW d, Serves(r, todo, base, d), NEW e, Lands(r, todo[1], base, d, e)
    PROVE  /\ Len(todo) = 1 => todo[1][2] # RegistryFile /\ HasEffect(r, d, e)
           /\ Len(todo) # 1 =>
                 /\ Serves(r, Tail(todo), base, e)
                 /\ \/ todo[1][2] = RegistryFile
                    \/ Adds(r) /\ r.op \in IgnoreOps /\ RulesOf(d, r.who) = {}
<1>1. WriteOK(r, todo[1]) /\ Legacy(d, e)
  BY LandsLegacy DEF Lands
<1>2. ASSUME r.op \in ConfigOps
      PROVE  /\ Len(todo) = 1 /\ todo[1][2] # RegistryFile
             /\ Promise!ConfigEffect(r, ConfigIn(d), ConfigIn(e))
  <2>1. ServesConfig(r, todo, base)
    BY <1>2, Zenon DEF Serves
  <2>2. Len(todo) = 1
    <3>1. \E w : todo = <<w>>
      BY <2>1, Zenon DEF ServesConfig
    <3> QED BY <3>1, OneOrTwo
  <2>3. todo[1][2] # RegistryFile
    BY <1>1, <1>2, OfStore, FileKinds
  <2> QED BY <1>2, <2>1, <2>2, <2>3, ConfigServed, Zenon
<1>3. ASSUME r.op \in ManifestOps
      PROVE  /\ Len(todo) = 1 =>
                    /\ todo[1][2] # RegistryFile
                    /\ Promise!ManifestEffect(r, LoadManifest(d, r.who), LoadManifest(e, r.who))
             /\ Len(todo) # 1 =>
                    ServesManifest(r, Tail(todo), base, e) /\ todo[1][2] = RegistryFile
  <2>1. ServesManifest(r, todo, base, d)
    BY <1>3, Zenon DEF Serves
  <2>2. r.who \in Packages
    BY <1>3, Zenon DEF RequestOK
  <2>3. /\ Len(todo) # 1 => todo[1][2] = RegistryFile /\ ServesManifest(r, Tail(todo), base, e)
        /\ Len(todo) = 1 => todo[1][2] # RegistryFile
    BY <1>1, <2>1, <2>2, RestServes, Zenon
  <2>4. ASSUME Len(todo) = 1
        PROVE  Promise!ManifestEffect(r, LoadManifest(d, r.who), LoadManifest(e, r.who))
    BY <1>3, <2>1, <2>4, ManifestServed, Zenon
  <2> QED BY <2>3, <2>4, Zenon
<1>4. ASSUME r.op \in IgnoreOps
      PROVE  /\ Len(todo) = 1 => todo[1][2] # RegistryFile /\ RulesChange(r, d, e)
             /\ Len(todo) # 1 =>
                    ServesRules(r, Tail(todo), base, e) /\ Adds(r) /\ RulesOf(d, r.who) = {}
  <2>1. ServesRules(r, todo, base, d)
    BY <1>4, Zenon DEF Serves
  <2>2. RulesServedBy(r, todo, base, d, e)
    BY <1>4, <2>1, RulesServed, Zenon
  <2>3. todo[1][2] # RegistryFile
    BY <1>1, <1>4, OfStore, FileKinds
  <2> QED BY <2>2, <2>3, Zenon DEF RulesServedBy
<1>5. r.op \in ConfigOps \/ r.op \in ManifestOps \/ r.op \in IgnoreOps
  BY <1>1, OfStore
<1>6. Len(todo) = 1 => todo[1][2] # RegistryFile /\ HasEffect(r, d, e)
  BY <1>2, <1>3, <1>4, <1>5, OneStore, Zenon DEF HasEffect
<1>7. Len(todo) # 1 => Serves(r, Tail(todo), base, e)
  BY <1>2, <1>3, <1>4, <1>5, OneStore, Zenon DEF Serves
<1> QED BY <1>2, <1>3, <1>4, <1>5, <1>6, <1>7, Zenon

\* The rule of the repository on which a request relies stays.
RuleStays(r, d, e) == Adds(r) /\ r.who # "" /\ r.arg \in RulesOf(d, "") => r.arg \in RulesOf(e, "")

\* Ignore files are changed to texts that end with a newline.
StayClosed(d, e) == \A f \in IgnoreFiles : e[f] = d[f] \/ e[f] = None \/ Closed(e[f])

\* What a command is about to write still serves its request when another has written.
LEMMA ServesStays ==
    ASSUME NEW r, RequestOK(r), NEW todo, Writes(r, todo), todo # <<>>,
           NEW base, NEW d, Serves(r, todo, base, d),
           NEW e, Legacy(d, e), RuleStays(r, d, e), StayClosed(d, e)
    PROVE  Serves(r, todo, base, e)
<1>1. ASSUME r.op \in ManifestOps PROVE ServesManifest(r, todo, base, e)
  <2>1. r.who \in Packages
    BY <1>1, Zenon DEF RequestOK
  <2>2. e[<<r.who, ".stowdeps">>] = d[<<r.who, ".stowdeps">>]
    BY <2>1 DEF Legacy
  <2>3. ServesManifest(r, todo, base, d)
    BY <1>1, Zenon DEF Serves
  <2> QED BY <2>2, <2>3, Zenon DEF ServesManifest
<1>2. ASSUME r.op \in IgnoreOps PROVE ServesRules(r, todo, base, e)
  <2>1. ServesRules(r, todo, base, d)
    BY <1>2, Zenon DEF Serves
  <2>2. /\ 1 \in DOMAIN todo /\ todo[1][2] \in IgnoreFiles /\ r.who \in Owners
        /\ todo[1][2] \in {<<r.who, ".symignore">>, <<r.who, ".stowignore">>}
    BY <1>2, RestOfWrites, OfStore
  <2>3. CASE FillsFile(r, todo, base, d)
    <3>1. d[<<r.who, ".stowignore">>] = None => e[<<r.who, ".stowignore">>] = None
      BY <2>2 DEF Legacy
    <3>2. ASSUME NEW text, Adds(r), Present(r, text, d) PROVE Present(r, text, e)
      BY <3>2, Zenon DEF Present, RuleStays
    <3>3. FillsFile(r, todo, base, e)
      BY <2>3, <3>1, <3>2, Zenon DEF FillsFile
    <3> QED BY <3>3, Zenon DEF ServesRules
  <2>4. CASE AddsLine(r, todo, d)
    <3>1. PICK f : /\ Adds(r) /\ Uncomment(r.arg) = r.arg
                   /\ todo = << <<"append", f, r.arg>> >> /\ (d[f] = None \/ Closed(d[f]))
      BY <2>4, Zenon DEF AddsLine
    <3>2. todo[1][2] = f
      BY <3>1
    <3>3. e[f] = None \/ Closed(e[f])
      BY <2>2, <3>1, <3>2 DEF StayClosed
    <3>4. AddsLine(r, todo, e)
      BY <3>1, <3>3, Zenon DEF AddsLine
    <3> QED BY <3>4, Zenon DEF ServesRules
  <2>5. CASE RemovesLines(r, todo, base)
    BY <2>5, Zenon DEF ServesRules
  <2>6. CASE DeletesFile(r, todo, d)
    <3>1. PICK f : Clears(r) /\ todo = << <<"delete", f, None>> >> /\ ~Hides(f, d)
      BY <2>6, Zenon DEF DeletesFile
    <3>2. todo[1][2] = f
      BY <3>1
    <3>3. f[1] = r.who
      <4>1. f \in {<<r.who, ".symignore">>, <<r.who, ".stowignore">>}
        BY <2>2, <3>2
      <4> QED BY <4>1
    <3>4. ~Hides(f, e)
      BY <2>2, <3>1, <3>3 DEF Hides, Legacy
    <3>5. DeletesFile(r, todo, e)
      BY <3>1, <3>4, Zenon DEF DeletesFile
    <3> QED BY <3>5, Zenon DEF ServesRules
  <2> QED BY <2>1, <2>3, <2>4, <2>5, <2>6, Zenon DEF ServesRules
<1> QED BY <1>1, <1>2, Zenon DEF Serves

\* What a write leaves behind in the ignore files.
LEMMA LandsClosed ==
    ASSUME NEW r, NEW todo, NEW base, NEW d, Serves(r, todo, base, d),
           NEW e, Lands(r, todo[1], base, d, e)
    PROVE  StayClosed(d, e)
<1> DEFINE F == todo[1][2]
<1>1. PICK text : Puts(d, F, text, e)
  BY LandsText
<1>2. DOMAIN d = StoreFiles /\ WriteOK(r, todo[1])
  BY DEF Lands
<1>3. \A f \in IgnoreFiles : f # F => e[f] = d[f]
  <2> HIDE DEF F
  <2> QED BY <1>1, <1>2, FileKinds DEF Puts
<1>4. F \in IgnoreFiles => r.op \in IgnoreOps
  <2>1. \A p \in Packages : <<p, ".symdeps">> \in ManifestFiles
    BY DEF ManifestFiles
  <2>2. F \in IgnoreFiles => F \notin ConfigNames /\ F \notin ManifestFiles /\ F # RegistryFile
    BY FileKinds
  <2>3. r.op \in ManifestOps => F \in ManifestFiles \/ F = RegistryFile
    BY <1>2, <2>1, OfStore
  <2>4. /\ r.op \in ConfigOps => F \in ConfigNames
        /\ r.op \in ConfigOps \/ r.op \in ManifestOps \/ r.op \in IgnoreOps
    BY <1>2, OfStore
  <2> QED BY <2>2, <2>3, <2>4
<1>5. r.op \in IgnoreOps => e[F] = None \/ Closed(e[F])
  <2>1. SUFFICES ASSUME r.op \in IgnoreOps PROVE e[F] = None \/ Closed(e[F])
    OBVIOUS
  <2>2. ServesRules(r, todo, base, d)
    BY <2>1, Zenon DEF Serves
  <2>3. RulesServedBy(r, todo, base, d, e)
    BY <2>1, <2>2, RulesServed
  <2> QED BY <2>3 DEF RulesServedBy
<1> HIDE DEF F
<1> QED BY <1>3, <1>4, <1>5 DEF StayClosed

\* A line that is added takes no rule of the repository.
LEMMA LandsMore ==
    ASSUME NEW r, NEW todo, NEW base, NEW d, Serves(r, todo, base, d),
           NEW e, Lands(r, todo[1], base, d, e), todo[1][1] = "append", NEW q \in Owners
    PROVE  RulesOf(d, q) \subseteq RulesOf(e, q)
<1>1. CASE ~(r.op \in IgnoreOps /\ q = r.who)
  <2>1. RulesOf(e, q) = RulesOf(d, q)
    BY <1>1, OthersSpared DEF Spares
  <2> QED BY <2>1
<1>2. CASE r.op \in IgnoreOps /\ q = r.who
  <2>1. ServesRules(r, todo, base, d)
    BY <1>2, Zenon DEF Serves
  <2>2. RulesServedBy(r, todo, base, d, e)
    BY <1>2, <2>1, RulesServed
  <2> QED BY <1>2, <2>2 DEF RulesServedBy
<1> QED BY <1>1, <1>2

-----------------------------------------------------------------------------
(* The writes of the commands reach their files like this *)

\* What a command has planned serves its request.
Serving(k, d) == k.todo # None => Serves(k.req, k.todo, k.base, d)

\* A file that is written for the rules was there, or is the one that will be read.
LEMMA WrittenIsRead ==
    ASSUME NEW r, NEW todo, NEW base, NEW d, ServesRules(r, todo, base, d), todo[1][1] = "write"
    PROVE  LET F == todo[1][2] IN
           \/ base[F] # None
           \/ F = <<r.who, ".symignore">> /\ d[<<r.who, ".stowignore">>] = None
<1>1. CASE FillsFile(r, todo, base, d)
  <2>1. PICK f, text : /\ f = <<r.who, ".symignore">> /\ d[<<r.who, ".stowignore">>] = None
                       /\ \/ todo = << <<"write", f, text>> >>
                          \/ todo = << <<"write", f, text>>, <<"append", f, r.arg>> >>
    BY <1>1, Zenon DEF FillsFile
  <2>2. todo[1][2] = f
    BY <2>1
  <2> QED BY <2>1, <2>2
<1>2. CASE AddsLine(r, todo, d)
  <2>1. PICK f : todo = << <<"append", f, r.arg>> >>
    BY <1>2, Zenon DEF AddsLine
  <2> QED BY <2>1
<1>3. CASE RemovesLines(r, todo, base)
  <2>1. PICK f, text : todo = << <<"write", f, text>> >> /\ base[f] # None
    BY <1>3, Zenon DEF RemovesLines
  <2> QED BY <2>1
<1>4. CASE DeletesFile(r, todo, d)
  <2>1. PICK f : todo = << <<"delete", f, None>> >>
    BY <1>4, Zenon DEF DeletesFile
  <2> QED BY <2>1
<1> QED BY <1>1, <1>2, <1>3, <1>4, Zenon DEF ServesRules

\* The text of a file that a command closes.
LEMMA FlushLands ==
    ASSUME IInv, Kept, DOMAIN kept = StoreFiles, broken = {}, NEW c \in Terminals, Flush(c),
           Serving(cmd[c], kept)
    PROVE  Lands(cmd[c].req, cmd[c].todo[1], cmd[c].base, kept, kept')
<1> DEFINE r == cmd[c].req
           w == cmd[c].todo[1]
           base == cmd[c].base
           F == File(c)
<1>1. /\ Working(c) /\ Kind(c) = "write" /\ Text(c) # None /\ F \in StoreFiles
      /\ disk[F] = <<>> /\ kept[F] = base[F]
      /\ r.op \in IgnoreOps => IgnoreFile(disk, r.who) = F
      /\ Puts(kept, F, Text(c), kept')
  BY FlushPuts
<1>2. /\ F = w[2] /\ Kind(c) = w[1] /\ Text(c) = w[3] /\ WriteOK(r, w)
      /\ F \in ConfigNames => F = ConfigFile(disk)
      /\ r.op \in IgnoreOps => r.who \in Owners
  BY <1>1, WorkKept
<1>3. ConfigFile(kept) = ConfigFile(disk)
  BY DEF Kept
<1>4. r.op \in IgnoreOps => IgnoreFile(kept, r.who) = F
  <2>1. SUFFICES ASSUME r.op \in IgnoreOps PROVE IgnoreFile(kept, r.who) = F
    OBVIOUS
  <2>2. ServesRules(r, cmd[c].todo, base, kept)
    BY <1>1, <2>1, Zenon DEF Serving, Serves, Working
  <2>3. base[F] # None \/ (F = <<r.who, ".symignore">> /\ kept[<<r.who, ".stowignore">>] = None)
    BY <1>1, <1>2, <2>2, WrittenIsRead
  <2>4. <<r.who, ".symignore">> \in StoreFiles
    BY <1>2, <2>1, FileKinds DEF IgnoreFiles, Owners
  <2>5. disk[<<r.who, ".symignore">>] = None => kept[<<r.who, ".symignore">>] = None
    BY <2>4, ReadAsKept
  <2>6. \/ F = <<r.who, ".symignore">>
        \/ F = <<r.who, ".stowignore">> /\ disk[<<r.who, ".symignore">>] = None
    BY <1>1, <2>1 DEF IgnoreFile
  <2> HIDE DEF F, r, base
  <2> QED BY <1>1, <2>3, <2>5, <2>6 DEF IgnoreFile
<1> HIDE DEF r, w, base, F
<1>5. Lands(r, w, base, kept, kept')
  BY <1>1, <1>2, <1>3, <1>4 DEF Lands
<1> QED BY <1>5 DEF r, w, base

\* A line that a command adds.
LEMMA AppendLands ==
    ASSUME IInv, Kept, DOMAIN kept = StoreFiles, NEW c \in Terminals,
           AppendStep(c) \/ Register(c), Overlaps(c) = {}
    PROVE  Lands(cmd[c].req, cmd[c].todo[1], cmd[c].base, kept, kept')
<1> DEFINE r == cmd[c].req
           w == cmd[c].todo[1]
           base == cmd[c].base
           F == File(c)
<1>1. /\ Working(c) /\ Kind(c) = "append" /\ ~IsOpen(F)
      /\ r.op \in IgnoreOps => IgnoreFile(disk, r.who) = F
      /\ \E text : Puts(kept, F, text, kept')
      /\ F # RegistryFile =>
            \E old \in Seq(Lines) : /\ old = IF disk[F] = None THEN <<>> ELSE disk[F]
                                    /\ Puts(kept, F, AppendLine(old, Text(c)), kept')
  BY AppendPuts
<1>2. /\ F = w[2] /\ Kind(c) = w[1] /\ Text(c) = w[3] /\ WriteOK(r, w) /\ F \in StoreFiles
      /\ F \in ConfigNames => F = ConfigFile(disk)
      /\ r.op \in IgnoreOps => r.who \in Owners
  BY <1>1, WorkKept
<1>3. ConfigFile(kept) = ConfigFile(disk)
  BY DEF Kept
<1>4. kept[F] = disk[F] /\ \A f \in StoreFiles : disk[f] = None => kept[f] = None
  BY <1>1, <1>2, ReadAsKept
<1>5. r.op \in IgnoreOps => IgnoreFile(kept, r.who) = F
  BY <1>1, <1>2, <1>4, ReadAlike
<1>6. F # RegistryFile =>
          \E old \in Seq(Lines) : /\ old = IF kept[F] = None THEN <<>> ELSE kept[F]
                                  /\ Puts(kept, F, AppendLine(old, Text(c)), kept')
  BY <1>1, <1>4
<1> HIDE DEF r, w, base, F
<1>7. Lands(r, w, base, kept, kept')
  BY <1>1, <1>2, <1>3, <1>5, <1>6 DEF Lands
<1> QED BY <1>7 DEF r, w, base

\* An ignore file that is deleted.
LEMMA DeleteLands ==
    ASSUME IInv, Kept, DOMAIN kept = StoreFiles, NEW c \in Terminals, Delete(c),
           Overlaps(c) = {}
    PROVE  Lands(cmd[c].req, cmd[c].todo[1], cmd[c].base, kept, kept')
<1> DEFINE r == cmd[c].req
           w == cmd[c].todo[1]
           base == cmd[c].base
           F == File(c)
<1>1. /\ Working(c) /\ Kind(c) = "delete" /\ disk' = [disk EXCEPT ![F] = None]
      /\ kept' = [kept EXCEPT ![F] = disk'[F]]
  BY DEF Delete, Settle
<1>2. /\ F = w[2] /\ Kind(c) = w[1] /\ Text(c) = w[3] /\ WriteOK(r, w) /\ F \in StoreFiles
      /\ F \in ConfigNames => F = ConfigFile(disk)
      /\ r.op \in IgnoreOps => r.who \in Owners
  BY <1>1, WorkKept
<1>3. ConfigFile(kept) = ConfigFile(disk)
  BY DEF Kept
<1>4. ~IsOpen(F) /\ (r.op \in IgnoreOps => IgnoreFile(disk, r.who) = F)
  BY NoOverlap
<1>5. kept[F] = disk[F] /\ \A f \in StoreFiles : disk[f] = None => kept[f] = None
  BY <1>2, <1>4, ReadAsKept
<1>6. r.op \in IgnoreOps => IgnoreFile(kept, r.who) = F
  BY <1>2, <1>4, <1>5, ReadAlike
<1>7. Puts(kept, F, None, kept')
  <2>1. DOMAIN disk = StoreFiles
    BY DEF IInv, TextsOK
  <2> HIDE DEF F
  <2> QED BY <1>1, <1>2, <2>1 DEF Puts
<1> HIDE DEF r, w, base, F
<1>8. Lands(r, w, base, kept, kept')
  BY <1>1, <1>2, <1>3, <1>6, <1>7 DEF Lands
<1> QED BY <1>8 DEF r, w, base

\* What a write leaves of the command.
Goes(c, k) ==
    /\ cmd' = [cmd EXCEPT ![c] = k] /\ k.req = cmd[c].req /\ k.todo = Tail(cmd[c].todo)
    /\ k.base = cmd[c].base

\* Nothing, after the last.
LEMMA FinishGoes ==
    ASSUME CommandsOK, NEW c \in Terminals, Working(c), Finish(c)
    PROVE  \/ Len(cmd[c].todo) = 1 /\ End(c, "done")
           \/ Len(cmd[c].todo) # 1 /\ UNCHANGED said /\ \E k : Goes(c, k)
<1>1. CASE Len(cmd[c].todo) = 1
  BY <1>1 DEF Finish
<1>2. CASE Len(cmd[c].todo) # 1
  <2> DEFINE rest == Tail(cmd[c].todo)
             k == [cmd[c] EXCEPT !.todo = rest, !.open = FALSE]
  <2>1. CommandOK(cmd[c])
    BY AtHand
  <2>2. cmd' = [cmd EXCEPT ![c].todo = rest, ![c].open = FALSE] /\ UNCHANGED said
    BY <1>2 DEF Finish
  <2> HIDE DEF rest
  <2>3. k.req = cmd[c].req /\ k.todo = rest /\ k.base = cmd[c].base
    BY <2>1 DEF CommandOK
  <2>4. cmd' = [cmd EXCEPT ![c] = k]
    BY <2>2 DEF CommandsOK
  <2> HIDE DEF k
  <2>5. Goes(c, k)
    BY <2>3, <2>4 DEF Goes, rest
  <2> QED BY <1>2, <2>2, <2>5
<1> QED BY <1>1, <1>2

\* The rules that are read to plan an edit of a package go on.
RulesStay == \A t \in Terminals : Working(t) => RuleStays(cmd[t].req, kept, kept')

\* They do when nobody is undercut, and when a line is added.
LEMMA NotUndercut == Undercuts = {} => RulesStay
BY Zenon DEF Undercuts, RulesStay, RuleStays, Adds

\* A line that is added to an ignore file takes no rule away.
LEMMA MoreRulesStay ==
    ASSUME \A q \in Owners : RulesOf(kept, q) \subseteq RulesOf(kept', q)
    PROVE  RulesStay
<1>1. "" \in Owners
  BY Zenon DEF Owners
<1> QED BY <1>1, Zenon DEF RulesStay, RuleStays

\* After a write every command still serves its request.
LEMMA WriteServes ==
    ASSUME IInv, NEW c \in Terminals, Working(c), Finish(c),
           \A t \in Terminals : Serving(cmd[t], kept),
           Lands(cmd[c].req, cmd[c].todo[1], cmd[c].base, kept, kept'), RulesStay
    PROVE  \A t \in Terminals : Serving(cmd'[t], kept')
<1>1. CommandsOK /\ DOMAIN cmd = Terminals
  BY DEF IInv, CommandsOK
<1>2. \A t \in Terminals : Working(t) =>
          /\ cmd[t].todo # None /\ CommandOK(cmd[t]) /\ RequestOK(cmd[t].req)
          /\ Writes(cmd[t].req, cmd[t].todo) /\ cmd[t].todo # <<>>
  BY <1>1, AtHand DEF CommandOK
<1>3. Serves(cmd[c].req, cmd[c].todo, cmd[c].base, kept)
  BY <1>2 DEF Serving
<1>4. Legacy(kept, kept')
  BY LandsLegacy
<1>5. StayClosed(kept, kept')
  BY <1>3, LandsClosed
<1>6. ASSUME NEW t \in Terminals, t # c PROVE Serving(cmd'[t], kept')
  <2>1. cmd'[t] = cmd[t]
    BY <1>1, <1>6, FinishGoes DEF Goes, End
  <2>2. CASE Working(t)
    <3>1. Serves(cmd[t].req, cmd[t].todo, cmd[t].base, kept) /\ RuleStays(cmd[t].req, kept, kept')
      BY <1>2, <2>2 DEF Serving, RulesStay
    <3>2. Serves(cmd[t].req, cmd[t].todo, cmd[t].base, kept')
      BY <1>2, <1>4, <1>5, <2>2, <3>1, ServesStays
    <3> QED BY <2>1, <3>2 DEF Serving
  <2>3. CASE ~Working(t)
    <3>1. cmd[t].todo = None
      BY <2>3, IdleFacts DEF Working
    <3> QED BY <2>1, <3>1 DEF Serving
  <2> QED BY <2>2, <2>3
<1>7. Serving(cmd'[c], kept')
  <2>1. CASE End(c, "done")
    <3>1. cmd'[c] = Idle
      BY <1>1, <2>1 DEF End
    <3> QED BY <3>1, IdleFacts DEF Serving
  <2>2. CASE Len(cmd[c].todo) # 1 /\ \E k : Goes(c, k)
    <3>1. PICK k : Goes(c, k)
      BY <2>2
    <3>2. cmd'[c] = k /\ k.req = cmd[c].req /\ k.todo = Tail(cmd[c].todo) /\ k.base = cmd[c].base
      BY <1>1, <3>1 DEF Goes
    <3>3. Serves(cmd[c].req, Tail(cmd[c].todo), cmd[c].base, kept')
      BY <1>2, <1>3, <2>2, Served
    <3> QED BY <3>2, <3>3 DEF Serving
  <2> QED BY <1>1, <2>1, <2>2, FinishGoes
<1> QED BY <1>6, <1>7

-----------------------------------------------------------------------------
(* The steps of the promise, for the stores as they are *)

\* The manifests and the rules of the packages, and of the repository.
TheManifests == [p \in Packages |-> LoadManifest(kept, p)]

TheRules == [d \in Packages \union {""} |-> RulesOf(kept, d)]

\* What a terminal waits for.
Pends(k) == IF k = Idle THEN None ELSE IF k.req.op \in LinkOps THEN None ELSE k.req

ThePending == [c \in Terminals |-> Pends(cmd[c])]

\* No store is changed.
SameStores ==
    ConfigIn(kept)' = ConfigIn(kept) /\ TheManifests' = TheManifests /\ TheRules' = TheRules

\* Only the terminal c is told something new.
Only(c) == \A t \in Terminals \ {c} : ThePending'[t] = ThePending[t]

\* Nothing that is promised is changed.
LEMMA Stutters ==
    ASSUME SameStores, ThePending' = ThePending, UNCHANGED said, (broken = {}) <=> (broken' = {})
    PROVE  UNCHANGED Promise!vars
BY Zenon DEF SameStores, TheManifests, TheRules, ThePending, Pends, ConfigIn, Promise!vars

\* A request is asked.
LEMMA Asks ==
    ASSUME NEW c \in Terminals, SameStores, Only(c), ThePending[c] = None,
           ThePending'[c] \in AllRequests, said' = [said EXCEPT ![c] = None]
    PROVE  Promise!Ask(c)
<1>1. DOMAIN ThePending = Terminals
  BY DEF ThePending
<1>2. \A t \in DOMAIN ThePending \ {c} : ThePending'[t] = ThePending[t]
  BY <1>1 DEF Only
<1> QED
  BY <1>2, Zenon DEF SameStores, TheManifests, TheRules, ThePending, Pends, ConfigIn,
     Promise!Ask, Promise!ChangesOnly

\* A terminal goes on to something else.
LEMMA Forgets ==
    ASSUME NEW c \in Terminals, SameStores, ThePending' = ThePending, ThePending[c] = None,
           said' = [said EXCEPT ![c] = None]
    PROVE  Promise!Forget(c)
BY Zenon DEF SameStores, TheManifests, TheRules, ThePending, Pends, ConfigIn, Promise!Forget

\* The answer to the request of a terminal.
Answers(c, word) ==
    /\ ThePending[c] # None /\ ThePending'[c] = None /\ Only(c)
    /\ said' = [said EXCEPT ![c] = word]

\* It is the answer of the promise.
LEMMA AnswersIt ==
    ASSUME NEW c \in Terminals, NEW word, Answers(c, word)
    PROVE  Promise!Answer(c, word)
<1>1. DOMAIN ThePending = Terminals
  BY DEF ThePending
<1>2. \A t \in DOMAIN ThePending \ {c} : ThePending'[t] = ThePending[t]
  BY <1>1 DEF Answers, Only
<1> QED
  BY <1>2, Zenon DEF Answers, ThePending, Pends, Promise!Answer, Promise!ChangesOnly

\* Nothing is to be done for the promise when nothing is to be done in the stores.
LEMMA SatisfiedIt ==
    ASSUME NEW r, RequestOK(r), r.op \notin LinkOps, Done(r, kept)
    PROVE  Promise!Satisfied(r)
<1>1. CASE r.op \in ConfigOps
  <2>1. (r.op = "add source" \/ r.op = "remove dir") /\ Settled(r, ConfigIn(kept))
    BY <1>1, Zenon DEF Done
  <2>2. CASE r.op = "add source"
    BY <2>1, <2>2, Zenon DEF Settled, ConfigIn, Promise!Satisfied, ToSet, Promise!ToSet
  <2>3. CASE r.op = "remove dir"
    BY <2>1, <2>3, Zenon DEF Settled, ConfigIn, Promise!Satisfied, ToSet, Promise!ToSet
  <2> QED BY <2>1, <2>2, <2>3
<1>2. CASE r.op \in ManifestOps
  <2>1. r.op = "scan -i" \/ r.op = "scan -y"
    BY <1>2, Zenon DEF Done
  <2>2. CASE r.op = "scan -i"
    BY <2>2, Zenon DEF Promise!Satisfied
  <2>3. CASE r.op = "scan -y"
    <3>1. r.who \in Packages
      BY <1>2, Zenon DEF RequestOK
    <3>2. [p \in Packages |-> LoadManifest(kept, p)][r.who] = LoadManifest(kept, r.who)
      BY <3>1
    <3>3. AllListed(Uses[r.who], LoadManifest(kept, r.who))
      BY <2>3, Zenon DEF Done
    <3> QED BY <2>3, <3>2, <3>3, Zenon DEF AllListed, Promise!Satisfied
  <2> QED BY <2>1, <2>2, <2>3
<1>3. CASE r.op \in IgnoreOps
  <2> DEFINE rules == [d \in Packages \union {""} |-> RulesOf(kept, d)]
  <2>1. RulesDone(r, kept)
    BY <1>3, Zenon DEF Done
  <2>2. rules[r.who] = RulesOf(kept, r.who) /\ rules[""] = RulesOf(kept, "")
    BY <1>3, Zenon DEF RequestOK
  <2>3. CASE r.op = "ignore init"
    BY <2>3, Zenon DEF Promise!Satisfied
  <2>4. CASE r.op = "ignore add"
    <3>1. r.arg \in RulesOf(kept, r.who) \union RulesOf(kept, "")
      BY <2>1, <2>4, Zenon DEF RulesDone, Adds
    <3> QED BY <2>2, <2>4, <3>1, Zenon DEF Promise!Satisfied
  <2>5. CASE r.op = "ignore remove"
    <3>1. r.arg \notin RulesOf(kept, r.who)
      BY <2>1, <2>5, Zenon DEF RulesDone, Removes
    <3> QED BY <2>2, <2>5, <3>1, Zenon DEF Promise!Satisfied
  <2>6. CASE r.op = "ignore clear"
    <3>1. RulesOf(kept, r.who) = {}
      BY <2>1, <2>6, Zenon DEF RulesDone, Clears
    <3> QED BY <2>2, <2>6, <3>1, Zenon DEF Promise!Satisfied
  <2> QED BY <1>3, <2>3, <2>4, <2>5, <2>6, Zenon DEF IgnoreOps
<1>4. r.op \in ConfigOps \/ r.op \in ManifestOps \/ r.op \in IgnoreOps
  BY Zenon DEF RequestOK
<1> QED BY <1>1, <1>2, <1>3, <1>4

\* The command fails, is killed or finds nothing to do.
LEMMA Refuses ==
    ASSUME NEW c \in Terminals, SameStores,
           \/ Answers(c, "failed") \/ Answers(c, None)
           \/ Answers(c, "nothing") /\ Promise!Satisfied(ThePending[c])
    PROVE  Promise!Refuse(c)
<1>1. \/ Promise!Answer(c, "failed") \/ Promise!Answer(c, None)
      \/ Promise!Answer(c, "nothing") /\ Promise!Satisfied(ThePending[c])
  BY AnswersIt
<1> QED
  BY <1>1, Zenon DEF SameStores, TheManifests, TheRules, ThePending, Pends, ConfigIn, Promise!Refuse

\* The request that terminal c waits for has its effect, and no other.
LEMMA ServesIt ==
    ASSUME NEW c \in Terminals, NEW r, r = ThePending[c], Answers(c, "done"),
           r.op \in ConfigOps => Promise!ConfigEffect(r, ConfigIn(kept), ConfigIn(kept')),
           r.op \notin ConfigOps => ConfigIn(kept') = ConfigIn(kept),
           r.op \in ManifestOps =>
               /\ Promise!ManifestEffect(r, TheManifests[r.who], TheManifests'[r.who])
               /\ \A p \in DOMAIN TheManifests \ {r.who} : TheManifests'[p] = TheManifests[p],
           r.op \notin ManifestOps => TheManifests' = TheManifests,
           r.op \in IgnoreOps =>
               /\ Promise!RulesEffect(r, TheRules'[r.who])
               /\ \A q \in DOMAIN TheRules \ {r.who} : TheRules'[q] = TheRules[q],
           r.op \notin IgnoreOps => TheRules' = TheRules
    PROVE  Promise!Serve(c)
<1>1. Promise!Answer(c, "done")
  BY AnswersIt
<1>2. Promise!ConfigOps = ConfigOps /\ Promise!ManifestOps = ManifestOps
      /\ Promise!IgnoreOps = IgnoreOps
  BY Zenon DEF Promise!ConfigOps, ConfigOps, Promise!ManifestOps, ManifestOps,
     Promise!IgnoreOps, IgnoreOps
<1> QED
  BY <1>1, <1>2, Zenon DEF TheManifests, TheRules, ThePending, Pends, ConfigIn, Promise!Serve,
     Promise!ChangesOnly

\* The manifests and the rules, one by one.
LEMMA OneByOne ==
    /\ TheManifests' = [p \in Packages |-> LoadManifest(kept', p)]
    /\ \A p \in Packages : /\ TheManifests[p] = LoadManifest(kept, p)
                           /\ TheManifests'[p] = LoadManifest(kept', p)
    /\ \A q \in Owners : TheRules[q] = RulesOf(kept, q) /\ TheRules'[q] = RulesOf(kept', q)
    /\ DOMAIN TheManifests = Packages /\ DOMAIN TheRules = Owners
<1>1. /\ TheManifests' = [p \in Packages |-> LoadManifest(kept', p)]
      /\ \A p \in Packages : /\ TheManifests[p] = LoadManifest(kept, p)
                             /\ TheManifests'[p] = LoadManifest(kept', p)
      /\ DOMAIN TheManifests = Packages
  BY DEF TheManifests
<1>2. /\ TheRules = [q \in Owners |-> RulesOf(kept, q)]
      /\ TheRules' = [q \in Owners |-> RulesOf(kept', q)]
  BY Zenon DEF TheRules, Owners
<1> QED BY <1>1, <1>2

\* A request leaves the stores alone that it is not about.
LEMMA SparesIt ==
    ASSUME NEW r, Spares(r, kept, kept')
    PROVE  /\ r.op \notin ConfigOps => ConfigIn(kept') = ConfigIn(kept)
           /\ \A p \in DOMAIN TheManifests \ {r.who} : TheManifests'[p] = TheManifests[p]
           /\ r.op \notin ManifestOps => TheManifests' = TheManifests
           /\ \A q \in DOMAIN TheRules \ {r.who} : TheRules'[q] = TheRules[q]
           /\ r.op \notin IgnoreOps => TheRules' = TheRules
<1>1. /\ TheManifests = [p \in Packages |-> LoadManifest(kept, p)]
      /\ TheManifests' = [p \in Packages |-> LoadManifest(kept', p)]
  BY DEF TheManifests
<1>2. /\ TheRules = [q \in Owners |-> RulesOf(kept, q)]
      /\ TheRules' = [q \in Owners |-> RulesOf(kept', q)]
  BY Zenon DEF TheRules, Owners
<1>3. r.op \notin ConfigOps => ConfigIn(kept') = ConfigIn(kept)
  BY Zenon DEF Spares
<1>4. \A p \in Packages :
          (r.op \in ManifestOps /\ p = r.who) \/ LoadManifest(kept', p) = LoadManifest(kept, p)
  BY Zenon DEF Spares
<1>5. \A q \in Owners : (r.op \in IgnoreOps /\ q = r.who) \/ RulesOf(kept', q) = RulesOf(kept, q)
  BY Zenon DEF Spares
<1> QED BY <1>1, <1>2, <1>3, <1>4, <1>5

\* The effect of a request is the one that is promised.
LEMMA EffectServes ==
    ASSUME NEW c \in Terminals, NEW r, r = ThePending[c], RequestOK(r), Answers(c, "done"),
           HasEffect(r, kept, kept'), Spares(r, kept, kept')
    PROVE  Promise!Serve(c)
<1>1. /\ r.op \notin ConfigOps => ConfigIn(kept') = ConfigIn(kept)
      /\ \A p \in DOMAIN TheManifests \ {r.who} : TheManifests'[p] = TheManifests[p]
      /\ r.op \notin ManifestOps => TheManifests' = TheManifests
      /\ \A q \in DOMAIN TheRules \ {r.who} : TheRules'[q] = TheRules[q]
      /\ r.op \notin IgnoreOps => TheRules' = TheRules
  BY SparesIt
<1>2. r.op \in ManifestOps =>
          Promise!ManifestEffect(r, TheManifests[r.who], TheManifests'[r.who])
  <2>1. SUFFICES ASSUME r.op \in ManifestOps
                 PROVE  Promise!ManifestEffect(r, TheManifests[r.who], TheManifests'[r.who])
    OBVIOUS
  <2>2. r.who \in Packages
    BY <2>1, Zenon DEF RequestOK
  <2>3. Promise!ManifestEffect(r, LoadManifest(kept, r.who), LoadManifest(kept', r.who))
    BY <2>1, Zenon DEF HasEffect
  <2>4. /\ TheManifests[r.who] = LoadManifest(kept, r.who)
        /\ TheManifests'[r.who] = LoadManifest(kept', r.who)
    BY <2>2, OneByOne
  <2> QED BY <2>3, <2>4
<1>3. r.op \in IgnoreOps => Promise!RulesEffect(r, TheRules'[r.who])
  <2>1. SUFFICES ASSUME r.op \in IgnoreOps PROVE Promise!RulesEffect(r, TheRules'[r.who])
    OBVIOUS
  <2> DEFINE rules == [d \in Packages \union {""} |-> RulesOf(kept, d)]
             old == RulesOf(kept, r.who)
             new == RulesOf(kept', r.who)
  <2>2. RulesChange(r, kept, kept')
    BY <2>1, Zenon DEF HasEffect
  <2>3. r.who \in Owners
    BY <2>1, Zenon DEF RequestOK, Owners
  <2>4. rules[r.who] = old /\ rules[""] = RulesOf(kept, "")
    BY <2>3, Zenon DEF Owners
  <2>5. TheRules'[r.who] = new
    BY <2>3, OneByOne
  <2>6. CASE r.op = "ignore init"
    <3>1. old \subseteq new
      BY <2>2, <2>6, Zenon DEF RulesChange, Inits
    <3> QED BY <2>4, <2>5, <2>6, <3>1, Zenon DEF Promise!RulesEffect
  <2>7. CASE r.op = "ignore add"
    <3>1. old \subseteq new /\ r.arg \in new \union RulesOf(kept, "")
      BY <2>2, <2>7, Zenon DEF RulesChange, Adds
    <3> QED BY <2>4, <2>5, <2>7, <3>1, Zenon DEF Promise!RulesEffect
  <2>8. CASE r.op = "ignore remove"
    <3>1. new = old \ {r.arg}
      BY <2>2, <2>8, Zenon DEF RulesChange, Removes
    <3> QED BY <2>4, <2>5, <2>8, <3>1, Zenon DEF Promise!RulesEffect
  <2>9. CASE r.op = "ignore clear"
    <3>1. new = {}
      BY <2>2, <2>9, Zenon DEF RulesChange, Clears
    <3> QED BY <2>5, <2>9, <3>1, Zenon DEF Promise!RulesEffect
  <2> QED BY <2>1, <2>6, <2>7, <2>8, <2>9, Zenon DEF IgnoreOps
<1>4. r.op \in ConfigOps => Promise!ConfigEffect(r, ConfigIn(kept), ConfigIn(kept'))
  BY Zenon DEF HasEffect
<1> QED BY <1>1, <1>2, <1>3, <1>4, ServesIt

\* A new ignore file is filled before the pattern is added.
LEMMA Fills ==
    ASSUME NEW c \in Terminals, NEW r, r = ThePending[c], r # None, RequestOK(r), Adds(r),
           r.op \in IgnoreOps, RulesOf(kept, r.who) = {}, Spares(r, kept, kept'),
           ThePending' = ThePending, UNCHANGED said
    PROVE  Promise!Fill(c)
<1>1. r.op \notin ConfigOps /\ r.op \notin ManifestOps
  BY OneStore
<1>2. /\ ConfigIn(kept') = ConfigIn(kept) /\ TheManifests' = TheManifests
      /\ \A q \in DOMAIN TheRules \ {r.who} : TheRules'[q] = TheRules[q]
  BY <1>1, SparesIt
<1>3. r.who \in Owners
  BY Zenon DEF RequestOK, Owners
<1>4. TheRules[r.who] = {}
  BY <1>3, OneByOne
<1> QED BY <1>2, <1>4, Zenon DEF Adds, TheManifests, TheRules, ThePending, Pends, ConfigIn,
           Promise!Fill, Promise!ChangesOnly

-----------------------------------------------------------------------------
(* The steps of the program are steps of the promise *)

\* The requests are those of the jobs.
Asked == \A c \in Terminals : cmd[c] # Idle => cmd[c].req \in AllRequests

AllServe == \A c \in Terminals : Serving(cmd[c], kept)

\* Nothing has gone wrong.
Sound == IInv /\ Kept /\ Asked /\ AllServe /\ DOMAIN kept = StoreFiles /\ broken = {}

\* What a step of terminal c does to the promise.
Refines(c) ==
    \/ UNCHANGED Promise!vars \/ Promise!Ask(c) \/ Promise!Serve(c)
    \/ Promise!Fill(c) \/ Promise!Refuse(c) \/ Promise!Forget(c)

\* A request is something.
LEMMA AskedFor == \A r \in AllRequests : RequestOK(r) /\ r # None
BY StoresAssumption DEF AllRequests

\* A new command of a terminal concerns no other terminal.
LEMMA PendingBut ==
    ASSUME IInv, NEW c \in Terminals, NEW k, cmd' = [cmd EXCEPT ![c] = k]
    PROVE  /\ Only(c) /\ ThePending[c] = Pends(cmd[c]) /\ ThePending'[c] = Pends(k)
           /\ Pends(k) = Pends(cmd[c]) => ThePending' = ThePending
<1>1. DOMAIN cmd = Terminals
  BY DEF IInv, CommandsOK
<1>2. /\ ThePending = [t \in Terminals |-> Pends(cmd[t])]
      /\ ThePending' = [t \in Terminals |-> Pends(cmd'[t])]
  BY Zenon DEF ThePending, Pends
<1> QED BY <1>1, <1>2 DEF Only

\* Its own request stays the same while it works.
LEMMA PendsSame ==
    ASSUME Asked, NEW c \in Terminals, cmd[c] # Idle, NEW k, k.req = cmd[c].req
    PROVE  /\ Pends(k) = Pends(cmd[c]) /\ k # Idle
           /\ cmd[c].req.op \notin LinkOps => Pends(k) = cmd[c].req
<1>1. cmd[c].req # None /\ Idle.req = None
  BY AskedFor DEF Asked, Idle, Command
<1> QED BY <1>1, Zenon DEF Pends

\* What is asked is answered at the end.
LEMMA EndAnswers ==
    ASSUME IInv, Asked, NEW c \in Terminals, cmd[c] # Idle, cmd[c].req.op \notin LinkOps,
           NEW word, End(c, word)
    PROVE  Answers(c, word) /\ ThePending[c] = cmd[c].req
<1>1. ThePending[c] = Pends(cmd[c]) /\ ThePending'[c] = Pends(Idle) /\ Only(c)
  BY PendingBut DEF End
<1>2. Pends(cmd[c]) = cmd[c].req /\ Pends(Idle) = None
  BY PendsSame, Zenon DEF Pends
<1>3. cmd[c].req # None
  BY AskedFor DEF Asked
<1> QED BY <1>1, <1>2, <1>3 DEF Answers, End

\* The stores are the same while no file is.
LEMMA KeptSame == UNCHANGED kept => SameStores
<1> SUFFICES ASSUME UNCHANGED kept PROVE SameStores
  OBVIOUS
<1>1. ConfigIn(kept)' = ConfigIn(kept) /\ TheManifests' = TheManifests
  BY DEF ConfigIn, TheManifests
<1>2. TheRules' = TheRules
  BY Zenon DEF TheRules
<1> QED BY <1>1, <1>2 DEF SameStores

\* A command that has not changed a file serves its request or has none.
LEMMA StillServing ==
    ASSUME Sound, NEW c \in Terminals, NEW k, cmd' = [cmd EXCEPT ![c] = k], Serving(k, kept),
           UNCHANGED kept
    PROVE  AllServe'
<1>1. DOMAIN cmd = Terminals
  BY DEF Sound, IInv, CommandsOK
<1> QED BY <1>1 DEF Sound, AllServe

\* A command is idle, or its request is what it was.
LEMMA StillAsked ==
    ASSUME Sound, NEW c \in Terminals, NEW k, cmd' = [cmd EXCEPT ![c] = k],
           k = Idle \/ k.req \in AllRequests, UNCHANGED job
    PROVE  Asked'
<1>1. DOMAIN cmd = Terminals
  BY DEF Sound, IInv, CommandsOK
<1> QED BY <1>1 DEF Sound, Asked

\* A command is started.
LEMMA AskRefines ==
    ASSUME Sound, NEW c \in Terminals, Ask(c), broken' = {}
    PROVE  Asked' /\ AllServe' /\ Refines(c)
<1>1. PICK r \in AllRequests : cmd' = [cmd EXCEPT ![c] = Command(r)]
  BY DEF Sound, IInv, Ask, AllRequests
<1>2. Command(r).req = r /\ Command(r).todo = None /\ Idle.req = None
  BY DEF Command, Idle
<1>3. Command(r) # Idle /\ RequestOK(r) /\ r # None
  BY <1>2, AskedFor
<1>4. cmd[c] = Idle /\ said' = [said EXCEPT ![c] = None] /\ UNCHANGED <<kept, job>>
  BY DEF Ask
<1>5. Serving(Command(r), kept)
  BY <1>2 DEF Serving
<1>6. /\ Only(c) /\ ThePending[c] = Pends(Idle) /\ ThePending'[c] = Pends(Command(r))
      /\ Pends(Command(r)) = Pends(Idle) => ThePending' = ThePending
  BY <1>1, <1>4, PendingBut DEF Sound
<1>7. Pends(Idle) = None
  BY Zenon DEF Pends
<1>8. SameStores
  BY <1>4, KeptSame
<1>9. CASE r.op \in LinkOps
  <2>1. Pends(Command(r)) = None
    BY <1>2, <1>9, Zenon DEF Pends
  <2>2. Promise!Forget(c)
    BY <1>4, <1>6, <1>7, <1>8, <2>1, Forgets
  <2> QED BY <1>1, <1>2, <1>4, <1>5, <2>2, StillServing, StillAsked, Zenon DEF Refines
<1>10. CASE r.op \notin LinkOps
  <2>1. Pends(Command(r)) = r
    BY <1>2, <1>3, <1>10, Zenon DEF Pends
  <2>2. Promise!Ask(c)
    BY <1>1, <1>4, <1>6, <1>7, <1>8, <2>1, Asks
  <2> QED BY <1>1, <1>2, <1>4, <1>5, <2>2, StillServing, StillAsked, Zenon DEF Refines
<1> QED BY <1>9, <1>10

\* A command ends without a change.
LEMMA EndRefines ==
    ASSUME Sound, NEW c \in Terminals, cmd[c] # Idle, cmd[c].req.op \notin LinkOps,
           NEW word, End(c, word), UNCHANGED <<kept, job>>,
           \/ word \in {"failed", None}
           \/ word = "nothing" /\ Done(cmd[c].req, kept)
    PROVE  Asked' /\ AllServe' /\ Refines(c)
<1>1. Answers(c, word) /\ ThePending[c] = cmd[c].req
  BY EndAnswers DEF Sound
<1>2. SameStores
  BY KeptSame
<1>3. RequestOK(cmd[c].req)
  BY AskedFor DEF Sound, Asked
<1>4. Done(cmd[c].req, kept) => Promise!Satisfied(ThePending[c])
  BY <1>1, <1>3, SatisfiedIt
<1>5. \/ Answers(c, "failed") \/ Answers(c, None)
      \/ Answers(c, "nothing") /\ Promise!Satisfied(ThePending[c])
  BY <1>1, <1>4
<1>6. Promise!Refuse(c)
  BY <1>2, <1>5, Refuses
<1>7. cmd' = [cmd EXCEPT ![c] = Idle] /\ Serving(Idle, kept)
  BY IdleFacts DEF End, Serving
<1> QED BY <1>6, <1>7, StillServing, StillAsked, Zenon DEF Refines

\* A command goes on without a change.
LEMMA GoRefines ==
    ASSUME Sound, broken' = {}, NEW c \in Terminals, cmd[c] # Idle,
           NEW k, cmd' = [cmd EXCEPT ![c] = k], k.req = cmd[c].req, Serving(k, kept),
           UNCHANGED <<said, kept, job>>
    PROVE  Asked' /\ AllServe' /\ Refines(c)
<1>1. Pends(k) = Pends(cmd[c])
  BY PendsSame DEF Sound
<1>2. ThePending' = ThePending
  BY <1>1, PendingBut DEF Sound
<1>3. SameStores /\ ((broken = {}) <=> (broken' = {}))
  BY KeptSame DEF Sound
<1>4. UNCHANGED Promise!vars
  BY <1>2, <1>3, Stutters
<1>5. k.req \in AllRequests
  BY DEF Sound, Asked
<1> QED BY <1>4, <1>5, StillServing, StillAsked, Zenon DEF Refines

\* A command opens its file.
LEMMA TruncateRefines ==
    ASSUME Sound, broken' = {}, NEW c \in Terminals, Truncate(c)
    PROVE  Asked' /\ AllServe' /\ Refines(c)
<1> DEFINE k == [cmd[c] EXCEPT !.open = TRUE]
<1>1. /\ cmd' = [cmd EXCEPT ![c].open = TRUE] /\ Working(c) /\ cmd[c] # Idle
      /\ UNCHANGED <<said, kept, job>>
  BY DEF Truncate, Working
<1>2. CommandOK(cmd[c])
  BY <1>1 DEF Sound, IInv, CommandsOK
<1>3. k.req = cmd[c].req /\ k.todo = cmd[c].todo /\ k.base = cmd[c].base
  BY <1>2 DEF CommandOK
<1>4. cmd' = [cmd EXCEPT ![c] = k]
  BY <1>1 DEF Sound, IInv, CommandsOK
<1> HIDE DEF k
<1>5. Serving(k, kept)
  BY <1>3 DEF Sound, AllServe, Serving
<1> QED BY <1>1, <1>3, <1>4, <1>5, GoRefines

\* A command reads its stores.
LEMMA LoadRefines ==
    ASSUME Sound, broken' = {}, NEW c \in Terminals, Load(c),
           /\ cmd[c].req.op \in {"scan -i", "scan -y"}
           /\ Runs /\ Bundled \subseteq Tools
           => ScanFinds(cmd[c].req.who)
    PROVE  Asked' /\ AllServe' /\ Refines(c)
<1> DEFINE r == cmd[c].req
<1>1. /\ cmd[c] # Idle /\ r.op \notin LinkOps /\ UNCHANGED <<kept, job>>
      /\ CommandOK(cmd[c]) /\ RequestOK(r)
  BY DEF Sound, IInv, CommandsOK, CommandOK, Load, Starting
<1>2. PICK plan \in Plans(r) :
          /\ IF plan.todo = <<>> THEN End(c, plan.answer)
             ELSE /\ cmd' = [cmd EXCEPT
                              ![c].todo = plan.todo,
                              ![c].base = [f \in {plan.todo[i][2] : i \in DOMAIN plan.todo} |->
                                               disk[f]]]
                  /\ UNCHANGED said
          /\ broken' = broken \union Breaks(r, plan)
  BY DEF Load
<1>3. Breaks(r, plan) = {}
  BY <1>2
<1> DEFINE base == [f \in {plan.todo[i][2] : i \in DOMAIN plan.todo} |-> disk[f]]
<1>4. BaseOf(base, plan.todo)
  BY DEF BaseOf
<1>5. PICK b, q : b = base /\ q = r
  OBVIOUS
<1>6. IF plan.todo = <<>>
      THEN plan.answer = "failed" \/ (plan.answer = "nothing" /\ Done(q, kept))
      ELSE Serves(q, plan.todo, b, kept)
  <2>1. IInv /\ Kept
    BY DEF Sound
  <2>2. /\ plan \in Plans(q) /\ Breaks(q, plan) = {} /\ BaseOf(b, plan.todo)
        /\ RequestOK(q) /\ q.op \notin LinkOps
        /\ q.op \in {"scan -i", "scan -y"} /\ Runs /\ Bundled \subseteq Tools
           => ScanFinds(q.who)
    BY <1>1, <1>3, <1>4, <1>5, Zenon
  <2> QED BY <2>1, <2>2, PlanServes, Zenon
<1>7. CASE plan.todo = <<>>
  <2>1. End(c, plan.answer)
    BY <1>2, <1>7
  <2>2. \/ plan.answer \in {"failed", None}
        \/ plan.answer = "nothing" /\ Done(r, kept)
    BY <1>5, <1>6, <1>7
  <2> QED BY <1>1, <2>1, <2>2, EndRefines
<1>8. CASE plan.todo # <<>>
  <2> DEFINE k == [cmd[c] EXCEPT !.todo = plan.todo, !.base = base]
  <2>1. cmd' = [cmd EXCEPT ![c] = k]
    <3> HIDE DEF base
    <3>1. cmd' = [cmd EXCEPT ![c].todo = plan.todo, ![c].base = base]
      BY <1>2, <1>8 DEF base
    <3> QED BY <3>1 DEF Sound, IInv, CommandsOK
  <2> HIDE DEF base
  <2>2. k.todo = plan.todo /\ k.base = base /\ k.req = r
    BY <1>1 DEF CommandOK
  <2> HIDE DEF k
  <2>3. Serving(k, kept)
    BY <1>5, <1>6, <1>8, <2>2 DEF Serving
  <2>4. UNCHANGED said
    BY <1>2, <1>8
  <2> QED BY <1>1, <2>1, <2>2, <2>3, <2>4, GoRefines
<1> QED BY <1>7, <1>8

\* A package is linked or unlinked, or all of them are linked.
LEMMA LinkRefines ==
    ASSUME Sound, broken' = {}, NEW c \in Terminals, LinkStep(c)
    PROVE  Asked' /\ AllServe' /\ Refines(c)
<1>1. /\ cmd[c] # Idle /\ cmd[c].req.op \in LinkOps /\ End(c, None) /\ UNCHANGED <<kept, job>>
  BY DEF LinkStep, Starting
<1>2. Pends(cmd[c]) = None /\ Pends(Idle) = None
  BY <1>1, Zenon DEF Pends
<1>3. cmd' = [cmd EXCEPT ![c] = Idle] /\ said' = [said EXCEPT ![c] = None]
  BY <1>1 DEF End
<1>4. ThePending[c] = None /\ ThePending' = ThePending
  BY <1>2, <1>3, PendingBut DEF Sound
<1>5. Promise!Forget(c)
  BY <1>1, <1>3, <1>4, KeptSame, Forgets
<1>6. Serving(Idle, kept)
  BY IdleFacts DEF Serving
<1> QED BY <1>1, <1>3, <1>5, <1>6, StillServing, StillAsked, Zenon DEF Refines

\* Every command that writes edits a store.
LEMMA Edits ==
    ASSUME Sound, NEW c \in Terminals, Working(c)
    PROVE  /\ cmd[c] # Idle /\ cmd[c].req.op \notin LinkOps /\ CommandOK(cmd[c])
           /\ RequestOK(cmd[c].req) /\ Writes(cmd[c].req, cmd[c].todo) /\ cmd[c].todo # <<>>
           /\ WriteOK(cmd[c].req, cmd[c].todo[1]) /\ File(c) = cmd[c].todo[1][2]
           /\ Serves(cmd[c].req, cmd[c].todo, cmd[c].base, kept)
<1>1. /\ CommandOK(cmd[c]) /\ WriteOK(cmd[c].req, cmd[c].todo[1])
      /\ cmd[c].todo # None /\ cmd[c].todo # <<>>
  BY AtHand DEF Sound, IInv
<1>2. cmd[c].req.op \notin LinkOps
  BY <1>1, OfStore, OneStore
<1> QED BY <1>1, <1>2 DEF Working, CommandOK, File, Sound, AllServe, Serving

\* A write has reached its file.
LEMMA WriteRefines ==
    ASSUME Sound, broken' = {}, NEW c \in Terminals, Working(c), Finish(c), UNCHANGED job,
           Lands(cmd[c].req, cmd[c].todo[1], cmd[c].base, kept, kept'), RulesStay
    PROVE  Asked' /\ AllServe' /\ Refines(c)
<1> DEFINE r == cmd[c].req
           todo == cmd[c].todo
           base == cmd[c].base
<1>1. /\ cmd[c] # Idle /\ r.op \notin LinkOps /\ RequestOK(r) /\ Writes(r, todo)
      /\ todo # <<>> /\ WriteOK(r, todo[1]) /\ Serves(r, todo, base, kept)
  BY Edits
<1>2. AllServe'
  <2>1. \A t \in Terminals : Serving(cmd'[t], kept')
    BY WriteServes DEF Sound, AllServe
  <2> QED BY <2>1 DEF AllServe
<1>3. /\ Spares(r, kept, kept')
      /\ todo[1][2] = RegistryFile =>
            \A p \in Packages : LoadManifest(kept', p) = LoadManifest(kept, p)
  BY OthersSpared
<1>4. /\ Len(todo) = 1 => HasEffect(r, kept, kept')
      /\ Len(todo) # 1 => \/ todo[1][2] = RegistryFile
                          \/ Adds(r) /\ r.op \in IgnoreOps /\ RulesOf(kept, r.who) = {}
  BY <1>1, Served
<1>5. CASE Len(todo) = 1
  <2>1. End(c, "done")
    BY <1>5, FinishGoes DEF Sound, IInv
  <2>2. Answers(c, "done") /\ r = ThePending[c]
    BY <1>1, <2>1, EndAnswers DEF Sound
  <2>3. Promise!Serve(c)
    BY <1>1, <1>3, <1>4, <1>5, <2>2, EffectServes
  <2>4. Asked'
    BY <2>1, StillAsked DEF End
  <2> QED BY <1>2, <2>3, <2>4, Zenon DEF Refines
<1>6. CASE Len(todo) # 1
  <2>1. UNCHANGED said /\ \E k : Goes(c, k)
    BY <1>6, FinishGoes DEF Sound, IInv
  <2>2. PICK k : cmd' = [cmd EXCEPT ![c] = k] /\ k.req = r
    BY <2>1 DEF Goes
  <2>3. /\ k.req \in AllRequests /\ Pends(k) = Pends(cmd[c]) /\ Pends(k) = r /\ r # None
    <3>1. cmd[c].req \in AllRequests
      BY <1>1 DEF Sound, Asked
    <3> QED BY <1>1, <2>2, <3>1, PendsSame, AskedFor DEF Sound
  <2>4. Asked'
    BY <2>2, <2>3, StillAsked
  <2>5. ThePending' = ThePending /\ ThePending[c] = r
    BY <2>2, <2>3, PendingBut DEF Sound
  <2>6. CASE todo[1][2] = RegistryFile
    <3>1. r.op \in ManifestOps
      <4>1. RegistryFile \notin ConfigNames /\ RegistryFile \notin IgnoreFiles
        BY FileKinds
      <4> QED BY <1>1, <2>6, <4>1, OfStore
    <3>2. r.op \notin ConfigOps /\ r.op \notin IgnoreOps
      BY <3>1, OneStore
    <3>3. ConfigIn(kept') = ConfigIn(kept) /\ TheRules' = TheRules
      BY <1>3, <3>2, SparesIt
    <3>4. TheManifests' = TheManifests
      BY <1>3, <2>6 DEF TheManifests
    <3>5. SameStores
      <4>1. ConfigIn(kept)' = ConfigIn(kept')
        BY DEF ConfigIn
      <4> QED BY <3>3, <3>4, <4>1 DEF SameStores
    <3>6. UNCHANGED Promise!vars
      BY <2>1, <2>5, <3>5, Stutters DEF Sound
    <3> QED BY <1>2, <2>4, <3>6, Zenon DEF Refines
  <2>7. CASE Adds(r) /\ r.op \in IgnoreOps /\ RulesOf(kept, r.who) = {}
    <3>1. Promise!Fill(c)
      BY <1>1, <1>3, <2>1, <2>3, <2>5, <2>7, Fills
    <3> QED BY <1>2, <2>4, <3>1, Zenon DEF Refines
  <2> QED BY <1>4, <1>6, <2>6, <2>7
<1> QED BY <1>5, <1>6

\* A file is closed and has its text.
LEMMA FlushRefines ==
    ASSUME Sound, broken' = {}, NEW c \in Terminals, Flush(c)
    PROVE  Asked' /\ AllServe' /\ Refines(c)
<1>1. Working(c) /\ Finish(c) /\ UNCHANGED job /\ Undercuts = {}
  BY DEF Flush
<1>2. Lands(cmd[c].req, cmd[c].todo[1], cmd[c].base, kept, kept')
  BY FlushLands DEF Sound, AllServe
<1>3. RulesStay
  BY <1>1, NotUndercut
<1> QED BY <1>1, <1>2, <1>3, WriteRefines

\* A line is added.
LEMMA AppendRefines ==
    ASSUME Sound, broken' = {}, NEW c \in Terminals, AppendStep(c) \/ Register(c)
    PROVE  Asked' /\ AllServe' /\ Refines(c)
<1>1. Working(c) /\ Finish(c) /\ UNCHANGED job /\ Overlaps(c) = {} /\ Kind(c) = "append"
  BY DEF AppendStep, Register
<1>2. Lands(cmd[c].req, cmd[c].todo[1], cmd[c].base, kept, kept')
  BY <1>1, AppendLands DEF Sound
<1>3. RulesStay
  <2>1. Serves(cmd[c].req, cmd[c].todo, cmd[c].base, kept)
    BY <1>1, Edits
  <2>2. \A q \in Owners : RulesOf(kept, q) \subseteq RulesOf(kept', q)
    BY <1>1, <1>2, <2>1, LandsMore DEF Kind
  <2> QED BY <2>2, MoreRulesStay
<1> QED BY <1>1, <1>2, <1>3, WriteRefines

\* A file is deleted.
LEMMA DeleteRefines ==
    ASSUME Sound, broken' = {}, NEW c \in Terminals, Delete(c)
    PROVE  Asked' /\ AllServe' /\ Refines(c)
<1>1. /\ Working(c) /\ Finish(c) /\ UNCHANGED job
      /\ Overlaps(c) = {} /\ Undercuts = {}
  BY DEF Delete
<1>2. Lands(cmd[c].req, cmd[c].todo[1], cmd[c].base, kept, kept')
  BY <1>1, DeleteLands DEF Sound
<1>3. RulesStay
  BY <1>1, NotUndercut
<1> QED BY <1>1, <1>2, <1>3, WriteRefines

\* A file cannot be opened: the registry is passed over, anything else is a failure.
LEMMA OpenFailsRefines ==
    ASSUME Sound, broken' = {}, NEW c \in Terminals, OpenFails(c)
    PROVE  Asked' /\ AllServe' /\ Refines(c)
<1> DEFINE r == cmd[c].req
           todo == cmd[c].todo
           base == cmd[c].base
<1>1. Working(c) /\ UNCHANGED <<kept, job>>
  BY DEF OpenFails
<1>2. /\ cmd[c] # Idle /\ r.op \notin LinkOps /\ RequestOK(r) /\ Writes(r, todo)
      /\ todo # <<>> /\ WriteOK(r, todo[1]) /\ Serves(r, todo, base, kept)
      /\ File(c) = todo[1][2]
  BY <1>1, Edits
<1>3. CASE File(c) = RegistryFile
  <2>1. Finish(c)
    BY <1>3, Zenon DEF OpenFails
  <2>2. r.op \in ManifestOps /\ r.who \in Packages
    <3>1. RegistryFile \notin ConfigNames /\ RegistryFile \notin IgnoreFiles
      BY FileKinds
    <3>2. r.op \in ManifestOps
      BY <1>2, <1>3, <3>1, OfStore
    <3>3. r.op \in ManifestOps \union LinkOps => r.who \in Packages
      BY <1>2, Zenon DEF RequestOK
    <3> QED BY <3>2, <3>3
  <2>3. Legacy(kept, kept)
    BY DEF Legacy
  <2>4. ServesManifest(r, todo, base, kept)
    BY <1>2, <2>2, Zenon DEF Serves
  <2>5. Len(todo) # 1 /\ ServesManifest(r, Tail(todo), base, kept)
    BY <1>2, <1>3, <2>2, <2>3, <2>4, RestServes
  <2>6. UNCHANGED said /\ \E k : Goes(c, k)
    BY <1>1, <2>1, <2>5, FinishGoes DEF Sound, IInv
  <2>7. PICK k : /\ cmd' = [cmd EXCEPT ![c] = k] /\ k.req = r /\ k.todo = Tail(todo)
                 /\ k.base = base
    BY <2>6 DEF Goes
  <2>8. Serves(r, Tail(todo), base, kept)
    BY <2>2, <2>5, OneStore, Zenon DEF Serves
  <2>9. Serving(k, kept)
    BY <2>7, <2>8 DEF Serving
  <2> QED BY <1>1, <1>2, <2>6, <2>7, <2>9, GoRefines
<1>4. CASE File(c) # RegistryFile
  <2>1. End(c, "failed")
    BY <1>4, Zenon DEF OpenFails
  <2> QED BY <1>1, <1>2, <2>1, EndRefines
<1> QED BY <1>3, <1>4

\* A command is killed: it has not opened its file.
LEMMA KillRefines ==
    ASSUME Sound, broken' = {}, NEW c \in Terminals, Kill(c)
    PROVE  Asked' /\ AllServe' /\ Refines(c)
<1>1. Working(c) /\ ~cmd[c].open /\ End(c, None) /\ UNCHANGED <<kept, job>>
  BY DEF Kill
<1>2. cmd[c] # Idle /\ cmd[c].req.op \notin LinkOps
  BY <1>1, Edits
<1> QED BY <1>1, <1>2, EndRefines

\* A disk comes or goes, or nothing happens.
LEMMA StillRefines ==
    ASSUME Sound, broken' = {}, Mount \/ UNCHANGED vars
    PROVE  Asked' /\ AllServe' /\ UNCHANGED Promise!vars
<1>1. UNCHANGED <<cmd, said, kept, job>>
  BY DEF Mount, vars
<1>2. Asked' /\ AllServe'
  BY <1>1 DEF Sound, Asked, AllServe
<1>3. ThePending' = ThePending
  BY <1>1, Zenon DEF ThePending, Pends
<1>4. UNCHANGED Promise!vars
  BY <1>1, <1>3, KeptSame, Stutters DEF Sound
<1> QED BY <1>2, <1>4

-----------------------------------------------------------------------------
(* The program keeps the promise *)

\* Until something has gone wrong, the commands serve their requests.
RefInv == KeepInv /\ (broken = {} => Asked /\ AllServe)

LEMMA StepRefines ==
    ASSUME Sound, broken' = {}, ScansFind, [Next]_vars
    PROVE  /\ Asked' /\ AllServe'
           /\ UNCHANGED Promise!vars \/ \E c \in Terminals : Refines(c)
<1>1. ASSUME NEW c \in Terminals,
             \/ Ask(c) \/ Load(c) \/ LinkStep(c) \/ Truncate(c) \/ Flush(c) \/ FlushFails(c)
             \/ AppendStep(c) \/ Register(c) \/ AppendFails(c) \/ Delete(c) \/ OpenFails(c)
             \/ Kill(c)
      PROVE  Asked' /\ AllServe' /\ Refines(c)
  <2>1. CASE Ask(c)
    BY <2>1, AskRefines
  <2>2. CASE Load(c)
    <3>1. Starting(c)
      BY <2>2 DEF Load
    <3>2. /\ cmd[c].req.op \in {"scan -i", "scan -y"}
          /\ Runs /\ Bundled \subseteq Tools
          => ScanFinds(cmd[c].req.who)
      BY <3>1, Zenon DEF ScansFind
    <3> QED BY <2>2, <3>2, LoadRefines, Zenon
  <2>3. CASE LinkStep(c)
    BY <2>3, LinkRefines
  <2>4. CASE Truncate(c)
    BY <2>4, TruncateRefines
  <2>5. CASE Flush(c)
    BY <2>5, FlushRefines
  <2>6. CASE FlushFails(c) \/ AppendFails(c)
    BY <2>6 DEF FlushFails, AppendFails
  <2>7. CASE AppendStep(c) \/ Register(c)
    BY <2>7, AppendRefines
  <2>8. CASE Delete(c)
    BY <2>8, DeleteRefines
  <2>9. CASE OpenFails(c)
    BY <2>9, OpenFailsRefines
  <2>10. CASE Kill(c)
    BY <2>10, KillRefines
  <2> QED BY <1>1, <2>1, <2>2, <2>3, <2>4, <2>5, <2>6, <2>7, <2>8, <2>9, <2>10
<1>2. CASE Mount \/ UNCHANGED vars
  BY <1>2, StillRefines
<1>3. CASE Next /\ ~Mount
  <2>1. PICK c \in Terminals :
            \/ Ask(c) \/ Load(c) \/ LinkStep(c) \/ Truncate(c) \/ Flush(c) \/ FlushFails(c)
            \/ AppendStep(c) \/ Register(c) \/ AppendFails(c) \/ Delete(c) \/ OpenFails(c)
            \/ Kill(c)
    BY <1>3 DEF Next
  <2> QED BY <1>1, <2>1
<1> QED BY <1>2, <1>3

\* What has gone wrong stays so.
LEMMA StaysBroken ==
    ASSUME [Next]_vars, broken' = {}
    PROVE  broken = {}
<1>1. broken \subseteq broken'
  BY DEF Next, vars, Ask, Load, LinkStep, Truncate, Flush, FlushFails, AppendStep, Register,
         AppendFails, Delete, OpenFails, Kill, Mount
<1> QED BY <1>1

\* At the start nothing is asked.
LEMMA RefInit == Init => RefInv
<1> SUFFICES ASSUME Init PROVE RefInv
  OBVIOUS
<1>1. KeepInv
  BY KeepInit
<1>2. \A c \in Terminals : cmd[c] = Idle
  BY DEF Init
<1>3. Asked /\ AllServe
  BY <1>2, IdleFacts DEF Asked, AllServe, Serving
<1> QED BY <1>1, <1>3 DEF RefInv

\* The invariant, and the step of the promise, of every step.
LEMMA RefStep ==
    ASSUME RefInv, KeepInv', ScansFind, [Next]_vars
    PROVE  RefInv' /\ [Promise!Next]_(Promise!vars)
<1>1. CASE broken' # {}
  <2>1. RefInv'
    BY <1>1 DEF RefInv
  <2>2. Promise!Next
    BY <1>1, Zenon DEF Promise!Next
  <2> QED BY <2>1, <2>2
<1>2. CASE broken' = {}
  <2>1. broken = {} /\ Sound
    BY <1>2, StaysBroken DEF RefInv, KeepInv, Sound
  <2>2. /\ Asked' /\ AllServe'
        /\ UNCHANGED Promise!vars \/ \E c \in Terminals : Refines(c)
    BY <1>2, <2>1, StepRefines
  <2>3. RefInv'
    BY <2>2 DEF RefInv
  <2>4. ASSUME NEW c \in Terminals, Refines(c) PROVE [Promise!Next]_(Promise!vars)
    <3>1. CASE UNCHANGED Promise!vars
      BY <3>1
    <3>2. CASE \/ Promise!Ask(c) \/ Promise!Serve(c) \/ Promise!Fill(c) \/ Promise!Refuse(c)
               \/ Promise!Forget(c)
      <4>1. Promise!Next
        BY <1>2, <2>1, <3>2, Zenon DEF Promise!Next
      <4> QED BY <4>1
    <3> QED BY <2>4, <3>1, <3>2, Zenon DEF Refines
  <2> QED BY <2>2, <2>3, <2>4
<1> QED BY <1>1, <1>2

\* The initial states are those of the promise.
LEMMA PromiseInit == Init => Promise!Init
<1> SUFFICES ASSUME Init PROVE Promise!Init
  OBVIOUS
<1>1. (\A c \in Terminals : cmd[c] = Idle) /\ said = [c \in Terminals |-> None] /\ broken = {}
  BY DEF Init
<1> QED BY <1>1, Zenon DEF Promise!Init

\* The commands keep the promise of Settings, whatever other commands, kills, full file systems
\* and absent disks do, as long as a scan under a registry that hides no installed tool finds
\* what the files of its package use: every edit takes effect once, at one moment, and changes
\* nothing else, until `broken` names what ended the promise.
THEOREM RefinesSettings == Spec /\ []ScansFind => ImplementsSettings
<1>1. RefInv /\ KeepInv' /\ ScansFind /\ [Next]_vars => RefInv' /\ [Promise!Next]_(Promise!vars)
  BY RefStep
<1> QED
  BY <1>1, RefInit, PromiseInit, KeepInvariance, PTL DEF Spec, ImplementsSettings, Promise!Spec
=============================================================================
