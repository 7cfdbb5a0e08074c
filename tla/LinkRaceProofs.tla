---------------------------- MODULE LinkRaceProofs ----------------------------
(***************************************************************************)
(* What is proved about several packages linked at once, for any number of *)
(* packages, any files at any depth, and any conflicts: the state is       *)
(* typed, no link is ever missing while it is replaced, no temporary link  *)
(* is left, and packages that share no file lose no file of the user's.    *)
(*                                                                         *)
(* What a thread knows from its last look at a target path is out of date  *)
(* when it acts.  The invariant says what remains true of it, whatever the *)
(* other threads have done in between (Stands).                            *)
(***************************************************************************)
EXTENDS LinkRace, TLAPS

-----------------------------------------------------------------------------
(* Paths *)

Names == UNION {ToSet(s) : s \in Rels}

\* A relative path is a sequence of one name or more.
LEMMA RelShape ==
    ASSUME NEW r \in Rels
    PROVE  r \in Seq(Names) /\ Len(r) \in Nat /\ Len(r) >= 1
BY RaceAssumption DEF Names

\* A directory above a file is a path of one name or more.
LEMMA DirShape ==
    ASSUME NEW d \in AllDirs
    PROVE  d \in Seq(Names) /\ Len(d) \in Nat /\ Len(d) >= 1
<1>1. PICK r \in Rels : \E k \in 1 .. Len(r) - 1 : d = SubSeq(r, 1, k)
  BY DEF AllDirs, DirsOf
<1> QED BY <1>1, RelShape

\* A directory above such a directory is another one.
LEMMA PrefixIsDir ==
    ASSUME NEW d \in AllDirs, NEW n \in 1 .. Len(d)
    PROVE  SubSeq(d, 1, n) \in AllDirs
<1>1. PICK r \in Rels : \E k \in 1 .. Len(r) - 1 : d = SubSeq(r, 1, k)
  BY DEF AllDirs, DirsOf
<1>2. PICK k \in 1 .. Len(r) - 1 : d = SubSeq(r, 1, k)
  BY <1>1
<1>3. r \in Seq(Names) /\ Len(r) \in Nat
  BY RelShape
<1>4. Len(d) = k /\ n \in 1 .. Len(r) - 1
  BY <1>2, <1>3
<1>5. SubSeq(d, 1, n) = SubSeq(r, 1, n)
  BY <1>2, <1>3, <1>4
<1> QED BY <1>4, <1>5 DEF AllDirs, DirsOf

\* The parent of a file is such a directory, unless it is the target directory.
LEMMA ParentIsDir ==
    ASSUME NEW r \in Rels, Front(r) # <<>>
    PROVE  Front(r) \in AllDirs
<1>1. r \in Seq(Names) /\ Len(r) \in Nat /\ Len(r) >= 1
  BY RelShape
<1>2. Front(r) = SubSeq(r, 1, Len(r) - 1)
  BY DEF Front
<1>3. Len(r) # 1
  BY <1>1, <1>2
<1> QED BY <1>1, <1>2, <1>3 DEF AllDirs, DirsOf

-----------------------------------------------------------------------------
(* The inductive invariant *)

Unlinking == {"check", "unlink", "rmdir"}
MakingDirs == {"next-dir", "mkdir", "stat"}
Placing == {"readlink", "symlink-tmp", "rename-tmp", "probe", "rename", "symlink"}

\* What a thread goes through, and what it is at.
Loops(t) ==
    /\ pc[t] \in Unlinking => todo[t] \subseteq Rels
    /\ pc[t] \in {"unlink", "rmdir"} => rel[t] \in Rels
    /\ pc[t] \in MakingDirs => todo[t] \subseteq AllDirs
    /\ pc[t] \in {"mkdir", "stat"} => rel[t] \in AllDirs /\ num[t] \in 1 .. Len(rel[t])
    /\ pc[t] \in Placing \union {"lstat"} => todo[t] \subseteq job.files[t]
    /\ pc[t] \in Placing => rel[t] \in job.files[t]
    /\ resume[t] \in {"exclude", "evict", "done"}

\* What still stands of what a thread has seen.
Stands(t) ==
    /\ pc[t] = "unlink" => at[rel[t]] \notin {User, Stale}
    /\ pc[t] \in {"readlink", "symlink-tmp", "rename-tmp"} => at[rel[t]] # User
    /\ pc[t] \in {"probe", "rename"} => at[rel[t]] # Stale
    /\ pc[t] = "rename" => num[t] \in Counters
    /\ pc[t] = "rename" /\ Disjoint => backup[rel[t]][num[t]] = None

\* Each temporary link belongs to the thread that is about to rename it.
Owned ==
    /\ \A r \in Rels : tmp[r] # None =>
          tmp[r] \in Pkgs /\ pc[tmp[r]] = "rename-tmp" /\ rel[tmp[r]] = r
    /\ \A t \in Pkgs : pc[t] = "rename-tmp" => tmp[rel[t]] = t

IInv ==
    /\ TypeOK /\ Owned /\ UserFilesKept
    /\ \A t \in Pkgs : Loops(t) /\ Stands(t)

\* What the assumptions say of the job.
LEMMA JobShape ==
    ASSUME TypeOK
    PROVE  /\ job.command \in {"link", "unlink", "relink"}
           /\ job.files \in [Pkgs -> SUBSET Rels] /\ job.conflicts \in [Pkgs -> SUBSET Pkgs]
           /\ job.start \in [Rels -> Objects]
BY RaceAssumption DEF TypeOK

\* A package is no file of the user's, no stale link and not nothing.
LEMMA Apart == \A p \in Pkgs : p \notin {None, User, Stale}
BY RaceAssumption

LEMMA Different == None # User /\ None # Stale /\ User # Stale
BY DEF None, User, Stale

\* The invariant holds at first.
LEMMA InitStep == Init => IInv
<1> SUFFICES ASSUME Init PROVE IInv
  OBVIOUS
<1>1. /\ job.command \in {"link", "unlink", "relink"}
      /\ job.files \in [Pkgs -> SUBSET Rels] /\ job.conflicts \in [Pkgs -> SUBSET Pkgs]
      /\ job.start \in [Rels -> Objects]
  BY RaceAssumption DEF Init
<1>2. TypeOK
  <2>1. dirs \subseteq AllDirs
    BY DEF Init, AllDirs
  <2>2. Counters \subseteq Nat
    BY DEF Counters
  <2>3. todo \in [Pkgs -> SUBSET (Rels \union AllDirs)]
    BY <1>1 DEF Init
  <2>4. pc \in [Pkgs -> Steps] /\ resume \in [Pkgs -> Steps]
    BY DEF Init, Steps
  <2> QED BY <1>1, <2>1, <2>3, <2>4 DEF Init, TypeOK, Objects
<1>3. Owned
  BY DEF Init, Owned
<1>4. UserFilesKept
  BY DEF Init, UserFilesKept, UserFilesSafe
<1>5. ASSUME NEW t \in Pkgs PROVE Loops(t) /\ Stands(t)
  <2>1. pc[t] = (IF job.command = "link" THEN "exclude" ELSE "check")
        /\ todo[t] = (IF job.command = "link" THEN {} ELSE job.files[t])
        /\ resume[t] = (IF job.command = "unlink" THEN "done" ELSE "exclude")
    BY DEF Init
  <2> QED BY <1>1, <2>1 DEF Loops, Stands, Unlinking, MakingDirs, Placing
<1> QED BY <1>2, <1>3, <1>4, <1>5 DEF IInv

-----------------------------------------------------------------------------
(* What the steps of one thread do to the others *)

\* The other threads stand where they stood.
OthersStay(t) ==
    /\ job' = job
    /\ \A u \in Pkgs \ {t} :
          /\ pc'[u] = pc[u] /\ todo'[u] = todo[u] /\ rel'[u] = rel[u] /\ num'[u] = num[u]
          /\ resume'[u] = resume[u]

\* No step makes a file of the user's or a stale link.
NothingForged == \A r \in Rels : at'[r] \in {at[r], None} \union Pkgs

\* Backups of files of other packages stay free.
BackupsApart(t) ==
    \A r \in Rels : r \notin job.files[t] => backup'[r] = backup[r]

\* What the other threads know is as true as before.
LEMMA OthersKeep ==
    ASSUME IInv, NEW t \in Pkgs, OthersStay(t), NothingForged,
           backup' = backup \/ BackupsApart(t), NEW u \in Pkgs \ {t}
    PROVE  Loops(u)' /\ Stands(u)'
<1>1. Loops(u) /\ Stands(u) /\ job.files \in [Pkgs -> SUBSET Rels]
  BY JobShape DEF IInv
<1>2. /\ pc'[u] = pc[u] /\ todo'[u] = todo[u] /\ rel'[u] = rel[u] /\ num'[u] = num[u]
      /\ resume'[u] = resume[u] /\ job' = job
  BY DEF OthersStay
<1>3. Loops(u)'
  BY <1>1, <1>2 DEF Loops
<1>4. pc[u] \in Placing \union {"unlink"} => rel[u] \in Rels
  BY <1>1 DEF Loops
<1>5. \A r \in Rels : /\ at[r] # User => at'[r] # User
                      /\ at[r] # Stale => at'[r] # Stale
  BY Apart, Different DEF NothingForged
<1>6. Disjoint' = Disjoint
  BY <1>2 DEF Disjoint
<1>7. pc[u] = "rename" /\ Disjoint => backup'[rel[u]][num[u]] = None
  <2> SUFFICES ASSUME pc[u] = "rename", Disjoint PROVE backup'[rel[u]][num[u]] = None
    OBVIOUS
  <2>1. backup[rel[u]][num[u]] = None
    BY <1>1 DEF Stands
  <2>2. rel[u] \in job.files[u] /\ rel[u] \in Rels
    BY <1>1, <1>4 DEF Loops, Placing
  <2>3. rel[u] \notin job.files[t]
    BY <2>2 DEF Disjoint
  <2> QED BY <2>1, <2>2, <2>3 DEF BackupsApart
<1>8. Stands(u)'
  BY <1>1, <1>2, <1>4, <1>5, <1>6, <1>7 DEF Stands, Placing
<1> QED BY <1>3, <1>8

\* A step that makes, renames and removes no link and no file.
LEMMA QuietStep ==
    ASSUME IInv, NEW t \in Pkgs, OthersStay(t), UNCHANGED <<at, tmp, backup>>, TypeOK',
           pc[t] # "rename-tmp", pc'[t] # "rename-tmp", Loops(t)', Stands(t)'
    PROVE  IInv'
<1>1. NothingForged
  BY DEF NothingForged
<1>2. \A u \in Pkgs : Loops(u)' /\ Stands(u)'
  BY <1>1, OthersKeep
<1>3. Owned'
  BY DEF IInv, Owned, OthersStay
<1>4. UserFilesKept'
  BY DEF IInv, UserFilesKept, UserFilesSafe, Disjoint, OthersStay
<1> QED BY <1>2, <1>3, <1>4 DEF IInv
-----------------------------------------------------------------------------
(* The types of what most steps set *)

LEMMA GoTyped ==
    ASSUME TypeOK, NEW t \in Pkgs, NEW s, NEW u \in Steps, Go(t, s, u)
    PROVE  pc' \in [Pkgs -> Steps] /\ job' \in Jobs
BY DEF TypeOK, Go

LEMMA TodoTyped ==
    ASSUME TypeOK, NEW t \in Pkgs, NEW x,
           todo' = todo \/ todo' = [todo EXCEPT ![t] = @ \ {x}]
    PROVE  todo' \in [Pkgs -> SUBSET (Rels \union AllDirs)]
<1>1. todo \in [Pkgs -> SUBSET (Rels \union AllDirs)]
  BY DEF TypeOK
<1>2. todo[t] \ {x} \in SUBSET (Rels \union AllDirs)
  BY <1>1
<1> QED BY <1>1, <1>2

LEMMA NumTyped ==
    ASSUME TypeOK, NEW t \in Pkgs, num' = num \/ num' = [num EXCEPT ![t] = @ + 1]
    PROVE  num' \in [Pkgs -> Nat]
<1>1. num[t] + 1 \in Nat
  BY DEF TypeOK
<1> QED BY <1>1 DEF TypeOK

-----------------------------------------------------------------------------
(* The steps *)

LEMMA ExcludeKeeps ==
    ASSUME IInv, NEW t \in Pkgs, Exclude(t)
    PROVE  IInv'
<1> USE JobShape, Different, Apart DEF IInv
<1>1. OthersStay(t)
  BY DEF OthersStay, TypeOK, Go, unlVars, Exclude, EnterUnlink
<1>2. TypeOK'
  <2>1. pc' \in [Pkgs -> Steps] /\ job' \in Jobs
    BY DEF TypeOK, Go, Steps, Exclude
  <2>2. todo' \in [Pkgs -> SUBSET (Rels \union AllDirs)] /\ resume' \in [Pkgs -> Steps]
    <3>1. PICK c \in victims[t] : \/ EnterUnlink(t, c, "exclude")
                               \/ UNCHANGED <<todo, victim, resume>>
      BY DEF Exclude
    <3>2. c \in Pkgs /\ "exclude" \in Steps
      BY DEF TypeOK, Steps
    <3>3. job.files[c] \in SUBSET (Rels \union AllDirs)
      BY <3>2, JobShape
    <3>4. CASE EnterUnlink(t, c, "exclude")
      BY <3>2, <3>3, <3>4 DEF TypeOK, EnterUnlink
    <3>5. CASE UNCHANGED <<todo, victim, resume>>
      BY <3>5 DEF TypeOK
    <3> QED BY <3>1, <3>4, <3>5
  <2>3. rel' \in [Pkgs -> Rels \union AllDirs \union {<<>>}] /\ num' \in [Pkgs -> Nat]
    BY DEF TypeOK, Exclude, EnterUnlink
  <2>4. victims' \in [Pkgs -> SUBSET Pkgs] /\ victim' \in [Pkgs -> Pkgs]
    <3>1. PICK c \in victims[t] :
              /\ victims' = [victims EXCEPT ![t] = @ \ {c}]
              /\ victim' = [victim EXCEPT ![t] = c] \/ victim' = victim
      BY DEF Exclude, EnterUnlink
    <3> QED BY <3>1 DEF TypeOK
  <2>5. dirs' \subseteq AllDirs
    BY DEF TypeOK, treeVars, Exclude, EnterUnlink
  <2> QED BY <2>1, <2>2, <2>3, <2>4, <2>5 DEF TypeOK, treeVars, unlVars, Exclude, EnterUnlink
<1>3. Loops(t)'
  BY DEF Loops, Unlinking, MakingDirs, Placing, TypeOK, Go, unlVars, Exclude, EnterUnlink
<1>4. Stands(t)'
  BY DEF Stands, Loops, Placing, TypeOK, Go, treeVars, Exclude, EnterUnlink
<1>5. pc[t] # "rename-tmp" /\ pc'[t] # "rename-tmp"
  BY DEF TypeOK, Go, Exclude, EnterUnlink
<1>6. UNCHANGED <<at, tmp, backup>>
  BY DEF treeVars, Exclude, EnterUnlink
<1> QED BY <1>1, <1>2, <1>3, <1>4, <1>5, <1>6, QuietStep

LEMMA BeginDetectKeeps ==
    ASSUME IInv, NEW t \in Pkgs, BeginDetect(t)
    PROVE  IInv'
<1> USE JobShape, Different, Apart DEF IInv
<1>1. OthersStay(t)
  BY DEF OthersStay, TypeOK, Go, unlVars, BeginDetect
<1>2. TypeOK'
  BY DEF TypeOK, Go, Steps, treeVars, unlVars, BeginDetect
<1>3. Loops(t)'
  BY DEF Loops, Unlinking, MakingDirs, Placing, TypeOK, Go, unlVars, BeginDetect
<1>4. Stands(t)'
  BY DEF Stands, Loops, Placing, TypeOK, Go, treeVars, BeginDetect
<1>5. pc[t] # "rename-tmp" /\ pc'[t] # "rename-tmp"
  BY DEF TypeOK, Go, BeginDetect
<1>6. UNCHANGED <<at, tmp, backup>>
  BY DEF treeVars, BeginDetect
<1> QED BY <1>1, <1>2, <1>3, <1>4, <1>5, <1>6, QuietStep

LEMMA DetectKeeps ==
    ASSUME IInv, NEW t \in Pkgs, Detect(t)
    PROVE  IInv'
<1> USE JobShape, Different, Apart DEF IInv
<1>1. OthersStay(t)
  BY DEF OthersStay, TypeOK, Go, unlVars, Detect
<1>2. TypeOK'
  BY DEF TypeOK, Go, Steps, treeVars, unlVars, Detect
<1>3. Loops(t)'
  BY DEF Loops, Unlinking, MakingDirs, Placing, TypeOK, Go, unlVars, Detect
<1>4. Stands(t)'
  BY DEF Stands, Loops, Placing, TypeOK, Go, treeVars, Detect
<1>5. pc[t] # "rename-tmp" /\ pc'[t] # "rename-tmp"
  BY DEF TypeOK, Go, Detect
<1>6. UNCHANGED <<at, tmp, backup>>
  BY DEF treeVars, Detect
<1> QED BY <1>1, <1>2, <1>3, <1>4, <1>5, <1>6, QuietStep

LEMMA EvictKeeps ==
    ASSUME IInv, NEW t \in Pkgs, Evict(t)
    PROVE  IInv'
<1> USE JobShape, Different, Apart DEF IInv
<1>1. OthersStay(t)
  BY DEF OthersStay, TypeOK, Go, unlVars, Evict, EnterUnlink
<1>2. TypeOK'
  <2>1. pc' \in [Pkgs -> Steps] /\ job' \in Jobs
    <3>1. "check" \in Steps
      BY DEF Steps
    <3> QED BY <3>1, GoTyped DEF Evict, EnterUnlink
  <2>2. todo' \in [Pkgs -> SUBSET (Rels \union AllDirs)] /\ resume' \in [Pkgs -> Steps]
    BY DEF TypeOK, Steps, unlVars, Evict, EnterUnlink
  <2>3. rel' \in [Pkgs -> Rels \union AllDirs \union {<<>>}] /\ num' \in [Pkgs -> Nat]
    BY DEF TypeOK, Evict, EnterUnlink
  <2>4. victims' \in [Pkgs -> SUBSET Pkgs] /\ victim' \in [Pkgs -> Pkgs]
    BY DEF TypeOK, unlVars, Evict, EnterUnlink
  <2>5. dirs' \subseteq AllDirs
    BY DEF TypeOK, treeVars, Evict, EnterUnlink
  <2> QED BY <2>1, <2>2, <2>3, <2>4, <2>5 DEF TypeOK, treeVars, unlVars, Evict, EnterUnlink
<1>3. Loops(t)'
  BY DEF Loops, Unlinking, MakingDirs, Placing, TypeOK, Go, unlVars, Evict, EnterUnlink
<1>4. Stands(t)'
  BY DEF Stands, Loops, Placing, TypeOK, Go, treeVars, Evict, EnterUnlink
<1>5. pc[t] # "rename-tmp" /\ pc'[t] # "rename-tmp"
  BY DEF TypeOK, Go, Evict, EnterUnlink
<1>6. UNCHANGED <<at, tmp, backup>>
  BY DEF treeVars, Evict, EnterUnlink
<1> QED BY <1>1, <1>2, <1>3, <1>4, <1>5, <1>6, QuietStep

LEMMA BeginMkdirKeeps ==
    ASSUME IInv, NEW t \in Pkgs, BeginMkdir(t)
    PROVE  IInv'
<1> USE JobShape, Different, Apart DEF IInv
<1>1. OthersStay(t)
  BY DEF OthersStay, TypeOK, Go, unlVars, BeginMkdir
<1>2. TypeOK'
  <2>1. pc' \in [Pkgs -> Steps] /\ job' \in Jobs
    <3>1. "next-dir" \in Steps
      BY DEF Steps
    <3> QED BY <3>1, GoTyped DEF BeginMkdir
  <2>2. todo' \in [Pkgs -> SUBSET (Rels \union AllDirs)] /\ resume' \in [Pkgs -> Steps]
    BY ParentIsDir DEF TypeOK, Steps, unlVars, BeginMkdir
  <2>3. rel' \in [Pkgs -> Rels \union AllDirs \union {<<>>}] /\ num' \in [Pkgs -> Nat]
    BY DEF TypeOK, BeginMkdir
  <2>4. victims' \in [Pkgs -> SUBSET Pkgs] /\ victim' \in [Pkgs -> Pkgs]
    BY DEF TypeOK, unlVars, BeginMkdir
  <2>5. dirs' \subseteq AllDirs
    BY DEF TypeOK, treeVars, BeginMkdir
  <2> QED BY <2>1, <2>2, <2>3, <2>4, <2>5 DEF TypeOK, treeVars, unlVars, BeginMkdir
<1>3. Loops(t)'
  BY ParentIsDir DEF Loops, Unlinking, MakingDirs, Placing, TypeOK, Go, unlVars, BeginMkdir
<1>4. Stands(t)'
  BY DEF Stands, Loops, Placing, TypeOK, Go, treeVars, BeginMkdir
<1>5. pc[t] # "rename-tmp" /\ pc'[t] # "rename-tmp"
  BY DEF TypeOK, Go, BeginMkdir
<1>6. UNCHANGED <<at, tmp, backup>>
  BY DEF treeVars, BeginMkdir
<1> QED BY <1>1, <1>2, <1>3, <1>4, <1>5, <1>6, QuietStep

LEMMA CheckLinkKeeps ==
    ASSUME IInv, NEW t \in Pkgs, CheckLink(t)
    PROVE  IInv'
<1> USE JobShape, Different, Apart DEF IInv
<1>1. OthersStay(t)
  BY DEF OthersStay, TypeOK, Go, unlVars, CheckLink, TakeUp
<1>2. TypeOK'
  <2>1. pc' \in [Pkgs -> Steps] /\ job' \in Jobs
    BY DEF TypeOK, Go, Steps, CheckLink
  <2>2. todo' \in [Pkgs -> SUBSET (Rels \union AllDirs)] /\ resume' \in [Pkgs -> Steps]
    <3>1. PICK r \in todo[t] : todo' = todo \/ todo' = [todo EXCEPT ![t] = @ \ {r}]
      BY DEF CheckLink, TakeUp
    <3>2. todo' \in [Pkgs -> SUBSET (Rels \union AllDirs)]
      BY <3>1, TodoTyped
    <3> QED BY <3>2 DEF TypeOK, unlVars, CheckLink, TakeUp
  <2>3. rel' \in [Pkgs -> Rels \union AllDirs \union {<<>>}] /\ num' \in [Pkgs -> Nat]
    BY DEF TypeOK, CheckLink, TakeUp
  <2>4. victims' \in [Pkgs -> SUBSET Pkgs] /\ victim' \in [Pkgs -> Pkgs]
    BY DEF TypeOK, unlVars, CheckLink, TakeUp
  <2>5. dirs' \subseteq AllDirs
    BY DEF TypeOK, treeVars, CheckLink, TakeUp
  <2> QED BY <2>1, <2>2, <2>3, <2>4, <2>5 DEF TypeOK, treeVars, unlVars, CheckLink, TakeUp
<1>3. Loops(t)'
  BY DEF Loops, Unlinking, MakingDirs, Placing, TypeOK, Go, unlVars, CheckLink, TakeUp
<1>4. Stands(t)'
  BY DEF Stands, Loops, Placing, TypeOK, Go, treeVars, CheckLink, TakeUp
<1>5. pc[t] # "rename-tmp" /\ pc'[t] # "rename-tmp"
  BY DEF TypeOK, Go, CheckLink, TakeUp
<1>6. UNCHANGED <<at, tmp, backup>>
  BY DEF treeVars, CheckLink, TakeUp
<1> QED BY <1>1, <1>2, <1>3, <1>4, <1>5, <1>6, QuietStep

LEMMA RemoveParentKeeps ==
    ASSUME IInv, NEW t \in Pkgs, RemoveParent(t)
    PROVE  IInv'
<1> USE JobShape, Different, Apart DEF IInv
<1>1. OthersStay(t)
  BY DEF OthersStay, TypeOK, Go, unlVars, RemoveParent, Drop
<1>2. TypeOK'
  <2>1. pc' \in [Pkgs -> Steps] /\ job' \in Jobs
    BY DEF TypeOK, Go, Steps, RemoveParent, Drop
  <2>2. todo' \in [Pkgs -> SUBSET (Rels \union AllDirs)] /\ resume' \in [Pkgs -> Steps]
    <3>1. todo' = todo \/ todo' = [todo EXCEPT ![t] = @ \ {rel[t]}]
      BY DEF RemoveParent, Drop
    <3>2. todo' \in [Pkgs -> SUBSET (Rels \union AllDirs)]
      BY <3>1, TodoTyped
    <3> QED BY <3>2 DEF TypeOK, unlVars, RemoveParent, Drop
  <2>3. rel' \in [Pkgs -> Rels \union AllDirs \union {<<>>}] /\ num' \in [Pkgs -> Nat]
    BY DEF TypeOK, RemoveParent, Drop
  <2>4. victims' \in [Pkgs -> SUBSET Pkgs] /\ victim' \in [Pkgs -> Pkgs]
    BY DEF TypeOK, unlVars, RemoveParent, Drop
  <2>5. dirs' \subseteq AllDirs
    BY DEF TypeOK, treeVars, RemoveParent, Drop
  <2> QED BY <2>1, <2>2, <2>3, <2>4, <2>5 DEF TypeOK, treeVars, unlVars, RemoveParent, Drop
<1>3. Loops(t)'
  BY DEF Loops, Unlinking, MakingDirs, Placing, TypeOK, Go, unlVars, RemoveParent, Drop
<1>4. Stands(t)'
  BY DEF Stands, Loops, Placing, TypeOK, Go, treeVars, RemoveParent, Drop
<1>5. pc[t] # "rename-tmp" /\ pc'[t] # "rename-tmp"
  BY DEF TypeOK, Go, RemoveParent, Drop
<1>6. UNCHANGED <<at, tmp, backup>>
  BY DEF treeVars, RemoveParent, Drop
<1> QED BY <1>1, <1>2, <1>3, <1>4, <1>5, <1>6, QuietStep

LEMMA UnlinkReturnsKeeps ==
    ASSUME IInv, NEW t \in Pkgs, UnlinkReturns(t)
    PROVE  IInv'
<1> USE JobShape, Different, Apart DEF IInv
<1>1. OthersStay(t)
  BY DEF OthersStay, TypeOK, Go, unlVars, UnlinkReturns
<1>2. TypeOK'
  BY DEF TypeOK, Go, Steps, treeVars, unlVars, UnlinkReturns
<1>3. Loops(t)'
  BY DEF Loops, Unlinking, MakingDirs, Placing, TypeOK, Go, unlVars, UnlinkReturns
<1>4. Stands(t)'
  BY DEF Stands, Loops, Placing, TypeOK, Go, treeVars, UnlinkReturns
<1>5. pc[t] # "rename-tmp" /\ pc'[t] # "rename-tmp"
  BY DEF TypeOK, Go, Loops, UnlinkReturns
<1>6. UNCHANGED <<at, tmp, backup>>
  BY DEF treeVars, UnlinkReturns
<1> QED BY <1>1, <1>2, <1>3, <1>4, <1>5, <1>6, QuietStep

LEMMA NextDirKeeps ==
    ASSUME IInv, NEW t \in Pkgs, NextDir(t)
    PROVE  IInv'
<1> USE JobShape, Different, Apart DEF IInv
<1>1. OthersStay(t)
  BY DEF OthersStay, TypeOK, Go, unlVars, NextDir, TakeUp
<1>2. TypeOK'
  BY DEF TypeOK, Go, Steps, treeVars, unlVars, NextDir, TakeUp
<1>3. Loops(t)'
  BY DirShape DEF Loops, Unlinking, MakingDirs, Placing, TypeOK, Go, unlVars, NextDir, TakeUp
<1>4. Stands(t)'
  BY DEF Stands, Loops, Placing, TypeOK, Go, treeVars, NextDir, TakeUp
<1>5. pc[t] # "rename-tmp" /\ pc'[t] # "rename-tmp"
  BY DEF TypeOK, Go, NextDir, TakeUp
<1>6. UNCHANGED <<at, tmp, backup>>
  BY DEF treeVars, NextDir, TakeUp
<1> QED BY <1>1, <1>2, <1>3, <1>4, <1>5, <1>6, QuietStep

LEMMA MkdirKeeps ==
    ASSUME IInv, NEW t \in Pkgs, Mkdir(t)
    PROVE  IInv'
<1> USE JobShape, Different, Apart DEF IInv
<1>1. OthersStay(t)
  BY DEF OthersStay, TypeOK, Go, unlVars, Mkdir, Component, GiveUp, Drop
<1>2. TypeOK'
  <2>1. pc' \in [Pkgs -> Steps] /\ job' \in Jobs
    BY DEF TypeOK, Go, Steps, Mkdir, Component, GiveUp, Drop
  <2>2. todo' \in [Pkgs -> SUBSET (Rels \union AllDirs)] /\ resume' \in [Pkgs -> Steps]
    <3>1. todo' = todo \/ todo' = [todo EXCEPT ![t] = @ \ {rel[t]}]
      BY DEF Mkdir, Component, GiveUp, Drop
    <3>2. todo' \in [Pkgs -> SUBSET (Rels \union AllDirs)]
      BY <3>1, TodoTyped
    <3> QED BY <3>2 DEF TypeOK, unlVars, Mkdir, Component, GiveUp, Drop
  <2>3. rel' \in [Pkgs -> Rels \union AllDirs \union {<<>>}] /\ num' \in [Pkgs -> Nat]
    <3>1. num' = num \/ num' = [num EXCEPT ![t] = @ + 1]
      BY DEF Mkdir, Component, GiveUp, Drop
    <3> QED BY <3>1, NumTyped DEF TypeOK, Mkdir, Component, GiveUp, Drop
  <2>4. victims' \in [Pkgs -> SUBSET Pkgs] /\ victim' \in [Pkgs -> Pkgs]
    BY DEF TypeOK, unlVars, Mkdir, Component, GiveUp, Drop
  <2>5. dirs' \subseteq AllDirs
    <3>1. SubSeq(rel[t], 1, num[t]) \in AllDirs
      BY PrefixIsDir DEF Loops, MakingDirs, Mkdir
    <3>2. dirs' \subseteq dirs \union {SubSeq(rel[t], 1, num[t])}
      BY DEF Mkdir
    <3> QED BY <3>1, <3>2 DEF TypeOK
  <2> QED BY <2>1, <2>2, <2>3, <2>4, <2>5
      DEF TypeOK, treeVars, unlVars, Mkdir, Component, GiveUp, Drop
<1>3. Loops(t)'
  BY DEF Loops, Unlinking, MakingDirs, Placing, TypeOK, Go, unlVars, Mkdir, Component, GiveUp, Drop
<1>4. Stands(t)'
  BY DEF Stands, Loops, Placing, TypeOK, Go, treeVars, Mkdir, Component, GiveUp, Drop
<1>5. pc[t] # "rename-tmp" /\ pc'[t] # "rename-tmp"
  BY DEF TypeOK, Go, Mkdir, Component, GiveUp, Drop
<1>6. UNCHANGED <<at, tmp, backup>>
  BY DEF treeVars, Mkdir, Component, GiveUp, Drop
<1> QED BY <1>1, <1>2, <1>3, <1>4, <1>5, <1>6, QuietStep

LEMMA StatDirKeeps ==
    ASSUME IInv, NEW t \in Pkgs, StatDir(t)
    PROVE  IInv'
<1> USE JobShape, Different, Apart DEF IInv
<1>1. OthersStay(t)
  BY DEF OthersStay, TypeOK, Go, unlVars, StatDir, Component, GiveUp, Drop
<1>2. TypeOK'
  <2>1. pc' \in [Pkgs -> Steps] /\ job' \in Jobs
    BY DEF TypeOK, Go, Steps, StatDir, Component, GiveUp, Drop
  <2>2. todo' \in [Pkgs -> SUBSET (Rels \union AllDirs)] /\ resume' \in [Pkgs -> Steps]
    <3>1. todo' = todo \/ todo' = [todo EXCEPT ![t] = @ \ {rel[t]}]
      BY DEF StatDir, Component, GiveUp, Drop
    <3>2. todo' \in [Pkgs -> SUBSET (Rels \union AllDirs)]
      BY <3>1, TodoTyped
    <3> QED BY <3>2 DEF TypeOK, unlVars, StatDir, Component, GiveUp, Drop
  <2>3. rel' \in [Pkgs -> Rels \union AllDirs \union {<<>>}] /\ num' \in [Pkgs -> Nat]
    <3>1. num' = num \/ num' = [num EXCEPT ![t] = @ + 1]
      BY DEF StatDir, Component, GiveUp, Drop
    <3> QED BY <3>1, NumTyped DEF TypeOK, StatDir, Component, GiveUp, Drop
  <2>4. victims' \in [Pkgs -> SUBSET Pkgs] /\ victim' \in [Pkgs -> Pkgs]
    BY DEF TypeOK, unlVars, StatDir, Component, GiveUp, Drop
  <2>5. dirs' \subseteq AllDirs
    BY DEF TypeOK, treeVars, StatDir, Component, GiveUp, Drop
  <2> QED BY <2>1, <2>2, <2>3, <2>4, <2>5
      DEF TypeOK, treeVars, unlVars, StatDir, Component, GiveUp, Drop
<1>3. Loops(t)'
  BY DEF Loops, Unlinking, MakingDirs, Placing, TypeOK, Go, unlVars,
         StatDir, Component, GiveUp, Drop
<1>4. Stands(t)'
  BY DEF Stands, Loops, Placing, TypeOK, Go, treeVars, StatDir, Component, GiveUp, Drop
<1>5. pc[t] # "rename-tmp" /\ pc'[t] # "rename-tmp"
  BY DEF TypeOK, Go, StatDir, Component, GiveUp, Drop
<1>6. UNCHANGED <<at, tmp, backup>>
  BY DEF treeVars, StatDir, Component, GiveUp, Drop
<1> QED BY <1>1, <1>2, <1>3, <1>4, <1>5, <1>6, QuietStep

LEMMA DirsMadeKeeps ==
    ASSUME IInv, NEW t \in Pkgs, DirsMade(t)
    PROVE  IInv'
<1> USE JobShape, Different, Apart DEF IInv
<1>1. OthersStay(t)
  BY DEF OthersStay, TypeOK, Go, unlVars, DirsMade
<1>2. TypeOK'
  BY DEF TypeOK, Go, Steps, treeVars, unlVars, DirsMade
<1>3. Loops(t)'
  BY DEF Loops, Unlinking, MakingDirs, Placing, TypeOK, Go, unlVars, DirsMade
<1>4. Stands(t)'
  BY DEF Stands, Loops, Placing, TypeOK, Go, treeVars, DirsMade
<1>5. pc[t] # "rename-tmp" /\ pc'[t] # "rename-tmp"
  BY DEF TypeOK, Go, DirsMade
<1>6. UNCHANGED <<at, tmp, backup>>
  BY DEF treeVars, DirsMade
<1> QED BY <1>1, <1>2, <1>3, <1>4, <1>5, <1>6, QuietStep

LEMMA LStatKeeps ==
    ASSUME IInv, NEW t \in Pkgs, LStat(t)
    PROVE  IInv'
<1> USE JobShape, Different, Apart DEF IInv
<1>1. OthersStay(t)
  BY DEF OthersStay, TypeOK, Go, unlVars, LStat, TakeUp
<1>2. TypeOK'
  BY DEF TypeOK, Go, Steps, treeVars, unlVars, LStat, TakeUp
<1>3. Loops(t)'
  BY DEF Loops, Unlinking, MakingDirs, Placing, TypeOK, Go, unlVars, LStat, TakeUp
<1>4. Stands(t)'
  BY DEF Stands, Loops, Placing, TypeOK, Go, treeVars, LStat, TakeUp
<1>5. pc[t] # "rename-tmp" /\ pc'[t] # "rename-tmp"
  BY DEF TypeOK, Go, LStat, TakeUp
<1>6. UNCHANGED <<at, tmp, backup>>
  BY DEF treeVars, LStat, TakeUp
<1> QED BY <1>1, <1>2, <1>3, <1>4, <1>5, <1>6, QuietStep

LEMMA ReadLinkKeeps ==
    ASSUME IInv, NEW t \in Pkgs, ReadLink(t)
    PROVE  IInv'
<1> USE JobShape, Different, Apart DEF IInv
<1>1. OthersStay(t)
  BY DEF OthersStay, TypeOK, Go, unlVars, ReadLink, Linked, Drop
<1>2. TypeOK'
  <2>1. pc' \in [Pkgs -> Steps] /\ job' \in Jobs
    <3>1. "lstat" \in Steps /\ "symlink-tmp" \in Steps
      BY DEF Steps
    <3> QED BY <3>1, GoTyped DEF ReadLink, Linked, Drop
  <2>2. todo' \in [Pkgs -> SUBSET (Rels \union AllDirs)] /\ resume' \in [Pkgs -> Steps]
    BY DEF TypeOK, Steps, unlVars, ReadLink, Linked, Drop
  <2>3. rel' \in [Pkgs -> Rels \union AllDirs \union {<<>>}] /\ num' \in [Pkgs -> Nat]
    BY DEF TypeOK, ReadLink, Linked, Drop
  <2>4. victims' \in [Pkgs -> SUBSET Pkgs] /\ victim' \in [Pkgs -> Pkgs]
    BY DEF TypeOK, unlVars, ReadLink, Linked, Drop
  <2>5. dirs' \subseteq AllDirs
    BY DEF TypeOK, treeVars, ReadLink, Linked, Drop
  <2> QED BY <2>1, <2>2, <2>3, <2>4, <2>5 DEF TypeOK, treeVars, unlVars, ReadLink, Linked, Drop
<1>3. Loops(t)'
  BY DEF Loops, Unlinking, MakingDirs, Placing, TypeOK, Go, unlVars, ReadLink, Linked, Drop
<1>4. Stands(t)'
  BY DEF Stands, Loops, Placing, TypeOK, Go, treeVars, ReadLink, Linked, Drop
<1>5. pc[t] # "rename-tmp" /\ pc'[t] # "rename-tmp"
  BY DEF TypeOK, Go, ReadLink, Linked, Drop
<1>6. UNCHANGED <<at, tmp, backup>>
  BY DEF treeVars, ReadLink, Linked, Drop
<1> QED BY <1>1, <1>2, <1>3, <1>4, <1>5, <1>6, QuietStep

LEMMA ProbeKeeps ==
    ASSUME IInv, NEW t \in Pkgs, Probe(t)
    PROVE  IInv'
<1> USE JobShape, Different, Apart DEF IInv
<1>1. OthersStay(t)
  BY DEF OthersStay, TypeOK, Go, unlVars, Probe
<1>2. TypeOK'
  <2>1. pc' \in [Pkgs -> Steps] /\ job' \in Jobs
    BY DEF TypeOK, Go, Steps, Probe
  <2>2. todo' \in [Pkgs -> SUBSET (Rels \union AllDirs)] /\ resume' \in [Pkgs -> Steps]
    BY DEF TypeOK, Steps, unlVars, Probe
  <2>3. rel' \in [Pkgs -> Rels \union AllDirs \union {<<>>}] /\ num' \in [Pkgs -> Nat]
    BY DEF TypeOK, Counters, Probe
  <2>4. victims' \in [Pkgs -> SUBSET Pkgs] /\ victim' \in [Pkgs -> Pkgs]
    BY DEF TypeOK, unlVars, Probe
  <2>5. dirs' \subseteq AllDirs
    BY DEF TypeOK, treeVars, Probe
  <2> QED BY <2>1, <2>2, <2>3, <2>4, <2>5 DEF TypeOK, treeVars, unlVars, Probe
<1>3. Loops(t)'
  BY DEF Loops, Unlinking, MakingDirs, Placing, TypeOK, Go, unlVars, Probe
<1>4. Stands(t)'
  BY DEF Stands, Loops, Placing, TypeOK, Go, treeVars, Probe
<1>5. pc[t] # "rename-tmp" /\ pc'[t] # "rename-tmp"
  BY DEF TypeOK, Go, Probe
<1>6. UNCHANGED <<at, tmp, backup>>
  BY DEF treeVars, Probe
<1> QED BY <1>1, <1>2, <1>3, <1>4, <1>5, <1>6, QuietStep

LEMMA LinkReturnsKeeps ==
    ASSUME IInv, NEW t \in Pkgs, LinkReturns(t)
    PROVE  IInv'
<1> USE JobShape, Different, Apart DEF IInv
<1>1. OthersStay(t)
  BY DEF OthersStay, TypeOK, Go, unlVars, LinkReturns
<1>2. TypeOK'
  BY DEF TypeOK, Go, Steps, treeVars, unlVars, LinkReturns
<1>3. Loops(t)'
  BY DEF Loops, Unlinking, MakingDirs, Placing, TypeOK, Go, unlVars, LinkReturns
<1>4. Stands(t)'
  BY DEF Stands, Loops, Placing, TypeOK, Go, treeVars, LinkReturns
<1>5. pc[t] # "rename-tmp" /\ pc'[t] # "rename-tmp"
  BY DEF TypeOK, Go, LinkReturns
<1>6. UNCHANGED <<at, tmp, backup>>
  BY DEF treeVars, LinkReturns
<1> QED BY <1>1, <1>2, <1>3, <1>4, <1>5, <1>6, QuietStep

\* The link that is removed is a package's, though it need not be the one that
\* the thread has looked at.
LEMMA UnlinkLinkKeeps ==
    ASSUME IInv, NEW t \in Pkgs, UnlinkLink(t)
    PROVE  IInv'
<1> DEFINE r == rel[t]
<1> USE JobShape, Different, Apart DEF IInv
<1>1. r \in Rels /\ Len(r) - 1 \in Nat /\ at[r] \notin {User, Stale}
  BY RelShape DEF Loops, Stands, UnlinkLink
<1>2. OthersStay(t)
  BY DEF OthersStay, TypeOK, Go, Steps, unlVars, UnlinkLink, Drop
<1>3. at' = at \/ at' = [at EXCEPT ![r] = None]
  BY DEF UnlinkLink
<1>4. TypeOK'
  <2>1. pc' \in [Pkgs -> Steps] /\ job' \in Jobs
    <3>1. "rmdir" \in Steps /\ "check" \in Steps
      BY DEF Steps
    <3> QED BY <3>1, GoTyped DEF UnlinkLink
  <2>2. todo' \in [Pkgs -> SUBSET (Rels \union AllDirs)]
    <3>1. todo' = todo \/ todo' = [todo EXCEPT ![t] = @ \ {rel[t]}]
      BY DEF UnlinkLink, Drop
    <3> QED BY <3>1, TodoTyped
  <2>3. num' \in [Pkgs -> Nat]
    BY <1>1 DEF TypeOK, UnlinkLink
  <2>4. at' \in [Rels -> Objects]
    BY <1>3 DEF TypeOK, Objects
  <2>5. failed' \in [Pkgs -> BOOLEAN]
    BY DEF TypeOK, UnlinkLink
  <2> QED BY <2>1, <2>2, <2>3, <2>4, <2>5 DEF TypeOK, unlVars, UnlinkLink
<1>5. Loops(t)' /\ Stands(t)'
  BY <1>1 DEF Loops, Stands, Unlinking, MakingDirs, Placing, TypeOK, Go, Steps, unlVars,
              UnlinkLink, Drop
<1>6. NothingForged
  BY <1>3 DEF NothingForged, TypeOK
<1>7. \A u \in Pkgs : Loops(u)' /\ Stands(u)'
  BY <1>2, <1>5, <1>6, OthersKeep DEF UnlinkLink
<1>8. Owned'
  BY <1>2 DEF Owned, OthersStay, TypeOK, Go, UnlinkLink
<1>9. UserFilesKept'
  BY <1>1, <1>2, <1>3 DEF UserFilesKept, UserFilesSafe, Disjoint, OthersStay, TypeOK, UnlinkLink
<1> QED BY <1>4, <1>7, <1>8, <1>9

\* The temporary link is the thread's own: had another thread left one at that
\* name, symlink would fail.
LEMMA SymlinkTmpKeeps ==
    ASSUME IInv, NEW t \in Pkgs, SymlinkTmp(t)
    PROVE  IInv'
<1> DEFINE r == rel[t]
<1> USE JobShape, Different, Apart DEF IInv
<1>1. r \in job.files[t] /\ r \in Rels /\ at[r] # User
  BY DEF Loops, Stands, Placing, SymlinkTmp
<1>2. OthersStay(t)
  BY DEF OthersStay, TypeOK, Go, Steps, unlVars, SymlinkTmp, Fails, Drop
<1>3. TypeOK'
  <2>1. pc' \in [Pkgs -> Steps] /\ job' \in Jobs
    <3>1. "rename-tmp" \in Steps /\ "lstat" \in Steps
      BY DEF Steps
    <3> QED BY <3>1, GoTyped DEF SymlinkTmp, Fails
  <2>2. todo' \in [Pkgs -> SUBSET (Rels \union AllDirs)]
    <3>1. todo' = todo \/ todo' = [todo EXCEPT ![t] = @ \ {rel[t]}]
      BY DEF SymlinkTmp, Fails, Drop
    <3> QED BY <3>1, TodoTyped
  <2>3. tmp' \in [Rels -> Objects]
    <3>1. tmp' = tmp \/ tmp' = [tmp EXCEPT ![r] = t]
      BY DEF SymlinkTmp
    <3> QED BY <3>1 DEF TypeOK, Objects
  <2>4. failed' \in [Pkgs -> BOOLEAN]
    BY DEF TypeOK, SymlinkTmp, Fails
  <2> QED BY <2>1, <2>2, <2>3, <2>4 DEF TypeOK, unlVars, SymlinkTmp
<1>4. Loops(t)' /\ Stands(t)'
  BY <1>1 DEF Loops, Stands, Unlinking, MakingDirs, Placing, TypeOK, Go, Steps, unlVars,
              SymlinkTmp, Fails, Drop
<1>5. NothingForged
  BY DEF NothingForged, SymlinkTmp
<1>6. \A u \in Pkgs : Loops(u)' /\ Stands(u)'
  BY <1>2, <1>4, <1>5, OthersKeep DEF SymlinkTmp
<1>7. Owned'
  <2>1. CASE tmp' = tmp /\ Fails(t, "symlink-tmp")
    BY <1>2, <2>1 DEF Owned, OthersStay, TypeOK, Go, Fails, SymlinkTmp
  <2>2. CASE tmp[r] = None /\ Go(t, "symlink-tmp", "rename-tmp") /\ tmp' = [tmp EXCEPT ![r] = t]
    <3>1. tmp'[r] = t /\ pc'[t] = "rename-tmp" /\ rel'[t] = r
      BY <1>1, <2>2 DEF TypeOK, Go, SymlinkTmp
    <3>2. \A s \in Rels \ {r} : tmp'[s] = tmp[s]
      BY <2>2 DEF TypeOK
    <3>3. \A u \in Pkgs \ {t} : pc'[u] = pc[u] /\ rel'[u] = rel[u]
      BY <1>2 DEF OthersStay
    <3>4. \A u \in Pkgs \ {t} : pc[u] = "rename-tmp" => rel[u] # r /\ rel[u] \in Rels
      BY <2>2 DEF Owned, Loops, Placing
    <3> QED BY <1>1, <2>2, <3>1, <3>2, <3>3, <3>4 DEF Owned
  <2> QED BY <2>1, <2>2 DEF SymlinkTmp
<1>8. UserFilesKept'
  BY <1>2 DEF UserFilesKept, UserFilesSafe, Disjoint, OthersStay, SymlinkTmp
<1> QED BY <1>3, <1>6, <1>7, <1>8

\* What the temporary link replaces is a link, or nothing.
LEMMA RenameTmpKeeps ==
    ASSUME IInv, NEW t \in Pkgs, RenameTmp(t)
    PROVE  IInv'
<1> DEFINE r == rel[t]
<1> USE JobShape, Different, Apart DEF IInv
<1>1. pc[t] = "rename-tmp" /\ r \in Rels /\ at[r] # User /\ tmp[r] = t
  BY DEF Loops, Stands, Placing, Owned, RenameTmp, Linked, Go
<1>2. OthersStay(t)
  BY DEF OthersStay, TypeOK, Go, Steps, unlVars, RenameTmp, Linked, Drop
<1>3. at' = [at EXCEPT ![r] = t]
  BY <1>1 DEF RenameTmp
<1>4. TypeOK'
  <2>1. pc' \in [Pkgs -> Steps] /\ job' \in Jobs
    <3>1. "lstat" \in Steps
      BY DEF Steps
    <3> QED BY <3>1, GoTyped DEF RenameTmp, Linked
  <2>2. todo' \in [Pkgs -> SUBSET (Rels \union AllDirs)]
    BY TodoTyped DEF RenameTmp, Linked, Drop
  <2>3. at' \in [Rels -> Objects] /\ tmp' \in [Rels -> Objects]
    BY <1>3 DEF TypeOK, Objects, RenameTmp
  <2> QED BY <2>1, <2>2, <2>3 DEF TypeOK, unlVars, RenameTmp, Linked
<1>5. Loops(t)' /\ Stands(t)'
  BY <1>1 DEF Loops, Stands, Unlinking, MakingDirs, Placing, TypeOK, Go, Steps, unlVars,
              RenameTmp, Linked, Drop
<1>6. NothingForged
  BY <1>3 DEF NothingForged, TypeOK
<1>7. \A u \in Pkgs : Loops(u)' /\ Stands(u)'
  BY <1>2, <1>5, <1>6, OthersKeep DEF RenameTmp
<1>8. Owned'
  <2>1. tmp'[r] = None /\ \A s \in Rels \ {r} : tmp'[s] = tmp[s]
    BY <1>1 DEF TypeOK, RenameTmp
  <2>2. pc'[t] = "lstat"
    BY DEF TypeOK, RenameTmp, Linked, Go
  <2>3. \A u \in Pkgs \ {t} : pc'[u] = pc[u] /\ rel'[u] = rel[u]
    BY <1>2 DEF OthersStay
  <2>4. \A u \in Pkgs \ {t} : pc[u] = "rename-tmp" => rel[u] # r /\ rel[u] \in Rels
    BY <1>1 DEF Owned, Loops, Placing
  <2> QED BY <1>1, <2>1, <2>2, <2>3, <2>4 DEF Owned
<1>9. UserFilesKept'
  BY <1>1, <1>2, <1>3 DEF UserFilesKept, UserFilesSafe, Disjoint, OthersStay, TypeOK, RenameTmp
<1> QED BY <1>4, <1>7, <1>8, <1>9

\* What is backed up overwrites a backup only where another package has the
\* same file.
LEMMA BackUpKeeps ==
    ASSUME IInv, NEW t \in Pkgs, BackUp(t)
    PROVE  IInv'
<1> DEFINE r == rel[t]
           k == num[t]
<1> USE JobShape, Different, Apart DEF IInv
<1>1. /\ r \in job.files[t] /\ r \in Rels /\ k \in Counters
      /\ Disjoint => backup[r][k] = None
  BY DEF Loops, Stands, Placing, BackUp
<1>2. OthersStay(t)
  BY DEF OthersStay, TypeOK, Go, Steps, unlVars, BackUp, Fails, Drop
<1>3. \/ UNCHANGED <<at, backup>>
      \/ /\ at' = [at EXCEPT ![r] = None]
         /\ backup' = [backup EXCEPT ![r][k] = at[r]]
  BY DEF BackUp
<1>4. TypeOK'
  <2>1. pc' \in [Pkgs -> Steps] /\ job' \in Jobs
    <3>1. "symlink" \in Steps /\ "lstat" \in Steps
      BY DEF Steps
    <3> QED BY <3>1, GoTyped DEF BackUp, Fails
  <2>2. todo' \in [Pkgs -> SUBSET (Rels \union AllDirs)]
    <3>1. todo' = todo \/ todo' = [todo EXCEPT ![t] = @ \ {rel[t]}]
      BY DEF BackUp, Fails, Drop
    <3> QED BY <3>1, TodoTyped
  <2>3. at' \in [Rels -> Objects]
    BY <1>3 DEF TypeOK, Objects
  <2>4. backup' \in [Rels -> [Counters -> Objects]]
    <3>1. CASE backup' = [backup EXCEPT ![r][k] = at[r]]
      <4>1. backup[r] \in [Counters -> Objects] /\ at[r] \in Objects
        BY <1>1 DEF TypeOK
      <4>2. [backup[r] EXCEPT ![k] = at[r]] \in [Counters -> Objects]
        BY <1>1, <4>1
      <4> QED BY <3>1, <4>2 DEF TypeOK
    <3> QED BY <1>3, <3>1 DEF TypeOK
  <2>5. failed' \in [Pkgs -> BOOLEAN]
    BY DEF TypeOK, BackUp, Fails
  <2> QED BY <2>1, <2>2, <2>3, <2>4, <2>5 DEF TypeOK, unlVars, BackUp
<1>5. Loops(t)' /\ Stands(t)'
  BY <1>1 DEF Loops, Stands, Unlinking, MakingDirs, Placing, TypeOK, Go, Steps, unlVars,
              BackUp, Fails, Drop
<1>6. NothingForged
  BY <1>3 DEF NothingForged, TypeOK
<1>7. BackupsApart(t)
  BY <1>1, <1>3 DEF BackupsApart, TypeOK
<1>8. \A u \in Pkgs : Loops(u)' /\ Stands(u)'
  BY <1>2, <1>5, <1>6, <1>7, OthersKeep
<1>9. Owned'
  BY <1>2 DEF Owned, OthersStay, TypeOK, Go, BackUp, Fails
<1>10. UserFilesKept'
  <2> SUFFICES ASSUME Disjoint, NEW s \in Rels, job.start[s] = User
               PROVE  at'[s] = User \/ \E j \in Counters : backup'[s][j] = User
    BY <1>2 DEF UserFilesKept, UserFilesSafe, Disjoint, OthersStay
  <2>1. at[s] = User \/ \E j \in Counters : backup[s][j] = User
    BY DEF UserFilesKept, UserFilesSafe
  <2>2. CASE s = r
    <3>1. CASE UNCHANGED <<at, backup>>
      BY <2>1, <3>1
    <3>2. CASE backup' = [backup EXCEPT ![r][k] = at[r]]
      <4>1. backup'[r][k] = at[r] /\ \A j \in Counters \ {k} : backup'[r][j] = backup[r][j]
        BY <1>1, <3>2 DEF TypeOK
      <4> QED BY <1>1, <2>1, <2>2, <4>1
    <3> QED BY <1>3, <3>1, <3>2
  <2>3. CASE s # r
    BY <1>3, <2>1, <2>3 DEF TypeOK
  <2> QED BY <2>2, <2>3
<1> QED BY <1>4, <1>8, <1>9, <1>10

\* The link is made where nothing is.
LEMMA MakeLinkKeeps ==
    ASSUME IInv, NEW t \in Pkgs, MakeLink(t)
    PROVE  IInv'
<1> DEFINE r == rel[t]
<1> USE JobShape, Different, Apart DEF IInv
<1>1. r \in Rels
  BY DEF Loops, Placing, MakeLink
<1>2. OthersStay(t)
  BY DEF OthersStay, TypeOK, Go, Steps, unlVars, MakeLink, Linked, Fails, Drop
<1>3. at' = at \/ (at[r] = None /\ at' = [at EXCEPT ![r] = t])
  BY DEF MakeLink
<1>4. TypeOK'
  <2>1. pc' \in [Pkgs -> Steps] /\ job' \in Jobs
    <3>1. "lstat" \in Steps
      BY DEF Steps
    <3> QED BY <3>1, GoTyped DEF MakeLink, Linked, Fails
  <2>2. todo' \in [Pkgs -> SUBSET (Rels \union AllDirs)]
    BY TodoTyped DEF MakeLink, Linked, Fails, Drop
  <2>3. at' \in [Rels -> Objects]
    BY <1>3 DEF TypeOK, Objects
  <2>4. failed' \in [Pkgs -> BOOLEAN]
    BY DEF TypeOK, MakeLink, Linked, Fails
  <2> QED BY <2>1, <2>2, <2>3, <2>4 DEF TypeOK, unlVars, MakeLink
<1>5. Loops(t)' /\ Stands(t)'
  BY <1>1 DEF Loops, Stands, Unlinking, MakingDirs, Placing, TypeOK, Go, Steps, unlVars,
              MakeLink, Linked, Fails, Drop
<1>6. NothingForged
  BY <1>3 DEF NothingForged, TypeOK
<1>7. \A u \in Pkgs : Loops(u)' /\ Stands(u)'
  BY <1>2, <1>5, <1>6, OthersKeep DEF MakeLink
<1>8. Owned'
  BY <1>2 DEF Owned, OthersStay, TypeOK, Go, MakeLink, Linked, Fails
<1>9. UserFilesKept'
  BY <1>1, <1>2, <1>3 DEF UserFilesKept, UserFilesSafe, Disjoint, OthersStay, TypeOK, MakeLink
<1> QED BY <1>4, <1>7, <1>8, <1>9

-----------------------------------------------------------------------------
(* The invariant, and what follows *)

LEMMA NextStep == IInv /\ [Next]_vars => IInv'
<1> SUFFICES ASSUME IInv, [Next]_vars PROVE IInv'
  OBVIOUS
<1>1. ASSUME NEW t \in Pkgs, Step(t) PROVE IInv'
  BY <1>1, ExcludeKeeps, BeginDetectKeeps, DetectKeeps, EvictKeeps, BeginMkdirKeeps, CheckLinkKeeps,
     UnlinkLinkKeeps, RemoveParentKeeps, UnlinkReturnsKeeps, NextDirKeeps, MkdirKeeps, StatDirKeeps,
     DirsMadeKeeps, LStatKeeps, ReadLinkKeeps, SymlinkTmpKeeps, RenameTmpKeeps, ProbeKeeps,
     BackUpKeeps, MakeLinkKeeps, LinkReturnsKeeps
  DEF Step
<1>2. CASE UNCHANGED vars
  <2>1. TypeOK'
    BY <1>2 DEF vars, treeVars, unlVars, IInv, TypeOK
  <2>2. Owned'
    BY <1>2 DEF vars, treeVars, IInv, Owned
  <2>3. UserFilesKept'
    BY <1>2 DEF vars, treeVars, IInv, UserFilesKept, UserFilesSafe, Disjoint
  <2>4. \A t \in Pkgs : Loops(t)' /\ Stands(t)'
    BY <1>2 DEF vars, treeVars, unlVars, IInv, Loops, Stands, Disjoint
  <2> QED BY <2>1, <2>2, <2>3, <2>4 DEF IInv
<1> QED BY <1>1, <1>2 DEF Next

\* The invariant holds in every state.
THEOREM Invariance == Spec => []IInv
BY InitStep, NextStep, PTL DEF Spec

\* The state is typed.
THEOREM TypeCorrect == Spec => []TypeOK
<1>1. IInv => TypeOK
  BY DEF IInv
<1> QED BY <1>1, Invariance, PTL

\* Packages of one command that share no file lose no file of the user's,
\* however many there are and whatever they do to each other's directories.
THEOREM DisjointPackagesLoseNothing == Spec => []UserFilesKept
<1>1. IInv => UserFilesKept
  BY DEF IInv
<1> QED BY <1>1, Invariance, PTL

\* When the command has ended, no temporary link is left.
NoTmpLeft == AllDone => \A r \in Rels : tmp[r] = None

THEOREM TemporaryLinksGo == Spec => []NoTmpLeft
<1>1. IInv => NoTmpLeft
  BY DEF IInv, Owned, NoTmpLeft, AllDone
<1> QED BY <1>1, Invariance, PTL

\* A link that a package's link replaces is not missing in between, whatever
\* the other packages do.
THEOREM LinksAreReplacedInPlace == Spec => ReplacedInPlace
<1>1. ASSUME IInv, [Next]_vars, NEW r \in Rels, at[r] = Stale PROVE at'[r] # None
  <2> USE <1>1, Different, Apart DEF IInv
  <2>1. CASE UNCHANGED at
    BY <2>1
  <2>2. ASSUME NEW t \in Pkgs, UnlinkLink(t) PROVE at'[r] # None
    BY <2>2 DEF UnlinkLink, Stands, TypeOK
  <2>3. ASSUME NEW t \in Pkgs, RenameTmp(t) PROVE at'[r] # None
    <3>1. rel[t] \in Rels /\ tmp[rel[t]] = t
      BY <2>3, JobShape DEF RenameTmp, Linked, Go, Loops, Placing, Owned
    <3> QED BY <2>3, <3>1 DEF RenameTmp, TypeOK
  <2>4. ASSUME NEW t \in Pkgs, BackUp(t) PROVE at'[r] # None
    BY <2>4 DEF BackUp, Stands, TypeOK
  <2>5. ASSUME NEW t \in Pkgs, MakeLink(t) PROVE at'[r] # None
    BY <2>5 DEF MakeLink, TypeOK
  <2> QED BY <2>1, <2>2, <2>3, <2>4, <2>5 DEF Next, Step, vars, treeVars,
        Exclude, BeginDetect, Detect, Evict, BeginMkdir, CheckLink, RemoveParent, UnlinkReturns,
        NextDir, Mkdir, StatDir, DirsMade, LStat, ReadLink, SymlinkTmp, Probe, LinkReturns
<1>2. IInv /\ [Next]_vars => [\A r \in Rels : at[r] = Stale => at'[r] # None]_vars
  BY <1>1
<1> QED BY <1>2, Invariance, PTL DEF Spec, ReplacedInPlace

-----------------------------------------------------------------------------
(* unlink *)

\* The links there are to a package are links to files it still has.
LinksBelong == \A r \in Rels : job.start[r] \in Pkgs => r \in job.files[job.start[r]]

\* What a thread of an unlink command is at.
Unlinks(t) ==
    /\ pc[t] \in Unlinking \union {"done"} /\ victim[t] = t /\ resume[t] = "done" /\ ~failed[t]
    /\ todo[t] \subseteq job.files[t] /\ (pc[t] = "done" => todo[t] = {})
    /\ pc[t] \in {"unlink", "rmdir"} => rel[t] \in Rels
    /\ pc[t] = "unlink" => at[rel[t]] = t
    /\ pc[t] = "rmdir" => at[rel[t]] = None /\ num[t] < Len(rel[t])

\* Each link to a package is still to be removed.
LinksListed == LinksBelong => \A r \in Rels : at[r] \in Pkgs => r \in todo[at[r]]

\* Thread t is about to remove the directory d.
AtDir(t, d) == pc[t] = "rmdir" /\ num[t] = Len(d) /\ SubSeq(rel[t], 1, num[t]) = d

\* A directory that is empty is about to be removed.
EmptyGoes == \A d \in dirs : Empty(d) => \E t \in Pkgs : AtDir(t, d)

UnlinkInv == job.command = "unlink" =>
            EmptyGoes /\ LinksListed /\ \A t \in Pkgs : Unlinks(t)

-----------------------------------------------------------------------------
(* link, without conflicts *)

\* The packages of the command share no file, exclude none of each other, and
\* the links there are to them are links to files they still have.
Peaceful == Disjoint /\ LinksBelong /\ \A p \in Pkgs : job.conflicts[p] = {}

Pass2 == Placing \union {"lstat"}

\* What a thread of a link command is at, when no other one can disturb it.
Links(t) ==
    /\ pc[t] \in {"exclude", "detect", "done"} \union MakingDirs \union Pass2
    /\ ~failed[t] /\ victims[t] = {}
    /\ pc[t] = "detect" => todo[t] \subseteq job.files[t]
    /\ pc[t] \in {"mkdir", "stat"} => \A k \in 1 .. num[t] - 1 : SubSeq(rel[t], 1, k) \in dirs
    /\ pc[t] = "stat" => SubSeq(rel[t], 1, num[t]) \in dirs
    /\ pc[t] \in MakingDirs =>
          \A r \in job.files[t] : HasParent(r) \/ Front(r) \in todo[t]
    /\ pc[t] \in Pass2 => \A r \in job.files[t] : HasParent(r)
    /\ pc[t] \in Pass2 \union {"done"} => \A r \in job.files[t] \ todo[t] : at[r] = t
    /\ pc[t] \in {"probe", "rename"} => at[rel[t]] = User
    /\ pc[t] = "symlink" => at[rel[t]] = None
    /\ pc[t] = "done" => todo[t] = {}

LinkInv == job.command = "link" /\ Peaceful =>
            /\ \A r \in Rels : at[r] \in Pkgs => r \in job.files[at[r]]
            /\ \A t \in Pkgs : Links(t)

-----------------------------------------------------------------------------
(* The target path that all packages have *)

\* Where anything is, its directory is.
ParentsThere ==
    \A r \in Rels :
        (at[r] # None \/ tmp[r] # None \/ \E k \in Counters : backup[r][k] # None) =>
            HasParent(r)

\* What a thread of a link or relink command is at.
Goes(t) ==
    /\ resume[t] # "done" /\ (pc[t] \in Placing => rel[t] \in todo[t])
    /\ pc[t] = "symlink" => at[rel[t]] \notin {User, Stale}

\* Thread t has not come to pass 1 yet; it still makes the directory of s; or
\* it still makes the link s, and nothing can stop it.
Before(t) == pc[t] \in {"exclude", "detect", "evict"} \union Unlinking
Makes(t, s) ==
    /\ pc[t] \in MakingDirs
    /\ \/ HasParent(s)
       \/ /\ Front(s) \in todo[t]
          /\ pc[t] \in {"mkdir", "stat"} /\ rel[t] = Front(s) =>
                /\ \A k \in 1 .. num[t] - 1 : SubSeq(rel[t], 1, k) \in dirs
                /\ pc[t] = "stat" => SubSeq(rel[t], 1, num[t]) \in dirs
Places(t, s) ==
    /\ pc[t] \in Pass2 /\ s \in todo[t] /\ HasParent(s)
    /\ pc[t] \in Placing /\ rel[t] = s =>
          /\ pc[t] \in {"probe", "rename"} => at[s] = User
          /\ pc[t] = "symlink-tmp" => tmp[s] = None
Charged(t, s) == Before(t) \/ Makes(t, s) \/ Places(t, s)

SharedInv == job.command # "unlink" =>
    /\ ParentsThere
    /\ \A t \in Pkgs : Goes(t)
    /\ \A s \in Rels : (\A p \in Pkgs : s \in job.files[p]) =>
          at[s] \in Pkgs \/ \E t \in Pkgs : Charged(t, s)

-----------------------------------------------------------------------------
(* One thread takes a step *)

\* The other threads stay as they are.
Alone(t) ==
    /\ job' = job
    /\ \A u \in Pkgs \ {t} :
          /\ pc'[u] = pc[u] /\ todo'[u] = todo[u] /\ rel'[u] = rel[u] /\ num'[u] = num[u]
          /\ victims'[u] = victims[u] /\ victim'[u] = victim[u] /\ resume'[u] = resume[u]
          /\ failed'[u] = failed[u]

\* A step is a step of one thread.
LEMMA StepAlone ==
    ASSUME IInv, NEW t \in Pkgs, Step(t)
    PROVE  Alone(t)
<1> USE DEF IInv, TypeOK, Alone, Go, unlVars
<1>1. CASE Exclude(t) \/ BeginDetect(t) \/ Detect(t) \/ Evict(t) \/ BeginMkdir(t)
  BY <1>1 DEF Exclude, BeginDetect, Detect, Evict, BeginMkdir, EnterUnlink
<1>2. CASE CheckLink(t) \/ UnlinkLink(t) \/ RemoveParent(t) \/ UnlinkReturns(t)
  BY <1>2 DEF CheckLink, UnlinkLink, RemoveParent, UnlinkReturns, TakeUp, Drop
<1>3. CASE NextDir(t) \/ Mkdir(t) \/ StatDir(t) \/ DirsMade(t)
  BY <1>3 DEF NextDir, Mkdir, StatDir, DirsMade, TakeUp, Drop, Component, GiveUp
<1>4. CASE LStat(t) \/ ReadLink(t) \/ SymlinkTmp(t) \/ RenameTmp(t)
  BY <1>4 DEF LStat, ReadLink, SymlinkTmp, RenameTmp, TakeUp, Drop, Linked, Fails
<1>5. CASE Probe(t) \/ BackUp(t) \/ MakeLink(t) \/ LinkReturns(t)
  BY <1>5 DEF Probe, BackUp, MakeLink, LinkReturns, Drop, Linked, Fails
<1> QED BY <1>1, <1>2, <1>3, <1>4, <1>5 DEF Step

-----------------------------------------------------------------------------
(* unlink *)

LEMMA InitUnlink == Init => UnlinkInv
<1> SUFFICES ASSUME Init, job.command = "unlink" PROVE UnlinkInv
  BY DEF UnlinkInv
<1> USE Apart, Different
<1>1. TypeOK /\ job.files \in [Pkgs -> SUBSET Rels] /\ job.start \in [Rels -> Objects]
  BY InitStep, JobShape DEF IInv
<1>2. \A t \in Pkgs : Unlinks(t)
  BY DEF Init, Unlinks, Unlinking
<1>3. LinksListed
  BY <1>1 DEF Init, LinksListed, LinksBelong
<1>4. EmptyGoes
  <2> SUFFICES ASSUME NEW d \in dirs PROVE ~Empty(d)
    BY DEF EmptyGoes
  <2>1. PICK r \in Rels : job.start[r] # None /\ d \in DirsOf(r)
    BY DEF Init
  <2>2. PICK k \in 1 .. Len(r) - 1 : d = SubSeq(r, 1, k)
    BY <2>1 DEF DirsOf
  <2>3. r \in Seq(Names) /\ Len(r) \in Nat /\ at[r] # None
    BY <2>1, RelShape DEF Init
  <2>4. CASE k = Len(r) - 1
    <3>1. Front(r) = d
      BY <2>2, <2>4 DEF Front
    <3> QED BY <2>3, <3>1 DEF Empty
  <2>5. CASE k # Len(r) - 1
    <3> DEFINE e == SubSeq(r, 1, k + 1)
    <3>1. k + 1 \in 1 .. Len(r) - 1
      BY <2>2, <2>3, <2>5
    <3>2. e \in dirs
      BY <2>1, <3>1 DEF Init, DirsOf
    <3>3. e \in Seq(Names) /\ Len(e) = k + 1 /\ Len(d) = k
      BY <2>2, <2>3, <3>1
    <3>4. Front(e) = d
      BY <2>2, <2>3, <3>1, <3>3 DEF Front
    <3> QED BY <3>2, <3>3, <3>4 DEF Empty
  <2> QED BY <2>4, <2>5
<1> QED BY <1>2, <1>3, <1>4 DEF UnlinkInv

\* An unlink command makes nothing, and removes the links of its own packages.
RemovesOwn(t) ==
    \A r \in Rels : at'[r] = at[r] \/ (at[r] = t /\ at'[r] = None)

LEMMA OthersUnlink ==
    ASSUME NEW t \in Pkgs, Alone(t), RemovesOwn(t), NEW u \in Pkgs \ {t}, Unlinks(u)
    PROVE  Unlinks(u)'
<1> USE Apart
<1>1. pc[u] \in {"unlink", "rmdir"} => rel[u] \in Rels
  BY DEF Unlinks
<1> QED BY <1>1 DEF Alone, RemovesOwn, Unlinks

\* The directories stay, and none of them gets empty.
LEMMA QuietUnlink ==
    ASSUME IInv, UnlinkInv, job.command = "unlink", NEW t \in Pkgs, Alone(t), UNCHANGED treeVars,
           pc[t] = "rmdir" => ~(num[t] > 0 /\ SubSeq(rel[t], 1, num[t]) \in dirs
                                  /\ Empty(SubSeq(rel[t], 1, num[t]))),
           \A r \in todo[t] \ todo'[t] : at[r] # t, Unlinks(t)'
    PROVE  UnlinkInv'
<1>1. \A u \in Pkgs : Unlinks(u)'
  BY OthersUnlink DEF UnlinkInv, RemovesOwn, treeVars
<1>2. LinksListed'
  <2>1. at' = at /\ job' = job
    BY DEF treeVars, Alone
  <2>2. \A u \in Pkgs \ {t} : todo'[u] = todo[u]
    BY DEF Alone
  <2> QED BY <2>1, <2>2 DEF UnlinkInv, LinksListed, LinksBelong
<1>3. EmptyGoes'
  <2> SUFFICES ASSUME NEW d \in dirs, Empty(d) PROVE \E u \in Pkgs : AtDir(u, d)'
    BY DEF EmptyGoes, Empty, treeVars
  <2>1. PICK u \in Pkgs : AtDir(u, d)
    BY DEF UnlinkInv, EmptyGoes
  <2>2. d \in AllDirs
    BY DEF IInv, TypeOK
  <2>3. Len(d) > 0
    BY <2>2, DirShape
  <2>4. u # t
    <3> SUFFICES ASSUME u = t PROVE FALSE
      OBVIOUS
    <3>1. pc[t] = "rmdir" /\ num[t] > 0 /\ SubSeq(rel[t], 1, num[t]) = d
      BY <2>1, <2>3 DEF AtDir
    <3> QED BY <3>1
  <2> QED BY <2>1, <2>4 DEF AtDir, Alone
<1> QED BY <1>1, <1>2, <1>3 DEF UnlinkInv

LEMMA CheckLinkUnlinks ==
    ASSUME IInv, UnlinkInv, job.command = "unlink", NEW t \in Pkgs, Alone(t), CheckLink(t)
    PROVE  UnlinkInv'
<1>1. Unlinks(t) /\ job.files[t] \subseteq Rels
  BY JobShape DEF UnlinkInv, IInv
<1>2. PICK r \in todo[t] :
          /\ rel' = [rel EXCEPT ![t] = r]
          /\ \/ at[r] = t /\ Go(t, "check", "unlink") /\ UNCHANGED todo
             \/ at[r] # t /\ Go(t, "check", "check") /\ todo' = [todo EXCEPT ![t] = @ \ {r}]
  BY <1>1 DEF CheckLink, TakeUp, Unlinks
<1>3. UNCHANGED <<at, treeVars, num, victim, resume, failed, job>> /\ pc[t] = "check"
  BY DEF CheckLink, treeVars, unlVars, Go
<1>4. Unlinks(t)'
  BY <1>1, <1>2, <1>3 DEF Unlinks, Unlinking, Go, IInv, TypeOK
<1>5. \A s \in todo[t] \ todo'[t] : at[s] # t
  BY <1>2 DEF IInv, TypeOK
<1> QED BY <1>3, <1>4, <1>5, QuietUnlink

LEMMA UnlinkReturnsUnlinks ==
    ASSUME IInv, UnlinkInv, job.command = "unlink", NEW t \in Pkgs, Alone(t), UnlinkReturns(t)
    PROVE  UnlinkInv'
<1>1. Unlinks(t)
  BY DEF UnlinkInv
<1>2. UNCHANGED <<treeVars, num, todo, rel, victim, resume, failed, job>> /\ pc[t] = "check"
  BY DEF UnlinkReturns, treeVars, unlVars, Go
<1>3. pc'[t] = "done" /\ todo[t] = {}
  BY <1>1 DEF UnlinkReturns, Go, IInv, TypeOK, Unlinks
<1>4. Unlinks(t)'
  BY <1>1, <1>2, <1>3 DEF Unlinks
<1> QED BY <1>2, <1>4, QuietUnlink

\* The thread that removes the last thing in a directory goes on to remove it.
LEMMA UnlinkLinkUnlinks ==
    ASSUME IInv, UnlinkInv, job.command = "unlink", NEW t \in Pkgs, Alone(t), UnlinkLink(t)
    PROVE  UnlinkInv'
<1> DEFINE r == rel[t]
<1> USE Apart
<1>1. Unlinks(t) /\ job.files[t] \subseteq Rels
  BY JobShape DEF UnlinkInv, IInv
<1>2. r \in Rels /\ at[r] = t /\ pc[t] = "unlink"
  BY <1>1 DEF Unlinks, UnlinkLink
<1>3. /\ at' = [at EXCEPT ![r] = None] /\ num' = [num EXCEPT ![t] = Len(r) - 1]
      /\ Go(t, "unlink", "rmdir")
      /\ UNCHANGED <<dirs, tmp, backup, todo, rel, victim, resume, failed, job>>
  BY <1>2 DEF UnlinkLink, Go, unlVars
<1>4. pc'[t] = "rmdir" /\ num'[t] = Len(r) - 1 /\ at'[r] = None
  BY <1>2, <1>3 DEF Go, IInv, TypeOK
<1>5. r \in Seq(Names) /\ Len(r) \in Nat /\ Len(r) >= 1
  BY <1>2, RelShape
<1>6. Unlinks(t)'
  BY <1>1, <1>2, <1>3, <1>4, <1>5 DEF Unlinks, Unlinking
<1>7. RemovesOwn(t)
  BY <1>2, <1>3 DEF RemovesOwn, IInv, TypeOK
<1>8. \A u \in Pkgs : Unlinks(u)'
  BY <1>6, <1>7, OthersUnlink DEF UnlinkInv
<1>9. LinksListed'
  BY <1>2, <1>3, <1>7 DEF UnlinkInv, LinksListed, LinksBelong, RemovesOwn
<1>10. EmptyGoes'
  <2> SUFFICES ASSUME NEW d \in dirs, Empty(d)' PROVE \E u \in Pkgs : AtDir(u, d)'
    BY <1>3 DEF EmptyGoes
  <2>1. d \in AllDirs /\ Len(d) \in Nat
    BY DirShape DEF IInv, TypeOK
  <2>2. CASE Empty(d)
    <3>1. PICK u \in Pkgs : AtDir(u, d)
      BY <2>2 DEF UnlinkInv, EmptyGoes
    <3>2. u # t
      BY <1>2, <3>1 DEF AtDir
    <3> QED BY <3>1, <3>2 DEF AtDir, Alone
  <2>3. CASE ~Empty(d)
    <3>1. Front(r) = d
      BY <1>2, <1>3, <2>3 DEF Empty, IInv, TypeOK
    <3>2. d = SubSeq(r, 1, Len(r) - 1) /\ Len(d) = Len(r) - 1
      BY <1>5, <3>1 DEF Front
    <3>3. AtDir(t, d)'
      BY <1>3, <1>4, <3>2 DEF AtDir
    <3> QED BY <3>3
  <2> QED BY <2>2, <2>3
<1> QED BY <1>8, <1>9, <1>10 DEF UnlinkInv

\* So does the thread that removes the last directory in one.
LEMMA RemoveParentUnlinks ==
    ASSUME IInv, UnlinkInv, job.command = "unlink", NEW t \in Pkgs, Alone(t), RemoveParent(t)
    PROVE  UnlinkInv'
<1> DEFINE x == SubSeq(rel[t], 1, num[t])
<1> USE Apart
<1>1. Unlinks(t) /\ pc[t] = "rmdir"
  BY DEF UnlinkInv, RemoveParent
<1>2. rel[t] \in Seq(Names) /\ Len(rel[t]) \in Nat /\ num[t] \in Nat /\ num[t] < Len(rel[t])
  BY <1>1, RelShape DEF Unlinks, IInv, TypeOK
<1>3. CASE /\ num[t] > 0 /\ x \in dirs /\ Empty(x)
           /\ Go(t, "rmdir", "rmdir") /\ dirs' = dirs \ {x}
           /\ num' = [num EXCEPT ![t] = @ - 1] /\ UNCHANGED todo
  <2>1. UNCHANGED <<at, tmp, backup, todo, rel, victim, resume, failed, job>>
    BY <1>3 DEF RemoveParent, Go, unlVars
  <2>2. pc'[t] = "rmdir" /\ num'[t] = num[t] - 1
    BY <1>3 DEF Go, IInv, TypeOK
  <2>3. Unlinks(t)'
    BY <1>1, <1>2, <2>1, <2>2 DEF Unlinks
  <2>4. \A u \in Pkgs : Unlinks(u)'
    BY <2>1, <2>3, OthersUnlink DEF UnlinkInv, RemovesOwn
  <2>5. LinksListed'
    BY <2>1 DEF UnlinkInv, LinksListed, LinksBelong
  <2>6. EmptyGoes'
    <3> SUFFICES ASSUME NEW d \in dirs \ {x}, Empty(d)' PROVE \E u \in Pkgs : AtDir(u, d)'
      BY <1>3 DEF EmptyGoes
    <3>1. d \in AllDirs /\ Len(d) \in Nat /\ Len(d) >= 1
      BY DirShape DEF IInv, TypeOK
    <3>2. CASE Empty(d)
      <4>1. PICK u \in Pkgs : AtDir(u, d)
        BY <3>2 DEF UnlinkInv, EmptyGoes
      <4>2. u # t
        BY <4>1 DEF AtDir
      <4> QED BY <4>1, <4>2 DEF AtDir, Alone
    <3>3. CASE ~Empty(d)
      <4>1. Len(x) = Len(d) + 1 /\ Front(x) = d
        BY <1>3, <2>1, <3>3 DEF Empty
      <4>2. x \in Seq(Names) /\ Len(x) = num[t]
        BY <1>2, <1>3
      <4>3. d = SubSeq(rel[t], 1, num[t] - 1) /\ Len(d) = num[t] - 1
        BY <1>2, <1>3, <3>1, <4>1, <4>2 DEF Front
      <4>4. AtDir(t, d)'
        BY <2>1, <2>2, <4>3 DEF AtDir
      <4> QED BY <4>4
    <3> QED BY <3>2, <3>3
  <2> QED BY <2>4, <2>5, <2>6 DEF UnlinkInv
<1>4. CASE /\ ~(num[t] > 0 /\ x \in dirs /\ Empty(x))
           /\ Go(t, "rmdir", "check") /\ Drop(t) /\ UNCHANGED <<dirs, num>>
  <2>1. UNCHANGED <<treeVars, num, rel, victim, resume, failed, job>>
    BY <1>4 DEF RemoveParent, Go, unlVars, treeVars
  <2>2. pc'[t] = "check" /\ todo'[t] = todo[t] \ {rel[t]}
    BY <1>4 DEF Go, Drop, IInv, TypeOK
  <2>3. Unlinks(t)'
    BY <1>1, <2>1, <2>2 DEF Unlinks, Unlinking
  <2>4. \A r \in todo[t] \ todo'[t] : at[r] # t
    BY <1>1, <2>2 DEF Unlinks
  <2> QED BY <1>4, <2>1, <2>3, <2>4, QuietUnlink
<1> QED BY <1>3, <1>4 DEF RemoveParent

LEMMA NextUnlink == IInv /\ UnlinkInv /\ [Next]_vars => UnlinkInv'
<1> SUFFICES ASSUME IInv, UnlinkInv, [Next]_vars PROVE UnlinkInv'
  OBVIOUS
<1>1. ASSUME NEW t \in Pkgs, Step(t) PROVE UnlinkInv'
  <2>1. Alone(t) /\ job' = job
    BY <1>1, StepAlone DEF Alone
  <2> SUFFICES ASSUME job.command = "unlink" PROVE UnlinkInv'
    BY <2>1 DEF UnlinkInv
  <2>2. pc[t] \in {"check", "unlink", "rmdir", "done"}
    BY DEF UnlinkInv, Unlinks, Unlinking
  <2>3. CheckLink(t) \/ UnlinkLink(t) \/ RemoveParent(t) \/ UnlinkReturns(t)
    BY <1>1, <2>2
      DEF Step, Go, Exclude, BeginDetect, Detect, Evict, BeginMkdir, NextDir, Mkdir, StatDir,
          DirsMade, LStat, ReadLink, SymlinkTmp, RenameTmp, Probe, BackUp, MakeLink, LinkReturns,
          Linked

  <2> QED BY <2>1, <2>3, CheckLinkUnlinks, UnlinkLinkUnlinks, RemoveParentUnlinks,
       UnlinkReturnsUnlinks
<1>2. CASE UNCHANGED vars
  BY <1>2
    DEF vars, treeVars, unlVars, UnlinkInv, EmptyGoes, Empty, AtDir, LinksListed, LinksBelong,
        Unlinks


<1> QED BY <1>1, <1>2 DEF Next

-----------------------------------------------------------------------------
(* link, without conflicts *)

LEMMA OneLess == \A n \in Nat : n >= 1 /\ n # 1 => n - 1 \in 1 .. n /\ n - 1 \in 1 .. n - 1
OBVIOUS

\* The parent of a file.
LEMMA FrontShape ==
    ASSUME NEW r \in Rels
    PROVE  Front(r) = SubSeq(r, 1, Len(r) - 1) /\ (Front(r) = <<>> => Len(r) = 1)
<1>1. Front(r) = SubSeq(r, 1, Len(r) - 1)
  BY DEF Front
<1>2. r \in Seq(Names) /\ Len(r) \in Nat /\ Len(r) >= 1
  BY RelShape
<1>3. Len(r) \in Nat /\ Len(r) >= 1
  BY <1>2
<1>4. SubSeq(r, 1, Len(r) - 1) = <<>> => Len(r) = 1
  <2>1. CASE Len(r) # 1
    <3>1. Len(r) - 1 \in 1 .. Len(r)
      BY <1>3, <2>1, OneLess
    <3>2. Len(SubSeq(r, 1, Len(r) - 1)) = Len(r) - 1
      BY <1>2, <3>1
    <3> QED BY <1>2, <2>1, <3>2
  <2> QED BY <2>1
<1> QED BY <1>1, <1>4

\* A prefix of a path.
LEMMA PrefixShape ==
    ASSUME NEW d \in AllDirs, NEW n \in 1 .. Len(d)
    PROVE  /\ SubSeq(d, 1, n) \in Seq(Names) /\ Len(SubSeq(d, 1, n)) = n
           /\ n # 1 => Front(SubSeq(d, 1, n)) = SubSeq(d, 1, n - 1)
           /\ n = Len(d) => SubSeq(d, 1, n) = d
<1>1. d \in Seq(Names) /\ Len(d) \in Nat /\ Len(d) >= 1
  BY DirShape
<1>2. SubSeq(d, 1, n) \in Seq(Names) /\ Len(SubSeq(d, 1, n)) = n
  BY <1>1
<1>3. n # 1 => SubSeq(SubSeq(d, 1, n), 1, n - 1) = SubSeq(d, 1, n - 1)
  BY <1>1
<1> QED BY <1>1, <1>2, <1>3 DEF Front

LEMMA InitLink == Init => LinkInv
<1> SUFFICES ASSUME Init, job.command = "link", Peaceful
             PROVE  LinkInv
  BY DEF LinkInv
<1>1. TypeOK /\ job.conflicts \in [Pkgs -> SUBSET Pkgs]
  BY InitStep, JobShape DEF IInv
<1>2. \A t \in Pkgs : Links(t)
  BY <1>1 DEF Init, Links, Peaceful, MakingDirs, Pass2, Placing
<1>3. \A r \in Rels : at[r] \in Pkgs => r \in job.files[at[r]]
  BY DEF Init, Peaceful, LinksBelong
<1> QED BY <1>2, <1>3 DEF LinkInv

\* A thread makes directories, and changes the target paths of its files only.
StaysOut(t) ==
    /\ dirs \subseteq dirs'
    /\ \A r \in Rels : at'[r] = at[r] \/ (r \in job.files[t] /\ at'[r] \in {None, t})

\* That disturbs no other thread.
LEMMA OthersLink ==
    ASSUME IInv, Peaceful, NEW t \in Pkgs, Alone(t), StaysOut(t), NEW u \in Pkgs \ {t}, Links(u)
    PROVE  Links(u)'
<1>1. Loops(u) /\ job.files[u] \subseteq Rels
  BY JobShape DEF IInv
<1>2. \A r \in job.files[u] : at'[r] = at[r]
  BY <1>1 DEF Peaceful, Disjoint, StaysOut
<1>3. \A r : HasParent(r) => HasParent(r)'
  BY DEF HasParent, StaysOut
<1>4. /\ pc'[u] = pc[u] /\ todo'[u] = todo[u] /\ rel'[u] = rel[u] /\ num'[u] = num[u]
      /\ victims'[u] = victims[u] /\ failed'[u] = failed[u] /\ job' = job
  BY DEF Alone
<1>5. pc[u] \in Placing => rel[u] \in job.files[u]
  BY <1>1 DEF Loops
<1>6. /\ pc[u] \in {"probe", "rename"} => at'[rel[u]] = User
      /\ pc[u] = "symlink" => at'[rel[u]] = None
  BY <1>2, <1>5 DEF Links, Placing
<1>7. /\ pc[u] \in MakingDirs => \A r \in job.files[u] : HasParent(r)' \/ Front(r) \in todo[u]
      /\ pc[u] \in Pass2 => \A r \in job.files[u] : HasParent(r)'
      /\ pc[u] \in Pass2 \union {"done"} => \A r \in job.files[u] \ todo[u] : at'[r] = u
  BY <1>2, <1>3 DEF Links
<1>8. /\ pc[u] \in {"mkdir", "stat"} =>
            \A k \in 1 .. num[u] - 1 : SubSeq(rel[u], 1, k) \in dirs'
      /\ pc[u] = "stat" => SubSeq(rel[u], 1, num[u]) \in dirs'
  BY DEF Links, StaysOut
<1> QED BY <1>4, <1>6, <1>7, <1>8 DEF Links

LEMMA LinkStep ==
    ASSUME IInv, LinkInv, job.command = "link", Peaceful, NEW t \in Pkgs, Alone(t), StaysOut(t),
           Links(t)'
    PROVE  LinkInv'
<1>1. \A u \in Pkgs : Links(u)'
  BY OthersLink DEF LinkInv
<1>2. \A r \in Rels : at'[r] \in Pkgs => r \in job'.files[at'[r]]
  BY Apart DEF LinkInv, StaysOut, Alone
<1> QED BY <1>1, <1>2 DEF LinkInv

\* The next directory of a path, when the last one is there.
LEMMA ComponentLinks ==
    ASSUME IInv, NEW t \in Pkgs, Links(t), NEW s, Component(t, s), pc[t] \in {"mkdir", "stat"},
           SubSeq(rel[t], 1, num[t]) \in dirs', dirs \subseteq dirs',
           UNCHANGED <<at, rel, victims, failed>>
    PROVE  Links(t)'
<1>1. rel[t] \in AllDirs /\ num[t] \in 1 .. Len(rel[t]) /\ Len(rel[t]) \in Nat
  BY DirShape DEF IInv, Loops
<1>2. \A k \in 1 .. num[t] : SubSeq(rel[t], 1, k) \in dirs'
  BY <1>1 DEF Links
<1>3. \A r : HasParent(r) => HasParent(r)'
  BY DEF HasParent
<1>4. \A r \in job.files[t] : HasParent(r)' \/ Front(r) \in todo[t]
  BY <1>3 DEF Links, MakingDirs
<1>5. CASE num[t] = Len(rel[t])
  <2>1. rel[t] \in dirs'
    BY <1>1, <1>5, PrefixShape
  <2>2. pc'[t] = "next-dir" /\ todo'[t] = todo[t] \ {rel[t]} /\ job' = job
    BY <1>5 DEF Component, Go, Drop, IInv, TypeOK
  <2>3. \A r \in job.files[t] : HasParent(r)' \/ Front(r) \in todo'[t]
    BY <1>4, <2>1, <2>2 DEF HasParent
  <2> QED BY <2>2, <2>3 DEF Links, MakingDirs, Pass2, Placing
<1>6. CASE num[t] # Len(rel[t])
  <2>1. pc'[t] = "mkdir" /\ todo'[t] = todo[t] /\ num'[t] = num[t] + 1 /\ job' = job
    BY <1>6 DEF Component, Go, IInv, TypeOK
  <2>2. \A k \in 1 .. num'[t] - 1 : SubSeq(rel[t], 1, k) \in dirs'
    BY <1>1, <1>2, <2>1
  <2> QED BY <1>4, <2>1, <2>2 DEF Links, MakingDirs, Pass2, Placing
<1> QED BY <1>5, <1>6

\* Before pass 1 nothing is in the way.
LEMMA BeginLinks ==
    ASSUME IInv, LinkInv, job.command = "link", Peaceful, NEW t \in Pkgs,
           BeginDetect(t) \/ Detect(t) \/ BeginMkdir(t)
    PROVE  Links(t)' /\ dirs' = dirs /\ at' = at
<1>1. /\ Links(t) /\ job.files[t] \subseteq Rels
      /\ \A r \in Rels : at[r] \in Pkgs => r \in job.files[at[r]]
  BY JobShape DEF LinkInv, IInv
<1>2. UNCHANGED <<dirs, at, rel, num, failed>>
  BY DEF BeginDetect, Detect, BeginMkdir, treeVars, unlVars
<1>3. CASE BeginDetect(t)
  <2>1. pc'[t] = "detect" /\ todo'[t] = job.files[t] /\ victims' = victims /\ job' = job
    BY <1>3 DEF BeginDetect, Go, unlVars, IInv, TypeOK
  <2> QED BY <1>1, <1>2, <2>1 DEF Links, MakingDirs, Pass2, Placing
<1>4. CASE Detect(t)
  <2>1. PICK r \in todo[t] :
            /\ todo' = [todo EXCEPT ![t] = @ \ {r}]
            /\ victims' = [victims EXCEPT ![t] = @ \union (({at[r]} \intersect Pkgs) \ {t})]
    BY <1>4 DEF Detect
  <2>2. pc[t] = "detect" /\ pc'[t] = "detect" /\ job' = job
    BY <1>4 DEF Detect, Go, IInv, TypeOK
  <2>3. r \in job.files[t]
    BY <1>1, <2>2 DEF Links
  <2>4. at[r] \in Pkgs => at[r] = t
    BY <1>1, <2>3 DEF Peaceful, Disjoint
  <2>5. victims'[t] = {} /\ todo'[t] \subseteq todo[t]
    BY <1>1, <2>1, <2>4 DEF IInv, TypeOK, Links
  <2> QED BY <1>1, <1>2, <2>2, <2>5 DEF Links, MakingDirs, Pass2, Placing
<1>5. CASE BeginMkdir(t)
  <2>1. /\ pc'[t] = "next-dir" /\ victims' = victims /\ job' = job
        /\ todo'[t] = {Front(r) : r \in job.files[t]} \ {<<>>}
    BY <1>5 DEF BeginMkdir, Go, unlVars, IInv, TypeOK
  <2>2. ASSUME NEW r \in job.files[t] PROVE HasParent(r)' \/ Front(r) \in todo'[t]
    <3>1. Front(r) = <<>> => Len(r) = 1
      BY <1>1, FrontShape
    <3> QED BY <2>1, <3>1 DEF HasParent
  <2> QED BY <1>1, <1>2, <2>1, <2>2 DEF Links, MakingDirs, Pass2, Placing
<1> QED BY <1>2, <1>3, <1>4, <1>5

\* Pass 1 makes each directory, whoever else makes it at the same time.
LEMMA Pass1Links ==
    ASSUME IInv, NEW t \in Pkgs, Links(t),
           NextDir(t) \/ Mkdir(t) \/ StatDir(t) \/ DirsMade(t)
    PROVE  Links(t)' /\ dirs \subseteq dirs' /\ at' = at
<1>1. UNCHANGED <<at, failed, victims>>
  BY DEF NextDir, Mkdir, StatDir, DirsMade, treeVars, unlVars
<1>2. CASE NextDir(t)
  <2>1. pc[t] = "next-dir" /\ pc'[t] = "mkdir" /\ num'[t] = 1 /\ UNCHANGED <<dirs, todo, job>>
    BY <1>2 DEF NextDir, Go, treeVars, IInv, TypeOK
  <2> QED BY <1>1, <2>1 DEF Links, HasParent, MakingDirs, Pass2, Placing
<1>3. CASE Mkdir(t)
  <2> DEFINE d == SubSeq(rel[t], 1, num[t])
  <2>1. pc[t] = "mkdir" /\ UNCHANGED rel
    BY <1>3 DEF Mkdir
  <2>2. rel[t] \in AllDirs /\ num[t] \in 1 .. Len(rel[t]) /\ Len(rel[t]) \in Nat
    BY <2>1, DirShape DEF IInv, Loops
  <2>3. HasParent(d)
    <3>1. num[t] # 1 => SubSeq(rel[t], 1, num[t] - 1) \in dirs
      BY <2>1, <2>2 DEF Links
    <3> QED BY <2>2, <3>1, PrefixShape DEF HasParent
  <2>4. CASE d \in dirs
    <3>1. pc'[t] = "stat" /\ UNCHANGED <<dirs, todo, num, job>>
      BY <1>3, <2>4 DEF Mkdir, Go, IInv, TypeOK
    <3> QED BY <1>1, <2>1, <2>4, <3>1 DEF Links, HasParent, MakingDirs, Pass2, Placing
  <2>5. CASE d \notin dirs
    <3>1. dirs' = dirs \union {d} /\ Component(t, "mkdir")
      BY <1>3, <2>3, <2>5 DEF Mkdir
    <3> QED BY <1>1, <2>1, <3>1, ComponentLinks
  <2> QED BY <2>4, <2>5
<1>4. CASE StatDir(t)
  <2>1. pc[t] = "stat" /\ UNCHANGED <<dirs, rel>> /\ SubSeq(rel[t], 1, num[t]) \in dirs
    BY <1>4 DEF StatDir, treeVars, Links
  <2>2. Component(t, "stat")
    BY <1>4, <2>1 DEF StatDir
  <2> QED BY <1>1, <2>1, <2>2, ComponentLinks
<1>5. CASE DirsMade(t)
  <2>1. /\ pc[t] = "next-dir" /\ pc'[t] = "lstat" /\ todo[t] = {} /\ todo'[t] = job.files[t]
        /\ UNCHANGED <<dirs, job>>
    BY <1>5 DEF DirsMade, Go, treeVars, IInv, TypeOK
  <2> QED BY <1>1, <2>1 DEF Links, HasParent, MakingDirs, Pass2, Placing
<1> QED BY <1>2, <1>3, <1>4, <1>5

\* A thread of pass 2 is done with the path it works on.
LEMMA LinkedLinks ==
    ASSUME IInv, NEW t \in Pkgs, Links(t), NEW s, Linked(t, s), pc[t] \in Placing,
           at'[rel[t]] = t, \A r \in Rels \ {rel[t]} : at'[r] = at[r], UNCHANGED <<dirs, victims>>
    PROVE  Links(t)'
<1>1. rel[t] \in job.files[t] /\ job.files[t] \subseteq Rels
  BY JobShape DEF IInv, Loops
<1>2. pc'[t] = "lstat" /\ todo'[t] = todo[t] \ {rel[t]} /\ UNCHANGED <<failed, job>>
  BY DEF Linked, Go, Drop, IInv, TypeOK
<1>3. \A r \in job.files[t] \ todo'[t] : at'[r] = t
  BY <1>1, <1>2 DEF Links, Pass2
<1> QED BY <1>2, <1>3 DEF Links, HasParent, MakingDirs, Pass2, Placing

\* Pass 2 makes each link.
LEMMA Pass2Links ==
    ASSUME IInv, LinkInv, job.command = "link", Peaceful, NEW t \in Pkgs, Links(t),
           \/ LStat(t) \/ ReadLink(t) \/ SymlinkTmp(t) \/ RenameTmp(t)
           \/ Probe(t) \/ BackUp(t) \/ MakeLink(t) \/ LinkReturns(t)
    PROVE  Links(t)' /\ StaysOut(t)
<1> DEFINE r == rel[t]
<1> USE Apart, Different
<1>1. UNCHANGED <<dirs, victims>>
  BY
    DEF LStat, ReadLink, SymlinkTmp, RenameTmp, Probe, BackUp, MakeLink, LinkReturns, treeVars,
        unlVars




<1>2. pc[t] \in Placing => r \in job.files[t] /\ r \in Rels /\ HasParent(r)
  BY JobShape DEF IInv, Loops, Links, Pass2
<1>3. CASE LStat(t)
  <2>1. PICK x \in todo[t] :
            /\ rel' = [rel EXCEPT ![t] = x]
            /\ Go(t, "lstat", CASE at[x] = None -> "symlink"
                                [] at[x] = User -> "probe"
                                [] OTHER        -> "readlink")
    BY <1>3 DEF LStat, TakeUp
  <2>2. /\ rel'[t] = x /\ pc[t] = "lstat"
        /\ pc'[t] = CASE at[x] = None -> "symlink" [] at[x] = User -> "probe"
                      [] OTHER        -> "readlink"
    BY <2>1 DEF Go, IInv, TypeOK
  <2>3. UNCHANGED <<at, todo, failed, job>>
    BY <1>3 DEF LStat, Go, treeVars
  <2> QED BY <1>1, <2>2, <2>3 DEF Links, StaysOut, HasParent, MakingDirs, Pass2, Placing
<1>4. CASE ReadLink(t)
  <2>1. pc[t] = "readlink" /\ UNCHANGED <<at, rel>>
    BY <1>4 DEF ReadLink, treeVars
  <2>2. CASE at[r] = t /\ Linked(t, "readlink")
    BY <1>1, <2>1, <2>2, LinkedLinks DEF Placing, StaysOut
  <2>3. CASE Go(t, "readlink", "symlink-tmp") /\ UNCHANGED <<todo, failed>>
    <3>1. pc'[t] = "symlink-tmp" /\ job' = job
      BY <2>3 DEF Go, IInv, TypeOK
    <3> QED BY <1>1, <2>1, <2>3, <3>1 DEF Links, StaysOut, HasParent, MakingDirs, Pass2, Placing
  <2> QED BY <1>4, <2>2, <2>3 DEF ReadLink
<1>5. CASE SymlinkTmp(t)
  <2>1. pc[t] = "symlink-tmp" /\ UNCHANGED <<at, rel>>
    BY <1>5 DEF SymlinkTmp
  <2>2. tmp[r] = None
    <3> SUFFICES ASSUME tmp[r] # None PROVE FALSE
      OBVIOUS
    <3>1. tmp[r] \in Pkgs /\ pc[tmp[r]] = "rename-tmp" /\ rel[tmp[r]] = r
      BY <1>2, <2>1 DEF IInv, Owned, Placing
    <3>2. r \in job.files[tmp[r]]
      BY <3>1 DEF IInv, Loops, Placing
    <3> QED BY <1>2, <2>1, <3>1, <3>2 DEF Peaceful, Disjoint, Placing
  <2>3. Go(t, "symlink-tmp", "rename-tmp") /\ UNCHANGED <<todo, failed>>
    BY <1>2, <1>5, <2>1, <2>2 DEF SymlinkTmp, Placing
  <2>4. pc'[t] = "rename-tmp" /\ job' = job
    BY <2>3 DEF Go, IInv, TypeOK
  <2> QED BY <1>1, <2>1, <2>3, <2>4 DEF Links, StaysOut, HasParent, MakingDirs, Pass2, Placing
<1>6. CASE RenameTmp(t)
  <2>1. pc[t] = "rename-tmp" /\ Linked(t, "rename-tmp")
    BY <1>6 DEF RenameTmp, Linked, Go
  <2>2. at' = [at EXCEPT ![r] = t]
    BY <1>6, <2>1 DEF RenameTmp, IInv, Owned
  <2>3. at'[r] = t /\ \A s \in Rels \ {r} : at'[s] = at[s]
    BY <1>2, <2>1, <2>2 DEF IInv, TypeOK, Placing
  <2> QED BY <1>1, <1>2, <2>1, <2>3, LinkedLinks DEF Placing, StaysOut
<1>7. CASE Probe(t)
  <2>1. pc[t] = "probe" /\ pc'[t] = "rename" /\ UNCHANGED <<at, todo, rel, failed, job>>
    BY <1>7 DEF Probe, Go, treeVars, IInv, TypeOK
  <2> QED BY <1>1, <2>1 DEF Links, StaysOut, HasParent, MakingDirs, Pass2, Placing
<1>8. CASE BackUp(t)
  <2>1. pc[t] = "rename" /\ at[r] = User
    BY <1>8 DEF BackUp, Links
  <2>2. /\ Go(t, "rename", "symlink") /\ at' = [at EXCEPT ![r] = None]
        /\ UNCHANGED <<todo, failed, rel>>
    BY <1>8, <2>1 DEF BackUp
  <2>3. pc'[t] = "symlink" /\ job' = job
    BY <2>2 DEF Go, IInv, TypeOK
  <2>4. at'[r] = None /\ \A s \in Rels \ {r} : at'[s] = at[s]
    BY <1>2, <2>1, <2>2 DEF IInv, TypeOK, Placing
  <2>5. \A s \in job.files[t] \ todo[t] : at'[s] = t
    <3>1. \A s \in job.files[t] \ todo[t] : at[s] = t /\ s \in Rels
      BY <2>1, JobShape DEF IInv, Links, Pass2, Placing
    <3>2. \A s \in job.files[t] \ todo[t] : s # r
      BY <2>1, <3>1
    <3> QED BY <2>4, <3>1, <3>2
  <2>6. StaysOut(t)
    BY <1>1, <1>2, <2>1, <2>4 DEF StaysOut, Placing
  <2> QED BY <1>1, <2>1, <2>2, <2>3, <2>4, <2>5, <2>6
    DEF Links, HasParent, MakingDirs, Pass2, Placing
<1>9. CASE MakeLink(t)
  <2>1. pc[t] = "symlink" /\ at[r] = None
    BY <1>9 DEF MakeLink, Links
  <2>2. Linked(t, "symlink") /\ at' = [at EXCEPT ![r] = t]
    BY <1>2, <1>9, <2>1 DEF MakeLink, Placing
  <2>3. at'[r] = t /\ \A s \in Rels \ {r} : at'[s] = at[s]
    BY <1>2, <2>1, <2>2 DEF IInv, TypeOK, Placing
  <2> QED BY <1>1, <1>2, <2>1, <2>2, <2>3, LinkedLinks DEF Placing, StaysOut
<1>10. CASE LinkReturns(t)
  <2>1. /\ pc[t] = "lstat" /\ pc'[t] = "done" /\ todo[t] = {}
        /\ UNCHANGED <<at, todo, rel, failed, job>>
    BY <1>10 DEF LinkReturns, Go, treeVars, IInv, TypeOK
  <2> QED BY <1>1, <2>1 DEF Links, StaysOut, HasParent, MakingDirs, Pass2, Placing
<1> QED BY <1>3, <1>4, <1>5, <1>6, <1>7, <1>8, <1>9, <1>10

LEMMA NextLink == IInv /\ LinkInv /\ [Next]_vars => LinkInv'
<1> SUFFICES ASSUME IInv, LinkInv, [Next]_vars PROVE LinkInv'
  OBVIOUS
<1>1. ASSUME NEW t \in Pkgs, Step(t) PROVE LinkInv'
  <2>1. Alone(t) /\ job' = job
    BY <1>1, StepAlone DEF Alone
  <2> SUFFICES ASSUME job.command = "link", Peaceful PROVE LinkInv'
    BY <2>1 DEF LinkInv, Peaceful, Disjoint, LinksBelong
  <2>2. Links(t)
    BY DEF LinkInv
  <2>3. /\ pc[t] \in {"exclude", "detect", "done", "next-dir", "mkdir", "stat"}
                      \union Placing \union {"lstat"}
        /\ victims[t] = {}
    BY <2>2 DEF Links, MakingDirs, Pass2
  <2>4. \/ BeginDetect(t) \/ Detect(t) \/ BeginMkdir(t)
        \/ NextDir(t) \/ Mkdir(t) \/ StatDir(t) \/ DirsMade(t)
        \/ LStat(t) \/ ReadLink(t) \/ SymlinkTmp(t) \/ RenameTmp(t)
        \/ Probe(t) \/ BackUp(t) \/ MakeLink(t) \/ LinkReturns(t)
    BY <1>1, <2>3
      DEF Step, Go, Exclude, Evict, CheckLink, UnlinkLink, RemoveParent, UnlinkReturns, Placing
  <2>5. CASE BeginDetect(t) \/ Detect(t) \/ BeginMkdir(t)
    BY <2>1, <2>5, BeginLinks, LinkStep DEF StaysOut
  <2>6. CASE NextDir(t) \/ Mkdir(t) \/ StatDir(t) \/ DirsMade(t)
    BY <2>1, <2>2, <2>6, Pass1Links, LinkStep DEF StaysOut
  <2>7. CASE \/ LStat(t) \/ ReadLink(t) \/ SymlinkTmp(t) \/ RenameTmp(t)
             \/ Probe(t) \/ BackUp(t) \/ MakeLink(t) \/ LinkReturns(t)
    BY <2>1, <2>2, <2>7, Pass2Links, LinkStep
  <2> QED BY <2>4, <2>5, <2>6, <2>7
<1>2. CASE UNCHANGED vars
  BY <1>2 DEF vars, treeVars, unlVars, LinkInv, Peaceful, Disjoint, LinksBelong, Links, HasParent
<1> QED BY <1>1, <1>2 DEF Next

-----------------------------------------------------------------------------
(* The target path that all packages have *)

LEMMA InitShared == Init => SharedInv
<1> SUFFICES ASSUME Init, job.command # "unlink" PROVE SharedInv
  BY DEF SharedInv
<1>1. TypeOK /\ job.command \in {"link", "unlink", "relink"}
  BY InitStep, JobShape DEF IInv
<1>2. ParentsThere
  <2> SUFFICES ASSUME NEW r \in Rels, job.start[r] # None PROVE HasParent(r)
    BY DEF ParentsThere, Init
  <2>1. Len(r) \in Nat /\ Len(r) >= 1
    BY RelShape
  <2>2. CASE Len(r) # 1
    <3>1. Len(r) - 1 \in 1 .. Len(r) - 1 /\ Front(r) = SubSeq(r, 1, Len(r) - 1)
      <4>1. Len(r) - 1 \in 1 .. Len(r) - 1
        BY <2>1, <2>2, OneLess
      <4> QED BY <4>1, FrontShape
    <3>2. Front(r) \in DirsOf(r)
      BY <3>1 DEF DirsOf
    <3> QED BY <3>2 DEF HasParent, Init
  <2> QED BY <2>2 DEF HasParent
<1>3. \A t \in Pkgs : Goes(t) /\ Before(t)
  BY DEF Init, Goes, Before, Unlinking, Placing
<1> QED BY <1>2, <1>3, RaceAssumption DEF SharedInv, Charged

\* Where anything is, its directory stays: a directory that is removed is empty.
LEMMA ParentsStay ==
    ASSUME IInv, SharedInv, job.command # "unlink", NEW t \in Pkgs, Step(t)
    PROVE  ParentsThere'
<1> DEFINE r == rel[t]
           Lies(s) == at[s] # None \/ tmp[s] # None \/ \E k \in Counters : backup[s][k] # None
<1>1. \A s \in Rels : Lies(s) => HasParent(s)
  BY DEF SharedInv, ParentsThere
<1>2. pc[t] \in Placing \union {"unlink"} => r \in Rels
  BY JobShape DEF IInv, Loops, Placing
<1>3. CASE UNCHANGED <<at, tmp, backup>> /\ dirs \subseteq dirs'
  BY <1>1, <1>3 DEF ParentsThere, HasParent
<1>4. CASE RemoveParent(t)
  <2> DEFINE d == SubSeq(r, 1, num[t])
  <2>1. dirs' = dirs \/ (Empty(d) /\ dirs' = dirs \ {d})
    BY <1>4 DEF RemoveParent
  <2>2. \A s \in Rels : Lies(s) /\ Empty(d) => Front(s) # d
    BY DEF Empty
  <2>3. \A s \in Rels : Lies(s) => HasParent(s)'
    BY <1>1, <2>1, <2>2 DEF HasParent
  <2> QED BY <1>4, <2>3 DEF ParentsThere, RemoveParent
<1>5. CASE UnlinkLink(t)
  <2>1. \A s \in Rels : at[s] = None => at'[s] = None
    BY <1>5 DEF UnlinkLink, IInv, TypeOK
  <2> QED BY <1>1, <1>5, <2>1 DEF UnlinkLink, ParentsThere, HasParent
<1>6. CASE SymlinkTmp(t) \/ MakeLink(t)
  <2>1. /\ \A s \in Rels \ {r} : at'[s] = at[s] /\ tmp'[s] = tmp[s]
        /\ UNCHANGED <<at, tmp>> \/ HasParent(r)
        /\ UNCHANGED <<dirs, backup>>
    BY <1>6 DEF SymlinkTmp, MakeLink, IInv, TypeOK
  <2> QED BY <1>1, <2>1 DEF ParentsThere, HasParent
<1>7. CASE RenameTmp(t)
  <2>1. r \in Rels /\ tmp[r] = t
    BY <1>2, <1>7 DEF RenameTmp, Linked, Go, IInv, Owned, Placing
  <2>2. HasParent(r)
    BY <1>1, <2>1, Apart
  <2>3. \A s \in Rels \ {r} : at'[s] = at[s] /\ tmp'[s] = tmp[s]
    BY <1>7 DEF RenameTmp, IInv, TypeOK
  <2> QED BY <1>1, <1>7, <2>2, <2>3 DEF RenameTmp, ParentsThere, HasParent
<1>8. CASE BackUp(t)
  <2>1. r \in Rels /\ UNCHANGED <<dirs, tmp>>
    BY <1>2, <1>8 DEF BackUp, Placing
  <2>2. \A s \in Rels \ {r} : at'[s] = at[s] /\ backup'[s] = backup[s]
    BY <1>8 DEF BackUp, IInv, TypeOK
  <2>3. UNCHANGED <<at, backup>> \/ at[r] # None
    BY <1>8 DEF BackUp
  <2> QED BY <1>1, <2>1, <2>2, <2>3 DEF ParentsThere, HasParent
<1> QED BY <1>3, <1>4, <1>5, <1>6, <1>7, <1>8
  DEF Step, treeVars, Exclude, BeginDetect, Detect, Evict, BeginMkdir, CheckLink, UnlinkReturns,
      NextDir, Mkdir, StatDir, DirsMade, LStat, ReadLink, Probe, LinkReturns

\* No thread makes a file of the user's or a stale link.
LEMMA StepForgesNothing ==
    ASSUME IInv, NEW t \in Pkgs, Step(t)
    PROVE  NothingForged
<1>1. CASE UNCHANGED at
  BY <1>1 DEF NothingForged
<1>2. CASE UnlinkLink(t) \/ BackUp(t) \/ MakeLink(t)
  BY <1>2 DEF UnlinkLink, BackUp, MakeLink, NothingForged, IInv, TypeOK
<1>3. CASE RenameTmp(t)
  <2>1. tmp[rel[t]] = t
    BY <1>3 DEF RenameTmp, Linked, Go, IInv, Owned
  <2> QED BY <1>3, <2>1 DEF RenameTmp, NothingForged, IInv, TypeOK
<1> QED BY <1>1, <1>2, <1>3
  DEF Step, treeVars, Exclude, BeginDetect, Detect, Evict, BeginMkdir, CheckLink, RemoveParent,
      UnlinkReturns, NextDir, Mkdir, StatDir, DirsMade, LStat, ReadLink, SymlinkTmp, Probe,
      LinkReturns


\* What a thread is at.
LEMMA GoesOn ==
    ASSUME IInv, NEW t \in Pkgs, Goes(t), Step(t)
    PROVE  Goes(t)'
<1> USE Apart, Different DEF IInv, TypeOK, Goes, Go, Placing, treeVars, unlVars
<1>1. CASE Exclude(t) \/ BeginDetect(t) \/ Detect(t) \/ Evict(t) \/ BeginMkdir(t)
  BY <1>1 DEF Exclude, BeginDetect, Detect, Evict, BeginMkdir, EnterUnlink
<1>2. CASE CheckLink(t) \/ UnlinkLink(t) \/ RemoveParent(t)
  BY <1>2 DEF CheckLink, UnlinkLink, RemoveParent, Drop
<1>3. CASE UnlinkReturns(t)
  BY <1>3 DEF UnlinkReturns, Loops
<1>4. CASE NextDir(t) \/ Mkdir(t) \/ StatDir(t) \/ DirsMade(t)
  BY <1>4 DEF NextDir, Mkdir, StatDir, DirsMade, Component, GiveUp
<1>5. CASE LStat(t)
  <2>1. PICK x \in todo[t] :
            /\ rel' = [rel EXCEPT ![t] = x]
            /\ Go(t, "lstat", CASE at[x] = None -> "symlink"
                                [] at[x] = User -> "probe"
                                [] OTHER        -> "readlink")
    BY <1>5 DEF LStat, TakeUp
  <2> QED BY <1>5, <2>1 DEF LStat
<1>6. CASE ReadLink(t) \/ SymlinkTmp(t) \/ Probe(t) \/ LinkReturns(t)
  BY <1>6 DEF ReadLink, SymlinkTmp, Probe, LinkReturns, Linked, Fails
<1>7. CASE RenameTmp(t) \/ MakeLink(t)
  BY <1>7 DEF RenameTmp, MakeLink, Linked, Fails
<1>8. CASE BackUp(t)
  <2>1. rel[t] \in Rels
    BY <1>8, JobShape DEF BackUp, Loops
  <2> QED BY <1>8, <2>1 DEF BackUp, Fails
<1> QED BY <1>1, <1>2, <1>3, <1>4, <1>5, <1>6, <1>7, <1>8 DEF Step

LEMMA AllGoOn ==
    ASSUME IInv, SharedInv, job.command # "unlink", NEW t \in Pkgs, Step(t)
    PROVE  \A u \in Pkgs : Goes(u)'
<1> SUFFICES ASSUME NEW u \in Pkgs PROVE Goes(u)'
  OBVIOUS
<1>1. Goes(u)
  BY DEF SharedInv
<1>2. CASE u = t
  BY <1>1, <1>2, GoesOn
<1>3. CASE u # t
  <2>1. Alone(t) /\ NothingForged
    BY StepAlone, StepForgesNothing
  <2>2. pc[u] = "symlink" => rel[u] \in Rels
    BY JobShape DEF IInv, Loops, Placing
  <2> QED BY <1>1, <1>3, <2>1, <2>2, Apart, Different DEF Goes, Alone, NothingForged
<1> QED BY <1>2, <1>3

\* A path that all the packages have.
Shared(s) == s \in Rels /\ \A p \in Pkgs : s \in job.files[p]

\* A thread that has unlinked a package goes on to pass 1.
LEMMA BeforeGoesOn ==
    ASSUME IInv, NEW s, Shared(s), NEW t \in Pkgs, Goes(t),
           \/ Exclude(t) \/ BeginDetect(t) \/ Detect(t) \/ Evict(t) \/ BeginMkdir(t)
           \/ CheckLink(t) \/ UnlinkLink(t) \/ RemoveParent(t) \/ UnlinkReturns(t)
    PROVE  Charged(t, s)'
<1> USE DEF IInv, TypeOK, Go
<1>1. CASE Exclude(t) \/ BeginDetect(t) \/ Detect(t) \/ Evict(t)
  BY <1>1 DEF Exclude, BeginDetect, Detect, Evict, Charged, Before, Unlinking
<1>2. CASE CheckLink(t) \/ UnlinkLink(t) \/ RemoveParent(t)
  BY <1>2 DEF CheckLink, UnlinkLink, RemoveParent, Charged, Before, Unlinking
<1>3. CASE UnlinkReturns(t)
  BY <1>3 DEF UnlinkReturns, Loops, Goes, Charged, Before
<1>4. CASE BeginMkdir(t)
  <2>1. pc'[t] = "next-dir" /\ todo'[t] = {Front(r) : r \in job.files[t]} \ {<<>>}
    BY <1>4 DEF BeginMkdir
  <2>2. s \in Rels /\ s \in job.files[t]
    BY DEF Shared
  <2>3. HasParent(s)' \/ Front(s) \in todo'[t]
    BY <2>1, <2>2, FrontShape DEF HasParent
  <2> QED BY <2>1, <2>3 DEF Charged, Makes, MakingDirs
<1> QED BY <1>1, <1>2, <1>3, <1>4

\* A thread that makes the directory of s makes it, unless another one that is
\* still to come removes it.
LEMMA ComponentGoesOn ==
    ASSUME IInv, NEW s, NEW t \in Pkgs, Makes(t, s), NEW x, Component(t, x),
           pc[t] \in {"mkdir", "stat"}, SubSeq(rel[t], 1, num[t]) \in dirs', dirs \subseteq dirs',
           UNCHANGED rel
    PROVE  Makes(t, s)'
<1>1. rel[t] \in AllDirs /\ num[t] \in 1 .. Len(rel[t]) /\ Len(rel[t]) \in Nat
  BY DirShape DEF IInv, Loops
<1>2. HasParent(s) => HasParent(s)'
  BY DEF HasParent
<1>3. CASE num[t] = Len(rel[t])
  <2>1. rel[t] \in dirs'
    BY <1>1, <1>3, PrefixShape
  <2>2. pc'[t] = "next-dir" /\ todo'[t] = todo[t] \ {rel[t]}
    BY <1>3 DEF Component, Go, Drop, IInv, TypeOK
  <2>3. HasParent(s)' \/ Front(s) \in todo'[t]
    BY <1>2, <2>1, <2>2 DEF HasParent, Makes
  <2> QED BY <2>2, <2>3 DEF Makes, MakingDirs
<1>4. CASE num[t] # Len(rel[t])
  <2>1. pc'[t] = "mkdir" /\ todo'[t] = todo[t] /\ num'[t] = num[t] + 1
    BY <1>4 DEF Component, Go, IInv, TypeOK
  <2>2. ASSUME rel[t] = Front(s), ~HasParent(s)
        PROVE  \A k \in 1 .. num'[t] - 1 : SubSeq(rel[t], 1, k) \in dirs'
    <3>1. \A k \in 1 .. num[t] - 1 : SubSeq(rel[t], 1, k) \in dirs
      BY <2>2 DEF Makes
    <3> QED BY <1>1, <2>1, <3>1
  <2> QED BY <1>2, <2>1, <2>2 DEF Makes, MakingDirs
<1> QED BY <1>3, <1>4

LEMMA MakesGoesOn ==
    ASSUME IInv, NEW s, Shared(s), NEW t \in Pkgs, Makes(t, s),
           NextDir(t) \/ Mkdir(t) \/ StatDir(t) \/ DirsMade(t)
    PROVE  Charged(t, s)'
<1> USE DEF Charged
<1>1. CASE NextDir(t)
  <2>1. pc[t] = "next-dir" /\ pc'[t] = "mkdir" /\ num'[t] = 1 /\ UNCHANGED <<dirs, todo, job>>
    BY <1>1 DEF NextDir, Go, treeVars, IInv, TypeOK
  <2> QED BY <2>1 DEF Makes, HasParent, MakingDirs
<1>2. CASE Mkdir(t)
  <2> DEFINE d == SubSeq(rel[t], 1, num[t])
  <2>1. pc[t] = "mkdir" /\ UNCHANGED rel
    BY <1>2 DEF Mkdir
  <2>2. rel[t] \in AllDirs /\ num[t] \in 1 .. Len(rel[t]) /\ Len(rel[t]) \in Nat
    BY <2>1, DirShape DEF IInv, Loops
  <2>3. (num[t] # 1 => SubSeq(rel[t], 1, num[t] - 1) \in dirs) => HasParent(d)
    BY <2>2, PrefixShape DEF HasParent
  <2>4. CASE d \in dirs
    <3>1. pc'[t] = "stat" /\ UNCHANGED <<dirs, todo, num, job>>
      BY <1>2, <2>4 DEF Mkdir, Go, IInv, TypeOK
    <3> QED BY <2>1, <2>4, <3>1 DEF Makes, HasParent, MakingDirs
  <2>5. CASE d \notin dirs /\ HasParent(d)
    <3>1. dirs' = dirs \union {d} /\ Component(t, "mkdir")
      BY <1>2, <2>5 DEF Mkdir
    <3> QED BY <2>1, <3>1, ComponentGoesOn
  <2>6. CASE d \notin dirs /\ ~HasParent(d)
    <3>1. dirs' = dirs /\ GiveUp(t, "mkdir")
      BY <1>2, <2>6 DEF Mkdir
    <3>2. pc'[t] = "next-dir" /\ todo'[t] = todo[t] \ {rel[t]}
      BY <3>1 DEF GiveUp, Go, Drop, IInv, TypeOK
    <3>3. HasParent(s) \/ rel[t] # Front(s)
      <4> SUFFICES ASSUME rel[t] = Front(s), ~HasParent(s) PROVE FALSE
        OBVIOUS
      <4>1. num[t] # 1 => SubSeq(rel[t], 1, num[t] - 1) \in dirs
        BY <2>1, <2>2 DEF Makes
      <4> QED BY <2>6, <2>3, <4>1
    <3> QED BY <3>1, <3>2, <3>3 DEF Makes, HasParent, MakingDirs
  <2> QED BY <2>4, <2>5, <2>6
<1>3. CASE StatDir(t)
  <2>1. pc[t] = "stat" /\ UNCHANGED <<dirs, rel>>
    BY <1>3 DEF StatDir, treeVars
  <2>2. CASE SubSeq(rel[t], 1, num[t]) \in dirs
    <3>1. Component(t, "stat")
      BY <1>3, <2>2 DEF StatDir
    <3> QED BY <2>1, <2>2, <3>1, ComponentGoesOn
  <2>3. CASE SubSeq(rel[t], 1, num[t]) \notin dirs
    <3>1. GiveUp(t, "stat")
      BY <1>3, <2>3 DEF StatDir
    <3>2. pc'[t] = "next-dir" /\ todo'[t] = todo[t] \ {rel[t]}
      BY <3>1 DEF GiveUp, Go, Drop, IInv, TypeOK
    <3> QED BY <2>1, <2>3, <3>2 DEF Makes, HasParent, MakingDirs
  <2> QED BY <2>2, <2>3
<1>4. CASE DirsMade(t)
  <2>1. /\ pc[t] = "next-dir" /\ pc'[t] = "lstat" /\ todo[t] = {} /\ todo'[t] = job.files[t]
        /\ UNCHANGED <<dirs, job>>
    BY <1>4 DEF DirsMade, Go, treeVars, IInv, TypeOK
  <2>2. HasParent(s)
    BY <2>1 DEF Makes
  <2> QED BY <2>1, <2>2 DEF Places, HasParent, Pass2, Placing, Shared
<1> QED BY <1>1, <1>2, <1>3, <1>4

\* The thread that pass 2 of another one is in the way of, and what it has left
\* to do there.
LEMMA OwnerPlaces ==
    ASSUME IInv, SharedInv, job.command # "unlink", NEW s \in Rels, tmp[s] # None
    PROVE  \E u \in Pkgs : pc[u] = "rename-tmp" /\ rel[u] = s /\ s \in todo[u] /\ HasParent(s)
<1>1. tmp[s] \in Pkgs /\ pc[tmp[s]] = "rename-tmp" /\ rel[tmp[s]] = s
  BY DEF IInv, Owned
<1>2. s \in todo[tmp[s]] /\ HasParent(s)
  BY <1>1 DEF SharedInv, Goes, Placing, ParentsThere
<1> QED BY <1>1, <1>2

\* A thread that can make the link s makes it, or finds one, or comes closer.
LEMMA PlacesGoesOn ==
    ASSUME IInv, SharedInv, job.command # "unlink", NEW s \in Rels, at[s] \notin Pkgs,
           NEW t \in Pkgs, Places(t, s), Alone(t),
           \/ LStat(t) \/ ReadLink(t) \/ SymlinkTmp(t) \/ RenameTmp(t)
           \/ Probe(t) \/ BackUp(t) \/ MakeLink(t) \/ LinkReturns(t)
    PROVE  at'[s] \in Pkgs \/ \E u \in Pkgs : Places(u, s)'
<1> DEFINE r == rel[t]
<1> USE Apart, Different
<1>1. UNCHANGED dirs /\ (HasParent(s) => HasParent(s)')
  BY
    DEF LStat, ReadLink, SymlinkTmp, RenameTmp, Probe, BackUp, MakeLink, LinkReturns, treeVars,
        HasParent






<1>2. s \in todo[t] /\ HasParent(s) /\ HasParent(s)' /\ Goes(t)
  BY <1>1 DEF Places, SharedInv
<1>3. CASE LStat(t)
  <2>1. PICK x \in todo[t] :
            /\ rel' = [rel EXCEPT ![t] = x]
            /\ Go(t, "lstat", CASE at[x] = None -> "symlink"
                                [] at[x] = User -> "probe"
                                [] OTHER        -> "readlink")
    BY <1>3 DEF LStat, TakeUp
  <2>2. /\ rel'[t] = x
        /\ pc'[t] = CASE at[x] = None -> "symlink" [] at[x] = User -> "probe"
                      [] OTHER        -> "readlink"
    BY <2>1 DEF Go, IInv, TypeOK
  <2>3. UNCHANGED <<at, todo>>
    BY <1>3 DEF LStat, treeVars
  <2>4. Places(t, s)'
    BY <1>2, <2>2, <2>3 DEF Places, Pass2, Placing
  <2> QED BY <2>4
<1>4. CASE ReadLink(t)
  <2>1. UNCHANGED <<at, tmp, rel>> /\ pc[t] = "readlink"
    BY <1>4 DEF ReadLink, treeVars
  <2>2. CASE r # s
    <3>1. pc'[t] \in {"lstat", "symlink-tmp"} /\ s \in todo'[t]
      BY <1>2, <1>4, <2>2 DEF ReadLink, Linked, Drop, Go, IInv, TypeOK
    <3>2. Places(t, s)'
      BY <1>2, <2>1, <2>2, <3>1 DEF Places, Pass2, Placing
    <3> QED BY <3>2
  <2>3. CASE r = s
    <3>1. pc'[t] = "symlink-tmp" /\ UNCHANGED todo
      BY <1>4, <2>3 DEF ReadLink, Go, IInv, TypeOK
    <3>2. CASE tmp[s] = None
      <4>1. Places(t, s)'
        BY <1>2, <2>1, <3>1, <3>2 DEF Places, Pass2, Placing
      <4> QED BY <4>1
    <3>3. CASE tmp[s] # None
      <4>1. PICK u \in Pkgs : pc[u] = "rename-tmp" /\ rel[u] = s /\ s \in todo[u]
        BY <3>3, OwnerPlaces
      <4>2. u # t
        BY <2>1, <4>1
      <4>3. pc'[u] = "rename-tmp" /\ s \in todo'[u]
        BY <4>1, <4>2 DEF Alone
      <4>4. Places(u, s)'
        BY <1>2, <4>3 DEF Places, Pass2, Placing
      <4> QED BY <4>4
    <3> QED BY <3>2, <3>3
  <2> QED BY <2>2, <2>3
<1>5. CASE SymlinkTmp(t)
  <2>1. pc[t] = "symlink-tmp" /\ UNCHANGED rel
    BY <1>5 DEF SymlinkTmp
  <2>2. CASE r # s
    <3>1. pc'[t] \in {"lstat", "rename-tmp"} /\ s \in todo'[t]
      BY <1>2, <1>5, <2>2 DEF SymlinkTmp, Fails, Drop, Go, IInv, TypeOK
    <3>2. Places(t, s)'
      BY <1>2, <2>1, <2>2, <3>1 DEF Places, Pass2, Placing
    <3> QED BY <3>2
  <2>3. CASE r = s
    <3>1. tmp[s] = None
      BY <2>1, <2>3 DEF Places, Placing
    <3>2. pc'[t] = "rename-tmp" /\ UNCHANGED todo
      BY <1>2, <1>5, <2>3, <3>1 DEF SymlinkTmp, Go, IInv, TypeOK
    <3>3. Places(t, s)'
      BY <1>2, <3>2 DEF Places, Pass2, Placing
    <3> QED BY <3>3
  <2> QED BY <2>2, <2>3
<1>6. CASE RenameTmp(t)
  <2>1. tmp[r] = t /\ pc'[t] = "lstat" /\ todo'[t] = todo[t] \ {r}
    BY <1>6 DEF RenameTmp, Linked, Drop, Go, IInv, TypeOK, Owned
  <2>2. CASE r # s
    <3>1. Places(t, s)'
      BY <1>2, <2>1, <2>2 DEF Places, Pass2, Placing
    <3> QED BY <3>1
  <2>3. CASE r = s
    BY <1>6, <2>1, <2>3 DEF RenameTmp, IInv, TypeOK
  <2> QED BY <2>2, <2>3
<1>7. CASE Probe(t)
  <2>1. pc[t] = "probe" /\ pc'[t] = "rename" /\ UNCHANGED <<at, todo, rel>>
    BY <1>7 DEF Probe, Go, treeVars, IInv, TypeOK
  <2>2. Places(t, s)'
    BY <1>2, <2>1 DEF Places, Pass2, Placing
  <2> QED BY <2>2
<1>8. CASE BackUp(t)
  <2>1. pc[t] = "rename" /\ UNCHANGED rel
    BY <1>8 DEF BackUp
  <2>2. CASE r # s
    <3>1. pc'[t] \in {"lstat", "symlink"} /\ s \in todo'[t]
      BY <1>2, <1>8, <2>2 DEF BackUp, Fails, Drop, Go, IInv, TypeOK
    <3>2. Places(t, s)'
      BY <1>2, <3>1 DEF Places, Pass2, Placing
    <3> QED BY <3>2
  <2>3. CASE r = s
    <3>1. at[s] = User
      BY <2>1, <2>3 DEF Places, Placing
    <3>2. pc'[t] = "symlink" /\ UNCHANGED todo
      BY <1>8, <2>3, <3>1 DEF BackUp, Go, IInv, TypeOK
    <3>3. Places(t, s)'
      BY <1>2, <3>2 DEF Places, Pass2, Placing
    <3> QED BY <3>3
  <2> QED BY <2>2, <2>3
<1>9. CASE MakeLink(t)
  <2>1. pc[t] = "symlink" /\ UNCHANGED rel
    BY <1>9 DEF MakeLink
  <2>2. CASE r # s
    <3>1. pc'[t] = "lstat" /\ s \in todo'[t]
      BY <1>2, <1>9, <2>2 DEF MakeLink, Linked, Fails, Drop, Go, IInv, TypeOK
    <3>2. Places(t, s)'
      BY <1>2, <3>1 DEF Places, Pass2, Placing
    <3> QED BY <3>2
  <2>3. CASE r = s
    <3>1. at[s] = None
      BY <1>2, <2>1, <2>3 DEF Goes, IInv, TypeOK, Objects
    <3> QED BY <1>2, <1>9, <2>3, <3>1 DEF MakeLink, IInv, TypeOK
  <2> QED BY <2>2, <2>3
<1>10. CASE LinkReturns(t)
  BY <1>2, <1>10 DEF LinkReturns
<1> QED BY <1>3, <1>4, <1>5, <1>6, <1>7, <1>8, <1>9, <1>10

\* What thread t does in passes 1 and 2 can take what another one counts on only
\* when it makes the link s itself.
LEMMA OthersCharged ==
    ASSUME IInv, SharedInv, job.command # "unlink", NEW s \in Rels, at[s] \notin Pkgs,
           NEW t \in Pkgs, Alone(t), NEW u \in Pkgs \ {t}, Charged(u, s),
           \/ NextDir(t) \/ Mkdir(t) \/ StatDir(t) \/ DirsMade(t)
           \/ LStat(t) \/ ReadLink(t) \/ SymlinkTmp(t) \/ RenameTmp(t)
           \/ Probe(t) \/ BackUp(t) \/ MakeLink(t) \/ LinkReturns(t)
    PROVE  at'[s] \in Pkgs \/ Charged(u, s)' \/ Charged(t, s)'
<1> DEFINE r == rel[t]
<1> USE Apart, Different
<1>1. pc'[u] = pc[u] /\ todo'[u] = todo[u] /\ rel'[u] = rel[u] /\ num'[u] = num[u]
  BY DEF Alone
<1>2. dirs \subseteq dirs'
  BY
    DEF NextDir, Mkdir, StatDir, DirsMade, LStat, ReadLink, SymlinkTmp, RenameTmp, Probe, BackUp,
        MakeLink, LinkReturns, treeVars
<1>3. HasParent(s) => HasParent(s)'
  BY <1>2 DEF HasParent
<1>4. CASE Before(u)
  BY <1>1, <1>4 DEF Charged, Before
<1>5. CASE Makes(u, s)
  <2>1. Makes(u, s)'
    BY <1>1, <1>2, <1>3, <1>5 DEF Makes
  <2> QED BY <2>1 DEF Charged
<1>6. CASE Places(u, s)
  <2>1. pc[t] \in Placing => r \in todo[t]
    BY DEF SharedInv, Goes
  <2>2. CASE at'[s] = at[s] /\ tmp'[s] = tmp[s]
    <3>1. Places(u, s)'
      BY <1>1, <1>3, <1>6, <2>2 DEF Places
    <3> QED BY <3>1 DEF Charged
  <2>3. CASE at'[s] # at[s]
    <3>1. BackUp(t) \/ MakeLink(t) \/ RenameTmp(t)
      BY <2>3
        DEF NextDir, Mkdir, StatDir, DirsMade, LStat, ReadLink, SymlinkTmp, Probe, LinkReturns,
            treeVars







    <3>2. CASE MakeLink(t)
      BY <2>3, <3>2 DEF MakeLink, IInv, TypeOK
    <3>3. CASE RenameTmp(t)
      BY <2>3, <3>3 DEF RenameTmp, Linked, Go, IInv, TypeOK, Owned
    <3>4. CASE BackUp(t)
      <4>1. r = s /\ pc[t] = "rename" /\ Go(t, "rename", "symlink") /\ UNCHANGED todo
        BY <2>3, <3>4 DEF BackUp, IInv, TypeOK
      <4>2. pc'[t] = "symlink" /\ s \in todo'[t]
        BY <2>1, <4>1 DEF Go, IInv, TypeOK, Placing
      <4>3. Places(t, s)'
        BY <1>3, <1>6, <4>2 DEF Places, Pass2, Placing
      <4> QED BY <4>3 DEF Charged
    <3> QED BY <3>1, <3>2, <3>3, <3>4
  <2>4. CASE at'[s] = at[s] /\ tmp'[s] # tmp[s]
    <3>1. SymlinkTmp(t) \/ RenameTmp(t)
      BY <2>4
        DEF NextDir, Mkdir, StatDir, DirsMade, LStat, ReadLink, BackUp, MakeLink, Probe,
            LinkReturns, treeVars
    <3>2. CASE RenameTmp(t)
      <4>1. r = s
        BY <2>4, <3>2 DEF RenameTmp, IInv, TypeOK
      <4> QED BY <3>2, <4>1 DEF RenameTmp, Linked, Go, IInv, TypeOK, Owned
    <3>3. CASE SymlinkTmp(t)
      <4>1. /\ r = s /\ pc[t] = "symlink-tmp" /\ Go(t, "symlink-tmp", "rename-tmp")
            /\ UNCHANGED todo
        BY <2>4, <3>3 DEF SymlinkTmp, IInv, TypeOK
      <4>2. pc'[t] = "rename-tmp" /\ s \in todo'[t]
        BY <2>1, <4>1 DEF Go, IInv, TypeOK, Placing
      <4>3. Places(t, s)'
        BY <1>3, <1>6, <4>2 DEF Places, Pass2, Placing
      <4> QED BY <4>3 DEF Charged
    <3> QED BY <3>1, <3>2, <3>3
  <2> QED BY <2>2, <2>3, <2>4
<1> QED BY <1>4, <1>5, <1>6 DEF Charged

\* A link to a package is moved by a thread that then makes it anew.
LEMMA LinkedStays ==
    ASSUME IInv, SharedInv, job.command # "unlink", NEW s \in Rels, at[s] \in Pkgs,
           NEW t \in Pkgs,
           \/ NextDir(t) \/ Mkdir(t) \/ StatDir(t) \/ DirsMade(t)
           \/ LStat(t) \/ ReadLink(t) \/ SymlinkTmp(t) \/ RenameTmp(t)
           \/ Probe(t) \/ BackUp(t) \/ MakeLink(t) \/ LinkReturns(t)
    PROVE  at'[s] \in Pkgs \/ Charged(t, s)'
<1> USE Apart, Different
<1>1. CASE BackUp(t) /\ at'[s] # at[s]
  <2>1. rel[t] = s /\ pc[t] = "rename" /\ Go(t, "rename", "symlink") /\ UNCHANGED <<dirs, todo>>
    BY <1>1 DEF BackUp, IInv, TypeOK
  <2>2. pc'[t] = "symlink" /\ s \in todo'[t]
    BY <2>1 DEF Go, IInv, TypeOK, SharedInv, Goes, Placing
  <2>3. HasParent(s)'
    BY <2>1 DEF SharedInv, ParentsThere, HasParent
  <2>4. Places(t, s)'
    BY <2>2, <2>3 DEF Places, Pass2, Placing
  <2> QED BY <2>4 DEF Charged
<1>2. CASE at'[s] # at[s] /\ (MakeLink(t) \/ RenameTmp(t))
  BY <1>2 DEF MakeLink, RenameTmp, Linked, Go, IInv, TypeOK, Owned
<1>3. CASE at'[s] = at[s]
  BY <1>3
<1> QED BY <1>1, <1>2, <1>3
  DEF NextDir, Mkdir, StatDir, DirsMade, LStat, ReadLink, SymlinkTmp, Probe, LinkReturns, treeVars

LEMMA SharedGoesOn ==
    ASSUME IInv, SharedInv, job.command # "unlink", NEW s, Shared(s), NEW t \in Pkgs, Step(t)
    PROVE  at'[s] \in Pkgs \/ \E u \in Pkgs : Charged(u, s)'
<1> USE DEF Charged
<1>1. s \in Rels /\ Alone(t) /\ Goes(t)
  BY StepAlone DEF Shared, SharedInv
<1>2. CASE \/ Exclude(t) \/ BeginDetect(t) \/ Detect(t) \/ Evict(t) \/ BeginMkdir(t)
           \/ CheckLink(t) \/ UnlinkLink(t) \/ RemoveParent(t) \/ UnlinkReturns(t)
  <2>1. Charged(t, s)'
    BY <1>1, <1>2, BeforeGoesOn
  <2> QED BY <2>1
<1>3. CASE \/ NextDir(t) \/ Mkdir(t) \/ StatDir(t) \/ DirsMade(t)
           \/ LStat(t) \/ ReadLink(t) \/ SymlinkTmp(t) \/ RenameTmp(t)
           \/ Probe(t) \/ BackUp(t) \/ MakeLink(t) \/ LinkReturns(t)
  <2>1. CASE at[s] \in Pkgs
    <3>1. at'[s] \in Pkgs \/ Charged(t, s)'
      BY <1>1, <1>3, <2>1, LinkedStays
    <3> QED BY <3>1
  <2>2. CASE at[s] \notin Pkgs
    <3>1. PICK u \in Pkgs : Charged(u, s)
      BY <2>2 DEF SharedInv, Shared
    <3>2. CASE u # t
      <4>1. at'[s] \in Pkgs \/ Charged(u, s)' \/ Charged(t, s)'
        BY <1>1, <1>3, <2>2, <3>1, <3>2, OthersCharged
      <4> QED BY <4>1
    <3>3. CASE u = t /\ (NextDir(t) \/ Mkdir(t) \/ StatDir(t) \/ DirsMade(t))
      <4>1. Makes(t, s)
        BY <3>1, <3>3
          DEF NextDir, Mkdir, StatDir, DirsMade, Go, Before, Unlinking, Places, Pass2, Placing
      <4>2. Charged(t, s)'
        BY <3>3, <4>1, MakesGoesOn
      <4> QED BY <4>2
    <3>4. CASE /\ u = t
               /\ \/ LStat(t) \/ ReadLink(t) \/ SymlinkTmp(t) \/ RenameTmp(t)
                  \/ Probe(t) \/ BackUp(t) \/ MakeLink(t) \/ LinkReturns(t)
      <4>1. Places(t, s)
        BY <3>1, <3>4
          DEF LStat, ReadLink, SymlinkTmp, RenameTmp, Probe, BackUp, MakeLink, LinkReturns, Linked,
              Go, Before, Unlinking, Makes, MakingDirs
      <4> QED BY <1>1, <2>2, <3>4, <4>1, PlacesGoesOn
    <3> QED BY <1>3, <3>2, <3>3, <3>4
  <2> QED BY <2>1, <2>2
<1> QED BY <1>2, <1>3 DEF Step

LEMMA NextShared == IInv /\ SharedInv /\ [Next]_vars => SharedInv'
<1> SUFFICES ASSUME IInv, SharedInv, [Next]_vars PROVE SharedInv'
  OBVIOUS
<1>1. ASSUME NEW t \in Pkgs, Step(t) PROVE SharedInv'
  <2>1. job' = job
    BY <1>1, StepAlone DEF Alone
  <2> SUFFICES ASSUME job.command # "unlink" PROVE SharedInv'
    BY <2>1 DEF SharedInv
  <2>2. ParentsThere' /\ \A u \in Pkgs : Goes(u)'
    BY <1>1, ParentsStay, AllGoOn
  <2>3. ASSUME NEW s \in Rels, \A p \in Pkgs : s \in job'.files[p]
        PROVE  at'[s] \in Pkgs \/ \E u \in Pkgs : Charged(u, s)'
    BY <1>1, <2>1, <2>3, SharedGoesOn DEF Shared
  <2> QED BY <2>2, <2>3 DEF SharedInv
<1>2. CASE UNCHANGED vars
  BY <1>2
    DEF vars, treeVars, unlVars, SharedInv, ParentsThere, Goes, Charged, Before, Makes, Places,
        HasParent

<1> QED BY <1>1, <1>2 DEF Next

-----------------------------------------------------------------------------
(* What the commands come to *)

\* Unlinks(t) holds of each thread of an unlink command, and no directory that
\* gets empty is forgotten.
THEOREM UnlinkInvariance == Spec => []UnlinkInv
<1>1. IInv /\ UnlinkInv /\ [Next]_vars => UnlinkInv'
  BY NextUnlink
<1> QED BY <1>1, InitUnlink, Invariance, PTL DEF Spec

\* Links(t) holds of each thread of a link command without conflicts.
THEOREM LinkInvariance == Spec => []LinkInv
<1>1. IInv /\ LinkInv /\ [Next]_vars => LinkInv'
  BY NextLink
<1> QED BY <1>1, InitLink, Invariance, PTL DEF Spec

\* A path that all packages have is linked, or a thread is charged with it.
THEOREM SharedInvariance == Spec => []SharedInv
<1>1. IInv /\ SharedInv /\ [Next]_vars => SharedInv'
  BY NextShared
<1> QED BY <1>1, InitShared, Invariance, PTL DEF Spec

\* When unlink has ended, nothing of the packages is left in the user's
\* directories: no link, no temporary link and no empty directory, as long as
\* the links there were to the packages were links to files they still have.
THEOREM UnlinkLeavesNothing == Spec => [](LinksBelong => NothingLeftBehind)
<1>1. IInv /\ UnlinkInv => (LinksBelong => NothingLeftBehind)
  <2> SUFFICES ASSUME IInv, UnlinkInv, LinksBelong, AllDone PROVE NothingLeftBehind
    BY DEF NothingLeftBehind
  <2>1. \A r \in Rels : tmp[r] = None
    BY DEF IInv, Owned, AllDone
  <2>2. ASSUME job.command = "unlink"
        PROVE  (\A r \in Rels : at[r] \notin Pkgs) /\ \A d \in dirs : ~Empty(d)
    <3>1. \A t \in Pkgs : todo[t] = {}
      BY <2>2 DEF UnlinkInv, Unlinks, AllDone
    <3>2. \A r \in Rels : at[r] \notin Pkgs
      BY <2>2, <3>1 DEF UnlinkInv, LinksListed
    <3>3. \A d \in dirs : ~Empty(d)
      BY <2>2 DEF UnlinkInv, EmptyGoes, AtDir, AllDone
    <3> QED BY <3>2, <3>3
  <2> QED BY <2>1, <2>2 DEF NothingLeftBehind
<1> QED BY <1>1, Invariance, UnlinkInvariance, PTL

\* Packages that share directories but no file, and exclude none of each other,
\* do not get in each other's way: every thread of the command reports success,
\* and its links are there when it is done.
THEOREM DisjointPackagesSucceed == Spec => [](Peaceful => DisjointSucceed)
<1>1. IInv /\ UnlinkInv /\ LinkInv => (Peaceful => DisjointSucceed)
  <2> SUFFICES ASSUME IInv, UnlinkInv, LinkInv, Peaceful, job.command # "relink", NEW t \in Pkgs
               PROVE  /\ ~failed[t]
                      /\ pc[t] = "done" /\ job.command = "link" =>
                            \A r \in job.files[t] : at[r] = t
    BY DEF DisjointSucceed
  <2>1. job.command \in {"link", "unlink"}
    BY JobShape DEF IInv
  <2>2. CASE job.command = "unlink"
    BY <2>2 DEF UnlinkInv, Unlinks
  <2>3. CASE job.command = "link"
    BY <2>3 DEF LinkInv, Links
  <2> QED BY <2>1, <2>2, <2>3
<1> QED BY <1>1, Invariance, UnlinkInvariance, LinkInvariance, PTL

UnlinkSucceeds == job.command = "unlink" => \A t \in Pkgs : ~failed[t]

\* An unlink command reports no error, whatever the packages share.
THEOREM UnlinksSucceed == Spec => []UnlinkSucceeds
<1>1. UnlinkInv => UnlinkSucceeds
  BY DEF UnlinkInv, Unlinks, UnlinkSucceeds
<1> QED BY <1>1, UnlinkInvariance, PTL

\* A target path that all the packages have is linked to one of them when the
\* command ends, whatever the threads evict, back up and replace in between.
THEOREM SharedPathIsLinked == Spec => []SharedPathLinked
<1>1. SharedInv => SharedPathLinked
  <2> SUFFICES ASSUME SharedInv, AllDone, job.command # "unlink", NEW s \in Rels,
                      \A p \in Pkgs : s \in job.files[p]
               PROVE  at[s] \in Pkgs
    BY DEF SharedPathLinked
  <2>1. \A t \in Pkgs : ~Charged(t, s)
    BY DEF AllDone, Charged, Before, Makes, Places, Unlinking, MakingDirs, Pass2, Placing
  <2> QED BY <2>1 DEF SharedInv
<1> QED BY <1>1, SharedInvariance, PTL

=============================================================================
