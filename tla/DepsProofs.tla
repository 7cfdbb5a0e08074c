----------------------------- MODULE DepsProofs -----------------------------
(***************************************************************************)
(* What is proved about the installation of dependencies, for all          *)
(* packages, registries, package managers and answers: that the state is   *)
(* typed, that without a user at the terminal nothing is asked and nothing *)
(* written, that the user is asked about each package that failed, that    *)
(* the names he gives are the ones that are requested, and that no tool is *)
(* forgotten before the command ends.                                      *)
(*                                                                         *)
(* The names need the history of a recovery: the manager of the retry is   *)
(* the manager for which the names were registered (ManagerKept), and they *)
(* are still in the file when the command is built again (Registered).     *)
(***************************************************************************)
EXTENDS Deps, WellFoundedInduction, TLAPS

-----------------------------------------------------------------------------
(* The operators *)

\* A set of indices that is not empty has a least one, and Min is it.
LEMMA LeastIndex ==
    ASSUME NEW I, I \subseteq Nat, I # {}
    PROVE  Min(I) \in I /\ \A j \in I : Min(I) <= j
<1>1. PICK i \in I : \A j \in I : ~ (<<j, i>> \in OpToRel(<, Nat))
  BY NatLessThanWellFounded, WFMin, Zenon
<1>2. \A j \in I : ~ (j < i)
  BY <1>1, Zenon DEF OpToRel
<1>3. \A j \in I : i <= j
  BY <1>2
<1> QED BY <1>3 DEF Min

\* The first index of a sequence that passes a test, as SelectInSeq finds it.
LEMMA FirstIndex ==
    ASSUME NEW n \in Nat, NEW I \in SUBSET (1 .. n)
    PROVE  I # {} => /\ Min(I) \in I /\ Min(I) \in Nat /\ Min(I) # 0
                     /\ \A j \in I : Min(I) <= j
<1> SUFFICES ASSUME I # {} PROVE Min(I) \in I /\ Min(I) \in Nat /\ Min(I) # 0 /\ \A j \in I : Min(I) <= j
  OBVIOUS
<1>1. I \subseteq Nat
  OBVIOUS
<1>2. Min(I) \in I /\ \A j \in I : Min(I) <= j
  BY <1>1, LeastIndex
<1>3. Min(I) \in 1 .. n
  BY <1>2
<1> QED BY <1>2, <1>3

\* The tags that are tried for a tool are tags, and the one asked for is the first.
LEMMA TriedType ==
    ASSUME NEW tag \in Tags
    PROVE  TagsTried(tag) \in Seq(Tags) /\ TagsTried(tag) # <<>> /\ TagsTried(tag)[1] = tag
<1> DEFINE rest == IF SysDistro = tag THEN <<>> ELSE <<SysDistro>> \o Family[SysDistro]
<1>1. Family[tag] \in Seq(Tags) /\ Family[SysDistro] \in Seq(Tags) /\ <<SysDistro>> \in Seq(Tags)
  BY RegistryAssumption
<1>2. rest \in Seq(Tags)
  BY <1>1
<1>3. <<tag>> \o Family[tag] \in Seq(Tags) /\ Len(<<tag>> \o Family[tag]) >= 1
      /\ (<<tag>> \o Family[tag])[1] = tag
  BY <1>1
<1>4. TagsTried(tag) = (<<tag>> \o Family[tag]) \o rest
  BY DEF TagsTried
<1> HIDE DEF rest
<1> QED BY <1>2, <1>3, <1>4

\* The entries of a registry are names, for tools and tags.
LEMMA RegistryShape ==
    ASSUME NEW reg, IsRegistry(reg)
    PROVE  /\ reg.pkgs \in [DOMAIN reg.pkgs -> Names] /\ DOMAIN reg.pkgs \subseteq Tools \X Tags
           /\ reg = [pkgs |-> reg.pkgs, alias |-> reg.alias]
BY DEF IsRegistry

\* A tool is requested by a name.
LEMMA DistroPkgType ==
    ASSUME NEW reg, IsRegistry(reg), NEW t \in Tools, NEW tag \in Tags
    PROVE  DistroPkg(reg, t, tag) \in Names
<1> DEFINE tried == TagsTried(tag)
           I == {i \in 1 .. Len(tried) : <<t, tried[i]>> \in DOMAIN reg.pkgs}
<1>1. tried \in Seq(Tags) /\ Len(tried) \in Nat
  BY TriedType
<1>2. CASE I = {}
  BY <1>2, RegistryAssumption DEF DistroPkg, SelectInSeq
<1>3. CASE I # {}
  <2>1. Min(I) \in I /\ Min(I) # 0
    BY <1>1, <1>3, FirstIndex
  <2>2. DistroPkg(reg, t, tag) = reg.pkgs[<<t, tried[Min(I)]>>]
    BY <1>3, <2>1 DEF DistroPkg, SelectInSeq
  <2>3. <<t, tried[Min(I)]>> \in DOMAIN reg.pkgs
    BY <2>1
  <2>4. reg.pkgs \in [DOMAIN reg.pkgs -> Names]
    BY RegistryShape
  <2> QED BY <2>2, <2>3, <2>4
<1> QED BY <1>2, <1>3

\* An entry under the first tag is found.
LEMMA DistroPkgFirst ==
    ASSUME NEW reg, NEW t \in Tools, NEW tag \in Tags, <<t, tag>> \in DOMAIN reg.pkgs
    PROVE  DistroPkg(reg, t, tag) = reg.pkgs[<<t, tag>>]
<1> DEFINE tried == TagsTried(tag)
           I == {i \in 1 .. Len(tried) : <<t, tried[i]>> \in DOMAIN reg.pkgs}
<1>1. tried \in Seq(Tags) /\ Len(tried) \in Nat /\ 1 \in 1 .. Len(tried) /\ tried[1] = tag
  BY TriedType
<1>2. 1 \in I
  BY <1>1
<1>3. Min(I) \in I /\ Min(I) <= 1
  BY <1>1, <1>2, FirstIndex
<1>4. Min(I) = 1
  BY <1>1, <1>3
<1>5. I # {} /\ Min(I) # 0
  BY <1>2, <1>4
<1>6. DistroPkg(reg, t, tag) = reg.pkgs[<<t, tried[Min(I)]>>]
  BY <1>5 DEF DistroPkg, SelectInSeq
<1> QED BY <1>1, <1>4, <1>6

\* What is read is a registry.
FilesOK(fs) ==
    /\ DOMAIN fs = ToSet(RegFiles)
    /\ \A f \in ToSet(RegFiles) : fs[f] = None \/ IsRegistry(fs[f])

\* The registry in force is one, wherever it comes from.
LEMMA ActiveType ==
    ASSUME NEW fs, FilesOK(fs)
    PROVE  IsRegistry(Active(fs))
<1> DEFINE I == {i \in 1 .. Len(RegFiles) : fs[RegFiles[i]] # None}
<1>1. CASE I = {}
  BY <1>1, RegistryAssumption DEF Active, SelectInSeq
<1>2. CASE I # {}
  <2>1. Min(I) \in I /\ Min(I) # 0
    BY <1>2, FirstIndex DEF RegFiles
  <2>2. Active(fs) = fs[RegFiles[Min(I)]]
    BY <1>2, <2>1 DEF Active, SelectInSeq
  <2>3. RegFiles[Min(I)] \in ToSet(RegFiles)
    BY <2>1 DEF ToSet, RegFiles
  <2> QED BY <2>1, <2>2, <2>3 DEF FilesOK
<1> QED BY <1>1, <1>2

\* What can be appended to is one of the registry files.
LEMMA AppendableType == Appendable = None \/ Appendable \in ToSet(RegFiles)
<1> DEFINE two == SubSeq(RegFiles, 1, 2)
           I == {i \in 1 .. Len(two) : two[i] \in writable}
<1>1. Len(two) = 2
  BY DEF RegFiles
<1>2. CASE I = {}
  BY <1>2 DEF Appendable, SelectInSeq
<1>3. CASE I # {}
  <2>1. Min(I) \in I /\ Min(I) # 0
    BY <1>1, <1>3, FirstIndex
  <2>2. Appendable = RegFiles[Min(I)]
    BY <1>3, <2>1 DEF Appendable, SelectInSeq
  <2> QED BY <1>1, <2>1, <2>2 DEF ToSet, RegFiles
<1> QED BY <1>2, <1>3

\* The manager found on $PATH is one of the managers.
LEMMA DetectedType == Detected = None \/ Detected \in ToSet(Managers)
<1> DEFINE I == {i \in 1 .. Len(Managers) : Managers[i] \in exes}
<1>1. Len(Managers) \in Nat
  BY DepsAssumption
<1>2. CASE I = {}
  BY <1>2 DEF Detected, SelectInSeq
<1>3. CASE I # {}
  <2>1. Min(I) \in I /\ Min(I) # 0
    BY <1>1, <1>3, FirstIndex
  <2>2. Detected = Managers[Min(I)]
    BY <1>3, <2>1 DEF Detected, SelectInSeq
  <2>3. DOMAIN Managers = 1 .. Len(Managers)
    BY DepsAssumption
  <2> QED BY <2>1, <2>2, <2>3 DEF ToSet
<1> QED BY <1>2, <1>3

-----------------------------------------------------------------------------
(* The inductive invariant *)

WorldOK ==
    /\ FilesOK(files)
    /\ cache = None \/ cache = Active(files)
    /\ configured \in {None} \union ToSet(Managers)

HowOK ==
    how \in [kind : {"none", "install", "check", "link"}, dry : BOOLEAN, auto : BOOLEAN,
             tty : BOOLEAN, strict : BOOLEAN, pkgs : SUBSET Pkgs]

TurnsOK ==
    /\ turns \in Seq(SUBSET Pkgs)
    /\ stage \in {"list", "run", "recover", "retry"} => turns # <<>>

\* The user is asked for names only when he is there, and nothing runs in a dry run.
Attended ==
    /\ stage \in {"recover", "retry"} => how.tty /\ ~how.auto
    /\ stage \in {"run", "recover", "retry"} => ~how.dry

\* The manager of the first command is the manager of the retry.
ManagerKept ==
    stage \in {"run", "recover", "retry"} =>
        /\ command.mgr = IF mgr = None THEN Unknown ELSE mgr
        /\ mgr = None => configured = None /\ Detected = None

\* What the user has said is in the file that is appended to.
Registered ==
    stage \in {"recover", "retry"} /\ Appendable # None =>
        \A t \in DOMAIN said :
            /\ files[Appendable] # None
            /\ <<t, command.mgr>> \in DOMAIN files[Appendable].pkgs
            /\ files[Appendable].pkgs[<<t, command.mgr>>] = said[t]

\* Between recoveries nobody is asked and nothing has been said.
Quiet == stage \notin {"recover", "retry"} => prompts = {} /\ DOMAIN said = {}

IInv ==
    /\ TypeOK /\ WorldOK /\ HowOK /\ TurnsOK /\ Quiet
    /\ Attended /\ ManagerKept /\ Registered /\ CorrectionTakesEffect

\* What registry_cache_ensure answers is the registry that is in force.
LEMMA RegType ==
    ASSUME WorldOK
    PROVE  Reg = Active(files) /\ IsRegistry(Reg)
BY ActiveType DEF WorldOK, Reg

\* The names of an empty batch.
LEMMA EmptyNames == <<>> \in [{} -> Names] /\ DOMAIN <<>> = {}
OBVIOUS

\* pkg_manager_resolve answers one of the managers, or none.
LEMMA ResolveType ==
    ASSUME TypeOK, WorldOK
    PROVE  Resolve = None \/ Resolve \in ToSet(Managers)
BY DetectedType DEF TypeOK, WorldOK, Resolve

\* A manager is a tag, and neither of the values that stand for none.
LEMMA ManagerTags == \A m \in ToSet(Managers) : m \in Tags /\ m # None /\ m # Unknown
BY DepsAssumption DEF ToSet

\* What each list and each command begins with leaves the world typed.
LEMMA ShowStep ==
    ASSUME TypeOK, WorldOK, Show
    PROVE  /\ mgr' \in ToSet(Managers) \union {None}
           /\ cache' = Active(files) /\ FilesOK(files')
           /\ UNCHANGED <<files, writable>>
BY ResolveType, RegType DEF Show, WorldOK

\* After a list comes another, or the next turn, with nothing under way.
LEMMA NextListStep ==
    ASSUME TypeOK, TurnsOK, stage \in {"list", "run", "recover", "retry"}, NextList
    PROVE  /\ stage' \in {"list", "collect"} /\ need' \in Lists
           /\ turns' \in Seq(SUBSET Pkgs) /\ (stage' = "list" => turns' # <<>>)
           /\ batch' = {} /\ output' = {} /\ prompts' = {} /\ DOMAIN said' = {}
           /\ command'.mgr \in Tags /\ command'.names \in [batch' -> Names]
<1>1. command'.mgr \in Tags /\ command'.names = <<>> /\ batch' = {}
  BY DepsAssumption DEF NextList
<1>2. DOMAIN said' = {}
  BY EmptyNames DEF NextList
<1>3. Tail(turns) \in Seq(SUBSET Pkgs) /\ turns \in Seq(SUBSET Pkgs) /\ turns # <<>>
  BY DEF TurnsOK
<1> QED BY <1>1, <1>2, <1>3, EmptyNames DEF NextList, Lists

\* The invariant holds at first.
LEMMA InitStep == Init => IInv
<1> SUFFICES ASSUME Init PROVE IInv
  OBVIOUS
<1>1. TypeOK
  <2>1. exes \subseteq ToSet(Managers)
    BY DepsAssumption DEF Init
  <2>2. command.mgr \in Tags /\ command.names \in [batch -> Names] /\ DOMAIN said = {}
    BY EmptyNames, DepsAssumption DEF Init, NoList
  <2>3. missing \in [Lists -> SUBSET Tools]
    BY DEF Init
  <2>4. commands \in 0 .. MaxCommands
    BY DepsAssumption DEF Init
  <2>5. /\ mgr = None /\ stage = "idle" /\ need = "required" /\ batch = {}
        /\ output = {} /\ prompts = {} /\ status = 0 /\ unmet = {}
    BY DEF Init, NoList
  <2>6. exes \subseteq (UNION {Provides[n] : n \in Names}) \union ToSet(Managers)
    BY <2>1
  <2> QED BY <2>2, <2>3, <2>4, <2>5, <2>6 DEF TypeOK, Lists
<1>2. WorldOK
  BY DepsAssumption DEF Init, WorldOK, FilesOK
<1>3. Quiet
  BY EmptyNames DEF Init, NoList, Quiet
<1> QED
  BY <1>1, <1>2, <1>3
    DEF Init, Idle, IInv, HowOK, TurnsOK, Attended, ManagerKept, Registered, CorrectionTakesEffect

-----------------------------------------------------------------------------
(* Every action preserves the invariant *)

\* What the manifests declare and is not there, list by list.
LEMMA LackingType ==
    ASSUME NEW ps \in SUBSET Pkgs
    PROVE  Lacking(ps) \in [Lists -> SUBSET Tools]
BY DepsAssumption DEF Lacking, Lists

\* A process starts: nothing is asked, nothing said.
LEMMA StartStep == IInv /\ Start => IInv'
<1> SUFFICES ASSUME IInv, Start PROVE IInv'
  OBVIOUS
<1>1. TypeOK'
  BY DepsAssumption DEF IInv, Start, TypeOK, registryVars, worldVars, listVars
<1>2. WorldOK'
  BY DEF IInv, WorldOK, FilesOK, Start, registryVars, worldVars
<1>3. HowOK' /\ TurnsOK'
  <2>1. PICK kind \in {"install", "check", "link"}, dry, auto, tty, strict \in BOOLEAN,
             ts \in Turns :
          /\ strict => kind = "install"
          /\ kind = "link" => auto
          /\ how' = [kind |-> kind, dry |-> dry, auto |-> auto, tty |-> tty,
                     strict |-> strict, pkgs |-> UNION ToSet(ts)]
          /\ turns' = ts
    BY DEF Start
  <2>2. ts \in Seq(SUBSET Pkgs) /\ UNION ToSet(ts) \subseteq Pkgs
    BY DepsAssumption DEF ToSet
  <2> QED BY <2>1, <2>2 DEF HowOK, TurnsOK, Start
<1>4. stage' = "collect"
  BY DEF Start
<1>5. Quiet'
  BY DEF IInv, Quiet, Start, listVars
<1> QED
  BY <1>1, <1>2, <1>3, <1>4, <1>5 DEF IInv, Attended, ManagerKept, Registered, CorrectionTakesEffect

\* The lists are filled.
LEMMA CollectStep == IInv /\ Collect => IInv'
<1> SUFFICES ASSUME IInv, Collect PROVE IInv'
  OBVIOUS
<1>1. Head(turns) \in SUBSET Pkgs /\ turns # <<>>
  BY DEF IInv, TurnsOK, Collect
<1>2. missing' \in [Lists -> SUBSET Tools]
  BY <1>1, LackingType DEF Collect
<1>3. TypeOK'
  BY <1>2 DEF IInv, Collect, TypeOK, worldVars, listVars, Lists
<1>4. WorldOK'
  BY RegType DEF IInv, WorldOK, FilesOK, Collect, worldVars
<1>5. stage' = "list" /\ UNCHANGED <<how, turns>>
  BY DEF Collect
<1>6. Quiet'
  BY DEF IInv, Quiet, Collect, listVars
<1> QED
  BY <1>1, <1>3, <1>4, <1>5, <1>6
    DEF IInv, HowOK, TurnsOK, Attended, ManagerKept, Registered, CorrectionTakesEffect

\* The process ends.
LEMMA FinishStep == IInv /\ Finish => IInv'
<1> SUFFICES ASSUME IInv, Finish PROVE IInv'
  OBVIOUS
<1>1. missing' \in [Lists -> SUBSET Tools]
  BY DEF Finish
<1>2. TypeOK'
  BY <1>1 DEF IInv, Finish, TypeOK, worldVars, listVars
<1>3. WorldOK'
  BY DEF IInv, WorldOK, FilesOK, Finish, worldVars
<1>4. stage' = "idle" /\ UNCHANGED <<how, turns>>
  BY DEF Finish
<1>5. Quiet'
  BY DEF IInv, Quiet, Finish, listVars
<1> QED
  BY <1>2, <1>3, <1>4, <1>5
    DEF IInv, HowOK, TurnsOK, Attended, ManagerKept, Registered, CorrectionTakesEffect

\* The turn is given up.
LEMMA RefuseStep == IInv /\ Refuse => IInv'
<1> SUFFICES ASSUME IInv, Refuse PROVE IInv'
  OBVIOUS
<1>1. /\ mgr' \in ToSet(Managers) \union {None}
      /\ cache' = Active(files) /\ FilesOK(files')
      /\ UNCHANGED <<files, writable>>
  BY ShowStep DEF Refuse, IInv
<1>2. unmet' \subseteq Tools
  BY DEF IInv, Refuse, TypeOK, Lists
<1>3. TypeOK'
  BY <1>1, <1>2 DEF IInv, Refuse, TypeOK, worldVars, listVars
<1>4. WorldOK'
  BY <1>1 DEF IInv, WorldOK, Refuse, worldVars
<1>5. stage' = "collect" /\ UNCHANGED how /\ turns' \in Seq(SUBSET Pkgs)
  BY DEF Refuse, IInv, TurnsOK
<1>6. Quiet'
  BY DEF IInv, Quiet, Refuse, listVars
<1> QED
  BY <1>3, <1>4, <1>5, <1>6
    DEF IInv, HowOK, TurnsOK, Attended, ManagerKept, Registered, CorrectionTakesEffect

\* After NextList only the types and the world remain to be shown.
LEMMA AfterList ==
    ASSUME TypeOK, TurnsOK, HowOK, stage \in {"list", "run", "recover", "retry"},
           NextList, UNCHANGED <<how, missing, status, commands>>,
           mgr' \in ToSet(Managers) \union {None}, unmet' \subseteq Tools,
           exes' \subseteq (UNION {Provides[n] : n \in Names}) \union ToSet(Managers),
           WorldOK'
    PROVE  IInv'
<1>1. /\ stage' \in {"list", "collect"} /\ need' \in Lists
      /\ turns' \in Seq(SUBSET Pkgs) /\ (stage' = "list" => turns' # <<>>)
      /\ batch' = {} /\ output' = {} /\ prompts' = {} /\ DOMAIN said' = {}
      /\ command'.mgr \in Tags /\ command'.names \in [batch' -> Names]
  BY NextListStep
<1>2. TypeOK'
  BY <1>1 DEF TypeOK
<1>3. HowOK' /\ TurnsOK'
  BY <1>1 DEF HowOK, TurnsOK
<1> QED
  BY <1>1, <1>2, <1>3 DEF IInv, Quiet, Attended, ManagerKept, Registered, CorrectionTakesEffect

\* A list is passed over.
LEMMA SkipListStep == IInv /\ SkipList => IInv'
<1> SUFFICES ASSUME IInv, SkipList PROVE IInv'
  OBVIOUS
<1>1. CASE missing[need] = {}
  <2>1. UNCHANGED <<registryVars, mgr>>
    BY <1>1 DEF SkipList
  <2>2. WorldOK'
    BY <2>1 DEF IInv, WorldOK, FilesOK, SkipList, registryVars, worldVars
  <2>3. unmet' \subseteq Tools /\ mgr' \in ToSet(Managers) \union {None}
    BY <1>1, <2>1 DEF IInv, TypeOK, SkipList
  <2> QED BY <2>2, <2>3, AfterList DEF IInv, TypeOK, SkipList, worldVars
<1>2. CASE missing[need] # {}
  <2>1. Show
    BY <1>2 DEF SkipList
  <2>2. /\ mgr' \in ToSet(Managers) \union {None}
        /\ cache' = Active(files) /\ FilesOK(files') /\ UNCHANGED files
    BY <2>1, ShowStep DEF IInv
  <2>3. WorldOK'
    BY <2>2 DEF IInv, WorldOK, SkipList, worldVars
  <2>4. unmet' \subseteq Tools
    BY DEF IInv, TypeOK, SkipList
  <2> QED BY <2>2, <2>3, <2>4, AfterList DEF IInv, TypeOK, SkipList, worldVars
<1> QED BY <1>1, <1>2

\* The first command: what is requested is typed, and the manager is the one kept.
LEMMA BuildStep ==
    ASSUME TypeOK, WorldOK, NEW tools \in SUBSET Tools, Build(tools), UNCHANGED worldVars
    PROVE  /\ command'.mgr \in Tags /\ command'.names \in [tools -> Names]
           /\ command'.mgr = IF mgr' = None THEN Unknown ELSE mgr'
           /\ mgr' = Resolve /\ mgr' \in ToSet(Managers) \union {None}
           /\ mgr' = None => configured' = None /\ Detected' = None
           /\ UNCHANGED <<files, writable>> /\ WorldOK'
<1> DEFINE tag == IF Resolve = None THEN Unknown ELSE Resolve
<1>1. tag \in Tags
  BY ResolveType, ManagerTags, DepsAssumption
<1>2. Show /\ command' = [mgr |-> tag, names |-> [t \in tools |-> DistroPkg(Reg, t, tag)]]
  BY DEF Build
<1>3. IsRegistry(Reg)
  BY RegType
<1>4. [t \in tools |-> DistroPkg(Reg, t, tag)] \in [tools -> Names]
  BY <1>1, <1>3, DistroPkgType
<1>5. mgr' = Resolve /\ mgr' \in ToSet(Managers) \union {None}
  BY <1>2, ShowStep DEF Show
<1>6. UNCHANGED <<files, writable>> /\ WorldOK'
  BY <1>2, ShowStep DEF WorldOK, worldVars
<1>7. Resolve = None => configured = None /\ Detected = None
  BY ManagerTags DEF Resolve, TypeOK
<1>8. Detected' = Detected /\ configured' = configured
  BY DEF Detected, SelectInSeq, worldVars
<1> QED BY <1>1, <1>2, <1>4, <1>5, <1>6, <1>7, <1>8

\* A batch is chosen and its command built, or the list is passed over.
LEMMA ChooseBatchStep == IInv /\ ChooseBatch => IInv'
<1> SUFFICES ASSUME IInv, ChooseBatch PROVE IInv'
  OBVIOUS
<1>1. PICK chosen \in Selections(missing[need]) :
          /\ unmet' = unmet \union (missing[need] \ chosen)
          /\ IF chosen = {}
             THEN NextList /\ Show
             ELSE /\ Build(chosen)
                  /\ batch' = chosen
                  /\ stage' = "run"
                  /\ UNCHANGED <<turns, need, output, prompts, said>>
  BY DEF ChooseBatch
<1>2. chosen \subseteq missing[need] /\ missing[need] \subseteq Tools
  BY DEF Selections, IInv, TypeOK, HowOK
<1>3. unmet' \subseteq Tools /\ stage = "list" /\ UNCHANGED <<worldVars, how, missing, status, commands>>
  BY <1>1, <1>2 DEF IInv, TypeOK, ChooseBatch
<1>4. CASE chosen = {}
  <2>1. /\ mgr' \in ToSet(Managers) \union {None}
        /\ cache' = Active(files) /\ FilesOK(files') /\ UNCHANGED files
    BY <1>1, <1>4, ShowStep DEF IInv
  <2>2. WorldOK'
    BY <1>3, <2>1 DEF IInv, WorldOK, worldVars
  <2> QED BY <1>1, <1>3, <1>4, <2>1, <2>2, AfterList DEF IInv, TypeOK, worldVars
<1>5. CASE chosen # {}
  <2>1. Build(chosen) /\ batch' = chosen /\ stage' = "run" /\ UNCHANGED <<turns, need, output, prompts, said>>
    BY <1>1, <1>5
  <2>2. /\ command'.mgr \in Tags /\ command'.names \in [chosen -> Names]
        /\ command'.mgr = IF mgr' = None THEN Unknown ELSE mgr'
        /\ mgr' \in ToSet(Managers) \union {None}
        /\ mgr' = None => configured' = None /\ Detected' = None
        /\ WorldOK'
    BY <1>2, <1>3, <2>1, BuildStep DEF IInv
  <2>3. prompts \subseteq batch' /\ DOMAIN said \subseteq batch'
    <3>1. prompts = {} /\ DOMAIN said = {}
      BY <1>3 DEF IInv, Quiet
    <3> QED BY <3>1
  <2>4. TypeOK'
    <3>1. command'.names \in [batch' -> Names] /\ batch' \subseteq Tools
      BY <1>2, <2>1, <2>2
    <3>2. exes' = exes /\ UNCHANGED <<need, missing, status, commands, prompts, said>>
      BY <1>3, <2>1 DEF worldVars
    <3> QED BY <1>3, <2>1, <2>2, <2>3, <3>1, <3>2 DEF IInv, TypeOK
  <2>5. ~how.dry
    BY DEF ChooseBatch
  <2>6. Quiet'
    BY <1>3, <2>1 DEF IInv, Quiet
  <2> QED
    BY <1>3, <2>1, <2>2, <2>4, <2>5, <2>6
      DEF IInv, HowOK, TurnsOK, Attended, ManagerKept, Registered, CorrectionTakesEffect
<1> QED BY <1>4, <1>5

\* What is installed is provided by the names requested.
LEMMA RequestedType ==
    ASSUME TypeOK, NEW done \in SUBSET Requested
    PROVE  Provided(done) \subseteq UNION {Provides[n] : n \in Names}
BY DEF TypeOK, Requested, Provided

\* The command succeeds.
LEMMA RunSucceedsStep == IInv /\ RunSucceeds => IInv'
<1> SUFFICES ASSUME IInv, RunSucceeds PROVE IInv'
  OBVIOUS
<1>1. exes' \subseteq (UNION {Provides[n] : n \in Names}) \union ToSet(Managers)
  BY RequestedType DEF RunSucceeds, IInv, TypeOK
<1>2. WorldOK'
  BY DEF IInv, WorldOK, FilesOK, RunSucceeds, registryVars
<1>3. unmet' \subseteq Tools
  BY DEF IInv, TypeOK, RunSucceeds
<1> QED BY <1>1, <1>2, <1>3, AfterList DEF IInv, TypeOK, RunSucceeds

\* The retry fails.
LEMMA RetryFailsStep == IInv /\ RetryFails => IInv'
<1> SUFFICES ASSUME IInv, RetryFails PROVE IInv'
  OBVIOUS
<1>1. exes' \subseteq (UNION {Provides[n] : n \in Names}) \union ToSet(Managers)
  BY RequestedType DEF RetryFails, IInv, TypeOK
<1>2. WorldOK'
  BY DEF IInv, WorldOK, FilesOK, RetryFails, registryVars
<1>3. unmet' \subseteq Tools
  BY DEF IInv, TypeOK, RetryFails
<1> QED BY <1>1, <1>2, <1>3, AfterList DEF IInv, TypeOK, RetryFails

\* No name was given.
LEMMA GiveUpStep == IInv /\ GiveUp => IInv'
<1> SUFFICES ASSUME IInv, GiveUp PROVE IInv'
  OBVIOUS
<1>1. WorldOK'
  BY DEF IInv, WorldOK, FilesOK, GiveUp, registryVars, worldVars
<1> QED BY <1>1, AfterList DEF IInv, TypeOK, GiveUp, worldVars

\* extract_errored_packages finds tools of the batch, and all that failed under the
\* name by which it looks for them.
LEMMA ErroredStep ==
    ASSUME TypeOK, NEW text \in Outputs
    PROVE  /\ Errored(text) \subseteq batch
           /\ text \subseteq UNION {Within[n] : n \in Names}
           /\ \A t \in Failing :
                 /\ DistroPkg(Reg, t, DistroTag) = command.names[t]
                 /\ command.names[t] \in text \/ text = {}
                 => t \in Errored(text)
<1>1. Failing \subseteq batch
  BY DEF Failing
<1>2. \A t \in batch : command.names[t] \in Names
  BY DEF TypeOK
<1>3. ASSUME NEW t \in Failing, DistroPkg(Reg, t, DistroTag) = command.names[t],
             command.names[t] \in text
      PROVE  t \in Errored(text)
  <2>1. command.names[t] \in Within[command.names[t]]
    BY <1>1, <1>2, DepsAssumption
  <2> QED BY <1>1, <1>3, <2>1 DEF Errored
<1>4. ASSUME NEW t \in Failing, text = {}
      PROVE  t \in Errored(text)
  BY <1>1, <1>4 DEF Errored
<1>5. text \subseteq UNION {Within[n] : n \in Names}
  <2>1. Requested \subseteq Names
    BY <1>2 DEF Requested
  <2> QED BY <2>1 DEF Outputs
<1> QED BY <1>3, <1>4, <1>5 DEF Errored

\* The command fails: a recovery, or the next list.  Where there is no manager
\* nothing is installed, so that there is none afterwards either.
LEMMA RunFailsStep == IInv /\ RunFails => IInv'
<1> SUFFICES ASSUME IInv, RunFails PROVE IInv'
  OBVIOUS
<1>1. PICK done \in SUBSET (Requested \intersect Installable), text \in Outputs :
          /\ exes' = exes \union Provided(done)
          /\ IF Interactive
             THEN /\ output' = text
                  /\ prompts' = Errored(text)
                  /\ stage' = "recover"
                  /\ UNCHANGED <<turns, need, batch, command, said>>
             ELSE NextList
  BY DEF RunFails
<1>2. /\ exes' \subseteq (UNION {Provides[n] : n \in Names}) \union ToSet(Managers)
      /\ unmet' \subseteq Tools /\ WorldOK'
      /\ stage = "run" /\ UNCHANGED <<configured, mgr, how, missing, status, commands>>
      /\ UNCHANGED <<files, writable, cache>>
  <2>1. exes' \subseteq (UNION {Provides[n] : n \in Names}) \union ToSet(Managers)
    BY <1>1, RequestedType DEF IInv, TypeOK
  <2>2. WorldOK'
    BY DEF IInv, WorldOK, FilesOK, RunFails, registryVars
  <2> QED BY <2>1, <2>2 DEF RunFails, IInv, TypeOK, registryVars
<1>3. CASE ~Interactive
  BY <1>1, <1>2, <1>3, AfterList DEF IInv, TypeOK
<1>4. CASE Interactive
  <2>1. /\ output' = text /\ prompts' = Errored(text) /\ stage' = "recover"
        /\ UNCHANGED <<turns, need, batch, command, said>>
    BY <1>1, <1>4
  <2>2. /\ prompts' \subseteq batch /\ DOMAIN said = {}
        /\ output' \subseteq UNION {Within[n] : n \in Names}
    BY <1>2, <2>1, ErroredStep DEF IInv, Quiet
  <2>3. TypeOK'
    BY <1>2, <2>1, <2>2 DEF IInv, TypeOK
  <2>4. ManagerKept'
    <3>1. CASE mgr # None
      BY <1>2, <2>1, <3>1 DEF IInv, ManagerKept
    <3>2. CASE mgr = None
      <4>1. command.mgr = Unknown /\ configured = None /\ Detected = None
        BY <1>2, <3>2 DEF IInv, ManagerKept
      <4>2. done = {}
        BY <1>1, <4>1 DEF Installable
      <4>3. exes' = exes
        BY <1>1, <4>2 DEF Provided
      <4>4. Detected' = Detected
        BY <4>3 DEF Detected, SelectInSeq
      <4>5. command'.mgr = Unknown /\ mgr' = None /\ configured' = None /\ Detected' = None
        BY <1>2, <2>1, <3>2, <4>1, <4>4
      <4> QED BY <4>5 DEF ManagerKept
    <3> QED BY <3>1, <3>2
  <2>5. HowOK' /\ TurnsOK' /\ Attended'
    BY <1>2, <1>4, <2>1 DEF IInv, HowOK, TurnsOK, Attended, Interactive
  <2>6. Registered' /\ CorrectionTakesEffect' /\ Quiet'
    BY <2>1, <2>2 DEF Registered, CorrectionTakesEffect, Quiet
  <2> QED BY <1>2, <2>3, <2>4, <2>5, <2>6 DEF IInv
<1> QED BY <1>3, <1>4

\* What a name given for t is in the files: an entry for each of the tags, beside the
\* entries of other tools.
Entered(new, fs, t, tags, name) ==
    /\ FilesOK(new) /\ new[Appendable] # None
    /\ \A g \in tags : /\ <<t, g>> \in DOMAIN new[Appendable].pkgs
                       /\ new[Appendable].pkgs[<<t, g>>] = name
    /\ fs[Appendable] # None =>
          \A k \in DOMAIN fs[Appendable].pkgs :
              k \notin {t} \X tags =>
                  /\ k \in DOMAIN new[Appendable].pkgs
                  /\ new[Appendable].pkgs[k] = fs[Appendable].pkgs[k]

\* Appending to the registry enters the name.
LEMMA MappedStep ==
    ASSUME NEW fs, FilesOK(fs), NEW t \in Tools, NEW tags \in SUBSET Tags, NEW name \in Names,
           Appendable # None, NEW new, new = Mapped(fs, t, tags, name)
    PROVE  Entered(new, fs, t, tags, name)
<1> DEFINE D == {t} \X tags
           above == IF fs[Appendable] = None THEN EmptyRegistry ELSE fs[Appendable]
           K == DOMAIN above.pkgs
           lines == [k \in D |-> name]
           over == After(lines, above.pkgs)
           reg == [above EXCEPT !.pkgs = over]
<1>1. Appendable \in ToSet(RegFiles)
  BY AppendableType
<1>2. new = [fs EXCEPT ![Appendable] = reg]
  BY DEF Mapped
<1>3. IsRegistry(above)
  <2>1. CASE fs[Appendable] = None
    <3>1. <<>> \in [{} -> Names] /\ <<>> \in [{} -> SUBSET Exes]
      OBVIOUS
    <3>2. IsRegistry(EmptyRegistry)
      BY <3>1 DEF EmptyRegistry, IsRegistry
    <3> QED BY <2>1, <3>2
  <2>2. CASE fs[Appendable] # None
    BY <1>1, <2>2 DEF FilesOK
  <2> QED BY <2>1, <2>2
<1> HIDE DEF above
<1>4. above.pkgs \in [K -> Names] /\ K \subseteq Tools \X Tags
      /\ above = [pkgs |-> above.pkgs, alias |-> above.alias]
  BY <1>3, RegistryShape
<1>5. reg = [pkgs |-> over, alias |-> above.alias]
  BY <1>4
<1> HIDE DEF reg
<1>6. /\ over \in [D \union K -> Names]
      /\ \A k \in D : over[k] = name
      /\ \A k \in K \ D : over[k] = (above.pkgs)[k]
  <2>1. over = [k \in D \union K |-> IF k \in D THEN name ELSE (above.pkgs)[k]]
    BY DEF After
  <2> HIDE DEF D, K, over
  <2> QED BY <1>4, <2>1
<1>7. D \subseteq Tools \X Tags /\ \A g \in tags : <<t, g>> \in D
  OBVIOUS
<1>8. \E A \in SUBSET Tools : above.alias \in [A -> SUBSET Exes]
  BY <1>3 DEF IsRegistry
<1> HIDE DEF over, K
<1>9. IsRegistry(reg)
  <2> HIDE DEF D
  <2>1. D \union K \in SUBSET (Tools \X Tags)
    BY <1>4, <1>7
  <2> QED BY <1>5, <1>6, <1>8, <2>1 DEF IsRegistry
<1>10. reg # None
  BY <1>9, RegistryAssumption
<1>11. FilesOK(new) /\ new[Appendable] = reg
  BY <1>1, <1>2, <1>9 DEF FilesOK
<1>12. \A g \in tags : <<t, g>> \in DOMAIN reg.pkgs /\ reg.pkgs[<<t, g>>] = name
  BY <1>5, <1>6, <1>7
<1>13. \A k \in K : k \notin D => k \in DOMAIN reg.pkgs /\ reg.pkgs[k] = (above.pkgs)[k]
  BY <1>5, <1>6
<1>14. fs[Appendable] # None => above = fs[Appendable]
  BY DEF above
<1> QED BY <1>10, <1>11, <1>12, <1>13, <1>14 DEF K, Entered

\* A name is given: it is registered.
LEMMA CorrectStep ==
    ASSUME IInv, stage = "recover", NEW t \in prompts, NEW name \in Names, Correct(t, name),
           UNCHANGED <<worldVars, mgr, how, turns, stage, need, missing, batch, command,
                       output, status, unmet, commands>>
    PROVE  IInv'
<1>1. t \in Tools /\ t \in batch
  BY DEF IInv, TypeOK
<1>2. DistroTag \in Tags /\ command.mgr \in Tags
  BY RegistryAssumption DEF IInv, TypeOK, DistroTag
<1> DEFINE tags == {DistroTag, command.mgr}
<1>3. tags \in SUBSET Tags
  BY <1>2
<1>4. /\ files' = Mapped(files, t, tags, name)
      /\ cache' = IF Appendable = None THEN cache ELSE None
      /\ writable' = writable
      /\ said' = After([u \in {t} |-> name], said)
      /\ prompts' = prompts \ {t}
  BY DEF Correct, AddMappings
<1>5. Appendable' = Appendable
  BY <1>4 DEF Appendable, SelectInSeq
<1>6. said' = [u \in {t} \union DOMAIN said |-> IF u \in {t} THEN name ELSE said[u]]
  BY <1>4 DEF After
<1>7. DOMAIN said' = {t} \union DOMAIN said
  BY <1>6
<1>8. TypeOK'
  BY <1>1, <1>4, <1>7 DEF IInv, TypeOK, worldVars
<1>9. CASE Appendable = None
  <2>1. files' = files /\ cache' = cache
    BY <1>4, <1>9 DEF Mapped
  <2>2. WorldOK' /\ Detected' = Detected
    BY <2>1 DEF IInv, WorldOK, FilesOK, worldVars, Detected, SelectInSeq
  <2>3. HowOK' /\ TurnsOK' /\ Quiet' /\ Attended' /\ ManagerKept'
    BY <2>2 DEF IInv, HowOK, TurnsOK, Quiet, Attended, ManagerKept, worldVars
  <2>4. Registered' /\ CorrectionTakesEffect'
    BY <1>5, <1>9 DEF Registered, CorrectionTakesEffect
  <2> QED BY <1>8, <2>2, <2>3, <2>4 DEF IInv
<1>10. CASE Appendable # None
  <2> HIDE DEF tags
  <2>1. Entered(files', files, t, tags, name)
    <3>1. FilesOK(files) /\ files' = Mapped(files, t, tags, name)
      BY <1>4 DEF IInv, WorldOK, tags
    <3> QED BY <1>1, <1>3, <1>10, <3>1, MappedStep
  <2>2. WorldOK' /\ Detected' = Detected
    BY <1>4, <1>10, <2>1 DEF Entered, IInv, WorldOK, worldVars, Detected, SelectInSeq
  <2>3. HowOK' /\ TurnsOK' /\ Quiet' /\ Attended' /\ ManagerKept'
    BY <2>2 DEF IInv, HowOK, TurnsOK, Quiet, Attended, ManagerKept, worldVars
  <2>4. ASSUME NEW u \in DOMAIN said'
        PROVE  /\ <<u, command.mgr>> \in DOMAIN files'[Appendable].pkgs
               /\ files'[Appendable].pkgs[<<u, command.mgr>>] = said'[u]
    <3>1. CASE u = t
      BY <1>6, <1>7, <2>1, <3>1 DEF tags, Entered
    <3>2. CASE u # t
      <4>1. u \in DOMAIN said /\ said'[u] = said[u]
        BY <1>6, <1>7, <2>4, <3>2
      <4>2. /\ files[Appendable] # None
            /\ <<u, command.mgr>> \in DOMAIN files[Appendable].pkgs
            /\ files[Appendable].pkgs[<<u, command.mgr>>] = said[u]
        BY <1>10, <4>1 DEF IInv, Registered
      <4>3. <<u, command.mgr>> \notin {t} \X tags
        BY <3>2
      <4> QED BY <2>1, <4>1, <4>2, <4>3 DEF Entered
    <3> QED BY <3>1, <3>2
  <2>5. Registered' /\ CorrectionTakesEffect'
    BY <1>5, <2>1, <2>4 DEF Entered, Registered, CorrectionTakesEffect
  <2> QED BY <1>8, <2>2, <2>3, <2>5 DEF IInv
<1> QED BY <1>9, <1>10

\* The user answers, or does not.
LEMMA PromptStep == IInv /\ Prompt => IInv'
<1> SUFFICES ASSUME IInv, Prompt PROVE IInv'
  OBVIOUS
<1>1. PICK t \in prompts :
          \/ \E name \in Answers[t] : Correct(t, name)
          \/ how.strict /\ Correct(t, t)
          \/ prompts' = prompts \ {t} /\ UNCHANGED <<registryVars, said>>
  BY DEF Prompt
<1>2. stage = "recover" /\ UNCHANGED <<worldVars, mgr, how, turns, stage, need, missing, batch,
                                       command, output, status, unmet, commands>>
  BY DEF Prompt
<1>3. t \in Tools
  BY DEF IInv, TypeOK
<1>4. CASE \E name \in Answers[t] : Correct(t, name)
  <2>1. PICK name \in Answers[t] : Correct(t, name)
    BY <1>4
  <2>2. name \in Names
    BY <1>3, <2>1, DepsAssumption
  <2> QED BY <1>2, <2>1, <2>2, CorrectStep
<1>5. CASE Correct(t, t)
  <2>1. t \in Names
    BY <1>3, RegistryAssumption
  <2> QED BY <1>2, <1>5, <2>1, CorrectStep
<1>6. CASE prompts' = prompts \ {t} /\ UNCHANGED <<registryVars, said>>
  <2>1. TypeOK'
    BY <1>2, <1>6 DEF IInv, TypeOK, worldVars
  <2>2. WorldOK' /\ Detected' = Detected /\ Appendable' = Appendable
    BY <1>2, <1>6
      DEF IInv, WorldOK, FilesOK, worldVars, registryVars, Detected, Appendable, SelectInSeq
  <2>3. HowOK' /\ TurnsOK' /\ Quiet' /\ Attended' /\ ManagerKept'
    BY <1>2, <1>6, <2>2 DEF IInv, HowOK, TurnsOK, Quiet, Attended, ManagerKept, worldVars
  <2>4. files' = files
    BY <1>6 DEF registryVars
  <2>5. Registered' /\ CorrectionTakesEffect'
    BY <1>2, <1>6, <2>2, <2>4 DEF IInv, Registered, CorrectionTakesEffect
  <2> QED BY <2>1, <2>2, <2>3, <2>5 DEF IInv
<1> QED BY <1>1, <1>4, <1>5, <1>6

\* The command is built again: with the manager of the first one, for which the names
\* have been registered.
LEMMA RetryStep == IInv /\ Retry => IInv'
<1> SUFFICES ASSUME IInv, Retry PROVE IInv'
  OBVIOUS
<1>1. /\ stage = "recover" /\ Build(batch) /\ stage' = "retry"
      /\ UNCHANGED <<worldVars, how, turns, need, missing, batch, output, prompts, said>>
      /\ UNCHANGED <<status, unmet, commands>>
  BY DEF Retry
<1>2. /\ command'.mgr \in Tags /\ command'.names \in [batch -> Names]
      /\ command'.mgr = IF mgr' = None THEN Unknown ELSE mgr'
      /\ mgr' = Resolve /\ mgr' \in ToSet(Managers) \union {None}
      /\ mgr' = None => configured' = None /\ Detected' = None
      /\ UNCHANGED <<files, writable>> /\ WorldOK'
  BY <1>1, BuildStep DEF IInv, TypeOK
<1>3. command'.mgr = command.mgr
  BY <1>1, <1>2 DEF IInv, ManagerKept, Resolve
<1>4. TypeOK'
  BY <1>1, <1>2 DEF IInv, TypeOK, worldVars
<1>5. HowOK' /\ TurnsOK' /\ Quiet' /\ Attended' /\ ManagerKept'
  BY <1>1, <1>2 DEF IInv, HowOK, TurnsOK, Quiet, Attended, ManagerKept, worldVars
<1>6. Appendable' = Appendable
  BY <1>2 DEF Appendable, SelectInSeq
<1>7. Registered'
  BY <1>1, <1>2, <1>3, <1>6 DEF IInv, Registered
<1>8. CorrectionTakesEffect'
  <2>1. SUFFICES ASSUME Appendable # None, Active(files) = files[Appendable], NEW t \in DOMAIN said
                 PROVE  command'.names[t] = said[t]
    <3>1. Active(files)' = Active(files)
      BY <1>2 DEF Active, SelectInSeq
    <3> QED BY <1>1, <1>2, <1>6, <3>1 DEF CorrectionTakesEffect
  <2>2. /\ <<t, command.mgr>> \in DOMAIN Active(files).pkgs
        /\ Active(files).pkgs[<<t, command.mgr>>] = said[t]
    BY <1>1, <2>1 DEF IInv, Registered
  <2>3. t \in batch /\ t \in Tools /\ command.mgr \in Tags
    BY <2>1 DEF IInv, TypeOK
  <2>4. command'.names[t] = DistroPkg(Reg, t, command.mgr)
    <3> DEFINE tag == IF Resolve = None THEN Unknown ELSE Resolve
    <3>1. command' = [mgr |-> tag, names |-> [u \in batch |-> DistroPkg(Reg, u, tag)]]
      BY <1>1 DEF Build
    <3>2. tag = command.mgr
      BY <1>2, <1>3
    <3>3. command'.names = [u \in batch |-> DistroPkg(Reg, u, command.mgr)]
      BY <3>1, <3>2, Zenon
    <3> QED BY <2>3, <3>3
  <2>5. Reg = Active(files) /\ IsRegistry(Active(files))
    BY RegType DEF IInv
  <2> QED BY <2>2, <2>3, <2>4, <2>5, DistroPkgFirst
<1> QED BY <1>2, <1>4, <1>5, <1>7, <1>8 DEF IInv

\* What does not change keeps the invariant.
LEMMA StutterStep == IInv /\ UNCHANGED vars => IInv'
<1> SUFFICES ASSUME IInv, UNCHANGED vars PROVE IInv'
  OBVIOUS
<1>1. /\ UNCHANGED <<files, writable, cache, exes, configured, mgr, how, turns, stage>>
      /\ UNCHANGED <<need, missing, batch, command, output, prompts, said,
                   status, unmet, commands>>
  BY DEF vars, registryVars, worldVars, listVars
<1>2. TypeOK' /\ WorldOK' /\ HowOK' /\ TurnsOK'
  BY <1>1 DEF IInv, TypeOK, WorldOK, FilesOK, Active, SelectInSeq, HowOK, TurnsOK
<1>3. Detected' = Detected /\ Appendable' = Appendable /\ Active(files)' = Active(files)
  BY <1>1 DEF Detected, Appendable, Active, SelectInSeq
<1>4. Quiet' /\ Attended' /\ ManagerKept' /\ Registered'
  BY <1>1, <1>3 DEF IInv, Quiet, Attended, ManagerKept, Registered
<1>5. CorrectionTakesEffect'
  BY <1>1, <1>3 DEF IInv, CorrectionTakesEffect
<1> QED BY <1>2, <1>4, <1>5 DEF IInv

\* Every step keeps the invariant.
LEMMA NextStep == IInv /\ [Next]_vars => IInv'
BY StartStep, CollectStep, FinishStep, RefuseStep, SkipListStep, ChooseBatchStep, RunSucceedsStep,
     RunFailsStep, PromptStep, RetryStep, GiveUpStep, RetryFailsStep, StutterStep
  DEF Next, Stopped

-----------------------------------------------------------------------------
(* The theorems *)

\* The invariant holds in every behaviour.
THEOREM Invariance == Spec => []IInv
<1>1. Init => IInv
  BY InitStep
<1>2. IInv /\ [Next]_vars => IInv'
  BY NextStep
<1> QED BY <1>1, <1>2, PTL DEF Spec

\* Whatever registries, managers and packages there are, the state is as declared.
THEOREM TypeCorrect == Spec => []TypeOK
<1>1. IInv => TypeOK
  BY DEF IInv
<1> QED BY <1>1, Invariance, PTL

\* The retry requests the names that the user has given (checker.c:323-410).
THEOREM CorrectionsReachTheRetry == Spec => []CorrectionTakesEffect
<1>1. IInv => CorrectionTakesEffect
  BY DEF IInv
<1> QED BY <1>1, Invariance, PTL

\* Without a terminal, with -y and in a dry run nobody is asked and no registry file is
\* touched, and a dry run installs nothing: names are asked for only in a recovery, and
\* a recovery needs a command that has run with the user there (Attended).
THEOREM UnattendedQuiet == Spec => UnattendedIsQuiet
<1> DEFINE Step == stage # "idle" /\ (~how.tty \/ how.auto \/ how.dry) =>
                      /\ stage' # "recover" /\ UNCHANGED files
                      /\ how.dry => UNCHANGED exes
<1>1. IInv /\ [Next]_vars => [Step]_vars
  <2> SUFFICES ASSUME IInv, [Next]_vars, stage # "idle", ~how.tty \/ how.auto \/ how.dry
               PROVE  /\ stage' # "recover" /\ UNCHANGED files
                      /\ how.dry => UNCHANGED exes
    OBVIOUS
  <2>1. stage \notin {"recover", "retry"} /\ (how.dry => stage # "run")
    BY DEF IInv, Attended
  <2>2. CASE Start
    BY <2>2 DEF Start
  <2>3. CASE Collect
    BY <2>3 DEF Collect, worldVars
  <2>4. CASE Finish
    BY <2>4 DEF Finish, worldVars
  <2>5. CASE Refuse
    BY <2>5 DEF Refuse, Show, worldVars
  <2>6. CASE SkipList
    BY <2>6 DEF SkipList, NextList, Show, worldVars, registryVars
  <2>7. CASE ChooseBatch
    BY <2>7 DEF ChooseBatch, NextList, Build, Show, worldVars
  <2>8. CASE RunSucceeds
    BY <2>1, <2>8 DEF RunSucceeds, NextList, registryVars
  <2>9. CASE RunFails
    <3>1. ~Interactive
      BY <2>1, <2>9 DEF RunFails, Interactive, IInv, HowOK
    <3>2. NextList /\ UNCHANGED files
      BY <2>9, <3>1 DEF RunFails, registryVars
    <3> QED BY <2>1, <2>9, <3>2 DEF RunFails, NextList
  <2>10. CASE Prompt \/ Retry \/ GiveUp \/ RetryFails
    BY <2>1, <2>10 DEF Prompt, Retry, GiveUp, RetryFails
  <2>11. CASE Stopped \/ UNCHANGED vars
    BY <2>1, <2>11 DEF Stopped, vars, registryVars, worldVars
  <2> QED BY <2>2, <2>3, <2>4, <2>5, <2>6, <2>7, <2>8, <2>9, <2>10, <2>11 DEF Next
<1> QED BY <1>1, Invariance, PTL DEF Spec, UnattendedIsQuiet

\* Of the tools whose names the manager did not know the user is asked about each whose
\* name is in the part of the output that is kept, and about all if that part names
\* nothing, provided the registry gives the same name for the distribution as for the
\* manager: it is that name extract_errored_packages looks for.
THEOREM EveryFailureIsPrompted == Spec => FailedArePrompted
<1> DEFINE Step == stage = "run" /\ stage' = "recover" =>
                      \A t \in Failing :
                          /\ DistroPkg(Reg, t, DistroTag) = command.names[t]
                          /\ command.names[t] \in output' \/ output' = {}
                          => t \in prompts'
<1>1. IInv /\ [Next]_vars => [Step]_vars
  <2> SUFFICES ASSUME IInv, [Next]_vars, stage = "run", stage' = "recover",
                      NEW t \in Failing, DistroPkg(Reg, t, DistroTag) = command.names[t],
                      command.names[t] \in output' \/ output' = {}
               PROVE  t \in prompts'
    OBVIOUS
  <2>1. RunFails
    BY
      DEF Next, Start, Collect, Finish, Refuse, SkipList, ChooseBatch, RunSucceeds, NextList,
          Prompt, Retry, GiveUp, RetryFails, Stopped, vars
  <2>2. \E text \in Outputs : output' = text /\ prompts' = Errored(text)
    BY <2>1 DEF RunFails, NextList
  <2> QED BY <2>2, ErroredStep DEF IInv
<1> QED BY <1>1, Invariance, PTL DEF Spec, FailedArePrompted

-----------------------------------------------------------------------------
(* Nothing is forgotten *)

\* The names a registry gives for a tool.
GivenBy(reg, t) == {reg.pkgs[k] : k \in {j \in DOMAIN reg.pkgs : j[1] = t}}

\* The names that anybody gives for a tool: itself, the user at the prompt, the bundled
\* registry, the registry files at first.
Given(t) ==
    {t} \union Answers[t] \union GivenBy(Bundled, t)
        \union {n \in Names : \E s \in Starts : \E f \in ToSet(RegFiles) :
                                  s.files[f] # None /\ n \in GivenBy(s.files[f], t)}

\* Whatever name for a tool a manager can install, it brings the tool, as an executable
\* of that name or of one that the bundled registry knows it by.
HonestPackages ==
    \A t \in Tools, m \in ToSet(Managers) : \A n \in Given(t) \intersect Known[m] :
        t \in Provides[n] \/ Aliases(Bundled, t) \intersect Provides[n] # {}

\* A tool is found under a name or an alias of some registry.
Present(t) == \E reg \in Registries : Installed(reg, exes, t)

\* A tool that CompleteAfterInstall need not ask for any more.
Settled(t) == t \in unmet \/ Present(t)

\* The registries give the names that are given, and so does the command.
NamesGiven(reg) == \A k \in DOMAIN reg.pkgs : reg.pkgs[k] \in Given(k[1])
AllGiven ==
    /\ \A f \in ToSet(RegFiles) : files[f] # None => NamesGiven(files[f])
    /\ stage \in {"run", "retry"} => \A t \in batch : command.names[t] \in Given(t)

\* A list is at hand.
Busy == stage \in {"list", "run", "recover", "retry"}

\* The packages of the turns behind are settled, ...
TurnsSettled ==
    /\ stage = "idle" => turns = <<>>
    /\ \A p \in how.pkgs :
          p \in UNION ToSet(turns) \/ \A t \in Required[p] \union Optional[p] : Settled(t)

\* ... those of the turn at hand but for the lists that are still to come, ...
ListsSettled ==
    Busy => \A p \in Head(turns) :
                /\ \A t \in Required[p] : (need = "required" /\ t \in missing[need]) \/ Settled(t)
                /\ \A t \in Optional[p] : t \in missing["optional"] \/ Settled(t)

\* ... and the list at hand but for the batch of a first command.
BatchSettled ==
    /\ stage \in {"run", "recover", "retry"} => \A t \in missing[need] \ batch : Settled(t)
    /\ stage \in {"recover", "retry"} => \A t \in batch : Settled(t)

\* The invariant: whoever is not settled is accounted for by what is still to come.
Accounted == AllGiven /\ TurnsSettled /\ ListsSettled /\ BatchSettled

\* A turn is the one at hand or one of the rest.
LEMMA TurnsBehind ==
    ASSUME NEW s \in Seq(SUBSET Pkgs), s # <<>>
    PROVE  ToSet(s) \subseteq {Head(s)} \union ToSet(Tail(s))
<1> SUFFICES ASSUME NEW i \in 1 .. Len(s), i # 1 PROVE s[i] \in ToSet(Tail(s))
  BY DEF ToSet
<1>1. i - 1 \in 1 .. Len(Tail(s)) /\ Tail(s)[i - 1] = s[i]
  OBVIOUS
<1>2. Tail(s) \in Seq(SUBSET Pkgs) /\ DOMAIN Tail(s) = 1 .. Len(Tail(s))
  OBVIOUS
<1> QED BY <1>1, <1>2 DEF ToSet

\* The first registry file that is there, or the bundled one.
LEMMA ActiveIsOne ==
    ASSUME NEW fs, FilesOK(fs)
    PROVE  \/ Active(fs) = Bundled
           \/ \E f \in ToSet(RegFiles) : fs[f] # None /\ Active(fs) = fs[f]
<1> DEFINE I == {i \in 1 .. Len(RegFiles) : fs[RegFiles[i]] # None}
<1>1. CASE I = {}
  BY <1>1 DEF Active, SelectInSeq
<1>2. CASE I # {}
  <2>1. Min(I) \in I /\ Min(I) # 0
    BY <1>2, FirstIndex DEF RegFiles
  <2>2. Active(fs) = fs[RegFiles[Min(I)]]
    BY <1>2, <2>1 DEF Active, SelectInSeq
  <2>3. RegFiles[Min(I)] \in ToSet(RegFiles)
    BY <2>1 DEF ToSet, RegFiles
  <2> QED BY <2>1, <2>2, <2>3
<1> QED BY <1>1, <1>2

\* The registry in force gives names that are given.
LEMMA RegGiven ==
    ASSUME WorldOK, AllGiven
    PROVE  NamesGiven(Reg)
<1>1. \A k \in DOMAIN Bundled.pkgs : Bundled.pkgs[k] \in GivenBy(Bundled, k[1])
  BY DEF GivenBy
<1>2. NamesGiven(Bundled)
  BY <1>1 DEF NamesGiven, Given
<1> QED BY <1>2, RegType, ActiveIsOne DEF WorldOK, AllGiven

\* What is asked for is a name that is given.
LEMMA DistroPkgGiven ==
    ASSUME NEW reg, NamesGiven(reg), NEW t \in Tools, NEW tag \in Tags
    PROVE  DistroPkg(reg, t, tag) \in Given(t)
<1> DEFINE tried == TagsTried(tag)
           I == {i \in 1 .. Len(tried) : <<t, tried[i]>> \in DOMAIN reg.pkgs}
<1>1. Len(tried) \in Nat
  BY TriedType
<1>2. CASE I = {}
  BY <1>2 DEF DistroPkg, SelectInSeq, Given
<1>3. CASE I # {}
  <2>1. Min(I) \in I /\ Min(I) # 0
    BY <1>1, <1>3, FirstIndex
  <2>2. DistroPkg(reg, t, tag) = reg.pkgs[<<t, tried[Min(I)]>>]
    BY <1>3, <2>1 DEF DistroPkg, SelectInSeq
  <2> QED BY <2>1, <2>2 DEF NamesGiven
<1> QED BY <1>2, <1>3

\* A command that is built asks for names that are given.
LEMMA BuildGiven ==
    ASSUME TypeOK, WorldOK, AllGiven, NEW tools \in SUBSET Tools, Build(tools)
    PROVE  \A t \in tools : command'.names[t] \in Given(t)
<1> DEFINE tag == IF Resolve = None THEN Unknown ELSE Resolve
<1>1. tag \in Tags
  BY ResolveType, ManagerTags, DepsAssumption
<1>2. command'.names = [t \in tools |-> DistroPkg(Reg, t, tag)]
  BY DEF Build
<1> HIDE DEF tag
<1> QED BY <1>1, <1>2, RegGiven, DistroPkgGiven

\* The registries there are keep their aliases.
AliasesKept == \A reg \in Registries : \E new \in Registries' : new.alias = reg.alias

\* They do so when no file is written.
LEMMA FilesKept ==
    ASSUME UNCHANGED files
    PROVE  AliasesKept
BY DEF AliasesKept, Registries

\* What is present stays so.
LEMMA PresentKept ==
    ASSUME AliasesKept, exes \subseteq exes', NEW t, Present(t)
    PROVE  Present(t)'
<1>1. PICK reg \in Registries : Installed(reg, exes, t)
  BY DEF Present
<1>2. PICK new \in Registries' : new.alias = reg.alias
  BY DEF AliasesKept
<1>3. Installed(new, exes', t)
  BY <1>1, <1>2 DEF Installed, Aliases
<1> QED BY <1>2, <1>3 DEF Present

\* What is settled stays so, if nothing is taken from unmet but what is present.
LEMMA SettledKept ==
    ASSUME AliasesKept, exes \subseteq exes', \A t \in unmet \ unmet' : Present(t)',
           NEW t, Settled(t)
    PROVE  Settled(t)'
BY PresentKept DEF Settled

\* What is installed is settled.
LEMMA InstalledIsPresent ==
    ASSUME WorldOK, NEW t, Installed(Reg, exes, t)
    PROVE  Present(t)
BY RegType, ActiveIsOne DEF WorldOK, Present, Registries

\* A list ends with all its tools settled.
LEMMA ListEnds ==
    ASSUME IInv, Accounted, Busy, NextList, UNCHANGED <<how, missing, files>>,
           exes \subseteq exes', \A t \in unmet \ unmet' : Present(t)',
           \A t \in missing[need] : Settled(t)'
    PROVE  Accounted'
<1>1. \A t : Settled(t) => Settled(t)'
  BY FilesKept, SettledKept
<1>2. need \in Lists /\ turns \in Seq(SUBSET Pkgs) /\ turns # <<>>
  BY DEF IInv, TypeOK, TurnsOK, Busy
<1>3. AllGiven'
  BY DEF Accounted, AllGiven, NextList
<1>4. CASE need = "required"
  <2>1. stage' = "list" /\ need' = "optional" /\ UNCHANGED turns
    BY <1>4 DEF NextList
  <2>2. TurnsSettled'
    BY <1>1, <2>1 DEF Accounted, TurnsSettled
  <2>3. ListsSettled'
    BY <1>1, <1>4, <2>1 DEF Accounted, ListsSettled
  <2> QED BY <1>3, <2>1, <2>2, <2>3 DEF Accounted, BatchSettled
<1>5. CASE need = "optional"
  <2>1. stage' = "collect" /\ turns' = Tail(turns)
    BY <1>5 DEF NextList
  <2>2. \A p \in Head(turns) : \A t \in Required[p] \union Optional[p] : Settled(t)'
    BY <1>1, <1>5 DEF Accounted, ListsSettled
  <2>3. ToSet(turns) \subseteq {Head(turns)} \union ToSet(Tail(turns))
    BY <1>2, TurnsBehind
  <2>4. TurnsSettled'
    BY <1>1, <2>1, <2>2, <2>3 DEF Accounted, TurnsSettled
  <2> QED BY <1>3, <2>1, <2>4 DEF Accounted, ListsSettled, BatchSettled, Busy
<1> QED BY <1>2, <1>4, <1>5 DEF Lists

\* Nothing is declared by no package.
LEMMA InitAccounted == Init => Accounted
<1> SUFFICES ASSUME Init PROVE Accounted
  OBVIOUS
<1>1. stage = "idle" /\ turns = <<>> /\ how.pkgs = {}
  BY DEF Init, Idle
<1>2. PICK s \in Starts : files = s.files
  BY DEF Init
<1>3. ASSUME NEW f \in ToSet(RegFiles), files[f] # None, NEW k \in DOMAIN files[f].pkgs
      PROVE  files[f].pkgs[k] \in Given(k[1])
  <2>1. IsRegistry(files[f])
    BY <1>2, <1>3, DepsAssumption
  <2>2. files[f].pkgs[k] \in Names
    BY <1>3, <2>1, RegistryShape
  <2>3. files[f].pkgs[k] \in GivenBy(s.files[f], k[1])
    BY <1>2 DEF GivenBy
  <2> QED BY <1>2, <1>3, <2>2, <2>3 DEF Given
<1> QED
  BY <1>1, <1>3 DEF Accounted, AllGiven, NamesGiven, TurnsSettled, ListsSettled, BatchSettled, Busy

\* Every package of the command is in one of its turns.
LEMMA StartAccounted == IInv /\ Accounted /\ Start => Accounted'
<1> SUFFICES ASSUME Accounted, Start PROVE Accounted'
  OBVIOUS
<1>1. stage' = "collect" /\ UNCHANGED <<files, batch>> /\ how'.pkgs = UNION ToSet(turns')
  BY DEF Start, registryVars, listVars
<1> QED
  BY <1>1 DEF Accounted, AllGiven, TurnsSettled, ListsSettled, BatchSettled, Busy

\* What is not lacking is there.
LEMMA CollectAccounted == IInv /\ Accounted /\ Collect => Accounted'
<1> SUFFICES ASSUME IInv, Accounted, Collect PROVE Accounted'
  OBVIOUS
<1>1. /\ stage' = "list" /\ need' = "required" /\ missing' = Lacking(Head(turns))
      /\ UNCHANGED <<files, exes, how, turns, batch, unmet>>
  BY DEF Collect, worldVars, listVars
<1>2. \A t : Settled(t) => Settled(t)'
  BY <1>1, FilesKept, SettledKept
<1>3. \A t : Installed(Reg, exes, t) => Settled(t)
  BY InstalledIsPresent DEF IInv, Settled
<1>4. ListsSettled'
  BY <1>1, <1>2, <1>3 DEF ListsSettled, Lacking, Lists
<1>5. TurnsSettled'
  BY <1>1, <1>2 DEF Accounted, TurnsSettled
<1> QED BY <1>1, <1>4, <1>5 DEF Accounted, AllGiven, BatchSettled

\* No turn is left.
LEMMA FinishAccounted == IInv /\ Accounted /\ Finish => Accounted'
<1> SUFFICES ASSUME Accounted, Finish PROVE Accounted'
  OBVIOUS
<1>1. stage' = "idle" /\ turns' = <<>> /\ UNCHANGED <<files, exes, how, turns, unmet>>
  BY DEF Finish, worldVars
<1>2. \A t : Settled(t) => Settled(t)'
  BY <1>1, FilesKept, SettledKept
<1>3. TurnsSettled'
  BY <1>1, <1>2 DEF Accounted, TurnsSettled
<1> QED BY <1>1, <1>3 DEF Accounted, AllGiven, ListsSettled, BatchSettled, Busy

\* What is given up is unmet.
LEMMA RefuseAccounted == IInv /\ Accounted /\ Refuse => Accounted'
<1> SUFFICES ASSUME IInv, Accounted, Refuse PROVE Accounted'
  OBVIOUS
<1>1. /\ stage = "list" /\ need = "required" /\ stage' = "collect" /\ turns' = Tail(turns)
      /\ unmet' = unmet \union missing["required"] \union missing["optional"]
      /\ UNCHANGED <<files, exes, how>>
  BY DEF Refuse, Show, worldVars
<1>2. \A t : Settled(t) => Settled(t)'
  BY <1>1, FilesKept, SettledKept
<1>3. \A p \in Head(turns) : \A t \in Required[p] \union Optional[p] : Settled(t)'
  BY <1>1, <1>2 DEF Accounted, ListsSettled, Busy, Settled
<1>4. ToSet(turns) \subseteq {Head(turns)} \union ToSet(Tail(turns))
  BY <1>1, TurnsBehind DEF IInv, TurnsOK
<1>5. TurnsSettled'
  BY <1>1, <1>2, <1>3, <1>4 DEF Accounted, TurnsSettled
<1> QED BY <1>1, <1>5 DEF Accounted, AllGiven, ListsSettled, BatchSettled, Busy

\* A list that is passed over is unmet.
LEMMA SkipAccounted == IInv /\ Accounted /\ SkipList => Accounted'
<1> SUFFICES ASSUME IInv, Accounted, SkipList PROVE Accounted'
  OBVIOUS
<1>1. stage = "list" /\ NextList /\ unmet' = unmet \union missing[need]
      /\ UNCHANGED <<how, missing, exes, files>>
  BY DEF SkipList, Show, worldVars, registryVars
<1> QED BY <1>1, ListEnds DEF Busy, Settled

\* What is not chosen is unmet.
LEMMA ChooseAccounted == IInv /\ Accounted /\ ChooseBatch => Accounted'
<1> SUFFICES ASSUME IInv, Accounted, ChooseBatch PROVE Accounted'
  OBVIOUS
<1>1. PICK chosen \in Selections(missing[need]) :
          /\ unmet' = unmet \union (missing[need] \ chosen)
          /\ IF chosen = {}
             THEN NextList /\ Show
             ELSE /\ Build(chosen)
                  /\ batch' = chosen
                  /\ stage' = "run"
                  /\ UNCHANGED <<turns, need, output, prompts, said>>
  BY DEF ChooseBatch
<1>2. stage = "list" /\ UNCHANGED <<how, missing, exes, files>>
  BY <1>1 DEF ChooseBatch, Build, Show, worldVars
<1>3. CASE chosen = {}
  BY <1>1, <1>2, <1>3, ListEnds DEF Busy, Settled
<1>4. CASE chosen # {}
  <2>1. Build(chosen) /\ batch' = chosen /\ stage' = "run" /\ UNCHANGED <<turns, need>>
    BY <1>1, <1>4
  <2>2. chosen \subseteq Tools
    BY DEF Selections, IInv, TypeOK, HowOK
  <2>3. \A t : Settled(t) => Settled(t)'
    BY <1>1, <1>2, FilesKept, SettledKept
  <2>4. AllGiven'
    BY <1>2, <2>1, <2>2, BuildGiven DEF IInv, Accounted, AllGiven
  <2>5. TurnsSettled' /\ ListsSettled'
    BY <1>2, <2>1, <2>3 DEF Accounted, TurnsSettled, ListsSettled, Busy
  <2>6. BatchSettled'
    BY <1>1, <1>2, <2>1 DEF BatchSettled, Settled
  <2> QED BY <2>4, <2>5, <2>6 DEF Accounted
<1> QED BY <1>3, <1>4

\* A command that succeeds has brought its tools, as packages are honest.
LEMMA SucceedsAccounted ==
    ASSUME HonestPackages, IInv, Accounted, RunSucceeds
    PROVE  Accounted'
<1>1. /\ stage \in {"run", "retry"} /\ Failing = {} /\ exes' = exes \union Provided(Requested)
      /\ unmet' = unmet \ batch /\ NextList /\ UNCHANGED <<how, missing, files>>
  BY DEF RunSucceeds, registryVars
<1>2. ASSUME NEW t \in batch PROVE Present(t)'
  <2> DEFINE n == command.names[t]
  <2>1. t \in Tools /\ n \in Given(t)
    BY <1>1 DEF IInv, TypeOK, Accounted, AllGiven
  <2>2. n \in Installable
    BY <1>1 DEF Failing
  <2>3. n \in Known[command.mgr] /\ command.mgr \in ToSet(Managers)
    BY <1>1, <2>2 DEF Installable, IInv, TypeOK, ManagerKept
  <2>4. t \in Provides[n] \/ Aliases(Bundled, t) \intersect Provides[n] # {}
    BY <2>1, <2>3 DEF HonestPackages
  <2>5. Provides[n] \subseteq exes'
    BY <1>1 DEF Provided, Requested
  <2>6. Installed(Bundled, exes', t)
    BY <2>4, <2>5 DEF Installed
  <2> QED BY <2>6 DEF Present, Registries
<1>3. \A t \in unmet \ unmet' : Present(t)'
  BY <1>1, <1>2
<1>4. \A t : Settled(t) => Settled(t)'
  BY <1>1, <1>3, FilesKept, SettledKept
<1>5. \A t \in missing[need] : Settled(t)'
  BY <1>1, <1>2, <1>4 DEF Accounted, BatchSettled, Settled
<1> QED BY <1>1, <1>3, <1>5, ListEnds DEF Busy

\* The batch of a command that fails is unmet.
LEMMA FailsAccounted == IInv /\ Accounted /\ RunFails => Accounted'
<1> SUFFICES ASSUME IInv, Accounted, RunFails PROVE Accounted'
  OBVIOUS
<1>1. /\ stage = "run" /\ exes \subseteq exes' /\ unmet' = unmet \union batch
      /\ UNCHANGED <<how, missing, files>>
      /\ \/ NextList
         \/ stage' = "recover" /\ UNCHANGED <<turns, need, batch, command>>
  BY DEF RunFails, registryVars
<1>2. \A t : Settled(t) => Settled(t)'
  BY <1>1, FilesKept, SettledKept
<1>3. \A t \in missing[need] \union batch : Settled(t)'
  BY <1>1, <1>2 DEF Accounted, BatchSettled, Settled
<1>4. CASE NextList
  BY <1>1, <1>3, <1>4, ListEnds DEF Busy
<1>5. CASE stage' = "recover" /\ UNCHANGED <<turns, need, batch, command>>
  <2>1. TurnsSettled' /\ ListsSettled'
    BY <1>1, <1>2, <1>5 DEF Accounted, TurnsSettled, ListsSettled, Busy
  <2> QED BY <1>1, <1>3, <1>5, <2>1 DEF Accounted, AllGiven, BatchSettled
<1> QED BY <1>1, <1>4, <1>5

\* What is between a command that has failed and the end of its list settles nothing
\* and unsettles nothing.
LEMMA RecoveryAccounted ==
    ASSUME IInv, Accounted, AliasesKept, AllGiven', stage = "recover", stage' \in {"recover", "retry"},
           UNCHANGED <<exes, how, turns, need, missing, batch, unmet>>
    PROVE  Accounted'
<1>1. \A t : Settled(t) => Settled(t)'
  BY SettledKept
<1>2. TurnsSettled' /\ ListsSettled'
  BY <1>1 DEF Accounted, TurnsSettled, ListsSettled, Busy
<1>3. BatchSettled'
  BY <1>1 DEF Accounted, BatchSettled
<1> QED BY <1>2, <1>3 DEF Accounted

\* A name that is registered leaves the aliases as they are.
LEMMA CorrectGiven ==
    ASSUME IInv, Accounted, NEW t \in Tools, NEW name \in Given(t), name \in Names,
           Correct(t, name)
    PROVE  /\ AliasesKept
           /\ \A f \in ToSet(RegFiles) : files'[f] # None => NamesGiven(files'[f])
<1> DEFINE D == {t} \X {DistroTag, command.mgr}
           above == IF files[Appendable] = None THEN EmptyRegistry ELSE files[Appendable]
           lines == [k \in D |-> name]
           new == [above EXCEPT !.pkgs = After(lines, above.pkgs)]
<1>1. files' = IF Appendable = None THEN files ELSE [files EXCEPT ![Appendable] = new]
  BY DEF Correct, AddMappings, Mapped
<1>2. DOMAIN files = ToSet(RegFiles) /\ (Appendable # None => Appendable \in ToSet(RegFiles))
  BY AppendableType DEF IInv, WorldOK, FilesOK
<1>3. IsRegistry(EmptyRegistry)
  <2>1. <<>> \in [{} -> Names] /\ <<>> \in [{} -> SUBSET Exes]
    OBVIOUS
  <2> QED BY <2>1 DEF EmptyRegistry, IsRegistry
<1>4. Appendable # None => IsRegistry(above)
  BY <1>2, <1>3 DEF IInv, WorldOK, FilesOK
<1>5. files[Appendable] # None => above = files[Appendable]
  OBVIOUS
<1>6. Appendable # None => NamesGiven(above)
  <2>1. NamesGiven(EmptyRegistry)
    BY EmptyNames DEF NamesGiven, EmptyRegistry
  <2> QED BY <1>2, <2>1 DEF Accounted, AllGiven
<1> HIDE DEF above
<1>7. Appendable # None =>
          new.alias = above.alias /\ new.pkgs = After(lines, above.pkgs)
  BY <1>4, RegistryShape
<1>8. ASSUME Appendable # None PROVE NamesGiven(new)
  <2> SUFFICES ASSUME NEW k \in DOMAIN new.pkgs PROVE new.pkgs[k] \in Given(k[1])
    BY DEF NamesGiven
  <2>1. k \in D \union DOMAIN above.pkgs /\ new.pkgs[k] = IF k \in D THEN name ELSE (above.pkgs)[k]
    BY <1>7, <1>8 DEF After
  <2> QED BY <1>6, <1>8, <2>1 DEF NamesGiven
<1> HIDE DEF new
<1>9. AliasesKept
  <2> SUFFICES ASSUME NEW reg \in Registries PROVE \E r \in Registries' : r.alias = reg.alias
    BY DEF AliasesKept
  <2>1. CASE reg \in Registries'
    BY <2>1
  <2>2. CASE reg \notin Registries'
    <3>1. PICK f \in ToSet(RegFiles) : reg = files[f] /\ files[f] # None
      BY <2>2 DEF Registries
    <3>2. files'[f] # reg
      BY <2>2, <3>1 DEF Registries
    <3>3. Appendable # None /\ f = Appendable /\ files'[f] = new
      BY <1>1, <1>2, <3>1, <3>2
    <3>4. new.alias = reg.alias
      BY <1>5, <1>7, <3>1, <3>3
    <3>5. new # None
      <4>1. {DistroTag, command.mgr} \in SUBSET Tags
        BY RegistryAssumption DEF IInv, TypeOK, DistroTag
      <4>2. files' = Mapped(files, t, {DistroTag, command.mgr}, name)
        BY DEF Correct, AddMappings
      <4>3. Entered(files', files, t, {DistroTag, command.mgr}, name)
        BY <3>3, <4>1, <4>2, MappedStep DEF IInv, WorldOK
      <4> QED BY <3>3, <4>3 DEF Entered
    <3> QED BY <3>1, <3>3, <3>4, <3>5 DEF Registries
  <2> QED BY <2>1, <2>2
<1>10. \A f \in ToSet(RegFiles) : files'[f] # None => NamesGiven(files'[f])
  BY <1>1, <1>2, <1>8 DEF Accounted, AllGiven
<1> QED BY <1>9, <1>10

\* The user answers, or does not.
LEMMA PromptAccounted == IInv /\ Accounted /\ Prompt => Accounted'
<1> SUFFICES ASSUME IInv, Accounted, Prompt PROVE Accounted'
  OBVIOUS
<1>1. PICK t \in prompts :
          \/ \E name \in Answers[t] : Correct(t, name)
          \/ how.strict /\ Correct(t, t)
          \/ prompts' = prompts \ {t} /\ UNCHANGED <<registryVars, said>>
  BY DEF Prompt
<1>2. /\ stage = "recover" /\ stage' = "recover"
      /\ UNCHANGED <<exes, how, turns, need, missing, batch, unmet, command>>
  BY DEF Prompt, worldVars
<1>3. t \in Tools
  BY DEF IInv, TypeOK
<1>4. CASE \E name \in Answers[t] \union {t} : Correct(t, name)
  <2>1. PICK name \in Answers[t] \union {t} : Correct(t, name)
    BY <1>4
  <2>2. name \in Given(t) /\ name \in Names
    BY <1>3, <2>1, DepsAssumption, RegistryAssumption DEF Given
  <2>3. AliasesKept /\ \A f \in ToSet(RegFiles) : files'[f] # None => NamesGiven(files'[f])
    BY <1>3, <2>1, <2>2, CorrectGiven
  <2>4. AllGiven'
    BY <1>2, <2>3 DEF AllGiven, NamesGiven
  <2> QED BY <1>2, <2>3, <2>4, RecoveryAccounted
<1>5. CASE UNCHANGED <<registryVars, said>>
  <2>1. AllGiven'
    BY <1>2, <1>5 DEF Accounted, AllGiven, registryVars
  <2> QED BY <1>2, <1>5, <2>1, FilesKept, RecoveryAccounted DEF registryVars
<1> QED BY <1>1, <1>4, <1>5

\* The command is built again.
LEMMA RetryAccounted == IInv /\ Accounted /\ Retry => Accounted'
<1> SUFFICES ASSUME IInv, Accounted, Retry PROVE Accounted'
  OBVIOUS
<1>1. /\ stage = "recover" /\ stage' = "retry" /\ Build(batch)
      /\ UNCHANGED <<exes, how, turns, need, missing, batch, unmet, files>>
  BY DEF Retry, Build, Show, worldVars
<1>2. AllGiven'
  BY <1>1, BuildGiven DEF IInv, TypeOK, Accounted, AllGiven
<1> QED BY <1>1, <1>2, FilesKept, RecoveryAccounted

\* The batch that is left is unmet already.
LEMMA LeftAccounted == IInv /\ Accounted /\ (GiveUp \/ RetryFails) => Accounted'
<1> SUFFICES ASSUME IInv, Accounted, GiveUp \/ RetryFails PROVE Accounted'
  OBVIOUS
<1>1. /\ stage \in {"recover", "retry"} /\ exes \subseteq exes' /\ NextList
      /\ UNCHANGED <<how, missing, unmet, files>>
  BY DEF GiveUp, RetryFails, registryVars, worldVars
<1>2. \A t : Settled(t) => Settled(t)'
  BY <1>1, FilesKept, SettledKept
<1>3. \A t \in missing[need] : Settled(t)'
  BY <1>1, <1>2 DEF Accounted, BatchSettled
<1> QED BY <1>1, <1>3, ListEnds DEF Busy

\* What does not change is accounted for.
LEMMA StutterAccounted == Accounted /\ UNCHANGED vars => Accounted'
<1> SUFFICES ASSUME Accounted, UNCHANGED vars PROVE Accounted'
  OBVIOUS
<1>1. UNCHANGED <<files, exes, how, turns, stage, need, missing, batch, command, unmet>>
  BY DEF vars, registryVars, worldVars, listVars
<1>2. \A t : Settled(t) => Settled(t)'
  BY <1>1, FilesKept, SettledKept
<1>3. AllGiven' /\ TurnsSettled'
  BY <1>1, <1>2 DEF Accounted, AllGiven, TurnsSettled
<1>4. ListsSettled' /\ BatchSettled'
  BY <1>1, <1>2 DEF Accounted, ListsSettled, BatchSettled, Busy
<1> QED BY <1>3, <1>4 DEF Accounted

\* When a command ends each tool its packages declare is there, or has been declined,
\* skipped or requested in vain: none is forgotten between the lists, the turns and the
\* retry.  What a manager says it has installed must bring the tool (HonestPackages), as
\* the code does not look again after a command that has succeeded (checker.c:223).
THEOREM NoToolForgotten ==
    ASSUME HonestPackages
    PROVE  Spec => []CompleteAfterInstall
<1>1. IInv /\ Accounted /\ [Next]_vars => Accounted'
  BY StartAccounted, CollectAccounted, FinishAccounted, RefuseAccounted, SkipAccounted,
       ChooseAccounted, SucceedsAccounted, FailsAccounted, PromptAccounted, RetryAccounted,
       LeftAccounted, StutterAccounted
    DEF Next, Stopped
<1>2. Accounted => CompleteAfterInstall
  BY DEF Accounted, TurnsSettled, CompleteAfterInstall, Settled, Present, ToSet
<1> QED BY <1>1, <1>2, InitAccounted, Invariance, PTL DEF Spec
=============================================================================
