------------------------------- MODULE Stores -------------------------------
(* The stores of symdep on disk - the configuration, the manifest of each package,
   the ignore files, the registry - and the commands that read, change and use
   them, several at a time from different terminals.  Nothing is locked: a command
   reads a store, edits the copy, then truncates the file (fopen "w") and writes
   it when it closes it.  Disks come and go; a command may be killed; a file may
   not be writable; the file system may be full when the file is closed.

   The operators on the texts are those of Config, Manifest and Ignore. *)
EXTENDS Manifest, Ignore

CONSTANTS
    Terminals,
    Packages,
    Repo,          \* the directory the packages, manifests and ignore files are in
    Files,         \* for each package its files, records [path, plain, lines]
    Bundled,       \* the tools of the installed registry
    Removable,     \* the directories on disks that come and go
    Directories,   \* all directories
    Uses,          \* for each package the tools its files call
    Jobs           \* the scenarios: the files and the environment at the start, the requests,
                   \* how many commands run together and how many steps there are

VARIABLES
    disk,      \* the text of every file
    up,        \* the directories that exist and are usable
    cmd,       \* for each terminal its command, Idle if there is none
    known,     \* the registry it has read, g_registry_cache
    said,      \* the answer to its last edit
    left,      \* commands and mounts that are still to come
    placed,    \* the links `link` and `all` have made
    moved,     \* the packages whose target, source or rules somebody changed
    broken,    \* the ways in which the promise of Settings has been broken
    kept,      \* the text of every file, of one that is being written the text before
    job

vars == <<disk, up, cmd, known, said, left, placed, moved, broken, kept, job>>

RegistryFile == <<"", "symdep.registry">>

\* A command: the request, the writes that are left (None before it has read its stores),
\* the texts of their files as it has read them, and whether it is writing the first.
Command(r) == [req |-> r, todo |-> None, base |-> None, open |-> FALSE]

Idle == Command(None)

\* A registry file, once it exists, hides the installed one.
ToolsOf(text) == IF text = None THEN Bundled ELSE ToSet(text)

Tools == ToolsOf(disk[RegistryFile])

-----------------------------------------------------------------------------
(* What a command does once it has read its stores: the writes, in order, or if
   there are none the answer. *)

Plan(todo) == [todo |-> todo, answer |-> "done"]

Said(answer) == [todo |-> <<>>, answer |-> answer]

TheConfig == LoadConfig(disk[ConfigFile(disk)], up)

ConfigEdit(r, cfg, d) ==
    CASE r.op = "set source" -> SetSource(cfg, d)
      [] r.op = "add source" -> AddSource(cfg, d)
      [] r.op = "remove dir" -> RemoveDir(cfg, d)
      [] r.op = "target"     -> SetTarget(cfg, d)
      [] r.op = "manager"    -> SetManager(cfg, r.arg)
      [] r.op = "elevation"  -> SetElevation(cfg, r.arg)

ConfigPlan(r) ==
    LET d   == IF r.path = None THEN None ELSE Prepare(r.path)
        new == ConfigEdit(r, TheConfig, d)
    IN  IF d # None /\ d \notin up /\ r.op # "remove dir" THEN Said("failed")
        ELSE IF new = TheConfig /\ r.op \in {"add source", "remove dir"} THEN Said("nothing")
        ELSE Plan(<< <<"write", ConfigFile(disk), ConfigText(new)>> >>)

SaveManifest(p, m) == << <<"write", <<p, ".symdeps">>, ManifestText(m)>> >>

ManifestPlan(r) ==
    LET m == LoadManifest(disk, r.who)
    IN  Plan(SaveManifest(r.who,
                 CASE r.op = "create"      -> EmptyManifest
                   [] r.op = "deps target" -> SetTargetPath(m, r.arg)
                   [] r.op = "deps add"    -> AddDep(m, r.arg, r.kind)
                   [] r.op = "deps edit"   -> EditDep(m, r.arg, r.kind)
                   [] r.op = "deps remove" -> RemoveDep(m, r.arg)))

\* The package's files that the default and the repository's rules leave.
Scanned(p) == {f \in Files[p] : f.path \in Walk({g.path : g \in Files[p]}, GlobalRules(disk))}

AllPackages == {p \in Packages : ~IsIgnored(<<p>>, GlobalRules(disk))}

NewInvocations(p) ==
    Invocations(Scanned(p), p, Candidates(AllPackages, Tools)) \ Listed(LoadManifest(disk, p))

\* What the question of `scan -i` may be answered with, in the order it was found.
Selections(p) == UNION {SetToSeqs(chosen) : chosen \in SUBSET NewInvocations(p)}

\* `scan -i` also registers the tools that were picked, before the manifest is saved.
Registers(r) == r.op = "scan -i"

ScanPlan(r, picked) ==
    LET m   == LoadManifest(disk, r.who)
        new == ScanInto(m, Shebangs(Scanned(r.who), r.who), ToSet(picked))
        register == [i \in DOMAIN picked |-> <<"append", RegistryFile, picked[i]>>]
    IN  IF HasManifest(disk, r.who) /\ new = m THEN Said("nothing")
        ELSE Plan((IF Registers(r) THEN register ELSE <<>>) \o SaveManifest(r.who, new))

IgnorePlan(r) ==
    LET file == IgnoreFile(disk, r.who)
        text == disk[file]
        init == IF text = None THEN << <<"write", file, TemplateText>> >> ELSE <<>>
        add  == IF AddedAlready(disk, r.who, IF text = None THEN TemplateText ELSE text, r.arg)
                THEN <<>> ELSE << <<"append", file, r.arg>> >>
        todo == CASE r.op = "ignore init"   -> init
                  [] r.op = "ignore add"    -> init \o add
                  [] r.op = "ignore remove" ->
                         IF text # None /\ HasLine(text, r.arg)
                         THEN << <<"write", file, RemoveLines(text, r.arg)>> >> ELSE <<>>
                  [] r.op = "ignore clear"  -> IF text # None THEN << <<"delete", file, None>> >> ELSE <<>>
    IN  IF todo = <<>> THEN Said("nothing") ELSE Plan(todo)

-----------------------------------------------------------------------------
(* Links.  Deps and Linker say what linking a package does; here it is one step
   that finds the files and the place, and `unlink` finds them again. *)

Source(cfg, there) == SourceDir(None, Jobs[job].env.source, Jobs[job].marked, cfg, there)

GlobalTarget(cfg, there) == TargetDir(None, Jobs[job].env.target, cfg, there)

PackageTarget(d, p, cfg, there) ==
    TargetForPkg(None, LoadManifest(d, p).target, Jobs[job].env.target, cfg, there)

LinksOf(d, p, from, at) ==
    {[pkg |-> p, file |-> f, from |-> from, at |-> at] :
        f \in Collect({g.path : g \in Files[p]}, PackageRules(d, p))}

\* A directory of the configuration is on a disk that is not there.
SomeAbsent == LoadConfig(disk[ConfigFile(disk)], Directories) # TheConfig

\* No command but those of `config` starts without a source and a target.
Runs == Source(TheConfig, up) = Repo /\ GlobalTarget(TheConfig, up) # None

Linking(r) ==
    LET at(p) == IF r.op = "all" THEN GlobalTarget(TheConfig, up)
                 ELSE PackageTarget(disk, p, TheConfig, up)
        whom  == IF r.op = "all" THEN AllPackages ELSE {r.who}
        links == UNION {LinksOf(disk, p, Repo, at(p)) : p \in whom}
    IN  IF ~Runs \/ \E p \in whom : at(p) = None
        THEN [answer |-> "failed", links |-> placed, moves |-> {}]
        ELSE [answer |-> "done",
              links |-> IF r.op = "unlink" THEN placed \ links ELSE placed \union links,
              moves |-> {p \in whom : SomeAbsent \/ at(p) # PackageTarget(disk, p, TheConfig, up)}]

-----------------------------------------------------------------------------
(* Commands *)

ConfigOps   == {"set source", "add source", "remove dir", "target", "manager", "elevation"}
ManifestOps == {"create", "deps target", "deps add", "deps edit", "deps remove", "scan -i", "scan -y"}
IgnoreOps   == {"ignore init", "ignore add", "ignore remove", "ignore clear"}
LinkOps     == {"link", "unlink", "all"}

ConfigNames   == {ConfigFiles[i] : i \in DOMAIN ConfigFiles}
ManifestFiles == Packages \X {".symdeps", ".stowdeps"}
IgnoreFiles   == (Packages \union {""}) \X {".symignore", ".stowignore"}
StoreFiles    == ConfigNames \union ManifestFiles \union IgnoreFiles \union {RegistryFile}

\* What the lines of a file are.
LinesOf(file) ==
    CASE file \in ConfigNames   -> ConfigLines
      [] file \in ManifestFiles -> ManifestLines
      [] file \in IgnoreFiles   -> Lines
      [] file = RegistryFile    -> STRING

\* A request is about a package, a tool, a pattern or a directory: the one its path means.
RequestOK(r) ==
    /\ r.op \in ConfigOps \union ManifestOps \union IgnoreOps \union LinkOps
    /\ r.op \in {"set source", "add source", "remove dir", "target"} =>
           \/ r.path # None /\ r.arg = Prepare(r.path) /\ r.arg \in Dirs
           \/ r.path = None /\ r.arg = None /\ r.op \in {"remove dir", "target"}
    /\ r.op \in {"manager", "elevation"} => r.arg = None \/ r.arg \in STRING
    /\ r.op \in ManifestOps \union {"link", "unlink"} => r.who \in Packages
    /\ r.op = "deps target" => r.arg = None \/ r.arg \in Dirs
    /\ r.op \in {"deps add", "deps edit", "deps remove"} => r.arg \in STRING
    /\ r.op \in IgnoreOps => r.who \in Packages \union {""}
    /\ r.op \in {"ignore add", "ignore remove"} => r.arg \in Pats

ASSUME StoresAssumption ==
    /\ IsFiniteSet(Packages) /\ Packages \subseteq STRING
    /\ IsFiniteSet(Bundled) /\ Bundled \subseteq STRING
    /\ \A p \in Packages : Files[p] \subseteq SourceFiles
    /\ Repo \in Directories /\ Removable \subseteq Directories /\ None \notin Directories
    /\ \A j \in DOMAIN Jobs :
          /\ DOMAIN Jobs[j].disk = StoreFiles
          /\ \A f \in StoreFiles : Jobs[j].disk[f] \in Seq(LinesOf(f)) \union {None}
          /\ \A r \in Jobs[j].requests : RequestOK(r) /\ r # None

Writing(c, file) == cmd[c].open /\ cmd[c].todo[1][2] = file

IsOpen(file) == \E c \in Terminals : Writing(c, file)

Plans(r) ==
    CASE r.op \in ConfigOps -> {ConfigPlan(r)}
      [] r.op \notin ConfigOps /\ ~Runs -> {Said("failed")}
      [] r.op = "scan -i" /\ Runs -> {ScanPlan(r, picked) : picked \in Selections(r.who)}
      [] r.op = "scan -y" /\ Runs -> {ScanPlan(r, SetToSeq(NewInvocations(r.who)))}
      [] r.op \in ManifestOps \ {"scan -i", "scan -y"} /\ Runs -> {ManifestPlan(r)}
      [] r.op \in IgnoreOps /\ Runs -> {IgnorePlan(r)}

Reads(r) ==
    {ConfigFile(disk)} \union
        IF r.op \in ConfigOps THEN {}
        ELSE {IgnoreFile(disk, "")} \union
                 UNION {{<<p, ".symdeps">>, IgnoreFile(disk, p)} :
                           p \in IF r.op = "all" THEN Packages ELSE {r.who} \intersect Packages}

\* The promise a request breaks by what it finds in the stores.
Breaks(r, plan) ==
    LET text   == disk[IgnoreFile(disk, r.who)]
        breach ==
            [overlap |-> \E f \in Reads(r) : IsOpen(f),
             absent  |-> r.op \in ConfigOps /\ SomeAbsent,
             hidden  |-> r.op \in {"scan -i", "scan -y"} /\ ~(Bundled \subseteq Tools),
             colon   |-> r.op \in {"set source", "add source"} /\ r.arg \in DOMAIN Pieces,
             created |-> r.op = "create" /\ HasManifest(disk, r.who),
             hash    |-> r.op \in {"ignore add", "ignore remove"} /\ Uncomment(r.arg) # r.arg,
             glued   |-> r.op = "ignore add" /\ text \notin {None, <<>>} /\ Last(text).open,
             note    |-> r.op = "ignore remove" /\ text # None /\ r.arg \in Patterns(RemoveLines(text, r.arg)),
             legacy  |-> r.op = "ignore clear" /\ disk[<<r.who, ".symignore">>] # None
                             /\ disk[<<r.who, ".stowignore">>] # None]
    IN  IF plan.answer = "failed" THEN {} ELSE {b \in DOMAIN breach : breach[b]}

\* The packages whose links a request moves out of the reach of `unlink`, on purpose.
Moves(r, plan) ==
    CASE plan.todo = <<>> -> {}
      [] plan.todo # <<>> /\ r.op = "add source" -> IF TheConfig.dirs = <<>> THEN Packages ELSE {}
      [] plan.todo # <<>> /\ r.op \in {"set source", "remove dir", "target"} -> Packages
      [] plan.todo # <<>> /\ r.op \in {"deps target", "ignore init", "ignore add"} ->
             IF r.who = "" THEN Packages ELSE {r.who}
      [] OTHER -> {}

\* The bounds of the model: so many commands and mounts, so many commands at a time, and
\* no new one once the promise is broken, because nothing is promised from then on.
More == left > 0 /\ broken = {} /\ left' = left - 1

\* A command is started.
Ask(c) ==
    /\ cmd[c] = Idle /\ More
    /\ Cardinality({d \in Terminals : cmd[d] # Idle}) < Jobs[job].together
    /\ \E r \in Jobs[job].requests : cmd' = [cmd EXCEPT ![c] = Command(r)]
    /\ said' = [said EXCEPT ![c] = None]
    /\ known' = [known EXCEPT ![c] = None]
    /\ UNCHANGED <<disk, up, placed, moved, broken, kept, job>>

Starting(c) == cmd[c] # Idle /\ cmd[c].todo = None

Working(c) == cmd[c] # Idle /\ cmd[c].todo # None

\* The write at hand: <<"write", "append" or "delete", the file, the text or the line>>.
Kind(c) == cmd[c].todo[1][1]
File(c) == cmd[c].todo[1][2]
Text(c) == cmd[c].todo[1][3]

End(c, answer) == cmd' = [cmd EXCEPT ![c] = Idle] /\ said' = [said EXCEPT ![c] = answer]

\* It reads what it needs and decides what to write.
Load(c) ==
    LET r == cmd[c].req IN
    /\ Starting(c) /\ r.op \notin LinkOps
    /\ \E plan \in Plans(r) :
           /\ IF plan.todo = <<>> THEN End(c, plan.answer)
              ELSE /\ cmd' = [cmd EXCEPT ![c].todo = plan.todo,
                                         ![c].base = [f \in {plan.todo[i][2] : i \in DOMAIN plan.todo} |-> disk[f]]]
                   /\ UNCHANGED said
           /\ broken' = broken \union Breaks(r, plan)
           /\ moved' = moved \union Moves(r, plan)
    /\ known' = [known EXCEPT ![c] = IF Registers(r) THEN disk[RegistryFile] ELSE None]
    /\ UNCHANGED <<disk, up, left, placed, kept, job>>

LinkStep(c) ==
    LET r == cmd[c].req
        outcome == Linking(r)
    IN  /\ Starting(c) /\ r.op \in LinkOps
        /\ placed' = outcome.links
        /\ moved' = moved \union outcome.moves
        /\ broken' = broken \union Breaks(r, outcome)
        /\ End(c, None)
        /\ UNCHANGED <<disk, up, known, left, kept, job>>

\* The file is as it is until somebody writes it again.
Settle(c) == kept' = [kept EXCEPT ![File(c)] = disk'[File(c)]]

Finish(c) ==
    IF Len(cmd[c].todo) = 1 THEN End(c, "done")
    ELSE cmd' = [cmd EXCEPT ![c].todo = Tail(@), ![c].open = FALSE] /\ UNCHANGED said

\* Another command writes the file, has changed the text that was read, or has made
\* another file the one that is read.
Overlaps(c) ==
    IF \/ IsOpen(File(c))
       \/ Kind(c) = "write" /\ disk[File(c)] # cmd[c].base[File(c)]
       \/ cmd[c].req.op \in IgnoreOps /\ IgnoreFile(disk, cmd[c].req.who) # File(c)
    THEN {"overlap"} ELSE {}

\* A rule of the repository goes on which another command relies: it has found there
\* what it should have added to a package.
Undercuts ==
    IF \E d \in Terminals :
          /\ Working(d) /\ cmd[d].req.op = "ignore add" /\ cmd[d].req.who # ""
          /\ cmd[d].req.arg \in RulesOf(kept, "") \ RulesOf(kept', "")
    THEN {"undercut"} ELSE {}

\* fopen(path, "w")
Truncate(c) ==
    /\ Working(c) /\ Kind(c) = "write" /\ ~cmd[c].open
    /\ broken' = broken \union Overlaps(c)
    /\ disk' = [disk EXCEPT ![File(c)] = <<>>]
    /\ cmd' = [cmd EXCEPT ![c].open = TRUE]
    /\ UNCHANGED <<up, known, said, left, placed, moved, kept, job>>

\* fclose: the text goes to the start of the file, over what another command wrote,
\* or to a file that another command has deleted in the meantime.
Flush(c) ==
    LET file == File(c)
        new  == Text(c)
        old  == disk[file]
    IN  /\ Working(c) /\ cmd[c].open
        /\ \/ /\ old # None
              /\ \E rest \in {<<>>} \union {SubSeq(old, i, Len(old)) : i \in Len(new) + 1 .. Len(old)} :
                     disk' = [disk EXCEPT ![file] = new \o rest]
           \/ "overlap" \in broken /\ UNCHANGED disk
        /\ Settle(c)
        /\ broken' = broken \union Undercuts
        /\ Finish(c)
        /\ UNCHANGED <<up, known, left, placed, moved, job>>

\* The file system is full; nobody looks at the result of fclose.
FlushFails(c) ==
    /\ Working(c) /\ cmd[c].open
    /\ broken' = broken \union {"full"}
    /\ UNCHANGED <<disk, up, known, left, placed, moved, job>>
    /\ Settle(c)
    /\ Finish(c)

\* The lines of a file that is opened to be added to.
Before(file) == IF disk[file] = None THEN <<>> ELSE disk[file]

\* fopen(path, "a") and one line.
AppendStep(c) ==
    LET file == File(c) IN
    /\ Working(c) /\ Kind(c) = "append" /\ file # RegistryFile
    /\ disk' = [disk EXCEPT ![file] = AppendLine(Before(file), Text(c))]
    /\ broken' = broken \union Overlaps(c)
    /\ Settle(c)
    /\ Finish(c)
    /\ UNCHANGED <<up, known, left, placed, moved, job>>

\* registry_add_tool: a tool that the registry has is passed over; after each tool
\* that it has not, the registry is read again.
Register(c) ==
    LET new == Text(c) \notin ToolsOf(known[c]) IN
    /\ Working(c) /\ Kind(c) = "append" /\ File(c) = RegistryFile
    /\ disk' = [disk EXCEPT ![RegistryFile] =
                    IF new THEN Append(Before(RegistryFile), Text(c)) ELSE @]
    /\ known' = [known EXCEPT ![c] = IF new THEN disk'[RegistryFile] ELSE @]
    /\ broken' = broken \union Overlaps(c)
    /\ Settle(c)
    /\ Finish(c)
    /\ UNCHANGED <<up, left, placed, moved, job>>

\* The file system is full: of the line nothing is left but perhaps a new file.
\* It has been reported as added, and nobody looks at the result of fclose.
AppendFails(c) ==
    /\ Working(c) /\ Kind(c) = "append"
    /\ File(c) = RegistryFile => Text(c) \notin ToolsOf(known[c])
    /\ disk' = [disk EXCEPT ![File(c)] = Before(File(c))]
    /\ known' = [known EXCEPT ![c] = IF File(c) = RegistryFile THEN disk'[RegistryFile] ELSE @]
    /\ broken' = broken \union {"full"}
    /\ Settle(c)
    /\ Finish(c)
    /\ UNCHANGED <<up, left, placed, moved, job>>

Delete(c) ==
    /\ Working(c) /\ Kind(c) = "delete"
    /\ disk' = [disk EXCEPT ![File(c)] = None]
    /\ Settle(c)
    /\ broken' = broken \union Overlaps(c) \union Undercuts
    /\ Finish(c)
    /\ UNCHANGED <<up, known, left, placed, moved, job>>

\* What is reported as done before the file is opened, or whether it is or not.
Premature == (ManifestOps \ {"deps target"}) \union {"remove dir", "ignore remove"}

\* The file cannot be opened.  The registry is passed over; an `ignore add` that cannot
\* write a new file cannot add to it either.
OpenFails(c) ==
    LET early == cmd[c].req.op \in Premature IN
    /\ Working(c) /\ ~cmd[c].open
    /\ IF File(c) = RegistryFile THEN Finish(c) ELSE End(c, IF early THEN "done" ELSE "failed")
    /\ broken' = broken \union IF early /\ File(c) # RegistryFile THEN {"unreported"} ELSE {}
    /\ UNCHANGED <<disk, up, known, left, placed, moved, kept, job>>

Kill(c) ==
    /\ Working(c)
    /\ broken' = broken \union IF cmd[c].open THEN {"crash"} ELSE {}
    /\ UNCHANGED <<disk, up, known, left, placed, moved, job>>
    /\ IF cmd[c].open THEN Settle(c) ELSE UNCHANGED kept
    /\ End(c, None)

\* A disk is mounted or taken away.
Mount ==
    /\ More
    /\ \E d \in Removable : up' = IF d \in up THEN up \ {d} ELSE up \union {d}
    /\ UNCHANGED <<disk, cmd, known, said, placed, moved, broken, kept, job>>

Init ==
    /\ job \in DOMAIN Jobs
    /\ disk = Jobs[job].disk /\ kept = disk /\ left = Jobs[job].steps
    /\ up = Directories
    /\ cmd = [c \in Terminals |-> Idle]
    /\ known = [c \in Terminals |-> None] /\ said = known
    /\ placed = {} /\ moved = {} /\ broken = {}

Next ==
    \/ \E c \in Terminals :
           \/ Ask(c) \/ Load(c) \/ LinkStep(c) \/ Truncate(c) \/ Flush(c) \/ FlushFails(c)
           \/ AppendStep(c) \/ Register(c) \/ AppendFails(c) \/ Delete(c) \/ OpenFails(c) \/ Kill(c)
    \/ Mount

Spec == Init /\ [][Next]_vars
-----------------------------------------------------------------------------
(* Properties *)

AllRequests == UNION {Jobs[j].requests : j \in DOMAIN Jobs}

Promise ==
    INSTANCE Settings WITH
        Requests <- AllRequests,
        config   <- LoadConfig(kept[ConfigFile(kept)], Directories),
        manifest <- [p \in Packages |-> LoadManifest(kept, p)],
        rules    <- [d \in Packages \union {""} |-> RulesOf(kept, d)],
        pending  <- [c \in Terminals |->
                        IF cmd[c] = Idle THEN None
                        ELSE IF cmd[c].req.op \in LinkOps THEN None ELSE cmd[c].req],
        sound    <- (broken = {})

\* Edits keep their promise (Settings) whatever the commands, kills, full and absent
\* disks around them - until one of the things named in `broken` has happened: two
\* commands on one file at once, a kill between truncation and write, a full disk when
\* a file is closed, a file that could not be opened although its edit had been reported,
\* a listed directory on an absent disk, a directory with ":", a registry that hides
\* installed tools from a scan, `pkg create` on a package, a pattern with "#", a last
\* line without newline, a commented pattern, a legacy file, a rule of the repository
\* gone on which a package was about to rely.
ImplementsSettings == Promise!Spec

\* What the scan of a package finds among the rules and the tools of the moment.
ScanFinds(p) ==
    Shebangs(Scanned(p), p) \union Invocations(Scanned(p), p, Candidates(AllPackages, Tools)) = Uses[p]

\* Every scan finds what Settings says that the files use, under a registry that hides
\* no installed tool.
ScansFind ==
    \A c \in Terminals :
        /\ Starting(c) /\ cmd[c].req.op \in {"scan -i", "scan -y"}
        /\ Runs /\ Bundled \subseteq Tools
        => ScanFinds(cmd[c].req.who)

\* The links in place are found again by `unlink` of their package, once every disk is
\* back, unless somebody moved that package's source or target or gave it new ignore
\* rules: no other edit, of this package or another, strands a link.
LinksStayReachable ==
    broken = {} =>
        \A l \in placed :
            l.pkg \notin moved =>
                LET cfg == LoadConfig(kept[ConfigFile(kept)], Directories)
                IN  l \in LinksOf(kept, l.pkg, Source(cfg, Directories),
                                  PackageTarget(kept, l.pkg, cfg, Directories))

\* gitignore(5): a pattern without a slash goes for a name at any depth, one with a
\* slash for a path from the top; a final slash asks for a directory.  Without negation by `!`,
\* which the program does not have.
GitIgnores(pat, path, isDir) ==
    LET segs == IF Len(pat.segs) > 1 /\ Head(pat.segs) = "" THEN Tail(pat.segs) ELSE pat.segs
    IN  /\ pat.dir => isDir
        /\ IF Len(pat.segs) > 1 THEN PathFits(segs, path) ELSE NameFits(pat.segs[1], Last(path))

Written(p) ==
    Resource \union UNION {{l.pat : l \in ToSet(disk[IgnoreFile(disk, d)])} :
                              d \in {e \in {"", p} : disk[IgnoreFile(disk, e)] # None}}

\* What the program reads its own way: "x/", "/x", "#", and "*" across "/".
Peculiar(pat, path) ==
    \/ pat.dir \/ pat.segs[1] = "" \/ pat \in DOMAIN Cut
    \/ Len(pat.segs) = 1 /\ HasGlob(pat) /\ path \in Spans[pat.segs[1]]

\* A file of a package is linked exactly when the rules, read as those of git, leave it,
\* but for the peculiar patterns, and then one of them does or would ignore the file or
\* a directory above it.
IgnoredAsDocumented ==
    \A p \in Packages :
        LET paths == {g.path : g \in Files[p]} IN
        \A f \in paths :
            LET top(i) == SubSeq(f, 1, i)
                git == \E i \in 1 .. Len(f) : \E pat \in Written(p) : GitIgnores(pat, top(i), i < Len(f))
            IN  (f \in Collect(paths, PackageRules(disk, p))) = git =>
                    \E pat \in Written(p) : \E i \in 1 .. Len(f) :
                        /\ Peculiar(pat, top(i))
                        /\ \/ Matches(pat, top(i)) \/ GitIgnores(pat, top(i), i < Len(f))
                           \/ Uncomment(pat) # None /\ Matches(Uncomment(pat), top(i))
=============================================================================
