--------------------------------- MODULE Deps ---------------------------------
(***************************************************************************)
(* Checking and installing the dependencies of packages                    *)
(* (src/src/core/checker.c) with the package manager that pkg_manager.c    *)
(* picks and the package names that the registry gives: what is missing is *)
(* offered list by list, the chosen part is requested in one command, and  *)
(* if that fails the user may correct names, which are added to the        *)
(* registry before the command is built and run once more.                 *)
(*                                                                         *)
(* The package manager itself and what it provides are the environment.    *)
(***************************************************************************)
EXTENDS Registry, Naturals

CONSTANTS
    Pkgs,          \* packages of the source directory
    Required,      \* REQUIRED of each package's manifest
    Optional,      \* OPTIONAL of each package's manifest
    Turns,         \* the sequences of package sets a command may be given
    Custom,        \* package managers of the two pkg_managers.conf
    Builtin,       \* BUILTIN_PKG_MANAGERS
    Known,         \* the names each manager can install
    Provides,      \* the executables that come with a name
    Within,        \* the names that occur in the text of a name
    Answers,       \* the names the user may type for a tool
    Starts,        \* the registry files, what can be appended to, the executables at first
    MaxCommands    \* bound: commands of one behaviour

Unknown == "unknown"   \* the manager's name if there is none

\* pkg_manager_get_all
Managers == Custom \o Builtin

ASSUME DepsAssumption ==
    /\ Managers \in Seq(Tags \ {None, Unknown}) /\ Unknown \in Tags
    /\ Required \in [Pkgs -> SUBSET Tools] /\ Optional \in [Pkgs -> SUBSET Tools]
    /\ Turns \subseteq Seq(SUBSET Pkgs)
    /\ Known \in [ToSet(Managers) -> SUBSET Names]
    /\ \A n \in Names : n \in Within[n]
    /\ Answers \in [Tools -> SUBSET Names]
    /\ MaxCommands \in Nat
    /\ \A s \in Starts :
          /\ DOMAIN s.files = ToSet(RegFiles)
          /\ \A f \in ToSet(RegFiles) : s.files[f] = None \/ IsRegistry(s.files[f])
          /\ s.exes \subseteq ToSet(Managers)

VARIABLES
    exes,          \* the executables on $PATH
    mgr,           \* g_cached_pkg_mgr
    configured,    \* SYMDEP_PKG_MANAGER or the configuration's manager; None if not
                   \* set or not known
    how,           \* the command and its options
    turns,         \* sets of packages still to be dealt with
    stage,         \* where the command stands
    need,          \* the list being dealt with
    missing,       \* missing_req and missing_opt
    batch,         \* the tools the current command is for
    command,       \* the manager and names of the current command
    output,        \* cmd_output: what names occur in its 8191 bytes
    prompts,       \* errored_pkgs the user has still to be asked about
    said,          \* the names given by the user in this recovery
    status,        \* the exit status so far
    unmet,         \* tools declined, skipped or requested in vain
    commands

registryVars == <<files, writable, cache>>
worldVars == <<exes, configured>>
listVars  == <<batch, command, output, prompts, said>>
vars == <<registryVars, worldVars, mgr, how, turns, stage, need, missing,
          listVars, status, unmet, commands>>

Lists == {"required", "optional"}

Idle == [kind |-> "none", dry |-> FALSE, auto |-> FALSE, tty |-> FALSE,
         strict |-> FALSE, pkgs |-> {}]

TypeOK ==
    /\ exes \subseteq (UNION {Provides[n] : n \in Names}) \union ToSet(Managers)
    /\ mgr \in ToSet(Managers) \union {None}
    /\ stage \in {"idle", "collect", "list", "run", "recover", "retry"}
    /\ need \in Lists
    /\ missing \in [Lists -> SUBSET Tools]
    /\ batch \subseteq Tools
    /\ command.mgr \in Tags /\ command.names \in [batch -> Names]
    /\ output \subseteq UNION {Within[n] : n \in Names}
    /\ prompts \subseteq batch
    /\ DOMAIN said \subseteq batch
    /\ status \in {0, 1}
    /\ unmet \subseteq Tools
    /\ commands \in 0..MaxCommands

NoList ==
    /\ batch = {}
    /\ command = [mgr |-> Unknown, names |-> <<>>]
    /\ output = {} /\ prompts = {}
    /\ said = <<>>

Init ==
    /\ \E s \in Starts : files = s.files /\ exes = s.exes /\ writable = s.writable
    /\ configured \in {None} \union ToSet(Managers)
    /\ cache = None /\ mgr = None
    /\ how = Idle /\ turns = <<>>
    /\ stage = "idle" /\ need = "required"
    /\ missing = [l \in Lists |-> {}]
    /\ NoList
    /\ status = 0 /\ unmet = {} /\ commands = 0

-----------------------------------------------------------------------------
(* The package manager *)

\* pkg_manager_detect_on_path: the first whose binary is there.
Detected ==
    LET i == SelectInSeq(Managers, LAMBDA m : m \in exes)
    IN  IF i = 0 THEN None ELSE Managers[i]

\* pkg_manager_resolve, without an override: the cached manager, the configured
\* one, or the one found on $PATH.
Resolve ==
    CASE mgr # None -> mgr
      [] mgr = None /\ configured # None -> configured
      [] mgr = None /\ configured = None -> Detected

\* What build_install_command leaves behind; each list is shown with its command.
Show ==
    /\ mgr' = Resolve
    /\ cache' = Reg
    /\ UNCHANGED <<files, writable>>

\* build_install_command
Build(tools) ==
    LET tag == IF Resolve = None THEN Unknown ELSE Resolve
    IN  /\ command' = [mgr |-> tag,
                       names |-> [t \in tools |-> DistroPkg(Reg, t, tag)]]
        /\ Show

Requested == {command.names[t] : t \in batch}

\* Without a manager the text of the command is no command.
Installable == IF command.mgr = Unknown THEN {} ELSE Known[command.mgr]

Failing == {t \in batch : command.names[t] \notin Installable}

Provided(names) == UNION {Provides[n] : n \in names}

-----------------------------------------------------------------------------
(* The command *)

\* A process starts: deps install, check, or link -y.
Start ==
    /\ stage = "idle"
    /\ commands < MaxCommands
    /\ \E kind \in {"install", "check", "link"}, dry, auto, tty, strict \in BOOLEAN,
          ts \in Turns :
          /\ strict => kind = "install"
          /\ kind = "link" => auto
          /\ how' = [kind |-> kind, dry |-> dry, auto |-> auto, tty |-> tty,
                     strict |-> strict, pkgs |-> UNION ToSet(ts)]
          /\ turns' = ts
    /\ stage' = "collect"
    /\ commands' = commands + 1
    /\ status' = 0 /\ unmet' = {}
    /\ UNCHANGED <<registryVars, worldVars, mgr, need, missing, listVars>>

\* collect_package_missing_deps
Lacking(ps) ==
    [l \in Lists |->
        {t \in UNION {IF l = "required" THEN Required[p] ELSE Optional[p] : p \in ps} :
            ~Installed(Reg, exes, t)}]

\* The beginning of a turn; check_package_dependencies has a loop of its own.
Collect ==
    /\ stage = "collect" /\ turns # <<>>
    /\ missing' = Lacking(Head(turns))
    /\ cache' = Reg
    /\ stage' = "list" /\ need' = "required"
    /\ UNCHANGED <<files, writable, worldVars, mgr, how, turns, listVars,
                   status, unmet, commands>>

\* The process ends, and with it its caches.
Finish ==
    /\ stage = "collect" /\ turns = <<>>
    /\ stage' = "idle"
    /\ cache' = None /\ mgr' = None
    /\ missing' = [l \in Lists |-> {}]
    /\ UNCHANGED <<files, writable, worldVars, how, turns, need, listVars,
                   status, unmet, commands>>

\* Mutant of NextList: a list of required tools ends the turn.
NextTurn ==
    /\ stage' = "collect" /\ need' = "required" /\ turns' = Tail(turns)
    /\ batch' = {} /\ output' = {} /\ prompts' = {} /\ said' = <<>>
    /\ command' = [mgr |-> Unknown, names |-> <<>>]

\* On to the optional list, or to the next turn.
NextList ==
    /\ IF need = "required"
       THEN stage' = "list" /\ need' = "optional" /\ UNCHANGED turns
       ELSE stage' = "collect" /\ need' = "required" /\ turns' = Tail(turns)
    /\ batch' = {} /\ output' = {} /\ prompts' = {} /\ said' = <<>>
    /\ command' = [mgr |-> Unknown, names |-> <<>>]

Headless == ~how.auto /\ ~how.tty

\* deps install without -y and without a terminal gives up at the first list of
\* required tools.
Refuse ==
    /\ stage = "list" /\ need = "required" /\ missing[need] # {}
    /\ how.kind = "install" /\ ~how.dry /\ Headless
    /\ status' = 1
    /\ unmet' = unmet \union missing["required"] \union missing["optional"]
    /\ stage' = "collect" /\ turns' = Tail(turns)
    /\ Show
    /\ UNCHANGED <<worldVars, how, need, missing, listVars, commands>>

\* Nothing is missing, or nothing may be done about it.
SkipList ==
    /\ stage = "list"
    /\ \/ missing[need] = {}
       \/ how.dry
       \/ Headless /\ (need = "optional" \/ how.kind = "check")
    /\ unmet' = unmet \union missing[need]
    /\ NextList
    /\ IF missing[need] = {} THEN UNCHANGED <<registryVars, mgr>> ELSE Show
    /\ UNCHANGED <<worldVars, how, missing, status, commands>>

\* -y takes the whole list; parse_item_exclusions makes any selection of the
\* answer, the question of check all or nothing.
Selections(list) ==
    CASE how.auto -> {list}
      [] ~how.auto /\ how.kind = "check" -> {{}, list}
      [] ~how.auto /\ how.kind # "check" -> SUBSET list

ChooseBatch ==
    /\ stage = "list" /\ missing[need] # {} /\ ~how.dry /\ ~Headless
    /\ \E chosen \in Selections(missing[need]) :
          /\ unmet' = unmet \union (missing[need] \ chosen)
          /\ IF chosen = {}
             THEN NextList /\ Show
             ELSE /\ Build(chosen)
                  /\ batch' = chosen
                  /\ stage' = "run"
                  /\ UNCHANGED <<turns, need, output, prompts, said>>
    /\ UNCHANGED <<worldVars, how, missing, status, commands>>

-----------------------------------------------------------------------------
(* execute_and_recover_install *)

\* The manager exits with 0.
RunSucceeds ==
    /\ stage \in {"run", "retry"}
    /\ Failing = {}
    /\ exes' = exes \union Provided(Requested)
    /\ unmet' = unmet \ batch
    /\ NextList
    /\ UNCHANGED <<registryVars, configured, mgr, how, missing, status, commands>>

DistroTag == SysDistro

\* Mutant of Errored: the tool's own name only.
ErroredByTool(text) ==
    LET found == {t \in batch : \E m \in text : t \in Within[m]}
    IN  IF found = {} THEN batch ELSE found

\* extract_errored_packages: the tools that the output mentions, by either name,
\* or else the whole batch.
Errored(text) ==
    LET found == {t \in batch : \E m \in text :
                    {t, DistroPkg(Reg, t, DistroTag)} \intersect Within[m] # {}}
    IN  IF found = {} THEN batch ELSE found

\* Mutant of Interactive: -y is forgotten.
OnTerminal == how.tty

Interactive == how.tty /\ ~how.auto

\* The manager's output names the packages it does not know, and perhaps others;
\* of all this no more is kept than fits into the buffer, the last name perhaps
\* in part.
Outputs ==
    IF command.mgr = Unknown THEN {{}} ELSE SUBSET UNION {Within[n] : n \in Requested}

\* The manager fails, for a name it does not know or for another reason, with
\* some of the rest installed.
RunFails ==
    /\ stage = "run"
    /\ \E done \in SUBSET (Requested \intersect Installable), text \in Outputs :
          /\ exes' = exes \union Provided(done)
          /\ IF Interactive
             THEN /\ output' = text
                  /\ prompts' = Errored(text)
                  /\ stage' = "recover"
                  /\ UNCHANGED <<turns, need, batch, command, said>>
             ELSE NextList
    /\ unmet' = unmet \union batch
    /\ UNCHANGED <<registryVars, configured, mgr, how, missing, status, commands>>

\* The user has typed a name for t, or confirms t with --no-skip.
Correct(t, name) ==
    /\ AddMappings(t, {DistroTag, command.mgr}, name)
    /\ said' = After([u \in {t} |-> name], said)
    /\ prompts' = prompts \ {t}

Prompt ==
    /\ stage = "recover"
    /\ \E t \in prompts :
          \/ \E name \in Answers[t] : Correct(t, name)
          \/ how.strict /\ Correct(t, t)
          \/ /\ prompts' = prompts \ {t}       \* Enter, or the end of the input
             /\ UNCHANGED <<registryVars, said>>
    /\ UNCHANGED <<worldVars, mgr, how, turns, stage, need, missing, batch,
                   command, output, status, unmet, commands>>

\* Some name was registered: the command is built again for the whole batch.
Retry ==
    /\ stage = "recover" /\ prompts = {} /\ said # <<>>
    /\ Build(batch)
    /\ stage' = "retry"
    /\ UNCHANGED <<worldVars, how, turns, need, missing, batch, output, prompts,
                   said, status, unmet, commands>>

GiveUp ==
    /\ stage = "recover" /\ prompts = {} /\ said = <<>>
    /\ NextList
    /\ UNCHANGED <<registryVars, worldVars, mgr, how, missing, status, unmet, commands>>

\* There is no second recovery.
RetryFails ==
    /\ stage = "retry"
    /\ \E done \in SUBSET (Requested \intersect Installable) :
          exes' = exes \union Provided(done)
    /\ NextList
    /\ UNCHANGED <<registryVars, configured, mgr, how, missing, status, unmet, commands>>

-----------------------------------------------------------------------------

Stopped == stage = "idle" /\ commands = MaxCommands /\ UNCHANGED vars

Next ==
    \/ Start \/ Collect \/ Finish \/ Refuse \/ SkipList \/ ChooseBatch
    \/ RunSucceeds \/ RunFails \/ Prompt \/ Retry \/ GiveUp \/ RetryFails
    \/ Stopped

Spec == Init /\ [][Next]_vars

-----------------------------------------------------------------------------
(* Properties *)

Registries == {Bundled} \union ({files[f] : f \in ToSet(RegFiles)} \ {None})

\* The name a user gives for a tool is the name the retry requests, whatever
\* manager, distribution and older entries there are, provided the file that
\* can be appended to is the one that is read.
CorrectionTakesEffect ==
    stage = "retry" /\ Appendable # None /\ Active(files) = files[Appendable] =>
        \A t \in DOMAIN said : command.names[t] = said[t]

\* When a command ends, each tool its packages declare is there, under one of
\* the names some registry knows, or has been declined, skipped or requested
\* in vain: none is forgotten between the lists, the packages and the retry.
CompleteAfterInstall ==
    stage = "idle" =>
        \A p \in how.pkgs : \A t \in Required[p] \union Optional[p] :
            t \in unmet \/ \E reg \in Registries : Installed(reg, exes, t)

\* The user is asked about each package that the manager did not know
\* (ADR-014), unless the registry gives another name for the distribution than
\* for the manager, or its name lies beyond the part of the output that is kept
\* and that part names something else: if it names nothing, the user is asked
\* about every package of the list.
FailedArePrompted ==
    [][stage = "run" /\ stage' = "recover" =>
          \A t \in Failing :
              /\ DistroPkg(Reg, t, DistroTag) = command.names[t]
              /\ command.names[t] \in output' \/ output' = {}
              => t \in prompts']_vars

\* Without a terminal, and with -y, nobody is asked and no registry file is
\* touched; a dry run installs nothing either (ADR-014: "non-interactive, and
\* non-mutating").
UnattendedIsQuiet ==
    [][stage # "idle" /\ (~how.tty \/ how.auto \/ how.dry) =>
          /\ stage' # "recover" /\ UNCHANGED files
          /\ how.dry => UNCHANGED exes]_vars

\* "symdep.registry allows both defaults and custom overrides" (ADR-003): an
\* entry that has been in force is still there, or overridden, afterwards.
DefaultsSurvive ==
    [][/\ DOMAIN Active(files).pkgs \subseteq DOMAIN Active(files').pkgs
       /\ DOMAIN Active(files).alias \subseteq DOMAIN Active(files').alias]_vars

=============================================================================
