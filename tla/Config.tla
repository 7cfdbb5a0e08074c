------------------------------- MODULE Config -------------------------------
(* The configuration file of core/config and the directories a command works
   on: how a path argument becomes an absolute directory, what config_load
   makes of the text and config_save writes back, the edits of `symdep config`,
   and the order in which the source and the target directory are looked for.

   A directory is the sequence of its names below "/"; a path argument is
   [from |-> "/", "~" or ".", parts |-> names], ".", ".." and "" ("//") included.
   The text of a file is a sequence of lines <<key, value>>, one for each directory
   of SOURCE_DIRS, and None when the file does not exist; the key aliases of the
   code (DOTFILES_DIR, ...), comments and quoting are left out.  `up` is the set of
   directories that exist now and pass verify_path_sanity; the others are on a disk
   that is not mounted. *)
EXTENDS Integers, SequencesExt

CONSTANTS
    None,       \* no value, no file
    Home,       \* the directory $HOME names
    Cwd,        \* the directory the commands are started in
    Pieces      \* what is left of a directory with ":" in its name: a function
                \* from these directories to the sequences ":" cuts them into

Dirs == Seq(STRING)

ConfigLines == ({"SOURCE_DIRS", "TARGET_DIR"} \X Dirs) \union ({"PKG_MANAGER", "ELEVATION_TOOL"} \X STRING)

\* What ":" cuts a name into has no ":" left.
ASSUME ConfigAssumption ==
    /\ Home \in Dirs /\ Cwd \in Dirs
    /\ \A d \in DOMAIN Pieces : d \in Dirs /\ Pieces[d] \in Seq(Dirs \ DOMAIN Pieces)
    /\ None \notin Dirs /\ None \notin Seq(ConfigLines)

-----------------------------------------------------------------------------
(* Paths *)

Push(names, part) ==
    IF part = "." THEN names
    ELSE IF part # ".." THEN Append(names, part)
    ELSE IF names = <<>> THEN <<>> ELSE Front(names)

\* An absolute path without ".", ".." and empty names.
Collapse(parts) == FoldLeft(Push, <<>>, parts)

Join(dir, rel) == SelectSeq(dir \o rel, LAMBDA name : name # "")

\* Where a path argument starts: expand_tilde_path, or the current directory.
Base(from) == CASE from = "/" -> <<>> [] from = "~" -> Home [] from = "." -> Cwd

Prepare(arg) == Collapse(Join(Base(arg.from), arg.parts))

-----------------------------------------------------------------------------
(* The file *)

ConfigFiles == << <<"config", "home">>, <<"config", "legacy">>, <<"config", "system">> >>

\* The file that is read, and written back by the same command.
ConfigFile(disk) ==
    LET there == {i \in DOMAIN ConfigFiles : disk[ConfigFiles[i]] # None}
    IN  ConfigFiles[IF there = {} THEN 1 ELSE Min(there)]

EmptyConfig == [dirs |-> <<>>, target |-> None, manager |-> None, elevation |-> None]

LastValue(text, key) ==
    LET lines == {i \in DOMAIN text : text[i][1] = key}
    IN  IF lines = {} THEN None ELSE text[Max(lines)][2]

\* The source directories a text lists, cut at ":".
Tokens(text) ==
    FlattenSeq([i \in DOMAIN text |->
                   IF text[i][1] # "SOURCE_DIRS" THEN <<>>
                   ELSE IF text[i][2] \in DOMAIN Pieces THEN Pieces[text[i][2]] ELSE <<text[i][2]>>])

\* The elements of a sequence at some of its places.
Select(seq, places) ==
    LET part[n \in 0 .. Len(seq)] ==
            IF n = 0 THEN <<>> ELSE IF n \in places THEN Append(part[n - 1], seq[n]) ELSE part[n - 1]
    IN  part[Len(seq)]

\* Each that is there, once.
Distinct(seq, up) ==
    Select(seq, {i \in DOMAIN seq : seq[i] \in up /\ \A j \in 1 .. i - 1 : seq[j] # seq[i]})

\* Only the source directories that exist now; of every other setting the last line.
LoadConfig(text, up) ==
    IF text = None THEN EmptyConfig
    ELSE [dirs      |-> Distinct(Tokens(text), up),
          target    |-> LastValue(text, "TARGET_DIR"),
          manager   |-> LastValue(text, "PKG_MANAGER"),
          elevation |-> LastValue(text, "ELEVATION_TOOL")]

\* What is not set is not written.
Line(key, value) == IF value = None THEN <<>> ELSE << <<key, value>> >>

ConfigText(cfg) ==
    [i \in DOMAIN cfg.dirs |-> <<"SOURCE_DIRS", cfg.dirs[i]>>]
        \o Line("TARGET_DIR", cfg.target) \o Line("PKG_MANAGER", cfg.manager)
        \o Line("ELEVATION_TOOL", cfg.elevation)

-----------------------------------------------------------------------------
(* The edits: the configuration to save, or the configuration as it was.
   An argument None is one of the words that clear a setting. *)

Without(dirs, d) == Select(dirs, {i \in DOMAIN dirs : dirs[i] # d})

SetSource(cfg, d) == [cfg EXCEPT !.dirs = <<d>> \o Without(@, d)]

AddSource(cfg, d) == [cfg EXCEPT !.dirs = IF Contains(@, d) THEN @ ELSE Append(@, d)]

SetTarget(cfg, d) == [cfg EXCEPT !.target = d]

SetManager(cfg, m) == [cfg EXCEPT !.manager = m]

SetElevation(cfg, e) == [cfg EXCEPT !.elevation = e]

\* `config remove target` (d = None), or a directory: as target and as source.
RemoveDir(cfg, d) ==
    IF d = None THEN [cfg EXCEPT !.target = None]
    ELSE [cfg EXCEPT !.target = IF @ = d THEN None ELSE @, !.dirs = Without(@, d)]

-----------------------------------------------------------------------------
(* The directories in force *)

FirstOf(choices) ==
    LET given == SelectSeq(choices, LAMBDA x : x # None)
    IN  IF given = <<>> THEN None ELSE given[1]

\* The directory if the command may work in it; otherwise the program exits.
Usable(d, up) == IF d \in up THEN d ELSE None

\* marked: the current directory holds a registry file.
SourceDir(cli, env, marked, cfg, up) ==
    Usable(FirstOf(<<cli, env, IF marked THEN Cwd ELSE None,
                     IF cfg.dirs = <<>> THEN None ELSE cfg.dirs[1], Cwd>>), up)

TargetDir(cli, env, cfg, up) == Usable(FirstOf(<<cli, env, cfg.target, Home>>), up)

\* listed: the TARGET of the package's manifest.
TargetForPkg(cli, listed, env, cfg, up) ==
    Usable(FirstOf(<<cli, listed, env, cfg.target, Home>>), up)
=============================================================================
