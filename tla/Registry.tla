------------------------------- MODULE Registry -------------------------------
(***************************************************************************)
(* The tool registry (src/src/core/registry.c): which package a package    *)
(* manager knows a tool by, and under which other names the tool may be    *)
(* installed.  It is read from the first registry file of the source       *)
(* directory that exists, or else from the one that comes with symdep,     *)
(* kept in a cache for the rest of the process, and appended to.           *)
(*                                                                         *)
(* A line "tool@tag = package" is an entry of pkgs, a line "tool = a | b"  *)
(* an entry of alias; the last of several lines with one key counts.       *)
(***************************************************************************)
EXTENDS SequencesExt

CONSTANTS
    None,        \* no file, no cache, no manager
    Tools,       \* names in the manifests' REQUIRED and OPTIONAL
    Names,       \* packages of the package managers
    Exes,        \* names of executables
    Tags,        \* package managers and distributions
    Family,      \* the tags of the ecosystem of a tag, in the order they are tried
    SysDistro,   \* what get_distro_id finds
    Bundled      \* the registry in the resource directory

\* What load_registry_from_file can build.
IsRegistry(reg) ==
    \E K \in SUBSET (Tools \X Tags), A \in SUBSET Tools :
        reg \in [pkgs : [K -> Names], alias : [A -> SUBSET Exes]]

ASSUME RegistryAssumption ==
    /\ Tools \subseteq Names
    /\ SysDistro \in Tags
    /\ Family \in [Tags -> Seq(Tags)]
    /\ IsRegistry(Bundled) /\ ~IsRegistry(None)

VARIABLES
    files,       \* the registry files of the source directory
    writable,    \* those that fopen(..., "a") can open
    cache        \* g_registry_cache

RegFiles == <<"symdep.registry", ".symdepregistry", "stow.registry", ".stowregistry">>

EmptyRegistry == [pkgs |-> <<>>, alias |-> <<>>]

-----------------------------------------------------------------------------
(* Reading *)

Active(fs) ==
    LET i == SelectInSeq(RegFiles, LAMBDA f : fs[f] # None)
    IN  IF i = 0 THEN Bundled ELSE fs[RegFiles[i]]

\* registry_cache_ensure
Reg == IF cache = None THEN Active(files) ELSE cache

TagsTried(tag) ==
    <<tag>> \o Family[tag]
      \o (IF SysDistro = tag THEN <<>> ELSE <<SysDistro>> \o Family[SysDistro])

\* registry_get_distro_pkg: a tool without an entry is a package of that name.
DistroPkg(reg, tool, tag) ==
    LET tried == TagsTried(tag)
        i == SelectInSeq(tried, LAMBDA g : <<tool, g>> \in DOMAIN reg.pkgs)
    IN  IF i = 0 THEN tool ELSE reg.pkgs[<<tool, tried[i]>>]

Aliases(reg, tool) == IF tool \in DOMAIN reg.alias THEN reg.alias[tool] ELSE {tool}

\* is_tool_installed_dynamic
Installed(reg, exes, tool) ==
    tool \in exes \/ Aliases(reg, tool) \intersect exes # {}

-----------------------------------------------------------------------------
(* Appending *)

Appendable ==
    LET i == SelectInSeq(SubSeq(RegFiles, 1, 2), LAMBDA f : f \in writable)
    IN  IF i = 0 THEN None ELSE RegFiles[i]

\* Lines written after others: the later ones count.  (TLC's @@, in a form that a
\* prover can expand.)
After(lines, above) ==
    [k \in DOMAIN lines \union DOMAIN above |->
        IF k \in DOMAIN lines THEN lines[k] ELSE above[k]]

\* registry_add_distro_mapping, for each tag of a set: the file that is appended
\* to is created if it is not there.
Mapped(fs, tool, tags, name) ==
    LET above == IF fs[Appendable] = None THEN EmptyRegistry ELSE fs[Appendable]
    IN  IF Appendable = None THEN fs
        ELSE [fs EXCEPT ![Appendable] =
                [above EXCEPT !.pkgs = After([k \in {tool} \X tags |-> name], above.pkgs)]]

\* Mutant of AddMappings: the cache is kept.
AddMappingsCached(tool, tags, name) ==
    /\ files' = Mapped(files, tool, tags, name)
    /\ cache' = Reg
    /\ UNCHANGED writable

AddMappings(tool, tags, name) ==
    /\ files' = Mapped(files, tool, tags, name)
    /\ cache' = IF Appendable = None THEN cache ELSE None
    /\ UNCHANGED writable

=============================================================================
