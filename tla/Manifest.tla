------------------------------ MODULE Manifest ------------------------------
(* The dependency manifest of a package (core/manifest.c): what manifest_load
   makes of .symdeps, or of the legacy .stowdeps, what manifest_save writes, the
   edits of `symdep deps` and `symdep pkg create`; and the scanner (core/scanner),
   which looks in the package's files for the tools they call and adds them.

   A text is a sequence of lines <<key, value>>, None when the file is absent; the
   lists are sets: their order, and a name listed twice in one of them, mean
   nothing to the program.  A source file is
     [path, plain, lines]: plain means neither a symbolic link nor binary,
   and a line is [comment, words], its words in order: an interpreter line ("#!")
   is the first line and a comment. *)
EXTENDS Config

CONSTANTS
    Identifiers,  \* the words that can name a tool: letter first, two characters at least
    OnPath,       \* the tools on PATH
    Built         \* those installed elsewhere, or in their own package's directory

ManifestLines == ({"TARGET"} \X Dirs) \union ({"REQUIRED", "OPTIONAL", "CONFLICTS"} \X SUBSET STRING)

SourceFiles == [path : Dirs, plain : BOOLEAN, lines : Seq([comment : BOOLEAN, words : Seq(STRING)])]

ASSUME ManifestAssumption == OnPath \subseteq STRING /\ None \notin Seq(ManifestLines)

EmptyManifest == [target |-> None, required |-> {}, optional |-> {}, conflicts |-> {}]

\* A line adds to its list; the last TARGET counts.
ListIn(text, key) == UNION {line[2] : line \in {l \in ToSet(text) : l[1] = key}}

ParseManifest(text) ==
    [target    |-> LastValue(text, "TARGET"),     required  |-> ListIn(text, "REQUIRED"),
     optional  |-> ListIn(text, "OPTIONAL"),      conflicts |-> ListIn(text, "CONFLICTS")]

\* .symdeps hides .stowdeps as soon as it exists, empty or not.
ManifestFile(disk, p) ==
    IF disk[<<p, ".symdeps">>] = None THEN <<p, ".stowdeps">> ELSE <<p, ".symdeps">>

HasManifest(disk, p) == disk[ManifestFile(disk, p)] # None

LoadManifest(disk, p) ==
    IF HasManifest(disk, p) THEN ParseManifest(disk[ManifestFile(disk, p)]) ELSE EmptyManifest

\* Mutant of ManifestText: the target is not written back.
ManifestTextBare(m) ==
    << <<"REQUIRED", m.required>>, <<"OPTIONAL", m.optional>>, <<"CONFLICTS", m.conflicts>> >>

ManifestText(m) ==
    Line("TARGET", m.target)
        \o << <<"REQUIRED", m.required>>, <<"OPTIONAL", m.optional>>, <<"CONFLICTS", m.conflicts>> >>

-----------------------------------------------------------------------------
(* The edits.  A kind is one of the three lists; any other word means optional. *)

DepType(kind) == IF kind \in {"required", "conflicts"} THEN kind ELSE "optional"

SetTargetPath(m, t) == [m EXCEPT !.target = t]

AddDep(m, dep, kind) == [m EXCEPT ![DepType(kind)] = @ \union {dep}]

RemoveDep(m, dep) ==
    [m EXCEPT !.required = @ \ {dep}, !.optional = @ \ {dep}, !.conflicts = @ \ {dep}]

EditDep(m, dep, kind) == AddDep(RemoveDep(m, dep), dep, kind)

-----------------------------------------------------------------------------
(* The scanner *)

LineTokens(line) == IF line.comment THEN {} ELSE ToSet(line.words) \intersect Identifiers

\* "#!/usr/bin/env -S tool ...": the first word that is no option, env or exec.
Interpreter(lines) ==
    LET words  == lines[1].words
        places == {i \in 2 .. Len(words) : words[i] \notin {"-S", "env", "exec"}}
    IN  IF lines # <<>> /\ words # <<>> /\ words[1] = "#!" /\ places # {}
        THEN {words[Min(places)]} ELSE {}

\* What the files that no rule ignores name: as an interpreter, and in a line.
Shebangs(files, p) ==
    (UNION {Interpreter(f.lines) : f \in {g \in files : g.plain}}) \union ({p} \intersect OnPath)

Invocations(files, p, candidates) ==
    ((UNION {UNION {LineTokens(l) : l \in ToSet(f.lines)} : f \in {g \in files : g.plain}}) \ {p})
        \intersect candidates

\* The tools looked for: packages that are tools, and the keys of the registry.
Candidates(packages, registry) == (packages \intersect (OnPath \union Built)) \union registry

Listed(m) == m.required \union m.optional \union m.conflicts

\* Mutant of ScanInto: what the manifest lists already is not looked at.
ScanIntoAnew(m, shebangs, chosen) == [m EXCEPT !.required = @ \union shebangs, !.optional = @ \union chosen]

\* chosen: the invocations picked, all of them for `scan -y`.
ScanInto(m, shebangs, chosen) ==
    [m EXCEPT !.required = @ \union (shebangs \ Listed(m)), !.optional = @ \union chosen]
=============================================================================
