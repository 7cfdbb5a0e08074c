------------------------------- MODULE Ignore -------------------------------
(* The ignore rules: core/file_collector.c, which reads them and collects the
   files of a package, and core/ignore, the edits of `symdep ignore`.

   A pattern is [segs |-> names between its slashes, dir |-> it ends with "/"];
   one that starts with "/" has "" as its first name.  A line of an ignore file is
   [pat, note, open]: note, a comment follows the pattern on the line; open, the
   line has no newline.  A path is the sequence of its names below the package. *)
EXTENDS Config, FiniteSets

CONSTANTS
    Fits,       \* the names with a wildcard, each with the names it stands for
    Spans,      \* for each of them, the longer paths "*" reaches over "/" to match
    Cut,        \* the patterns with "#" in them: what is left before it, None if nothing
    Resource,   \* the patterns of the installed symignore.default
    Template,   \* the patterns of the file `ignore init` writes, a sequence
    Junk        \* a pattern no file of the packages matches

Pats  == [segs : Seq(STRING) \ {<<>>}, dir : BOOLEAN]
Lines == [pat : Pats, note : BOOLEAN, open : BOOLEAN]

\* A pattern has a character: read_ignore_file passes over the lines that are empty.
ASSUME IgnoreAssumption ==
    /\ \A pat \in DOMAIN Cut : Cut[pat] \in Pats \union {None}
    /\ Resource \subseteq Pats
    /\ Template \in Seq(Pats) /\ Junk \in Pats
    /\ None \notin Pats /\ None \notin Seq(Lines)

-----------------------------------------------------------------------------
(* Matching: is_path_ignored *)

HasGlob(pat) == \E i \in DOMAIN pat.segs : pat.segs[i] \in DOMAIN Fits

NameFits(seg, name) == IF seg \in DOMAIN Fits THEN name \in Fits[seg] ELSE name = seg

PathFits(segs, path) ==
    Len(segs) = Len(path) /\ \A i \in DOMAIN path : NameFits(segs[i], path[i])

Matches(pat, path) ==
    \/ pat.dir /\ PathFits(pat.segs, path)
    \/ pat.dir /\ ~HasGlob(pat) /\ IsStrictPrefix(pat.segs, path)
    \/ ~pat.dir /\ Len(pat.segs) > 1 /\ PathFits(pat.segs, path)
    \/ ~pat.dir /\ Len(pat.segs) = 1 /\ NameFits(pat.segs[1], Last(path))
    \/ ~pat.dir /\ Len(pat.segs) = 1 /\ HasGlob(pat) /\ path \in Spans[pat.segs[1]]

IsIgnored(path, rules) == \E pat \in rules : Matches(pat, path)

\* The scanner walks everything and tests the files alone.  As a mutant of Collect:
\* what is ignored is left out, but an ignored directory is entered.
Walk(files, rules) == {f \in files : ~IsIgnored(f, rules)}

\* A directory that is ignored is not entered.
Collect(files, rules) ==
    {f \in files : \A i \in 1 .. Len(f) : ~IsIgnored(SubSeq(f, 1, i), rules)}

-----------------------------------------------------------------------------
(* Reading the rules.  dir is a package, or "" for the repository's own file. *)

Uncomment(pat) == IF pat \in DOMAIN Cut THEN Cut[pat] ELSE pat

Patterns(text) ==
    IF text = None THEN {} ELSE {Uncomment(text[i].pat) : i \in DOMAIN text} \ {None}

\* The file read, edited and removed: .symignore as soon as it exists.
IgnoreFile(disk, dir) ==
    IF disk[<<dir, ".symignore">>] = None /\ disk[<<dir, ".stowignore">>] # None
    THEN <<dir, ".stowignore">> ELSE <<dir, ".symignore">>

RulesOf(disk, dir) == Patterns(disk[IgnoreFile(disk, dir)])

\* A line of the resource that starts with "#" is a comment there as well.
DefaultRules == {pat \in Resource : Uncomment(pat) # None}

GlobalRules(disk) == DefaultRules \union RulesOf(disk, "")

PackageRules(disk, p) == GlobalRules(disk) \union RulesOf(disk, p)

-----------------------------------------------------------------------------
(* The edits *)

LineOf(pat) == [pat |-> pat, note |-> FALSE, open |-> FALSE]

TemplateText == [i \in DOMAIN Template |-> LineOf(Template[i])]

\* A line that is the pattern and nothing else.
HasLine(text, pat) == \E i \in DOMAIN text : text[i].pat = pat /\ ~text[i].note

\* A pattern is not added when the file, or for a package the global file, has it.
AddedAlready(disk, dir, text, pat) ==
    HasLine(text, pat) \/ (dir # "" /\ pat \in RulesOf(disk, ""))

\* Opened with "a": what is written follows the last line, or continues it.
AppendLine(text, pat) ==
    IF text # <<>> /\ Last(text).open
    THEN Append(Front(text), [Last(text) EXCEPT !.open = FALSE, !.pat = IF Last(text).note THEN @ ELSE Junk])
    ELSE Append(text, LineOf(pat))

\* The lines that are the pattern and nothing else go; the others are closed.
RemoveLines(text, pat) ==
    FlattenSeq([i \in DOMAIN text |-> IF text[i].pat = pat /\ ~text[i].note THEN <<>>
                                      ELSE << [text[i] EXCEPT !.open = FALSE] >>])
=============================================================================
