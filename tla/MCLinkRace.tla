------------------------------ MODULE MCLinkRace ------------------------------
(* TLC instances of LinkRace. *)
EXTENDS LinkRace, TLC

CONSTANTS a, b, conf, e, f, g, h, i

TwoPkgs == {a, b}
MCRels  == {<<conf, e, f>>, <<conf, e, g>>, <<h>>, <<i>>}

Job(command, files, conflicts, start) ==
    [command |-> command, files |-> files, conflicts |-> conflicts, start |-> start]

\* The packages share directories, two levels deep, and no file, or a file too,
\* or nothing but a file.
Apart       == (a :> {<<conf, e, f>>, <<h>>}) @@ (b :> {<<conf, e, g>>, <<i>>})
Overlapping == (a :> {<<conf, e, f>>, <<h>>}) @@ (b :> {<<conf, e, g>>, <<h>>})
SameFile    == [p \in TwoPkgs |-> {<<h>>}]

NoConflicts == [p \in TwoPkgs |-> {}]
AExcludesB  == [p \in TwoPkgs |-> IF p = a THEN {b} ELSE {}]

\* What is at each target path, in the order of MCRels.
At(w, x, y, z) == (<<conf, e, f>> :> w) @@ (<<conf, e, g>> :> x) @@ (<<h>> :> y) @@ (<<i>> :> z)

MCJobs ==
    { Job("link", Apart, NoConflicts, At("none", "none", "user", "stale")),
      Job("unlink", Apart, NoConflicts, At(a, b, "user", "none")),
      Job("relink", Overlapping, AExcludesB, At("none", b, b, "none")),
      Job("link", SameFile, NoConflicts, At("none", "none", "user", "none")),
      Job("link", SameFile, NoConflicts, At("none", "none", "stale", "none")) }

OneUserFile == { Job("link", SameFile, NoConflicts, At("none", "none", "user", "none")) }

=============================================================================
