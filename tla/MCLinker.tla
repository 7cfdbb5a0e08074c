------------------------------- MODULE MCLinker -------------------------------
(* TLC instances of Linker. *)
EXTENDS Linker, TLC

CONSTANTS home, a, b, conf, e, f, g, m, s, u

TwoPkgs == {a, b}
AllData == {s, u}

Scenario(source, conflicts, ignored, data, links, faults) ==
    [source |-> source, conflicts |-> conflicts, ignored |-> ignored,
     data |-> data, links |-> links, faults |-> faults]

NoConflicts == [p \in TwoPkgs |-> {}]
AExcludesB  == [p \in TwoPkgs |-> IF p = a THEN {b} ELSE {}]
BExcludesA  == [p \in TwoPkgs |-> IF p = b THEN {a} ELSE {}]

\* The user may have a file f/e where a package has the file f.
FlatRels == {<<>>, <<conf>>, <<conf, e>>, <<conf, g>>, <<f>>, <<f, e>>, <<m>>}
MCManifest == <<m>>

\* Two packages that share the directory conf and collide on the file f.
Colliding ==
    (a :> (<<conf>> :> Dir @@ <<conf, e>> :> File(s) @@ <<f>> :> File(s))) @@
    (b :> (<<conf>> :> Dir @@ <<conf, g>> :> File(s) @@ <<f>> :> File(s)))

\* The same, but of package b only the file in the way of a is left.
OnlyFile ==
    (a :> (<<conf>> :> Dir @@ <<conf, e>> :> File(s) @@ <<f>> :> File(s))) @@
    (b :> (<<f>> :> File(s)))

\* Two packages that share the directory conf and no file.
Apart ==
    (a :> (<<conf>> :> Dir @@ <<conf, e>> :> File(s) @@ <<f>> :> File(s))) @@
    (b :> (<<conf>> :> Dir @@ <<conf, g>> :> File(s)))

\* The same with manifests, which declare a conflict.
WithManifest(p) ==
    [Colliding EXCEPT ![p] = (<<m>> :> File(s)) @@ Colliding[p]]

\* GNU Stow has folded the directory conf of package a, or the user has a link of
\* his own where a package has a file.
FoldedA == {<<<<home, conf>>, <<a, conf>>>>}
OwnLink == {<<<<home, f>>, <<home, conf>>>>, <<<<home, f>>, <<b, f>>>>}

FlatScenarios ==
    { Scenario(Colliding, NoConflicts, {}, {u}, FoldedA, {}),
      Scenario(WithManifest(a), AExcludesB, {<<m>>}, {}, {}, {}),
      Scenario(WithManifest(b), BExcludesA, {<<m>>}, {}, FoldedA, {}),
      Scenario(OnlyFile, NoConflicts, {}, {u}, OwnLink, {"link", "unlink"}),
      Scenario(Apart, NoConflicts, {<<f>>}, {}, FoldedA, {"delete"}) }

\* Package a has a directory in its directory conf, in which b has a file too.
NestedRels == {<<>>, <<conf>>, <<conf, e>>, <<conf, e, f>>, <<conf, e, g>>, <<m>>}
Nested ==
    (a :> (<<conf>> :> Dir @@ <<conf, e>> :> Dir @@ <<conf, e, f>> :> File(s))) @@
    (b :> (<<conf>> :> Dir @@ <<conf, e>> :> Dir @@ <<conf, e, g>> :> File(s)))

NestedScenarios == { Scenario(Nested, NoConflicts, {}, {}, FoldedA, {}) }

\* What is proved of stowed scenarios only is proved of those with no links of the
\* user's own and no directory folded that has a directory in it.
ASSUME StowedAssumption ==
    /\ \A x \in FlatScenarios : Stowed(x) <=> x.links \intersect OwnLink = {}
    /\ \A x \in NestedScenarios : ~Stowed(x)

=============================================================================
