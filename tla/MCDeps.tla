-------------------------------- MODULE MCDeps --------------------------------
(* A TLC instance of Deps: an Ubuntu system with apt, on which the package *)
(* manager pacman is one of the tools that can be installed.               *)
EXTENDS Deps, TLC

CONSTANTS p, q

MCTools == {"fd", "pacman"}
MCNames == {"fd", "fd-find", "rustfind", "pacman", "pacman-package-manager"}
MCExes  == {"fd", "fdfind", "rustfind", "pacman"}
MCTags  == {"apt", "debian", "ubuntu", "pacman", "arch", "unknown"}

Debian == <<"apt", "debian", "ubuntu">>
Arch   == <<"pacman", "arch">>
MCFamily == [g \in MCTags |-> IF g \in ToSet(Debian) THEN Debian
                              ELSE IF g \in ToSet(Arch) THEN Arch ELSE <<>>]

FdIsFdfind == "fd" :> {"fd", "fdfind"}
MCBundled == [alias |-> FdIsFdfind, pkgs |-> <<"fd", "ubuntu">> :> "fd-find"]

\* Registries of the user: as above and with a wrong name for the manager, with
\* different names for manager and distribution, and one that knows nothing.
WrongName  == [alias |-> FdIsFdfind, pkgs |-> <<"fd", "apt">> :> "rustfind"]
TwoNames   == [alias |-> FdIsFdfind,
               pkgs |-> (<<"fd", "debian">> :> "rustfind") @@ (<<"fd", "ubuntu">> :> "fd-find")]

MCRequired == (p :> {"fd"}) @@ (q :> {"pacman"})
MCOptional == (p :> {"pacman"}) @@ (q :> {"fd"})
MCTurns    == {<<{p}>>, <<{p}, {q}>>, <<{p, q}>>}

MCCustom   == <<>>
MCBuiltin  == <<"pacman", "apt">>
MCKnown    == ("apt" :> {"fd-find", "pacman-package-manager"}) @@ ("pacman" :> {"fd"})
MCProvides == ("fd" :> {"fd"}) @@ ("fd-find" :> {"fdfind"}) @@ ("rustfind" :> {"rustfind"})
              @@ ("pacman" :> {"pacman"}) @@ ("pacman-package-manager" :> {"pacman"})
MCWithin   == ("fd" :> {"fd"}) @@ ("fd-find" :> {"fd", "fd-find"})
              @@ ("rustfind" :> {"rustfind"}) @@ ("pacman" :> {"pacman"})
              @@ ("pacman-package-manager" :> {"pacman", "pacman-package-manager"})
MCAnswers  == ("fd" :> {"fd-find", "rustfind"}) @@ ("pacman" :> {"pacman-package-manager"})

FilesWith(symdep, dot) ==
    [f \in ToSet(RegFiles) |-> IF f = "symdep.registry" THEN symdep
                               ELSE IF f = ".symdepregistry" THEN dot ELSE None]

Appends == {{"symdep.registry", ".symdepregistry"}, {".symdepregistry"}, {}}

\* With apt, or with no package manager at all.
MCStarts ==
    [files : {FilesWith(None, None), FilesWith(EmptyRegistry, None),
              FilesWith(WrongName, None), FilesWith(None, TwoNames)},
     writable : Appends, exes : {{"apt"}}]
    \union
    [files : {FilesWith(EmptyRegistry, None)}, writable : Appends, exes : {{}}]

\* No registry file of the user's: the bundled one is in force.
BundledOnly == [files : {FilesWith(None, None)},
                writable : {ToSet(SubSeq(RegFiles, 1, 2))}, exes : {{"apt"}}]

=============================================================================
