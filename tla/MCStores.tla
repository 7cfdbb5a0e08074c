------------------------------ MODULE MCStores ------------------------------
(* Six small scenarios for Stores: the configuration on a disk that comes and goes,
   two configuration files of which one is read, the manifest of one package, the
   registry that grows with scans, the ignore files, and links among edits. *)
EXTENDS Stores

R == <<"r">>
U == <<"u">>
H == <<"h">>
T == <<"t">>
RU == <<"r:u">>

Twins == Permutations(Terminals)

MCHome == H
MCCwd == R
MCPieces == (RU :> <<R>>)
MCDirectories == {R, U, H, T, RU}
MCRemovable == {U}

Pat(segs) == [segs |-> segs, dir |-> FALSE]
Dir(segs) == [segs |-> segs, dir |-> TRUE]
Objects == Pat(<<"*.o">>)
Hash    == Pat(<<"#*#">>)
Old     == Pat(<<"notes#old">>)
Rooted  == Pat(<<"", "notes">>)
MCFits  == ("*.o" :> {"a.o"} @@ "*" :> {"a.o", "conf", "notes"} @@ "s*.o" :> {} @@ "#*#" :> {"#x#"})
MCSpans == ("*.o" :> {<<"src", "a.o">>} @@ "*" :> {} @@ "s*.o" :> {<<"src", "a.o">>} @@ "#*#" :> {})
MCCut   == (Hash :> None @@ Old :> Pat(<<"notes">>))
MCResource == {Pat(<<".symdeps">>), Hash}
MCTemplate == <<Pat(<<"conf">>), Dir(<<".idea">>)>>
MCJunk == Pat(<<"junk">>)

Plain(words) == [comment |-> FALSE, words |-> words]
Bang(words) == [comment |-> TRUE, words |-> <<"#!", "env">> \o words]
SourceFile(path, lines) == [path |-> path, plain |-> TRUE, lines |-> lines]
MCFiles ==
    [p |-> {SourceFile(<<"conf">>, <<Bang(<<"-S", "sh">>), Plain(<<"git", "x", "p">>)>>),
            SourceFile(<<"#x#">>, <<>>),
            SourceFile(<<"src", "a.o">>, <<Plain(<<"vim">>)>>),
            SourceFile(<<"src", "notes">>, <<[comment |-> TRUE, words |-> <<"--", "vim">>]>>)},
     q |-> {SourceFile(<<"notes">>, <<Plain(<<"git", "p">>)>>), SourceFile(<<"src", "notes">>, <<>>)}]
MCUses == [p |-> {"sh", "git", "vim"}, q |-> {"git", "p"}]
MCIdentifiers == {"sh", "git", "vim", "p", "env"}

-----------------------------------------------------------------------------
NoFiles ==
    [f \in {<<"config", "home">>, <<"config", "legacy">>, <<"config", "system">>, RegistryFile}
            \union ({"p", "q"} \X {".symdeps", ".stowdeps"})
            \union ({"p", "q", ""} \X {".symignore", ".stowignore"}) |-> None]

Listing(dirs) == [i \in DOMAIN dirs |-> <<"SOURCE_DIRS", dirs[i]>>]
At(from, parts) == [from |-> from, parts |-> parts]
Edit(op, path, arg) == [op |-> op, who |-> "", path |-> path, arg |-> arg, kind |-> None]
For(op, p) == [op |-> op, who |-> p, path |-> None, arg |-> None, kind |-> None]
With(op, p, arg) == [For(op, p) EXCEPT !.arg = arg]
Dep(op, tool, kind) == [For(op, "p") EXCEPT !.arg = tool, !.kind = kind]

Scenario(texts, requests, marked, together, steps) ==
    [disk |-> texts @@ NoFiles, requests |-> requests, marked |-> marked, together |-> together,
     steps |-> steps, env |-> [source |-> None, target |-> None]]

MCJobs ==
    [config |-> Scenario(
        (<<"config", "home">> :> Listing(<<U, R>>) \o << <<"TARGET_DIR", T>> >>),
        {Edit("set source", At(".", <<"..", "u">>), U), Edit("set source", At("/", <<"r:u">>), RU),
         Edit("add source", At("~", <<".", "..", "r">>), R),
         Edit("add source", At("/", <<"", "t">>), T), Edit("remove dir", At("/", <<"u">>), U),
         Edit("remove dir", At("/", <<"t">>), T), Edit("remove dir", None, None),
         Edit("target", At("~", <<>>), H), Edit("target", None, None), Edit("manager", None, "apt")},
        FALSE, 2, 3),
     system |-> Scenario(
        (<<"config", "system">> :> Listing(<<R, T, R>>)
            @@ <<"config", "legacy">> :> Listing(<<H>>) \o << <<"PKG_MANAGER", "apt">> >>),
        {Edit("add source", At("/", <<"t">>), T), Edit("elevation", None, "sudo"),
         Edit("manager", None, None)},
        FALSE, 2, 3),
     manifest |-> Scenario(
        (<<"p", ".stowdeps">> :> << <<"OPTIONAL", {"git", "sh"}>>, <<"CONFLICTS", {"mc"}>>, <<"TARGET", T>> >>
            @@ <<"", ".symignore">> :> <<LineOf(MCJunk)>>),
        {For("create", "p"), With("deps target", "p", H), Dep("deps add", "git", "required"),
         Dep("deps edit", "git", "conflicts"), Dep("deps edit", "mc", "optional"),
         Dep("deps remove", "git", None), For("scan -y", "p"), For("scan -i", "p"), For("create", "q")},
        TRUE, 2, 3),
     registry |-> Scenario(
        <<>>, {For("scan -i", "q"), For("scan -i", "p"), For("scan -y", "p"), For("scan -y", "q")},
        TRUE, 2, 2),
     ignore |-> [Scenario(
        (<<"", ".stowignore">> :> <<LineOf(Objects), [LineOf(Rooted) EXCEPT !.note = TRUE]>>
            @@ <<"q", ".symignore">> :> <<LineOf(Objects), LineOf(Old)>> @@ <<"q", ".stowignore">> :> <<LineOf(MCJunk)>>
            @@ <<"p", ".stowignore">> :> <<LineOf(Dir(<<"src">>)),
                                           [LineOf(Pat(<<"src", "*">>)) EXCEPT !.open = TRUE]>>),
        {With("ignore add", "p", Objects), With("ignore add", "p", Pat(<<"conf">>)),
         With("ignore add", "q", Pat(<<"s*.o">>)), With("ignore add", "q", Pat(<<"src">>)),
         With("ignore add", "", Hash), With("ignore remove", "", Objects), With("ignore remove", "", Rooted),
         With("ignore remove", "p", Dir(<<"src">>)), For("ignore clear", "p"), For("ignore clear", ""),
         For("ignore clear", "q"), For("ignore init", "")},
        FALSE, 2, 3) EXCEPT !.env = [source |-> R, target |-> T]],
     links |-> Scenario(
        (<<"config", "home">> :> Listing(<<R>>)
            @@ <<"p", ".stowdeps">> :> << <<"TARGET", T>> >>
            @@ <<"", ".symignore">> :> <<LineOf(Pat(<<"src", "notes">>))>>),
        {For("link", "p"), For("unlink", "p"), For("all", ""), Dep("deps add", "mc", "required"),
         For("scan -y", "p"), For("create", "p"), With("deps target", "q", H),
         With("ignore add", "q", Pat(<<"conf">>)), With("ignore remove", "", Pat(<<"src", "notes">>)),
         Edit("add source", At("/", <<"u">>), U), Edit("manager", None, "apt"),
         Edit("remove dir", At("/", <<"u">>), U)},
        FALSE, 1, 4)]
=============================================================================
