------------------------------ MODULE Settings ------------------------------
(* What the commands that edit the configuration, the manifests and the ignore
   rules promise, the files left out: a request that is answered "done" has taken
   effect once, at one moment between the question and the answer, and has changed
   nothing else; one answered "failed" has changed nothing; "nothing" is said only
   when there was nothing to do.

   The promise holds while `sound` is TRUE.  The specification lets it end at any
   moment; the program that implements it says exactly when it does. *)
EXTENDS Integers, FiniteSets, SequencesExt

CONSTANTS
    None, Terminals, Requests,
    Uses        \* for each package, the tools its files call

VARIABLES
    config,     \* [dirs, target, manager, elevation]
    manifest,   \* for each package [target, required, optional, conflicts]
    rules,      \* for each package, and "" for the repository, its patterns
    pending,    \* the request each terminal waits for
    said,       \* the answer to its last request
    sound

vars == <<config, manifest, rules, pending, said, sound>>

-----------------------------------------------------------------------------
(* The effect of a request r = [op, who, arg, kind] *)

\* The directories but d, in their order.
Others(dirs, d) ==
    LET places == {i \in DOMAIN dirs : dirs[i] # d}
    IN  UNION {{<<dirs[i], dirs[j]>> : j \in {k \in places : i <= k}} : i \in places}

KeepsConfigBut(fields, old, new) == \A f \in DOMAIN old \ fields : new[f] = old[f]

KeepsDirsBut(d, old, new) == IsInjective(new.dirs) /\ Others(new.dirs, d) = Others(old.dirs, d)

ConfigEffect(r, old, new) ==
    CASE r.op = "set source" ->
             KeepsConfigBut({"dirs"}, old, new) /\ KeepsDirsBut(r.arg, old, new) /\ Head(new.dirs) = r.arg
      [] r.op = "add source" ->
             /\ KeepsConfigBut({"dirs"}, old, new) /\ KeepsDirsBut(r.arg, old, new)
             /\ r.arg \in ToSet(new.dirs)
             /\ old.dirs # <<>> => Head(new.dirs) = Head(old.dirs)
      [] r.op = "remove dir" ->
             /\ KeepsConfigBut({"dirs", "target"}, old, new) /\ KeepsDirsBut(r.arg, old, new)
             /\ r.arg \notin ToSet(new.dirs)
             /\ new.target = IF r.arg \in {None, old.target} THEN None ELSE old.target
      [] r.op \in {"target", "manager", "elevation"} ->
             KeepsConfigBut({r.op}, old, new) /\ new[r.op] = r.arg

Lists == {"required", "optional", "conflicts"}

\* Any other word means an optional tool.
List(kind) == IF kind \in Lists THEN kind ELSE "optional"

\* The lists that name a tool.
Places(m, tool) == {l \in Lists : tool \in m[l]}

KeepsToolsBut(tools, old, new) ==
    \A l \in Lists : new[l] \ tools = old[l] \ tools

ManifestEffect(r, old, new) ==
    /\ r.op = "deps target" => new.target = r.arg
    /\ r.op # "deps target" => new.target = old.target
    /\ CASE r.op \in {"create", "deps target"} -> KeepsToolsBut({}, old, new)
         [] r.op = "deps add" ->
                /\ KeepsToolsBut({r.arg}, old, new)
                /\ Places(new, r.arg) = Places(old, r.arg) \union {List(r.kind)}
         [] r.op = "deps edit" -> KeepsToolsBut({r.arg}, old, new) /\ Places(new, r.arg) = {List(r.kind)}
         [] r.op = "deps remove" -> KeepsToolsBut({r.arg}, old, new) /\ Places(new, r.arg) = {}
         [] r.op \in {"scan -i", "scan -y"} ->
                LET unlisted == {tool \in Uses[r.who] : Places(old, tool) = {}}
                IN  /\ KeepsToolsBut(unlisted, old, new)
                    /\ new.conflicts = old.conflicts
                    /\ r.op = "scan -y" => \A tool \in unlisted : Places(new, tool) # {}

RulesEffect(r, new) ==
    CASE r.op = "ignore init"   -> rules[r.who] \subseteq new
      [] r.op = "ignore add"    -> rules[r.who] \subseteq new /\ r.arg \in new \union rules[""]
      [] r.op = "ignore remove" -> new = rules[r.who] \ {r.arg}
      [] r.op = "ignore clear"  -> new = {}

\* There is nothing to do for the request.
Satisfied(r) ==
    CASE r.op = "add source" -> r.arg \in ToSet(config.dirs)
      [] r.op = "remove dir" ->
             /\ r.arg \notin ToSet(config.dirs)
             /\ config.target = None \/ r.arg \notin {None, config.target}
      [] r.op = "scan -y" -> \A tool \in Uses[r.who] : Places(manifest[r.who], tool) # {}
      [] r.op \in {"scan -i", "ignore init"} -> TRUE
      [] r.op = "ignore add" -> r.arg \in rules[r.who] \union rules[""]
      [] r.op = "ignore remove" -> r.arg \notin rules[r.who]
      [] r.op = "ignore clear" -> rules[r.who] = {}
      [] OTHER -> FALSE

-----------------------------------------------------------------------------
ConfigOps   == {"set source", "add source", "remove dir", "target", "manager", "elevation"}
ManifestOps == {"create", "deps target", "deps add", "deps edit", "deps remove", "scan -i", "scan -y"}
IgnoreOps   == {"ignore init", "ignore add", "ignore remove", "ignore clear"}

ChangesOnly(old, new, who) == \A x \in DOMAIN old \ {who} : new[x] = old[x]

Init ==
    /\ pending = [c \in Terminals |-> None] /\ said = [c \in Terminals |-> None]
    /\ sound = TRUE

Ask(c) ==
    /\ pending[c] = None
    /\ pending'[c] \in Requests /\ ChangesOnly(pending, pending', c)
    /\ said' = [said EXCEPT ![c] = None]
    /\ UNCHANGED <<config, manifest, rules>>

Answer(c, word) ==
    /\ pending[c] # None /\ pending'[c] = None
    /\ ChangesOnly(pending, pending', c)
    /\ said' = [said EXCEPT ![c] = word]

Serve(c) ==
    LET r == pending[c] IN
    /\ Answer(c, "done")
    /\ IF r.op \in ConfigOps THEN ConfigEffect(r, config, config') ELSE UNCHANGED config
    /\ IF r.op \in ManifestOps
       THEN ManifestEffect(r, manifest[r.who], manifest'[r.who]) /\ ChangesOnly(manifest, manifest', r.who)
       ELSE UNCHANGED manifest
    /\ IF r.op \in IgnoreOps
       THEN RulesEffect(r, rules'[r.who]) /\ ChangesOnly(rules, rules', r.who)
       ELSE UNCHANGED rules

\* The usual patterns of a new ignore file are there before the pattern asked for.
Fill(c) ==
    /\ pending[c] # None /\ pending[c].op = "ignore add"
    /\ rules[pending[c].who] = {}
    /\ ChangesOnly(rules, rules', pending[c].who)
    /\ UNCHANGED <<config, manifest, pending, said>>

Refuse(c) ==
    /\ \/ Answer(c, "failed")
       \/ Answer(c, None)          \* the command was killed
       \/ Answer(c, "nothing") /\ Satisfied(pending[c])
    /\ UNCHANGED <<config, manifest, rules>>

\* The terminal goes on to a command that edits nothing.
Forget(c) ==
    pending[c] = None /\ said' = [said EXCEPT ![c] = None] /\ UNCHANGED <<config, manifest, rules, pending>>

Next ==
    \/ sound' = FALSE
    \/ /\ sound /\ sound'
       /\ \E c \in Terminals : Ask(c) \/ Serve(c) \/ Fill(c) \/ Refuse(c) \/ Forget(c)

Spec == Init /\ [][Next]_vars
=============================================================================
