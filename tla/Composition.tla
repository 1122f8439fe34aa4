----------------------------- MODULE Composition -----------------------------
(***************************************************************************)
(* How a profile and a consumer's overrides become one convention set      *)
(* (aviato/core/composition.py, listmerge.py and mapmerge.py over the      *)
(* bundles of registry.py).                                                *)
(*                                                                         *)
(* An operator that can refuse yields the set of its results: one of them, *)
(* or none where the code raises an error.                                 *)
(***************************************************************************)
EXTENDS Integers, FiniteSets, SequencesExt

CONSTANTS
    None,          (* an absent name                                       *)
    Library,       (* the bundles, by kind and name                        *)
    Profiles,      (* the profiles of the library                          *)
    Overrides,     (* what consumers write under `overrides'               *)
    Manifest,      (* the declared pipelines: check, and whether always on *)
    Floor,         (* the security toggles of the baseline bundle          *)
    Reconcilable   (* the settings keys that the binding can write         *)

VARIABLES profile, override, docs, outcome

compositionVars == <<profile, override, docs, outcome>>

-----------------------------------------------------------------------------
(* Lists: explicit additions to and removals from a base.                  *)

MergeAllowed(base, add, remove) ==
    /\ IsInjective(base) /\ IsInjective(add) /\ IsInjective(remove)
    /\ ToSet(add) \cap (ToSet(remove) \cup ToSet(base)) = {}
    /\ ToSet(remove) \subseteq ToSet(base)

(* The entries of a list that are not removed, in their order.             *)
Surviving(base, remove) ==
    LET kept[i \in 0..Len(base)] ==
            IF i = 0 THEN <<>>
            ELSE IF base[i] \in ToSet(remove) THEN kept[i - 1]
            ELSE Append(kept[i - 1], base[i])
    IN  kept[Len(base)]

MergeList(base, add, remove) ==
    IF MergeAllowed(base, add, remove) THEN {Surviving(base, remove) \o add} ELSE {}

(* The bundles that a name's `extends' leads up to, the topmost first.     *)
Ascent(bundles, name) ==
    LET up[n \in 0..Cardinality(DOMAIN bundles)] ==
            IF n = 0 THEN <<name>>
            ELSE LET names == up[n - 1]
                     above == IF names[1] \in DOMAIN bundles THEN bundles[names[1]].extends
                              ELSE None
                 IN  IF above = None THEN names ELSE <<above>> \o names
    IN  up[Cardinality(DOMAIN bundles)]

(* None if the chain has a cycle or names a bundle that is missing.        *)
Chain(bundles, name) ==
    {names \in {Ascent(bundles, name)} :
        IsInjective(names) /\ ToSet(names) \subseteq DOMAIN bundles}

(* Faulty: a child that lists items replaces what it inherits.             *)
ReplacedBy(results, layer) ==
    IF layer.items # <<>> THEN {layer.items}
    ELSE UNION {MergeList(list, layer.add, layer.remove) : list \in results}

(* A child adds and removes; it does not restate the list.                 *)
ExtendedBy(results, layer) ==
    IF layer.items # <<>> THEN {}
    ELSE UNION {MergeList(list, layer.add, layer.remove) : list \in results}

(* The root lists items; it has nothing to add to or remove from.          *)
Rooted(layer) == IF layer.add \o layer.remove = <<>> THEN {layer.items} ELSE {}

Layered(bundles, names) ==
    LET lists[i \in 0..Len(names)] ==
            IF i = 0 THEN {}
            ELSE IF i = 1 THEN Rooted(bundles[names[i]])
            ELSE ExtendedBy(lists[i - 1], bundles[names[i]])
    IN  lists[Len(names)]

ResolveList(bundles, name) ==
    UNION {Layered(bundles, names) : names \in Chain(bundles, name)}

-----------------------------------------------------------------------------
(* Settings: a tree has a node at every path of keys from its root <<>>.   *)

Node(kind, value, items) == [kind |-> kind, value |-> value, items |-> items]
Leaf(kind, value) == [p \in {<<>>} |-> Node(kind, value, {})]
ListOf(items) == [p \in {<<>>} |-> Node("list", 0, items)]
MapOf(map) ==
    [p \in {<<>>} \cup UNION {{<<key>> \o q : q \in DOMAIN map[key]} : key \in DOMAIN map} |->
        IF p = <<>> THEN Node("map", 0, {}) ELSE map[Head(p)][Tail(p)]]

IsNode(node) == node.value \in Int /\ (node.kind # "list" => node.items = {})

(* Only a map has anything below it, and only a list has entries.          *)
IsTree(tree) ==
    /\ <<>> \in DOMAIN tree /\ DOMAIN tree \subseteq Seq(STRING)
    /\ \A p \in DOMAIN tree :
          /\ p # <<>> => Front(p) \in DOMAIN tree /\ tree[Front(p)].kind = "map"
          /\ IsNode(tree[p])

Kind(tree) == tree[<<>>].kind
Keys(tree) == {p[1] : p \in {q \in DOMAIN tree : Len(q) = 1}}
Get(tree, key) ==
    IF <<key>> \notin DOMAIN tree THEN MapOf(<<>>)
    ELSE [p \in {Tail(q) : q \in {r \in DOMAIN tree : r # <<>> /\ Head(r) = key}} |->
             tree[<<key>> \o p]]

(* The checks that a settings bundle itself lists.                         *)
GatePath == <<"default_branch", "required_status_checks">>
GateIsList(tree) == GatePath \in DOMAIN tree => tree[GatePath].kind = "list"

(* Bundles and overrides are mappings as YAML yields them; lists are of    *)
(* names.  How deep and with which other keys is left open.                *)
ASSUME CompositionAssumption ==
    /\ \A name \in DOMAIN Library.settings :
          LET settings == Library.settings[name].settings
          IN  IsTree(settings) /\ Kind(settings) = "map" /\ GateIsList(settings)
    /\ \A o \in Overrides : "settings" \in DOMAIN o => IsTree(o.settings)
    /\ IsTree(Floor) /\ Kind(Floor) = "map"
    /\ \A name \in DOMAIN Library.workflows :
          LET bundle == Library.workflows[name]
          IN  /\ {bundle.items, bundle.add, bundle.remove} \subseteq Seq(STRING)
              /\ IsInjective(bundle.items)
    /\ \A o \in Overrides :
          "pipelines" \in DOMAIN o => {o.pipelines.add, o.pipelines.remove} \subseteq Seq(STRING)
    /\ IsFiniteSet(DOMAIN Library.settings) /\ IsFiniteSet(DOMAIN Library.workflows)
    /\ None \notin DOMAIN Manifest
    /\ ToSet(GatePath) \cup {"security"} \subseteq STRING

(* What is below a node of both goes on unless one of the two is no map.   *)
DeepMerge(base, over) ==
    LET Remains(p) == \A q \in DOMAIN base \cap DOMAIN over :
                         IsPrefix(q, p) => base[q].kind = "map" /\ over[q].kind = "map"
    IN  [p \in DOMAIN over \cup {q \in DOMAIN base : Remains(q)} |->
            IF p \in DOMAIN over THEN over[p] ELSE base[p]]

HasList(tree) == \E p \in DOMAIN tree \ {<<>>} : tree[p].kind = "list"

(* Faulty: looks at the names of the blocks only.                          *)
HasUnknownBlock(over, base) == ~(Keys(over) \subseteq Keys(base))

(* A key that the baseline does not have, at any depth.                    *)
HasUnknown(over, base) ==
    \E p \in DOMAIN over \ DOMAIN base :
        Front(p) \in DOMAIN base /\ base[Front(p)].kind = "map"

(* Every key of the block is still there, with a value of its kind.        *)
KeepsTypes(base, block) ==
    /\ Kind(block) = "map"
    /\ \A key \in Keys(base) :
          key \in Keys(block) /\ Kind(Get(block, key)) = Kind(Get(base, key))

(* A change that is additive: on, higher or more.                          *)
AtLeast(new, base) ==
    \/ new = base
    \/ /\ new.kind = base.kind
       /\ \/ base.kind \in {"bool", "int"} /\ new.value > base.value
          \/ base.kind = "list" /\ base.items \subseteq new.items

(* `weakens': some part of the value is gone or is less.                   *)
Weakens(base, new) ==
    \E p \in DOMAIN base : p \notin DOMAIN new \/ ~AtLeast(new[p], base[p])

(* Faulty: takes a missing toggle for an unchanged one.                    *)
HoldsWhereNamed(base, block) ==
    /\ Kind(block) = "map"
    /\ \A key \in Keys(base) \cap Keys(block) : ~Weakens(Get(base, key), Get(block, key))

(* No key of the base is missing or weaker.                                *)
Holds(base, block) ==
    /\ Kind(block) = "map"
    /\ \A key \in Keys(base) :
          key \in Keys(block) /\ ~Weakens(Get(base, key), Get(block, key))

Layer(names, i) == Library.settings[names[i]].settings

Merged(names) ==
    LET trees[i \in 0..Len(names)] ==
            IF i = 0 THEN MapOf(<<>>) ELSE DeepMerge(trees[i - 1], Layer(names, i))
    IN  trees[Len(names)]

(* Only the root of a chain of settings bundles may have lists.            *)
InheritedSettings(name) ==
    {Merged(names) :
        names \in {n \in Chain(Library.settings, name) : \A i \in 2..Len(n) : ~HasList(Layer(n, i))}}

OverriddenSettings(base, over) ==
    {tree \in {DeepMerge(base, over)} :
        /\ Kind(over) = "map" /\ ~HasList(over) /\ ~HasUnknown(over, base)
        /\ KeepsTypes(Get(base, "default_branch"), Get(tree, "default_branch"))
        /\ KeepsTypes(Get(base, "security"), Get(tree, "security"))
        /\ Holds(Get(base, "security"), Get(tree, "security"))}

ResolveSettings(p, o) ==
    {tree \in UNION {IF "settings" \in DOMAIN o THEN OverriddenSettings(base, o.settings)
                     ELSE {base} : base \in InheritedSettings(p.settings)} :
        Holds(Floor, Get(tree, "security"))}

-----------------------------------------------------------------------------
AlwaysOn == {name \in DOMAIN Manifest : Manifest[name].always}

OwnPipelines(p) == ResolveList(Library.workflows, p.workflows)

ResolvePipelines(p, o, d) ==
    LET edited == IF "pipelines" \notin DOMAIN o THEN OwnPipelines(p)
                  ELSE UNION {MergeList(list, o.pipelines.add, o.pipelines.remove) :
                                 list \in OwnPipelines(p)}
        documented == {IF d /\ p.docs \notin ToSet(list) \cup {None} THEN Append(list, p.docs)
                       ELSE list : list \in edited}
    IN  {list \in documented :
            ToSet(list) \subseteq DOMAIN Manifest /\ AlwaysOn \subseteq ToSet(list)}

(* An override replaces the locations where the profile has any.           *)
ResolveVersionSource(p, o) ==
    LET Valid(where) == where \in {None, "inside"}
    IN  IF ~Valid(p.locations) THEN {}
        ELSE IF "version_source" \notin DOMAIN o THEN {p.locations}
        ELSE {o.version_source} \cap {where \in {"inside"} : p.locations # None}

(* Faulty: asks for what the profile runs before the consumer's changes.   *)
ChecksOfProfile(p, list) ==
    {Manifest[name].check : name \in (UNION {ToSet(l) : l \in OwnPipelines(p)}) \cap DOMAIN Manifest}
    \ {None}

ChecksOf(p, list) == {Manifest[name].check : name \in ToSet(list)} \ {None}

Required(tree) == Get(Get(tree, "default_branch"), "required_status_checks")[<<>>].items

(* The merge gate asks for the checks of the composed pipelines.           *)
WithChecks(tree, checks) ==
    LET gate == ListOf(Required(tree) \cup checks)
    IN  IF checks = {} THEN {tree}
        ELSE IF Kind(Get(tree, "default_branch")) # "map" THEN {}
        ELSE {DeepMerge(tree, MapOf([default_branch |-> MapOf([required_status_checks |-> gate])]))}

(* resolve_profile.                                                        *)
Compose(p, o, d) ==
    IF ~(DOMAIN o \subseteq {"pipelines", "settings", "version_source"}) THEN {}
    ELSE UNION {[pipelines : {pair[1]}, settings : WithChecks(pair[2], ChecksOf(p, pair[1])),
                 locations : ResolveVersionSource(p, o)] :
                pair \in ResolvePipelines(p, o, d) \X ResolveSettings(p, o)}

(* _desired_settings: what drift detection and reconcile take from it, a   *)
(* later block before an earlier one.                                      *)
Blocks == <<"default_branch", "security", "repository", "actions">>

Desired(tree) ==
    LET Holders(key) == {i \in DOMAIN Blocks : key \in Keys(Get(tree, Blocks[i]))}
    IN  [key \in {k \in Reconcilable : Holders(k) # {}} |->
            Get(Get(tree, Blocks[Max(Holders(key))]), key)]

(* The bundles keep their settings in the blocks, each key in one block    *)
(* only, and the binding can write them all.                               *)
ASSUME SettingsAssumption ==
    \A name, other \in DOMAIN Library.settings :
        LET settings == Library.settings[name].settings
        IN  \A p \in DOMAIN settings :
               /\ Len(p) = 1 => p[1] \in ToSet(Blocks) /\ settings[p].kind = "map"
               /\ Len(p) = 2 => p[2] \in Reconcilable /\ settings[p].kind # "map"
               /\ \A q \in DOMAIN Library.settings[other].settings \cup {GatePath} :
                     Len(p) = 2 /\ Len(q) = 2 /\ p[2] = q[2] => p = q

-----------------------------------------------------------------------------
CompositionInit ==
    /\ profile \in Profiles /\ override \in Overrides /\ docs \in BOOLEAN
    /\ outcome = [asked |-> FALSE, sets |-> {}]

ResolveProfile ==
    /\ ~outcome.asked
    /\ outcome' = [asked |-> TRUE, sets |-> Compose(profile, override, docs)]
    /\ UNCHANGED <<profile, override, docs>>

CompositionSpec == CompositionInit /\ [][ResolveProfile]_compositionVars

-----------------------------------------------------------------------------
(* Where the whole chain of bundles and the consumer's override leave a    *)
(* pipeline in or out.                                                     *)
Mentions ==
    UNION {LET layer(i) == Library.workflows[names[i]]
               over == IF "pipelines" \in DOMAIN override THEN <<override.pipelines>> ELSE <<>>
           IN  {[i \in 1..Len(names) |-> [in |-> ToSet(layer(i).items \o layer(i).add),
                                          out |-> ToSet(layer(i).remove)]]
                \o [i \in DOMAIN over |-> [in |-> ToSet(over[i].add), out |-> ToSet(over[i].remove)]]} :
           names \in Chain(Library.workflows, profile.workflows)}

(* In an accepted composition a pipeline runs exactly if the last layer    *)
(* that mentions it adds it, or if it is the docs pipeline of a repository *)
(* that opted in; none runs twice.                                         *)
MembershipFollowsLastMention ==
    \A set \in outcome.sets : \A layers \in Mentions, name \in DOMAIN Manifest :
        LET saying == {i \in DOMAIN layers : name \in layers[i].in \cup layers[i].out}
        IN  /\ name \in ToSet(set.pipelines) <=>
                  \/ \E i \in saying : name \in layers[i].in /\ \A j \in saying : j <= i
                  \/ docs /\ name = profile.docs
            /\ Cardinality({i \in DOMAIN set.pipelines : set.pipelines[i] = name}) <= 1

(* "Exactly the checks the profile's composed pipelines produce": besides  *)
(* those that a settings bundle lists, a check is required if and only if  *)
(* a pipeline that runs reports it.                                        *)
RequiredChecksAreProduced ==
    \A set \in outcome.sets :
        LET listed == UNION {Required(tree) : tree \in InheritedSettings(profile.settings)}
            produced == {Manifest[set.pipelines[i]].check : i \in DOMAIN set.pipelines} \ {None}
        IN  Required(set.settings) \ listed = produced \ listed

(* "Overrides are explicit, never silently dropped": every leaf of an      *)
(* accepted override is what drift detection and reconcile go by.          *)
OverridesAreNeverDropped ==
    \A set \in outcome.sets :
        "settings" \in DOMAIN override =>
            \A block \in Keys(override.settings) :
                LET over == Get(override.settings, block)
                IN  \A key \in Keys(over) :
                       /\ key \in DOMAIN Desired(set.settings)
                       /\ Desired(set.settings)[key] = Get(over, key)

(* No profile, chain of bundles or override leads to a repository without  *)
(* the always-on pipelines or with a security toggle below the baseline,   *)
(* nor to branch protection with a key missing or of another type.         *)
BaselineHolds ==
    \A set \in outcome.sets :
        /\ \A name \in DOMAIN Manifest : Manifest[name].always => name \in ToSet(set.pipelines)
        /\ LET final == Get(set.settings, "security")
           IN  \A path \in DOMAIN Floor :
                  /\ path \in DOMAIN final
                  /\ final[path].kind = Floor[path].kind
                  /\ Floor[path].kind \in {"bool", "int"} => final[path].value >= Floor[path].value
                  /\ Floor[path].items \subseteq final[path].items
        /\ \A tree \in InheritedSettings(profile.settings) :
              LET block == Get(tree, "default_branch")
                  final == Get(set.settings, "default_branch")
              IN  \A key \in Keys(block) :
                     key \in Keys(final) /\ Kind(Get(final, key)) = Kind(Get(block, key))

=============================================================================
