---------------------------- MODULE MCAlgorithms ----------------------------
(***************************************************************************)
(* Four computations over bounded inputs, one at a time: the reduction of  *)
(* an issue's timeline, the composition of a profile with overrides, the   *)
(* resolution of one variable and the version gate of two commands.        *)
(***************************************************************************)
EXTENDS MCTimeline, Composition, Variables, Compatibility

VARIABLE about   (* which of the four this  behaviour computes             *)

-----------------------------------------------------------------------------
MCNone == "none"
MCUnset == "unset"

List(extends, items, add, remove) ==
    [extends |-> extends, items |-> items, add |-> add, remove |-> remove]
Tree(extends, settings) == [extends |-> extends, settings |-> settings]

On == Leaf("bool", 1)
Off == Leaf("bool", 0)

MCBranch == MapOf([required_reviews |-> Leaf("int", 1), block_force_push |-> On])
MCSecurity == MapOf([secret_scanning |-> On])

MCLibrary ==
    [workflows |->
        [base |-> List("none", <<"security", "lint">>, <<>>, <<>>),
         python |-> List("base", <<>>, <<"verify", "release">>, <<>>),
         quiet |-> List("python", <<>>, <<"docs">>, <<"lint">>),
         loud |-> List("quiet", <<>>, <<"lint">>, <<>>),
         restated |-> List("python", <<"security">>, <<>>, <<>>),
         twice |-> List("base", <<>>, <<"lint">>, <<>>),
         unknown |-> List("base", <<>>, <<"tpyo">>, <<>>),
         orphan |-> List("nowhere", <<>>, <<>>, <<>>),
         loop |-> List("loop", <<>>, <<>>, <<>>),
         rootadd |-> List("none", <<"security">>, <<"lint">>, <<>>)],
     settings |->
        [baseline |-> Tree("none", MapOf([default_branch |-> MCBranch, security |-> MCSecurity,
                                          repository |-> MapOf([allow_squash_merge |-> On])])),
         strict |-> Tree("baseline", MapOf([default_branch |-> MapOf([required_reviews |-> Leaf("int", 2)])])),
         listed |-> Tree("none", MapOf([default_branch |-> MapOf([required_status_checks |-> ListOf({"legacy"})]),
                                        security |-> MCSecurity])),
         relisted |-> Tree("listed", MapOf([default_branch |-> MapOf([required_status_checks |-> ListOf({})])])),
         insecure |-> Tree("none", MapOf([default_branch |-> MCBranch, security |-> MapOf([secret_scanning |-> Off])])),
         bare |-> Tree("none", MapOf([default_branch |-> MCBranch]))]]

Check(check, always) == [check |-> check, always |-> always]
MCManifest ==
    [security |-> Check("heartbeat", TRUE), lint |-> Check("common", FALSE), verify |-> Check("ci", FALSE),
     release |-> Check("none", FALSE), docs |-> Check("none", FALSE)]

MCFloor == MapOf([secret_scanning |-> On])

MCReconcilable ==
    {"required_reviews", "block_force_push", "required_status_checks", "secret_scanning", "allow_squash_merge"}

MCProfiles ==
    [workflows : DOMAIN MCLibrary.workflows, settings : DOMAIN MCLibrary.settings,
     docs : {"none", "docs"}, locations : {"none", "inside"}]
    \cup [workflows : {"python"}, settings : {"baseline"}, docs : {"docs"}, locations : {"outside"}]

Edits == [add : {<<>>, <<"verify">>, <<"docs">>, <<"tpyo">>, <<"docs", "docs">>},
          remove : {<<>>, <<"lint">>, <<"security">>, <<"verify">>, <<"release", "lint">>}]

Branch(map) == MapOf([default_branch |-> MapOf(map)])
Security(map) == MapOf([security |-> map])
MCOver ==
    {Branch([required_reviews |-> Leaf("int", 0)]), Branch([required_reviews |-> Leaf("str", 2)]),
     Branch([required_reviews |-> Leaf("null", 0)]), Branch([required_reveiws |-> Leaf("int", 2)]),
     Branch([required_status_checks |-> ListOf({})]), MapOf([default_branch |-> Leaf("str", 0)]),
     Security(MapOf([secret_scanning |-> Off])), Security(MapOf([secret_scanning |-> On])), Security(Off),
     Security(MapOf([secret_scanning |-> MapOf([everywhere |-> On])])),
     MapOf([repository |-> MapOf([allow_squash_merge |-> Off])]), MapOf([repositroy |-> On]), ListOf({}),
     MapOf(<<>>)}

MCOverrides ==
    {<<>>} \cup [pipelines : Edits] \cup [settings : MCOver]
    \cup [pipelines : [add : {<<"verify">>}, remove : {<<"lint">>}], settings : MCOver]
    \cup [version_source : {"inside", "outside"}] \cup [pipeline : Edits]

Version(kind, major, minor, patch) == [kind |-> kind, version |-> <<major, minor, patch>>]
MCTools == {Version("exact", 1, 0, 9), Version("exact", 1, 10, 0), Version("prerelease", 1, 10, 0),
            Version("exact", 2, 0, 0)}
MCPins == {Version("exact", 1, 9, 9), Version("exact", 1, 10, 0), Version("prerelease", 1, 10, 1),
           Version("major", 1, 0, 0), Version("major", 2, 0, 0), Version("unknown", 0, 0, 0)}

-----------------------------------------------------------------------------
NotComposed ==
    /\ profile = CHOOSE p \in Profiles : TRUE
    /\ override = <<>> /\ docs = FALSE
    /\ outcome = [asked |-> TRUE, sets |-> {}]

NotOnboarded ==
    /\ spec = CHOOSE s \in Specs : TRUE
    /\ given = [src \in Sources |-> Unset]
    /\ onboarded = [asked |-> TRUE, results |-> {}]

NotChecked ==
    /\ tool = CHOOSE t \in Tools : TRUE
    /\ pinned = CHOOSE p \in Pins : TRUE
    /\ markers = {} /\ admitted = {}

MCInit ==
    /\ about \in {"timeline", "composition", "variables", "compatibility"}
    /\ TimelineInit
    /\ IF about = "composition" THEN CompositionInit ELSE NotComposed
    /\ IF about = "variables" THEN VariablesInit ELSE NotOnboarded
    /\ IF about = "compatibility" THEN CompatibilityInit ELSE NotChecked

MCNext ==
    /\ UNCHANGED about
    /\ \/ about = "timeline" /\ TimelineNext /\ UNCHANGED <<compositionVars, variablesVars, compatibilityVars>>
       \/ ResolveProfile /\ UNCHANGED <<timelineVars, variablesVars, compatibilityVars>>
       \/ Onboard /\ UNCHANGED <<timelineVars, compositionVars, compatibilityVars>>
       \/ CheckPin /\ UNCHANGED <<timelineVars, compositionVars, variablesVars>>

MCSpec == MCInit /\ [][MCNext]_<<timelineVars, compositionVars, variablesVars, compatibilityVars, about>>

=============================================================================
