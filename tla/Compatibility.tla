---------------------------- MODULE Compatibility ----------------------------
(***************************************************************************)
(* Whether a tool may write to a repository that was brought to some       *)
(* version, judged by two commands from the same files in two ways: sync,  *)
(* scan --fix and complete-protection compare the tool with every marker   *)
(* (_version_pin_error in aviato/cli.py), reconcile with the one that      *)
(* binds most (cmd_reconcile and reconcile_decision).                      *)
(***************************************************************************)
EXTENDS Versions, FiniteSets

CONSTANTS
    Tools,      (* the versions of the Library that run                    *)
    Pins        (* what declarations and markers record                    *)

ASSUME CompatibilityAssumption ==
    /\ Tools \subseteq Pin
    /\ Pins \subseteq Pin /\ IsFiniteSet(Pins)

VARIABLES
    tool,       (* the running version                                     *)
    pinned,     (* the declaration's pin                                   *)
    markers,    (* what the markers of the managed files record            *)
    admitted    (* which of the commands go on                             *)

compatibilityVars == <<tool, pinned, markers, admitted>>

-----------------------------------------------------------------------------
(* Without a marker the declared pin is what is recorded.                  *)
Recorded == IF markers = {} THEN {pinned} ELSE markers

SyncAdmits == \A recorded \in Recorded : IsCompatible(tool, pinned, recorded)

ReconcileAdmits == IsCompatible(tool, pinned, MostRestrictive(Recorded))

CompatibilityInit ==
    /\ tool \in Tools /\ pinned \in Pins /\ markers \in SUBSET Pins
    /\ admitted = {"unasked"}

CheckPin ==
    /\ admitted = {"unasked"}
    /\ admitted' = {c \in {"sync", "reconcile"} :
                      IF c = "sync" THEN SyncAdmits ELSE ReconcileAdmits}
    /\ UNCHANGED <<tool, pinned, markers>>

CompatibilitySpec == CompatibilityInit /\ [][CheckPin]_compatibilityVars

-----------------------------------------------------------------------------
(* No command writes to a repository with a tool older than any file in    *)
(* it, of another major than its pin, or when one record cannot be read:   *)
(* no marker hides behind a compatible one.  And the commands agree, so    *)
(* none refuses what another accepts.                                      *)
OlderToolsStayOut ==
    /\ admitted = {} \/ admitted = {"sync", "reconcile"} \/ admitted = {"unasked"}
    /\ "reconcile" \in admitted =>
          /\ tool.version[1] = pinned.version[1]
          /\ \A m \in markers \cup {pinned} : m.kind # "unknown"
          /\ \A m \in markers :
                IF m.kind = "major" THEN m.version[1] <= tool.version[1]
                ELSE ~TripleBefore(tool.version, m.version)

=============================================================================
