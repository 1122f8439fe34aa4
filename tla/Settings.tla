------------------------------ MODULE Settings ------------------------------
(***************************************************************************)
(* The flat map of protected settings, its diff against the desired map    *)
(* and the identity of that diff (aviato/core/settingsdrift.py).           *)
(*                                                                         *)
(* A surface stands for one group of keys that the GitHub binding reads    *)
(* and writes with one request: branch protection, the security toggles,   *)
(* the merge methods, the Actions permissions.                             *)
(***************************************************************************)
CONSTANTS
    Surfaces,   (* the groups of settings keys                             *)
    Values,     (* what a surface can hold                                 *)
    Declared    (* the desired maps that declarations in use resolve to    *)

ASSUME DeclaredAssumption == Declared # {} /\ Declared \subseteq [Surfaces -> Values]

SettingsMap == [Surfaces -> Values]

(* The changed surfaces with the desired and the live value of each. The   *)
(* code hashes exactly this content, so the diff is its own identity here. *)
Diff(desired, live) ==
    [s \in {t \in Surfaces : desired[t] # live[t]} |-> <<desired[s], live[s]>>]

NoDiff == [s \in {} |-> <<>>]

(* The identities a consent label or a --confirm argument can carry.       *)
DiffIds == {Diff(d, l) : d \in Declared, l \in SettingsMap} \ {NoDiff}

=============================================================================
