------------------------------ MODULE VoidAudit ------------------------------
(***************************************************************************)
(* What the drift detector promises about consent.  The history variables  *)
(* remember which grants a completed detector run found outdated.          *)
(***************************************************************************)
EXTENDS Reconcile

VARIABLES
    lapsing,     (* grants a detector in progress found on its issue       *)
    lapsed,      (* diffs whose grants predate a report of another diff    *)
    fresh        (* the confirmed diff was not lapsed since pass 2 began   *)

voidVars == <<lapsing, lapsed, fresh>>

-----------------------------------------------------------------------------
VoidInit ==
    /\ Init
    /\ lapsing = [d \in Detectors |-> {}]
    /\ lapsed = {}
    /\ fresh = [r \in Runs |-> FALSE]

(* The ids that got a label in this step.                                  *)
Granted ==
    {id \in DiffIds : \E n \in IssueNumbers :
        id \in ActiveIds(issue'[n].grants) \ ActiveIds(issue[n].grants)}

Reads(d) == det[d].pc = "timeline" /\ det'[d].pc \in {"revoke", "comment"}
Reports(d) == det[d].pc \in {"comment", "list", "post"} /\ det'[d].pc = "idle"

Lapsing(d) ==
    IF det'[d].pc = "idle" THEN {}
    ELSE (IF Reads(d) THEN ActiveIds(issue[det[d].seen].grants) ELSE lapsing[d]) \ Granted

VoidNext ==
    /\ Next
    /\ lapsing' = [d \in Detectors |-> Lapsing(d)]
    /\ lapsed' = (lapsed \ Granted) \cup
           UNION {IF Reports(d) THEN lapsing[d] \ {Diff(det[d].desired, det[d].snap)} ELSE {}
                    : d \in Detectors}
    /\ fresh' = [r \in Runs |->
           /\ run'[r].pass = 2
           /\ run'[r].pc # "done"
           /\ fresh[r] \/ run[r].confirm \notin lapsed']

VoidSpec == VoidInit /\ [][VoidNext]_<<vars, voidVars>>

-----------------------------------------------------------------------------
(* Once a detector run has reported a different diff, or none, a grant it  *)
(* found on the tracking issue authorizes nothing any more: if the old     *)
(* diff comes back, someone has to grant it again (run_settings_drift,     *)
(* "a later reappearance needs fresh consent").                            *)
ReappearanceNeedsFreshConsent ==
    \A r \in Runs : run[r].pc \in {"guard", "write"} => fresh[r]

=============================================================================
