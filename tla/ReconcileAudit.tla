--------------------------- MODULE ReconcileAudit ---------------------------
(***************************************************************************)
(* What reconciliation promises.  Two history variables look over the      *)
(* shoulder of each run in its second pass (the reads that authorize the   *)
(* writes); no action of Reconcile depends on them.                        *)
(***************************************************************************)
EXTENDS Reconcile

VARIABLES
    saw,         (* what was true at some moment since the pass began      *)
    drifted      (* what others changed after the pass read it             *)

auditVars == <<saw, drifted>>

-----------------------------------------------------------------------------
Again(r) == r.pc \notin {"idle", "done"} /\ r.pass = 2

(* The surface has been read in this pass.                                 *)
HasRead(r, s) ==
    \/ r.pc \in {"decide", "guard", "write", "done"}
    \/ r.pc = "settings" /\ \E i \in 1..r.k - 1 : ReadOrder[i] = s

(* The humans whose grant of the diff is the newest on an issue and not    *)
(* followed by a non-human edit.                                           *)
Granters(id) ==
    {h \in Humans : \E n \in IssueNumbers :
        /\ HasConsent(issue[n])
        /\ CurrentConsent(issue[n]) = [id |-> id, by |-> h]
        /\ ~NonHumanEditAfterGrant(issue[n])}

Sees(r) == [sole |-> \A m, n \in OpenIssues : m = n,
            open |-> OpenIssues # {},
            granters |-> Granters(r.confirm),
            admins |-> admins]

Nothing == [sole |-> FALSE, open |-> FALSE, granters |-> {}, admins |-> {}]

AuditInit ==
    /\ Init
    /\ saw = [r \in Runs |-> Nothing]
    /\ drifted = [r \in Runs |-> {}]

Watch(r) ==
    IF ~Again(run'[r]) THEN Nothing
    ELSE LET before == IF Again(run[r]) THEN saw[r] ELSE Nothing
             now == Sees(run[r])'
         IN  [sole |-> before.sole \/ now.sole,
              open |-> before.open \/ now.open,
              granters |-> before.granters \cup now.granters,
              admins |-> before.admins \cup now.admins]

(* Others changed s: it has another value and r did not take this step.    *)
(* The guard of apply_settings reads branch protection once more.          *)
Drift(r) ==
    IF run'[r].pass = 1 THEN {}
    ELSE {s \in Surfaces :
             /\ HasRead(run'[r], s)
             /\ ~(s = Branch /\ run[r].pc = "guard" /\ run'[r].pc = "write")
             /\ s \in drifted[r] \/ (live'[s] # live[s] /\ run'[r] = run[r])}

AuditNext ==
    /\ Next
    /\ saw' = [r \in Runs |-> Watch(r)]
    /\ drifted' = [r \in Runs |-> Drift(r)]

AuditSpec == AuditInit /\ [][AuditNext]_<<vars, auditVars>>

-----------------------------------------------------------------------------
(* A run that writes has re-validated its authorization: since it began to *)
(* repeat its reads there was a moment with an open issue, one with no     *)
(* second open issue, one at which a human's unedited grant of the         *)
(* confirmed diff was current and one at which that human was an admin     *)
(* (the re-read before apply_settings in run_reconcile).                   *)
WritesRestOnFreshConsent ==
    \A r \in Runs : run[r].pc \in {"guard", "write"} =>
        /\ saw[r].open
        /\ saw[r].sole
        /\ saw[r].granters \cap saw[r].admins # {}

(* A run changes a setting only as its confirmed diff says, from the live  *)
(* value in the diff to the desired one, unless someone else changed that  *)
(* setting after the run had read it for the last time (apply_settings     *)
(* sends the whole desired state, not the diff, and re-reads only branch   *)
(* protection before it writes).                                           *)
OnlyReviewedChangesLand ==
    [][\A r \in Runs, s \in Surfaces :
          /\ run[r].pc = "write"
          /\ run'[r] # run[r]
          /\ live'[s] # live[s]
          => \/ s \in drifted[r]
             \/ /\ s \in DOMAIN run[r].confirm
                /\ run[r].confirm[s] = <<live'[s], live[s]>>]_<<vars, auditVars>>

(* When the audit comment reports an apply, every setting is as declared,  *)
(* except those it lists as skipped and those that others changed after    *)
(* the run had last read them.                                             *)
AuditIsTruthful ==
    \A r \in Runs : run[r].outcome = "apply" =>
        \A s \in Surfaces \ (run[r].skipped \cup drifted[r]) :
            live[s] = run[r].desired[s]

-----------------------------------------------------------------------------
(* "Unchanged desired fields equal live, so applying the full desired      *)
(* state is equivalent to applying just the diff" (run_reconcile's comment *)
(* on its call of apply_settings): a run changes no setting outside the    *)
(* diff its operator confirmed.                                            *)
AppliesJustTheDiff ==
    [][\A r \in Runs, s \in Surfaces :
          run[r].pc = "write" /\ run'[r] # run[r] /\ live'[s] # live[s]
          => s \in DOMAIN run[r].confirm]_<<vars, auditVars>>

=============================================================================
