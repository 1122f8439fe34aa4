------------------------- MODULE ReconcileRefinement -------------------------
(***************************************************************************)
(* Where nobody else changes settings while one operator reconciles, the   *)
(* protocol of module Reconcile implements GatedApply.                     *)
(***************************************************************************)
EXTENDS Reconcile

(* The grants a reconcile run could rest on.                               *)
Consented ==
    {id \in DiffIds : \E n \in IssueNumbers :
        /\ HasConsent(issue[n])
        /\ CurrentConsent(issue[n]).id = id
        /\ CurrentConsent(issue[n]).by \in Humans
        /\ ~NonHumanEditAfterGrant(issue[n])}

(* A run holds the confirmed diff while its second pass stands by the      *)
(* grant it read.                                                          *)
Entitled(r) ==
    /\ r.pass = 2
    /\ r.pc \in {"role", "settings", "decide", "guard", "write"}
    /\ r.consent.id = r.confirm
    /\ r.consent.granted
    /\ ~r.consent.edited

EntitledTo(r) == IF Entitled(r) THEN r.confirm ELSE NoDiff

Ticket == [r \in Runs |-> EntitledTo(run[r])]

Gated == INSTANCE GatedApply WITH
    Operators <- Runs,
    consented <- Consented,
    ticket <- Ticket

-----------------------------------------------------------------------------
(* Without concurrent outside changes every write of a run is an entry of  *)
(* a diff that a human consented to, that the run's operator confirmed and *)
(* that was true of the repository when its second pass read the grant     *)
(* (run_reconcile and apply_settings).                                     *)
ImplementsGatedApply == Gated!GatedSpec

=============================================================================
