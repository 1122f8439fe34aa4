----------------------------- MODULE GatedApply -----------------------------
(***************************************************************************)
(* What consent-gated reconciliation comes down to, without requests,      *)
(* issues or detectors: an operator takes a diff that is consented to and  *)
(* that tells the truth about the live settings, and lands its entries one *)
(* by one, or gives up half-way.  Nothing else changes a setting.          *)
(***************************************************************************)
EXTENDS Settings

CONSTANT Operators

VARIABLES
    live,        (* the repository's settings                              *)
    consented,   (* the diffs that an undisturbed human consent names      *)
    ticket       (* the diff each operator is entitled to land             *)

gatedVars == <<live, consented, ticket>>

GatedInit ==
    /\ live \in SettingsMap
    /\ consented \in SUBSET DiffIds
    /\ ticket = [r \in Operators |-> NoDiff]

Reconsider ==
    /\ consented' \in SUBSET DiffIds
    /\ UNCHANGED <<live, ticket>>

Authorize(r) ==
    /\ ticket[r] = NoDiff
    /\ \E id \in consented :
          /\ \A s \in DOMAIN id : live[s] = id[s][2]
          /\ ticket' = [ticket EXCEPT ![r] = id]
    /\ UNCHANGED <<live, consented>>

Land(r) ==
    /\ \E s \in DOMAIN ticket[r] :
          live' = [live EXCEPT ![s] = ticket[r][s][1]]
    /\ ticket' \in {ticket, [ticket EXCEPT ![r] = NoDiff]}
    /\ UNCHANGED consented

GiveUp(r) ==
    /\ ticket' = [ticket EXCEPT ![r] = NoDiff]
    /\ UNCHANGED <<live, consented>>

GatedNext ==
    \/ Reconsider
    \/ \E r \in Operators : Authorize(r) \/ Land(r) \/ GiveUp(r)

GatedSpec == GatedInit /\ [][GatedNext]_gatedVars

=============================================================================
