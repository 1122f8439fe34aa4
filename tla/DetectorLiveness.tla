-------------------------- MODULE DetectorLiveness ---------------------------
(***************************************************************************)
(* What the drift detector gets done in the end.                           *)
(***************************************************************************)
EXTENDS Reconcile

(* The schedule starts the detector again and again, and every request is  *)
(* answered or fails.                                                      *)
FairSpec ==
    /\ Spec
    /\ \A d \in Detectors : WF_vars(DetStart(d) \/ DetStep(d))

-----------------------------------------------------------------------------
(* From some point on nobody but the detector acts, and it does not fail.  *)
(* (The last step of a run that went well looks like a failure.)           *)
Quiet ==
    <>[][/\ ~Environment
         /\ \A d \in Detectors : DetFail(d) => DetStep(d)]_vars

StaleConsent(n) ==
    /\ HasConsent(issue[n])
    /\ \A m \in Declared : CurrentConsent(issue[n]).id # Diff(m, live)

(* In a repository left alone, the detector removes an outdated consent    *)
(* from the issue that reconcile would read.                               *)
StaleConsentIsVoided ==
    Quiet => <>[](Existing # {} => ~StaleConsent(SelectIssue(Existing)))

(* In a repository left alone, drift ends up on an open tracking issue.    *)
DriftIsReported ==
    Quiet => <>[](\/ \E m \in Declared : Diff(m, live) = NoDiff
                  \/ OpenIssues # {}
                  \/ Existing = IssueNumbers)

=============================================================================
