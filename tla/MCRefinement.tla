---------------------------- MODULE MCRefinement ----------------------------
(* One operator, two surfaces, two issues, and a world that leaves the     *)
(* settings alone.                                                         *)
EXTENDS ReconcileRefinement, ReconcileAudit

CONSTANTS branch, security, on, off, alice, bot

MCSurfaces == {branch, security}
MCOrder == <<branch, security>>
MCDeclared == {[s \in MCSurfaces |-> on]}

=============================================================================
