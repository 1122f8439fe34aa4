----------------------------- MODULE MCReconcile -----------------------------
(* A repository with two settings surfaces, one declaration and one issue. *)
EXTENDS ReconcileAudit

CONSTANTS branch, security, on, off, alice, bot

MCSurfaces == {branch, security}
MCOrder == <<branch, security>>
MCDeclared == {[s \in MCSurfaces |-> on]}

=============================================================================
