----------------------------- MODULE MCDetector -----------------------------
(* The detector beside one reconcile run: one settings surface that can    *)
(* drift in two ways, one declaration.                                     *)
EXTENDS VoidAudit

CONSTANTS branch, security, on, off, half, alice, bot

MCSurfaces == {branch}
MCOrder == <<branch>>
MCDeclared == {[s \in MCSurfaces |-> on]}

=============================================================================
