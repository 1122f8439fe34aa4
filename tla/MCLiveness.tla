----------------------------- MODULE MCLiveness -----------------------------
(* One detector, one settings surface that can drift in two ways, one      *)
(* declaration.                                                            *)
EXTENDS DetectorLiveness

CONSTANTS branch, security, on, off, half, alice, bot

MCSurfaces == {branch}
MCOrder == <<branch>>
MCDeclared == {[s \in MCSurfaces |-> on]}

=============================================================================
