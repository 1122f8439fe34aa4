----------------------------- MODULE MCTimeline -----------------------------
(* One issue, two possible diffs of one surface, a human and a bot.        *)
EXTENDS ConsentTimeline

CONSTANTS branch, on, off, half, alice, bot

MCSurfaces == {branch}
MCDeclared == {[s \in MCSurfaces |-> on]}

=============================================================================
