--------------------------- MODULE MCManagedFiles ---------------------------
(* Two profiles and two versions of the Library.  The first profile has a   *)
(* config and a seed of its own, both share a workflow, and docs add a      *)
(* workflow and a seed.  The config changes with the version.               *)
EXTENDS ManagedFiles

CONSTANTS conf, ci, pages, license, index, py, node, t1, t2

MCSeeds == {license, index}
MCOrder == <<conf, ci, pages, license, index>>

Rendered(o, p, lib, docs) ==
    IF o = conf THEN (IF lib = 1 THEN t1 ELSE t2)
    ELSE IF o = pages \/ o = index THEN (IF docs THEN t1 ELSE None)
    ELSE IF p = node /\ o = license THEN None
    ELSE t1

MCTemplate ==
    [x \in Outputs \X Profiles \X Versions \X BOOLEAN |-> Rendered(x[1], x[2], x[3], x[4])]

=============================================================================
