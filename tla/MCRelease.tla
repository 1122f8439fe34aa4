------------------------------ MODULE MCRelease ------------------------------
(* From 1.0.0, with small and large changes.                                 *)
EXTENDS Release

MCStart == <<1, 0, 0>>

Change(type, breaking) == [conventional |-> TRUE, type |-> type, breaking |-> breaking]
MCChanges == {Change("chore", FALSE), Change("feat", FALSE), Change("fix", TRUE)}

MCPrereleases == {<<1, 1, 0, 0, 1>>}

=============================================================================
