----------------------- MODULE MCWorkspaceDiagnostics -----------------------
(* Small instances of WorkspaceDiagnostics.                                *)
EXTENDS WorkspaceDiagnostics, TLC

CONSTANTS f1, f2, d1, d2

FilesAndIds == Permutations(Files) \cup Permutations(Ids)
=============================================================================
