------------------------ MODULE WorkspaceRuntimesMC ------------------------
(* An instance of WorkspaceRuntimes for TLC.                                *)
EXTENDS WorkspaceRuntimes

CONSTANTS c1, c2, a1, a2

\* Controllers and allocations differ only in what has happened to them, so c1
\* may be the one that reserves first, and a1 what it reserves.
FirstReserved ==
    /\ row[a1].state = "none" => row'[a2].state = "none"
    /\ row[a1].state = "none" /\ row'[a1].state # "none" => row'[a1].owner = c1
=============================================================================
