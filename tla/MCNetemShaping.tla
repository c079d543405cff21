--------------------------- MODULE MCNetemShaping ---------------------------
(* Small instances of NetemShaping for TLC.                                *)
EXTENDS NetemShaping, TLC

CONSTANTS p1, p2, a, b

MCTwoShapers  == {p1, p2}
MCPlainShapes == {a}
MCChildShapes == {b}
MCProfiles    == {<<b, b>>}

MCDownload    == {"if_client"}
MCComposers    == {"lab", "mcp"}
MCAgents      == {"mcp"}
NoDisturbance  == {}
AllDisturbance == {"fail", "crash", "lab"}

Symmetric == Permutations(MCTwoShapers)
=============================================================================
