---------------------------- MODULE MCMcpSession ----------------------------
(* Small instances of McpSession for TLC.                                  *)
EXTENDS McpSession, TLC

CONSTANTS h1, h2, h3, q1, q2

MCOneHandler  == {h1}
MCTwoHandlers == {h1, h2}
MCAllHandlers == {h1, h2, h3}
MCOneProc     == {q1}
MCTwoProcs    == {q1, q2}

MCStatuses  == {"0", "1", "255"}
MCOneStatus == {"1"}

Symmetric == Permutations(MCAllHandlers)
=============================================================================
