---------------------------- MODULE MCHostNetwork ----------------------------
(* Small instances of HostNetwork for TLC.                                 *)
EXTENDS HostNetwork, TLC

CONSTANTS p1, p2

MCTwoProcs    == {p1, p2}
MCRouter      == {"router"}
MCTwoGateways == {"router", "client"}
MCAllTools    == {"lab", "netns", "gateway"}
MCUplinks     == {"netns", "gateway"}
MCLabs        == {"lab", "gateway"}

Symmetric == Permutations(MCTwoProcs)
=============================================================================
