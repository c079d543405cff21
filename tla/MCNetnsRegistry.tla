--------------------------- MODULE MCNetnsRegistry ---------------------------
(* Small instances of NetnsRegistry for TLC.                               *)
EXTENDS NetnsRegistry, TLC

CONSTANTS p1, p2, p3, n1

MCTwoProcs   == {p1, p2}
MCThreeProcs == {p1, p2, p3}
MCOneName    == {n1}

NoDisturbance  == {}
Failures       == {"fail", "foreign", "operator"}
AllDisturbance == {"fail", "crash", "foreign", "operator"}
OutOfBand      == {"foreign"}

Symmetric == Permutations(MCThreeProcs)
=============================================================================
