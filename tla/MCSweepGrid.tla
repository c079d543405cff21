----------------------------- MODULE MCSweepGrid -----------------------------
(* Small instances of SweepGrid for TLC.                                   *)
EXTENDS SweepGrid

CONSTANT a

MCShapes == {a}

MCCell(down, up, n) ==
  [shape |-> [i \in Ifaces |-> IF i = "if_client" THEN down ELSE up], clients |-> n]

\* One direction each, and the other one the next time: a shape is put up, then left
\* off, on either interface.
MCCells == <<MCCell(a, NoShape, 1), MCCell(NoShape, a, 1)>>

AllDisturbance == {"fail", "die", "meddle"}
=============================================================================
