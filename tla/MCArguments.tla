----------------------------- MODULE MCArguments -----------------------------
(* A small instance of Arguments for TLC.                                  *)
EXTENDS Arguments

\* Every value that is valid for some flag, with one word more, and one less.
MCValues ==
  LET valid == UNION {Validates(k) : k \in Keys}
  IN  valid \cup {v \o <<t>> : v \in valid, t \in Tokens}
            \cup ({SubSeq(v, 1, Len(v) - 1) : v \in valid} \ {<<>>})

\* Names up to one beyond each limit, of characters of every class.
Classes == {"lower", "digit", "hyphen", "dot", "forbidden", "other"}

MCName(len, first, others) == [len |-> len, first |-> first, others |-> others]

MCNames ==
  {MCName(l, c, {}) : l \in {0, 1}, c \in Classes}
    \cup {MCName(l, c, {d}) : l \in {2, 12, 13}, c \in Classes, d \in Classes}

MCExtIfaces ==
  {MCName(2, c, {d}) : c, d \in Classes} \cup {MCName(l, "lower", {"digit"}) : l \in {15, 16}}
=============================================================================
