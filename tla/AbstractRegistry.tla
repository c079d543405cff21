-------------------------- MODULE AbstractRegistry --------------------------
(***************************************************************************)
(* What the registry of npte promises about namespace names: however many  *)
(* npte processes run, and however their commands interleave, a name goes  *)
(* from free to managed and from managed to free in one step, and not      *)
(* while another verb makes use of it.  A name is "broken" from the moment *)
(* a create or a destroy is interrupted on it until a later verb, or the   *)
(* operator, puts it right.                                                *)
(***************************************************************************)
CONSTANT Names

VARIABLES
  life,     \* the life of each name, as another npte process sees it
  inUse     \* names that a verb found managed, and makes use of

avars == <<life, inUse>>

Free    == "free"      \* no marker and no namespace of ours
Managed == "managed"   \* a marker, and a namespace configured in full
Foreign == "foreign"   \* no marker, and a namespace somebody else made
Broken  == "broken"    \* a create or a destroy stopped half way

Init == life = [n \in Names |-> Free] /\ inUse = {}

Move(n, from, to) == /\ life[n] \in from
                     /\ life' = [life EXCEPT ![n] = to]
                     /\ UNCHANGED inUse

Create(n)  == n \notin inUse /\ Move(n, {Free}, Managed)

\* The kernel name is free a little before the marker goes, so somebody else
\* may already hold it when the destroy completes.
Destroy(n) == n \notin inUse /\ \E to \in {Free, Foreign} : Move(n, {Managed}, to)

Break(n)   == Move(n, {Free, Managed, Foreign}, Broken)

Repair(n)  == n \notin inUse /\ \E to \in {Free, Managed, Foreign} : Move(n, {Broken}, to)

ForeignAdd(n) == Move(n, {Free}, Foreign)
ForeignDel(n) == Move(n, {Foreign}, Free)

Use(n) == /\ life[n] \in {Managed, Broken}
          /\ inUse' = inUse \cup {n}
          /\ UNCHANGED life

Release(n) == n \in inUse /\ inUse' = inUse \ {n} /\ UNCHANGED life

Next == \E n \in Names :
          \/ Create(n) \/ Destroy(n) \/ Break(n) \/ Repair(n)
          \/ ForeignAdd(n) \/ ForeignDel(n) \/ Use(n) \/ Release(n)

Spec == Init /\ [][Next]_avars
=============================================================================
