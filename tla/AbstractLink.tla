---------------------------- MODULE AbstractLink ----------------------------
(***************************************************************************)
(* What the shaping commands promise of an interface: it has one shape or  *)
(* none, a shape is installed only where there is none, and what an        *)
(* interrupted command left behind is gone only with a clear.              *)
(***************************************************************************)
CONSTANTS
  Ifaces,
  Shapes,
  NoShape

VARIABLES
  shape, \* the shape of each interface, or NoShape
  torn   \* interfaces in a state that nobody answers for

vars == <<shape, torn>>

Init == shape = [i \in Ifaces |-> NoShape] /\ torn = {}

Install(i, s) ==
  /\ i \notin torn /\ shape[i] = NoShape
  /\ shape' = [shape EXCEPT ![i] = s]
  /\ UNCHANGED torn

Clear(i) ==
  /\ shape' = [shape EXCEPT ![i] = NoShape]
  /\ torn'  = torn \ {i}

Tear(i) ==
  /\ shape' = [shape EXCEPT ![i] = NoShape]
  /\ torn'  = torn \cup {i}

\* The interfaces are gone, and those that come after them are as good as new.
Vanish == shape' = [i \in Ifaces |-> NoShape] /\ torn' = {}

Next == \/ \E i \in Ifaces : Clear(i) \/ Tear(i) \/ \E s \in Shapes : Install(i, s)
        \/ Vanish

Spec == Init /\ [][Next]_vars
=============================================================================
