-------------------------- MODULE AbstractPipeline --------------------------
(***************************************************************************)
(* What subprocess.Pipeline promises, as if its commands were joined by    *)
(* one channel each: what is sent comes through in order and ends when the *)
(* sender has ended, and the one result tells the truth both ways, nil and *)
(* error, when no command runs any more.                                   *)
(***************************************************************************)
EXTENDS Naturals

CONSTANTS
  NumStages,
  Hasty,     \* stages that may succeed before they have received everything
  Capacity   \* what a channel holds

VARIABLES
  stage,     \* "new", "running", "zero" or "nonzero"
  sent, received, \* of the channel behind each stage
  ended,     \* stages that have received everything, and know it
  torn,      \* TRUE if the pipeline is given up before all its stages have begun
  result     \* "none", "nil", "error"

vars == <<stage, sent, received, ended, torn, result>>

Stages == 1..NumStages
Links  == 1..(NumStages - 1)

Init ==
  /\ stage = [i \in Stages |-> "new"]
  /\ sent = [i \in Links |-> 0] /\ received = [i \in Links |-> 0]
  /\ ended = {} /\ torn = FALSE /\ result = "none"

Exited(i) == stage[i] \in {"zero", "nonzero"}

\* The next stage begins.
Begin(i) ==
  /\ ~torn
  /\ \A j \in Stages : stage[j] = "new" <=> j >= i
  /\ stage' = [stage EXCEPT ![i] = "running"]
  /\ UNCHANGED <<sent, received, ended, torn, result>>

GiveUp ==
  /\ ~torn /\ \E i \in Stages : stage[i] = "new"
  /\ torn' = TRUE
  /\ UNCHANGED <<stage, sent, received, ended, result>>

Send(i) ==
  /\ stage[i] = "running" /\ sent[i] - received[i] < Capacity
  /\ sent' = [sent EXCEPT ![i] = @ + 1]
  /\ UNCHANGED <<stage, received, ended, torn, result>>

Receive(i) ==
  /\ stage[i + 1] = "running" /\ i + 1 \notin ended
  /\ received[i] < sent[i]
  /\ received' = [received EXCEPT ![i] = @ + 1]
  /\ UNCHANGED <<stage, sent, ended, torn, result>>

\* The end of what a stage receives, which is early only in a pipeline that is given up.
SeesEnd(i) ==
  /\ stage[i] = "running" /\ i \notin ended
  /\ torn \/ i = 1 \/ (Exited(i - 1) /\ received[i - 1] = sent[i - 1])
  /\ ended' = ended \cup {i}
  /\ UNCHANGED <<stage, sent, received, torn, result>>

Exit(i, code) ==
  /\ stage[i] = "running"
  /\ code = "zero" => i \in ended \cup Hasty
  /\ stage' = [stage EXCEPT ![i] = code]
  /\ UNCHANGED <<sent, received, ended, torn, result>>

Whole ==
  /\ \A i \in Stages : stage[i] = "zero"
  /\ \A i \in Links : i + 1 \in Hasty \/ received[i] = sent[i]

\* What there is to tell.
Trouble ==
  \/ torn
  \/ \E i \in Stages : stage[i] = "nonzero"
  \/ \E i \in Links : received[i] # sent[i]

Return ==
  /\ result = "none"
  /\ \A i \in Stages : Exited(i) \/ (torn /\ stage[i] = "new")
  /\ \/ Whole /\ result' = "nil"
     \/ Trouble /\ result' = "error"
  /\ UNCHANGED <<stage, sent, received, ended, torn>>

Next == \/ GiveUp \/ Return
        \/ \E i \in Stages : Begin(i) \/ SeesEnd(i) \/ \E code \in {"zero", "nonzero"} : Exit(i, code)
        \/ \E i \in Links : Send(i) \/ Receive(i)

Spec == Init /\ [][Next]_vars
=============================================================================
