------------------------------ MODULE Pipeline ------------------------------
(***************************************************************************)
(* subprocess.Pipeline: commands that run at the same time, each one's     *)
(* stdout wired to the next one's stdin.  `npte gateway destroy` rewrites  *)
(* the host's firewall through one (iptables-save, grep, iptables-restore),*)
(* so that an end of file that comes too early, or an error that gets      *)
(* lost, is a firewall that loses rules without a word.                    *)
(*                                                                         *)
(* Link i goes from stage i to stage i + 1.  Since an io.Pipe is not a     *)
(* file, os/exec puts a pipe of the system and a goroutine that copies at  *)
(* either end of it: what stage i writes goes through the system's pipe,   *)
(* the copier behind stage i ("out"), the io.Pipe, the copier before stage *)
(* i + 1 ("in") and a second pipe of the system.  Data are counted: each   *)
(* cursor of a link says how much has come past one of these points.       *)
(***************************************************************************)
EXTENDS Naturals

CONSTANTS
  NumStages, \* commands in the pipeline
  Hasty,     \* stages that may succeed before they have read everything
  MaxUnits,  \* bound on what a stage writes
  PipeSize   \* what a pipe of the system holds

Stages == 1..NumStages
Links  == 1..(NumStages - 1)

ASSUME StagesAssumption == NumStages \in Nat \ {0} /\ Hasty \subseteq Stages
ASSUME BoundsAssumption == MaxUnits \in Nat /\ PipeSize \in Nat \ {0}

VARIABLES
  pc,      \* where Pipeline is: "start", "kill", "wait", "returned"
  cursor,  \* the stage that it starts or kills next
  proc,    \* the process of each stage
  eof,     \* stages that have seen the end of their stdin
  waiter,  \* the goroutine that waits for each stage
  errs,    \* stages whose Wait has returned an error
  out, in, \* the copiers of each link: "new", "copying", "over", "failed"
  wclosed, \* links whose io.Pipe is closed at the writer's end,
  rclosed, \* and at the reader's
  wrote, taken, passed, fed, got,  \* the cursors of each link
  result   \* what Pipeline has returned: "none", "nil", "error"

copiers == <<out, in>>
pipes   == <<wclosed, rclosed>>
cursors == <<wrote, taken, passed, fed, got>>
vars    == <<pc, cursor, proc, eof, waiter, errs, copiers, pipes, cursors, result>>

-----------------------------------------------------------------------------
Init ==
  /\ pc      = "start"
  /\ cursor  = 1
  /\ proc    = [i \in Stages |-> "new"]
  /\ eof     = {}
  /\ waiter  = [i \in Stages |-> "new"]
  /\ errs    = {}
  /\ out     = [i \in Links |-> "new"]
  /\ in      = [i \in Links |-> "new"]
  /\ wclosed = {} /\ rclosed = {}
  /\ wrote   = [i \in Links |-> 0]
  /\ taken   = [i \in Links |-> 0]
  /\ passed  = [i \in Links |-> 0]
  /\ fed     = [i \in Links |-> 0]
  /\ got     = [i \in Links |-> 0]
  /\ result  = "none"

Bump(c, i) == [c EXCEPT ![i] = @ + 1]

Exited(i) == proc[i] \in {"zero", "nonzero"}

Stopped(copier, i) == copier[i] \in {"over", "failed"}

-----------------------------------------------------------------------------
(* The commands.  What a stage finds at its stdin and stdout is the first  *)
(* and the last pipe of its links.                                         *)

Reads(i) ==
  /\ proc[i] = "running" /\ i > 1
  /\ got[i - 1] < fed[i - 1]
  /\ got' = Bump(got, i - 1)
  /\ UNCHANGED <<pc, cursor, proc, eof, waiter, errs, copiers, pipes, wrote, taken, passed, fed, result>>

\* The first stage reads /dev/null.
SeesEof(i) ==
  /\ proc[i] = "running" /\ i \notin eof
  /\ i > 1 => got[i - 1] = fed[i - 1] /\ Stopped(in, i - 1)
  /\ eof' = eof \cup {i}
  /\ UNCHANGED <<pc, cursor, proc, waiter, errs, copiers, pipes, cursors, result>>

\* Nobody reads any more: SIGPIPE.
Writes(i) ==
  /\ proc[i] = "running" /\ i < NumStages
  /\ wrote[i] < MaxUnits
  /\ IF Stopped(out, i)
       THEN proc' = [proc EXCEPT ![i] = "nonzero"] /\ UNCHANGED wrote
       ELSE /\ wrote[i] - taken[i] < PipeSize
            /\ wrote' = Bump(wrote, i)
            /\ UNCHANGED proc
  /\ UNCHANGED <<pc, cursor, eof, waiter, errs, copiers, pipes, taken, passed, fed, got, result>>

Succeeds(i) ==
  /\ proc[i] = "running"
  /\ i \in eof \cup Hasty
  /\ proc' = [proc EXCEPT ![i] = "zero"]
  /\ UNCHANGED <<pc, cursor, eof, waiter, errs, copiers, pipes, cursors, result>>

Fails(i) ==
  /\ proc[i] = "running"
  /\ proc' = [proc EXCEPT ![i] = "nonzero"]
  /\ UNCHANGED <<pc, cursor, eof, waiter, errs, copiers, pipes, cursors, result>>

-----------------------------------------------------------------------------
(* The copiers of a link, which cmd.Start launches.                        *)

\* One piece from the pipe behind stage i; at its end the copier is over.
OutReads(i) ==
  /\ out[i] = "copying" /\ taken[i] = passed[i]
  /\ IF taken[i] < wrote[i]
       THEN taken' = Bump(taken, i) /\ UNCHANGED out
       ELSE Exited(i) /\ out' = [out EXCEPT ![i] = "over"] /\ UNCHANGED taken
  /\ UNCHANGED <<pc, cursor, proc, eof, waiter, errs, in, pipes, wrote, passed, fed, got, result>>

\* A write to an io.Pipe ends when the other side has read it.
Pass(i) ==
  /\ out[i] = "copying" /\ passed[i] < taken[i]
  /\ in[i] = "copying" /\ fed[i] = passed[i]
  /\ i \notin wclosed \cup rclosed
  /\ passed' = Bump(passed, i)
  /\ UNCHANGED <<pc, cursor, proc, eof, waiter, errs, copiers, pipes, wrote, taken, fed, got, result>>

OutFails(i) ==
  /\ out[i] = "copying" /\ passed[i] < taken[i]
  /\ i \in wclosed \cup rclosed
  /\ out' = [out EXCEPT ![i] = "failed"]
  /\ UNCHANGED <<pc, cursor, proc, eof, waiter, errs, in, pipes, cursors, result>>

\* The copier before stage i + 1; that the stage reads no more is no error.
InWrites(i) ==
  /\ in[i] = "copying" /\ fed[i] < passed[i]
  /\ IF Exited(i + 1)
       THEN in' = [in EXCEPT ![i] = "over"] /\ UNCHANGED fed
       ELSE /\ fed[i] - got[i] < PipeSize
            /\ fed' = Bump(fed, i)
            /\ UNCHANGED in
  /\ UNCHANGED <<pc, cursor, proc, eof, waiter, errs, out, pipes, wrote, taken, passed, got, result>>

\* Mutant: the end of file is taken for an error, too.
MutInEnds(i) ==
  /\ in[i] = "copying" /\ fed[i] = passed[i]
  /\ i \in wclosed \cup rclosed
  /\ in' = [in EXCEPT ![i] = "failed"]
  /\ UNCHANGED <<pc, cursor, proc, eof, waiter, errs, out, pipes, cursors, result>>

\* The io.Pipe is closed: an end of file, or an error at the reader's own end.
InEnds(i) ==
  /\ in[i] = "copying" /\ fed[i] = passed[i]
  /\ i \in wclosed \cup rclosed
  /\ in' = [in EXCEPT ![i] = IF i \in rclosed THEN "failed" ELSE "over"]
  /\ UNCHANGED <<pc, cursor, proc, eof, waiter, errs, out, pipes, cursors, result>>

-----------------------------------------------------------------------------
(* Pipeline itself.                                                        *)

\* Start, which launches the copiers of the stage.
Start ==
  /\ pc = "start" /\ cursor \in Stages
  /\ proc'   = [proc EXCEPT ![cursor] = "running"]
  /\ out'    = [i \in Links |-> IF i = cursor THEN "copying" ELSE out[i]]
  /\ in'     = [i \in Links |-> IF i + 1 = cursor THEN "copying" ELSE in[i]]
  /\ cursor' = cursor + 1
  /\ UNCHANGED <<pc, eof, waiter, errs, pipes, cursors, result>>

\* The command cannot be started: all pipes are closed, and the stages that run
\* are killed and waited for, one by one.
StartFails ==
  /\ pc = "start" /\ cursor \in Stages
  /\ wclosed' = Links /\ rclosed' = Links
  /\ pc'      = "kill"
  /\ cursor'  = 1
  /\ UNCHANGED <<proc, eof, waiter, errs, copiers, cursors, result>>

\* Mutant: one stage too many, the one that could not be started.
MutKill ==
  /\ pc = "kill" /\ cursor \in Stages
  /\ waiter[cursor] = "new"
  /\ proc'   = [proc EXCEPT ![cursor] = IF Exited(cursor) \/ @ = "new" THEN @ ELSE "nonzero"]
  /\ waiter' = [waiter EXCEPT ![cursor] = "wait"]
  /\ UNCHANGED <<pc, cursor, eof, errs, copiers, pipes, cursors, result>>

Kill ==
  /\ pc = "kill" /\ cursor \in Stages
  /\ proc[cursor] # "new" /\ waiter[cursor] = "new"
  /\ proc'   = [proc EXCEPT ![cursor] = IF Exited(cursor) THEN @ ELSE "nonzero"]
  /\ waiter' = [waiter EXCEPT ![cursor] = "wait"]
  /\ UNCHANGED <<pc, cursor, eof, errs, copiers, pipes, cursors, result>>

\* cmd.Wait returns: the process is over, and so are its copiers.
Ended(i) ==
  /\ Exited(i)
  /\ i \in Links => Stopped(out, i)
  /\ i - 1 \in Links => Stopped(in, i - 1)

Killed ==
  /\ pc = "kill" /\ cursor \in Stages
  /\ waiter[cursor] = "wait" /\ Ended(cursor)
  /\ waiter' = [waiter EXCEPT ![cursor] = "over"]
  /\ cursor' = cursor + 1
  /\ UNCHANGED <<pc, proc, eof, errs, copiers, pipes, cursors, result>>

AbortReturns ==
  /\ pc = "kill"
  /\ cursor \in Stages => proc[cursor] = "new"
  /\ pc' = "returned" /\ result' = "error"
  /\ UNCHANGED <<cursor, proc, eof, waiter, errs, copiers, pipes, cursors>>

\* All stages run: one goroutine waits for each.
WaitForAll ==
  /\ pc = "start" /\ cursor = NumStages + 1
  /\ pc' = "wait"
  /\ waiter' = [i \in Stages |-> "wait"]
  /\ UNCHANGED <<cursor, proc, eof, errs, copiers, pipes, cursors, result>>

Erred(i) ==
  \/ proc[i] = "nonzero"
  \/ i \in Links /\ out[i] = "failed"
  \/ i - 1 \in Links /\ in[i - 1] = "failed"

\* Mutant: waits for the process alone, as Process.Wait would.
MutWaitReturns(i) ==
  /\ pc = "wait" /\ waiter[i] = "wait"
  /\ Exited(i)
  /\ waiter' = [waiter EXCEPT ![i] = "closeOut"]
  /\ errs'   = IF Erred(i) THEN errs \cup {i} ELSE errs
  /\ UNCHANGED <<pc, cursor, proc, eof, copiers, pipes, cursors, result>>

WaitReturns(i) ==
  /\ pc = "wait" /\ waiter[i] = "wait"
  /\ Ended(i)
  /\ waiter' = [waiter EXCEPT ![i] = "closeOut"]
  /\ errs'   = IF Erred(i) THEN errs \cup {i} ELSE errs
  /\ UNCHANGED <<pc, cursor, proc, eof, copiers, pipes, cursors, result>>

\* The next stage gets its end of file.
CloseOut(i) ==
  /\ waiter[i] = "closeOut"
  /\ wclosed' = wclosed \cup ({i} \cap Links)
  /\ waiter'  = [waiter EXCEPT ![i] = "closeIn"]
  /\ UNCHANGED <<pc, cursor, proc, eof, errs, copiers, rclosed, cursors, result>>

\* Mutant: the stdin of a stage that is over stays open.
MutCloseIn(i) ==
  /\ waiter[i] = "closeIn"
  /\ waiter' = [waiter EXCEPT ![i] = "over"]
  /\ UNCHANGED <<pc, cursor, proc, eof, errs, copiers, pipes, cursors, result>>

\* The stage before gets a broken pipe.
CloseIn(i) ==
  /\ waiter[i] = "closeIn"
  /\ rclosed' = rclosed \cup ({i - 1} \cap Links)
  /\ waiter'  = [waiter EXCEPT ![i] = "over"]
  /\ UNCHANGED <<pc, cursor, proc, eof, errs, copiers, wclosed, cursors, result>>

\* Mutant: the error of the last stage alone counts, as in a shell.
MutReturns ==
  /\ pc = "wait"
  /\ \A i \in Stages : waiter[i] = "over"
  /\ pc' = "returned"
  /\ result' = IF NumStages \in errs THEN "error" ELSE "nil"
  /\ UNCHANGED <<cursor, proc, eof, waiter, errs, copiers, pipes, cursors>>

Returns ==
  /\ pc = "wait"
  /\ \A i \in Stages : waiter[i] = "over"
  /\ pc' = "returned"
  /\ result' = IF errs = {} THEN "nil" ELSE "error"
  /\ UNCHANGED <<cursor, proc, eof, waiter, errs, copiers, pipes, cursors>>

-----------------------------------------------------------------------------
Works(i)  == Reads(i) \/ SeesEof(i) \/ Writes(i) \/ Succeeds(i)
Copies(i) == OutReads(i) \/ Pass(i) \/ OutFails(i) \/ InWrites(i) \/ InEnds(i)
Waits(i)  == WaitReturns(i) \/ CloseOut(i) \/ CloseIn(i)
Main      == Start \/ Kill \/ Killed \/ AbortReturns \/ WaitForAll \/ Returns

Next == \/ Main \/ StartFails
        \/ \E i \in Stages : Works(i) \/ Fails(i) \/ Waits(i)
        \/ \E i \in Links : Copies(i)

Spec == Init /\ [][Next]_vars

\* The scheduler of Go for the goroutines.  Every command goes on as long as it
\* can: that it ends is for the commands to see to, as in any pipeline.
Fairness ==
  /\ WF_vars(Main)
  /\ \A i \in Stages : WF_vars(Works(i)) /\ WF_vars(Waits(i))
  /\ \A i \in Links  : /\ WF_vars(OutReads(i)) /\ WF_vars(Pass(i)) /\ WF_vars(OutFails(i))
                       /\ WF_vars(InWrites(i)) /\ WF_vars(InEnds(i))

FairSpec == Spec /\ Fairness

-----------------------------------------------------------------------------
(* Properties.                                                             *)

\* No cursor overtakes the one before it, nor a pipe its capacity.
InOrder(i) ==
  /\ taken[i]  \in 0..wrote[i] /\ wrote[i] - taken[i] <= PipeSize
  /\ passed[i] \in 0..taken[i] /\ taken[i] - passed[i] <= 1
  /\ fed[i]    \in 0..passed[i] /\ passed[i] - fed[i] <= 1
  /\ got[i]    \in 0..fed[i] /\ fed[i] - got[i] <= PipeSize

TypeOK ==
  /\ pc \in {"start", "kill", "wait", "returned"}
  /\ cursor \in 1..(NumStages + 1)
  /\ proc \in [Stages -> {"new", "running", "zero", "nonzero"}]
  /\ waiter \in [Stages -> {"new", "wait", "closeOut", "closeIn", "over"}]
  /\ eof \subseteq Stages /\ errs \subseteq Stages
  /\ out \in [Links -> {"new", "copying", "over", "failed"}]
  /\ in  \in [Links -> {"new", "copying", "over", "failed"}]
  /\ wclosed \subseteq Links /\ rclosed \subseteq Links
  /\ wrote \in [Links -> 0..MaxUnits]
  /\ \A i \in Links : InOrder(i)
  /\ result \in {"none", "nil", "error"}
  \* pipeline.go asserts that a process is there before it kills and waits.
  /\ \A i \in Stages : waiter[i] # "new" => proc[i] # "new"

\* Pipeline returns nil only if every command has succeeded and every piece of
\* what one wrote has been read by the next, unless the next is of the kind that
\* succeeds without reading on.  (AbstractPiping, below, says this and more.)
NilIsWhole ==
  result = "nil" =>
     /\ \A i \in Stages : proc[i] = "zero"
     /\ \A i \in Links : i + 1 \notin Hasty => got[i] = wrote[i]

TornDown == pc # "start" /\ \E i \in Stages : proc[i] = "new"

\* A stage sees the end of its input only when the command before it is over and
\* all that it wrote has come through: no stage takes a part for the whole and
\* acts on it.  A pipeline that is torn down since one of its commands cannot be
\* started is different: its pipes are closed before its stages are killed.  The
\* stage at which it ends has not begun by then, nor has any after it.
EofIsTheEnd ==
  ~TornDown => \A i \in Links : i + 1 \in eof => Exited(i) /\ got[i] = wrote[i]

Running(i) == proc[i] = "running"

NothingLeft ==
  /\ \A i \in Stages : ~Running(i)
  /\ \A i \in Links : out[i] # "copying" /\ in[i] # "copying"

LeavesNothing == pc = "returned" => NothingLeft

Channels == INSTANCE AbstractPipeline
  WITH stage <- proc, sent <- wrote, received <- got, ended <- eof, torn <- TornDown,
       Capacity <- 2 * PipeSize + 2

\* Whatever the goroutines, pipes and copiers do between them, the commands are joined as if
\* by one channel each: no end of file comes early, and nothing comes after it; the result is
\* there when nobody runs any more; it is nil only if all went well, and an error only if
\* there is something to tell, which a stage that ends early but well is not by itself.
AbstractPiping == Channels!Spec

\* Whichever stage fails, ends early or cannot be started, and however full the
\* pipes are by then, Pipeline returns; and it has left no process and no
\* goroutine when it does.
ReturnsClean == <>(pc = "returned") /\ []LeavesNothing
=============================================================================
