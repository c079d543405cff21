----------------------------- MODULE McpSession -----------------------------
(***************************************************************************)
(* The session manager of `npte mcp serve`: tool handlers that start       *)
(* privileged children, wait for them and signal them; one reaper          *)
(* goroutine per child; the table of tracked children; and the sweep that  *)
(* runs when the server stops.  Handlers run concurrently; only the table  *)
(* is behind a mutex (its critical sections are single steps here).        *)
(*                                                                         *)
(* A child may end at any time, with or without a signal, or never.  A     *)
(* timer may fire at any time.  Every process identifier is used once.     *)
(***************************************************************************)
EXTENDS Naturals, FiniteSets

CONSTANTS
  Handlers,   \* tool calls in flight at a time
  Procs,      \* process identifiers: at most so many children in a session
  Statuses,   \* exit codes of a child, with "255" if wait(2) does not tell
  MaxCount,   \* bound on the `count` of run_command
  Drains,     \* does the SDK wait for the calls in flight before Run returns?
  NoProc      \* a call that has no process (yet)

ASSUME MaxCountAssumption == MaxCount \in Nat \ {0}
ASSUME DrainsAssumption   == Drains \in BOOLEAN
ASSUME NullAssumption     == NoProc \notin Procs

VARIABLES
  child,     \* the child as the kernel has it
  status,    \* how it ended, and "0" until then
  signals,   \* the signals sent to it
  exitfile,  \* exitcode.txt: "absent", "empty", or the code written to it
  open,      \* are its three files open in the server?
  stored,    \* sessionProc.exitcode
  done,      \* is sessionProc.done closed?
  reaper,    \* where its reaper goroutine is
  table,     \* sessionManager.procs
  pc, call,  \* where each handler is, and what it works for
  server,    \* where serveMain is, from server.Run on
  stolen,    \* what Cleanup took from the table and has yet to see done
  reported,  \* history: processes some handler reported as terminated
  survived   \* history: processes run_command gave up on

proc == <<child, status, signals, exitfile, open, stored, done, reaper>>
hist == <<reported, survived>>
vars == <<proc, table, pc, call, server, stolen, hist>>

Signals == {"INT", "TERM"}
Codes   == Statuses \cup {"0", "127"}

Tools == {"run", "start", "wait", "kill"}

NoCall == [tool |-> "none", proc |-> NoProc, left |-> 0, grace |-> FALSE,
           result |-> "none", code |-> "0"]

Proc(h) == call[h].proc

\* The server process exists: its goroutines can take steps.
Alive == server \notin {"exit_ok", "exit_err"}

Init ==
  /\ child    = [p \in Procs |-> "unused"]
  /\ status   = [p \in Procs |-> "0"]
  /\ signals  = [p \in Procs |-> {}]
  /\ exitfile = [p \in Procs |-> "absent"]
  /\ open     = [p \in Procs |-> FALSE]
  /\ stored   = [p \in Procs |-> "0"]
  /\ done     = [p \in Procs |-> FALSE]
  /\ reaper   = [p \in Procs |-> "none"]
  /\ table    = {}
  /\ pc       = [h \in Handlers |-> "idle"]
  /\ call     = [h \in Handlers |-> NoCall]
  /\ server   = "serving"
  /\ stolen   = {}
  /\ reported = {}
  /\ survived = {}

-----------------------------------------------------------------------------
(* Handlers.                                                               *)

Goto(h, label) == pc' = [pc EXCEPT ![h] = label]

Return(h, result) == /\ Goto(h, "return")
                     /\ call' = [call EXCEPT ![h].result = result]

Invoke(h) ==
  /\ server = "serving" /\ pc[h] = "idle"
  /\ \/ \E n \in 1..MaxCount :
          /\ call' = [call EXCEPT ![h] = [NoCall EXCEPT !.tool = "run", !.left = n]]
          /\ Goto(h, "prepare")
     \/ /\ call' = [call EXCEPT ![h] = [NoCall EXCEPT !.tool = "start"]]
        /\ Goto(h, "prepare")
     \/ \E tool \in {"wait", "kill"}, p \in {q \in Procs : child[q] # "unused"} :
          /\ call' = [call EXCEPT ![h] = [NoCall EXCEPT !.tool = tool, !.proc = p]]
          /\ Goto(h, "lookup")
  /\ UNCHANGED <<proc, table, server, stolen, hist>>

\* Mutant: neither an error nor the end of the count stops the runs.
MutMoreRuns(h) == call[h].tool = "run" /\ call[h].left >= 0

\* RunCommand stops early only when a child could not even be prepared.
MoreRuns(h) == call[h].tool = "run" /\ call[h].left > 1 /\ call[h].result # "error"

Reply(h) ==
  /\ pc[h] = "return" /\ ~MoreRuns(h)
  /\ Goto(h, "idle")
  /\ call' = [call EXCEPT ![h] = NoCall]
  /\ UNCHANGED <<proc, table, server, stolen, hist>>

\* startProc: the directory, the empty exitcode.txt, the output files and
\* argv.json.
Prepare(h) ==
  /\ pc[h] = "prepare"
  /\ \E p \in Procs :
       /\ child[p] = "unused"
       /\ child'    = [child    EXCEPT ![p] = "prepared"]
       /\ exitfile' = [exitfile EXCEPT ![p] = "empty"]
       /\ open'     = [open     EXCEPT ![p] = TRUE]
       /\ call'     = [call     EXCEPT ![h].proc = p]
  /\ Goto(h, "fork")
  /\ UNCHANGED <<status, signals, stored, done, reaper, table, server, stolen, hist>>

\* The directory or one of the files cannot be created; what was created stays.
PrepareFails(h) ==
  /\ pc[h] = "prepare"
  /\ \/ UNCHANGED <<child, exitfile>>
     \/ \E p \in Procs :
          /\ child[p] = "unused"
          /\ child'    = [child    EXCEPT ![p] = "abandoned"]
          /\ exitfile' = [exitfile EXCEPT ![p] = "empty"]
  /\ Return(h, "error")
  /\ UNCHANGED <<status, signals, open, stored, done, reaper, table, server, stolen, hist>>

Fork(h) ==
  /\ pc[h] = "fork"
  /\ child' = [child EXCEPT ![Proc(h)] = "running"]
  /\ Goto(h, "insert")
  /\ UNCHANGED <<status, signals, exitfile, open, stored, done, reaper, table, call,
                 server, stolen, hist>>

\* The command cannot be started: startProc does the reaper's work itself.
\* Nobody looks at the error of the write.
ForkFails(h) ==
  /\ pc[h] = "fork"
  /\ child'    = [child    EXCEPT ![Proc(h)] = "failed"]
  /\ status'   = [status   EXCEPT ![Proc(h)] = "127"]
  /\ \E text \in {"127", "empty"} : exitfile' = [exitfile EXCEPT ![Proc(h)] = text]
  /\ stored'   = [stored   EXCEPT ![Proc(h)] = "127"]
  /\ open'     = [open     EXCEPT ![Proc(h)] = FALSE]
  /\ done'     = [done     EXCEPT ![Proc(h)] = TRUE]
  /\ Goto(h, "insert")
  /\ UNCHANGED <<signals, reaper, table, call, server, stolen, hist>>

\* Mutant: only background commands get a reaper.
MutInsert(h) ==
  /\ pc[h] = "insert"
  /\ table' = table \cup {Proc(h)}
  /\ IF call[h].tool = "start"
       THEN /\ Return(h, "started")
            /\ reaper' = [reaper EXCEPT ![Proc(h)] = IF child[Proc(h)] = "failed" THEN @ ELSE "wait"]
       ELSE Goto(h, "select") /\ UNCHANGED <<call, reaper>>
  /\ UNCHANGED <<child, status, signals, exitfile, open, stored, done, server, stolen, hist>>

Insert(h) ==
  /\ pc[h] = "insert"
  /\ table' = table \cup {Proc(h)}
  /\ reaper' = [reaper EXCEPT ![Proc(h)] = IF child[Proc(h)] = "failed" THEN @ ELSE "wait"]
  /\ IF call[h].tool = "start" THEN Return(h, "started") ELSE Goto(h, "select") /\ UNCHANGED call
  /\ UNCHANGED <<child, status, signals, exitfile, open, stored, done, server, stolen, hist>>

\* Wait and Kill find the record, or answer "not_found".
Lookup(h) ==
  /\ pc[h] = "lookup"
  /\ IF Proc(h) \in table
       THEN /\ Goto(h, IF call[h].tool = "wait" THEN "select" ELSE "check")
            /\ UNCHANGED call
       ELSE Return(h, "not_found")
  /\ UNCHANGED <<proc, table, server, stolen, hist>>

-----------------------------------------------------------------------------
(* WaitSessionProc: a select on the done channel and on a context that may *)
(* have expired before it starts (a timeout of zero, a client that left).  *)
(* When both are ready the select takes either.  A handler that is parked  *)
(* is taken out of the select by whichever comes first.                    *)

\* The context expired: a wait answers, a run signals the child or gives up.
Expire(h) ==
  IF call[h].tool = "run" /\ ~call[h].grace
    THEN Goto(h, "interrupt") /\ UNCHANGED <<call, survived>>
    ELSE /\ Return(h, "running")
         /\ survived' = IF call[h].tool = "run" THEN survived \cup {Proc(h)} ELSE survived

SelectDone(h) ==
  /\ pc[h] = "select"
  /\ done[Proc(h)]
  /\ Goto(h, "reap")
  /\ UNCHANGED <<proc, table, call, server, stolen, hist>>

\* Mutant: the process is forgotten whether or not it is over.
MutSelectExpired(h) ==
  /\ pc[h] = "select"
  /\ Expire(h)
  /\ table' = table \ {Proc(h)}
  /\ UNCHANGED <<proc, server, stolen, reported>>

SelectExpired(h) ==
  /\ pc[h] = "select"
  /\ Expire(h)
  /\ UNCHANGED <<proc, table, server, stolen, reported>>

Park(h) ==
  /\ pc[h] = "select"
  /\ ~done[Proc(h)]
  /\ Goto(h, "parked")
  /\ UNCHANGED <<proc, table, call, server, stolen, hist>>

\* Mutant: the second wait of a run has no timeout.
MutTimerFires(h) ==
  /\ pc[h] = "parked"
  /\ ~call[h].grace
  /\ Expire(h)
  /\ UNCHANGED <<proc, table, server, stolen, reported>>

TimerFires(h) ==
  /\ pc[h] = "parked"
  /\ Expire(h)
  /\ UNCHANGED <<proc, table, server, stolen, reported>>

\* Mutant: the process is not forgotten.
MutReap(h) ==
  /\ pc[h] = "reap"
  /\ Goto(h, "return")
  /\ call' = [call EXCEPT ![h].result = "terminated", ![h].code = stored[Proc(h)]]
  /\ reported' = reported \cup {Proc(h)}
  /\ UNCHANGED <<proc, table, server, stolen, survived>>

\* The process is over: forget it, and read its exit code.  The answer of a
\* run_command says so for each of its runs.
Reap(h) ==
  /\ pc[h] = "reap"
  /\ table' = table \ {Proc(h)}
  /\ Goto(h, "return")
  /\ call' = [call EXCEPT ![h].result = "terminated", ![h].code = stored[Proc(h)]]
  /\ reported' = reported \cup {Proc(h)}
  /\ UNCHANGED <<proc, server, stolen, survived>>

\* RunCommand goes on with its next run, whatever became of the last one.
NextRun(h) ==
  /\ pc[h] = "return" /\ MoreRuns(h)
  /\ call' = [call EXCEPT ![h] = [NoCall EXCEPT !.tool = "run", !.left = call[h].left - 1]]
  /\ Goto(h, "prepare")
  /\ UNCHANGED <<proc, table, server, stolen, hist>>

-----------------------------------------------------------------------------
(* MaybeKill: nothing to do for a process that is over, and the kernel     *)
(* refuses to signal a child that has been waited for.                     *)

Send(p, signal) ==
  signals' = [signals EXCEPT ![p] = IF child[p] = "running" THEN @ \cup {signal} ELSE @]

\* Mutant: no escalation to SIGTERM.
MutInterrupt(h) ==
  /\ pc[h] = "interrupt"
  /\ IF done[Proc(h)] THEN UNCHANGED signals ELSE Send(Proc(h), "INT")
  /\ call' = [call EXCEPT ![h].grace = TRUE]
  /\ Goto(h, "select")
  /\ UNCHANGED <<child, status, exitfile, open, stored, done, reaper, table, server, stolen, hist>>

Interrupt(h) ==
  /\ pc[h] = "interrupt"
  /\ IF done[Proc(h)] THEN UNCHANGED signals ELSE Send(Proc(h), "INT")
  /\ Goto(h, "terminate")
  /\ UNCHANGED <<child, status, exitfile, open, stored, done, reaper, table, call,
                 server, stolen, hist>>

Terminate(h) ==
  /\ pc[h] = "terminate"
  /\ IF done[Proc(h)] THEN UNCHANGED signals ELSE Send(Proc(h), "TERM")
  /\ call' = [call EXCEPT ![h].grace = TRUE]
  /\ Goto(h, "select")
  /\ UNCHANGED <<child, status, exitfile, open, stored, done, reaper, table,
                 server, stolen, hist>>

\* The `kill` tool looks at the done channel first, and signals later.
Check(h) ==
  /\ pc[h] = "check"
  /\ IF done[Proc(h)] THEN Return(h, "already_done")
                      ELSE Goto(h, "signal") /\ UNCHANGED call
  /\ UNCHANGED <<proc, table, server, stolen, hist>>

Signal(h) ==
  /\ pc[h] = "signal"
  /\ Send(Proc(h), "INT")
  /\ Return(h, IF reaper[Proc(h)] = "wait" THEN "signalled" ELSE "already_done")
  /\ UNCHANGED <<child, status, exitfile, open, stored, done, reaper, table,
                 server, stolen, hist>>

-----------------------------------------------------------------------------
(* Children and their reapers.                                             *)

Exit(p) ==
  /\ child[p] = "running"
  /\ child' = [child EXCEPT ![p] = "exited"]
  /\ \E s \in Statuses : status' = [status EXCEPT ![p] = s]
  /\ UNCHANGED <<signals, exitfile, open, stored, done, reaper, table, pc, call,
                 server, stolen, hist>>

ReaperGoto(p, from, to) == reaper[p] = from /\ reaper' = [reaper EXCEPT ![p] = to]

ReaperWaits(p) ==
  /\ child[p] = "exited"
  /\ ReaperGoto(p, "wait", "write")
  /\ UNCHANGED <<child, status, signals, exitfile, open, stored, done, table, pc, call,
                 server, stolen, hist>>

\* The write may fail (a full disk), and the file stays as empty as it was:
\* "ignoring errors because we cannot do much about them".
ReaperWrites(p) ==
  /\ ReaperGoto(p, "write", "close")
  /\ \E text \in {status[p], "empty"} : exitfile' = [exitfile EXCEPT ![p] = text]
  /\ UNCHANGED <<child, status, signals, open, stored, done, table, pc, call,
                 server, stolen, hist>>

\* Mutant: the exit code is not stored before done is closed.
MutReaperCloses(p) ==
  /\ ReaperGoto(p, "close", "broadcast")
  /\ open' = [open EXCEPT ![p] = FALSE]
  /\ UNCHANGED <<child, status, signals, exitfile, stored, done, table, pc, call,
                 server, stolen, hist>>

ReaperCloses(p) ==
  /\ ReaperGoto(p, "close", "store")
  /\ open' = [open EXCEPT ![p] = FALSE]
  /\ UNCHANGED <<child, status, signals, exitfile, stored, done, table, pc, call,
                 server, stolen, hist>>

ReaperStores(p) ==
  /\ ReaperGoto(p, "store", "broadcast")
  /\ stored' = [stored EXCEPT ![p] = status[p]]
  /\ UNCHANGED <<child, status, signals, exitfile, open, done, table, pc, call,
                 server, stolen, hist>>

\* close(done) takes every handler parked on the process out of its select.
ReaperBroadcasts(p) ==
  /\ ReaperGoto(p, "broadcast", "end")
  /\ done' = [done EXCEPT ![p] = TRUE]
  /\ pc' = [h \in Handlers |-> IF pc[h] = "parked" /\ Proc(h) = p THEN "reap" ELSE pc[h]]
  /\ UNCHANGED <<child, status, signals, exitfile, open, stored, table, call,
                 server, stolen, hist>>

-----------------------------------------------------------------------------
(* The end of the server.                                                  *)

\* server.Run returns (the client closes the connection, or an error).
RunReturns ==
  /\ server = "serving"
  /\ Drains => \A h \in Handlers : pc[h] = "idle"
  /\ server' = "sweep"
  /\ UNCHANGED <<proc, table, pc, call, stolen, hist>>

\* Cleanup steals the table ...
Sweep ==
  /\ server = "sweep"
  /\ stolen' = table
  /\ table' = {}
  /\ server' = "signal"
  /\ UNCHANGED <<proc, pc, call, hist>>

\* Mutant: a child that was signalled before is not signalled again.
MutSweepSignals ==
  /\ server = "signal"
  /\ signals' = [p \in Procs |-> IF p \in stolen /\ child[p] = "running" /\ signals[p] = {}
                                   THEN {"TERM"} ELSE signals[p]]
  /\ server' = "await"
  /\ UNCHANGED <<child, status, exitfile, open, stored, done, reaper, table, pc, call,
                 stolen, hist>>

\* ... signals what it stole (it waits for nothing in between, and no other
\* step tells apart in which order it does so) ...
SweepSignals ==
  /\ server = "signal"
  /\ signals' = [p \in Procs |-> IF p \in stolen /\ ~done[p] /\ child[p] = "running"
                                   THEN signals[p] \cup {"TERM"} ELSE signals[p]]
  /\ server' = "await"
  /\ UNCHANGED <<child, status, exitfile, open, stored, done, reaper, table, pc, call,
                 stolen, hist>>

\* Mutant: the sweep signals and does not wait.
MutSweepAwaits ==
  /\ server = "await"
  /\ \E p \in stolen : stolen' = stolen \ {p}
  /\ UNCHANGED <<proc, table, pc, call, server, hist>>

\* ... and waits for each, within five seconds for all.
SweepAwaits ==
  /\ server = "await"
  /\ \E p \in stolen : done[p] /\ stolen' = stolen \ {p}
  /\ UNCHANGED <<proc, table, pc, call, server, hist>>

SweepEnds ==
  /\ server = "await"
  /\ stolen = {}
  /\ server' = "exit_ok"
  /\ UNCHANGED <<proc, table, pc, call, stolen, hist>>

\* Mutant: the sweep has no deadline.
MutSweepExpires ==
  /\ server = "await"
  /\ stolen # {} /\ \A p \in stolen : done[p]
  /\ server' = "exit_err"
  /\ UNCHANGED <<proc, table, pc, call, stolen, hist>>

SweepExpires ==
  /\ server = "await"
  /\ stolen # {}
  /\ server' = "exit_err"
  /\ UNCHANGED <<proc, table, pc, call, stolen, hist>>

-----------------------------------------------------------------------------
StartStep(h)  == Prepare(h) \/ PrepareFails(h) \/ Fork(h) \/ ForkFails(h) \/ Insert(h)
WaitStep(h)   == \/ SelectDone(h) \/ SelectExpired(h) \/ Park(h) \/ TimerFires(h)
                 \/ Reap(h) \/ NextRun(h)
SignalStep(h) == Interrupt(h) \/ Terminate(h) \/ Check(h) \/ Signal(h)

HandlerStep(h) == Alive /\ (StartStep(h) \/ Lookup(h) \/ WaitStep(h) \/ SignalStep(h) \/ Reply(h))

ReaperStep(p) == Alive /\ \/ ReaperWaits(p) \/ ReaperWrites(p) \/ ReaperCloses(p)
                          \/ ReaperStores(p) \/ ReaperBroadcasts(p)

CleanupStep == Sweep \/ SweepSignals \/ SweepAwaits \/ SweepEnds \/ SweepExpires

Next == \/ \E h \in Handlers : Invoke(h) \/ HandlerStep(h)
        \/ \E p \in Procs : Exit(p) \/ ReaperStep(p)
        \/ RunReturns
        \/ CleanupStep

Spec == Init /\ [][Next]_vars

\* Goroutines are scheduled and timers fire; a child need not end, and the
\* client need not leave.
FairSpec == /\ Spec
            /\ \A h \in Handlers : WF_vars(HandlerStep(h))
            /\ \A p \in Procs : WF_vars(ReaperStep(p))
            /\ WF_vars(CleanupStep)

-----------------------------------------------------------------------------
(* Properties.                                                             *)

Results == {"none", "error", "started", "not_found", "running", "terminated",
            "already_done", "signalled"}
HandlerLabels == {"idle", "prepare", "fork", "insert", "lookup", "select", "parked", "reap",
                  "interrupt", "terminate", "check", "signal", "return"}
ReaperLabels  == {"none", "wait", "write", "close", "store", "broadcast", "end"}

Calls == [tool : Tools \cup {"none"}, proc : Procs \cup {NoProc}, left : 0..MaxCount,
          grace : BOOLEAN, result : Results, code : Codes]

TypeOK ==
  /\ child    \in [Procs -> {"unused", "prepared", "abandoned", "failed", "running", "exited"}]
  /\ status   \in [Procs -> Codes]
  /\ signals  \in [Procs -> SUBSET Signals]
  /\ exitfile \in [Procs -> {"absent", "empty"} \cup Codes]
  /\ open     \in [Procs -> BOOLEAN]
  /\ stored   \in [Procs -> Codes]
  /\ done     \in [Procs -> BOOLEAN]
  /\ reaper   \in [Procs -> ReaperLabels]
  /\ table    \subseteq Procs
  /\ pc       \in [Handlers -> HandlerLabels]
  /\ call     \in [Handlers -> Calls]
  /\ server   \in {"serving", "sweep", "signal", "await", "exit_ok", "exit_err"}
  /\ stolen   \subseteq Procs
  /\ reported \subseteq Procs
  /\ survived \subseteq Procs

Over(p) == child[p] \in {"exited", "failed"}

\* Whoever sees done closed finds the exit code stored and the files closed,
\* without further synchronization (session.go, sessionProc).  exitcode.txt has
\* that code or, when the write failed, nothing: never the code of an earlier
\* look or a code that is still to be replaced.
BarrierPublishes ==
  \A p \in Procs : done[p] => /\ Over(p) /\ ~open[p] /\ stored[p] = status[p]
                              /\ exitfile[p] \in {status[p], "empty"}

\* An answer with terminated=true carries the exit code the process ended with,
\* not the zero that the record starts with.
ReportIsTrue ==
  \A h \in Handlers : call[h].result = "terminated" =>
     Over(Proc(h)) /\ call[h].code = status[Proc(h)]

\* "Reap is one-shot": a process that some answer reported as terminated is not
\* in the table again, so that later calls say "not_found".
ReapIsOneShot == reported \cap table = {}

\* A run that survives its timeout and the grace period "comes back with
\* terminated=false, and its procId remains valid for wait and kill": it stays in
\* the table until some wait reports it.
SurvivorStaysValid == server = "serving" => survived \subseteq table \cup reported

\* run_command gives up on a process only after sending it both signals, unless
\* it ended by itself in the meantime.
GivesUpAfterSignals == \A p \in survived : Over(p) \/ signals[p] = Signals

\* In the table, or about to be put into it by the handler that forked it.
Pending(p) == p \in table \/ \E h \in Handlers : Proc(h) = p /\ pc[h] = "insert"

\* Cleanup empties the table, so what is pending after it came too late for it.
Late(p) == server \notin {"serving", "sweep"} /\ Pending(p)

\* The sweep forgets nobody: until it comes, every child that runs is where it
\* will look; it takes them all, sends SIGTERM to each that still runs, and waits
\* for each, so that those it gave up on are the ones it returns an error for.
\* It misses only the children of the TODO at startProc's insert, which came
\* late, and there is none of them if the calls in flight are drained first.
SweepMissesOnlyLate ==
  \A p \in Procs : child[p] = "running" =>
     \/ Late(p) /\ ~Drains
     \/ server \in {"serving", "sweep"} /\ Pending(p)
     \/ server = "signal" /\ p \in stolen
     \/ server \in {"await", "exit_err"} /\ p \in stolen /\ "TERM" \in signals[p]

\* "Make sure we kill process that are still running": where the calls in flight
\* are drained first, a server that exits without an error leaves no child behind.
CleanExitLeavesNoChild ==
  Drains /\ server = "exit_ok" => \A p \in Procs : child[p] # "running"

\* Every call is answered, also when the child ignores every signal, unless the
\* server exits first.
CallsReturn == \A h \in Handlers : (pc[h] # "idle") ~> (pc[h] = "idle" \/ ~Alive)

\* A child that ended is reaped, so that its waiters are let go.
EndedIsReaped == \A p \in Procs : (child[p] = "exited") ~> (done[p] \/ ~Alive)

\* The server stops, even if no child reacts to the sweep's SIGTERM.
ServerStops == (server = "sweep") ~> ~Alive

=============================================================================
