----------------------------- MODULE SweepGrid -----------------------------
(***************************************************************************)
(* The Python library: a script enters a lab (NpteLab), and runs a grid in *)
(* it (NpteGrid.run), once or, after an exception, again.  A run starts    *)
(* the servers, looks once whether they are there, then shapes the links   *)
(* and runs the clients cell by cell, and takes the servers down.  All of  *)
(* it goes through `sudo -n npte` (NpteSudoExecutor), which hides the      *)
(* privileged processes: a client that times out may go on, a server may   *)
(* ignore its SIGINT, and others may shape the same links.                 *)
(*                                                                         *)
(* The links are those of AbstractLink, which NetemShaping implements: one *)
(* step per shaping command.  Servers and clients stay in the namespace    *)
(* that they were started in, also when the lab is destroyed.              *)
(***************************************************************************)
EXTENDS Integers, Sequences, FiniteSets

CONSTANTS
  NumServers,   \* servers of the grid
  Cells,        \* its cells: a shape per interface and a number of clients
  Shapes,
  NoShape,
  Half,         \* what an interrupted apply leaves on an interface
  Disturbances, \* what may go wrong: "fail", "die", "meddle"
  MaxLabs,      \* bounds on the labs that the script enters,
  MaxRuns       \* and on the runs of the grid

Ifaces  == {"if_client", "if_server"}
Servers == 1..NumServers
Runs    == 1..MaxRuns

ASSUME CellsAssumption ==
  Cells \in Seq([shape : [Ifaces -> Shapes \cup {NoShape}], clients : Nat])
ASSUME ShapesAssumption == NoShape \notin Shapes /\ Half \notin Shapes /\ NoShape # Half
ASSUME DisturbancesAssumption == Disturbances \subseteq {"fail", "die", "meddle"}
ASSUME BoundsAssumption == NumServers \in Nat /\ MaxLabs \in Nat /\ MaxRuns \in Nat

VARIABLES
  pc,       \* where the script is
  lab, run, \* how many labs and runs there have been: the last is the current
  labOf,    \* the lab of each run
  link,     \* the shape of each interface of the current lab
  server,   \* the servers of each run
  next,     \* the server, or the shaping command, that is next
  cell, client,  \* the client that is next
  measure,  \* the client that is running, or the last that has succeeded in this cell:
            \* with whose server, and (history) alone and on which wrong links
  results,  \* of this run: how many
  outcome,  \* how each run has ended
  orphans,  \* runs with a client that has outlived its sudo
  unwaited, \* history: runs in which a wait for a server has timed out,
  hung,     \* and those in which a client has
  meddled,  \* history: interfaces that somebody else shaped since the last clear,
  ignored   \* and those where the last clear failed and nobody noticed

hist    == <<unwaited, hung, meddled, ignored>>
script  == <<lab, run, labOf, outcome>>
vars    == <<pc, script, link, server, next, cell, client, measure, results, orphans, hist>>

-----------------------------------------------------------------------------
NotStarted == [state |-> "none", bound |-> FALSE, signalled |-> FALSE, exitFile |-> FALSE]

\* A measure when there is none.
Nothing == [with |-> -1, alone |-> TRUE, wrong |-> {}]

Init ==
  /\ pc      = "out"
  /\ lab     = 0 /\ run = 0
  /\ labOf   = [r \in Runs |-> 0]
  /\ link    = [i \in Ifaces |-> NoShape]
  /\ server  = [r \in Runs |-> [s \in Servers |-> NotStarted]]
  /\ next    = 1 /\ cell = 1 /\ client = 1
  /\ measure = Nothing
  /\ results = 0
  /\ outcome = [r \in Runs |-> "none"]
  /\ orphans = {}
  /\ unwaited = {} /\ hung = {} /\ meddled = {} /\ ignored = {}

Goto(label) == pc' = label

Mine(s)    == server[run][s]
Running(s) == Mine(s).state = "running"

\* The server at the port of s in this lab.
Serving(s) == {r \in Runs : server[r][s].state = "running" /\ server[r][s].bound /\ labOf[r] = lab}

Wrong == {i \in Ifaces : link[i] # Cells[cell].shape[i]}

-----------------------------------------------------------------------------
(* NpteLab, and the script that uses it.                                   *)

Enter ==
  /\ pc = "out" /\ lab < MaxLabs
  /\ lab' = lab + 1
  /\ Goto("in")
  /\ UNCHANGED <<run, labOf, outcome, link, server, next, cell, client, measure, results, orphans, hist>>

\* The links go, the processes stay.
Exit ==
  /\ pc = "in"
  /\ link' = [i \in Ifaces |-> NoShape]
  /\ Goto("out")
  /\ UNCHANGED <<script, server, next, cell, client, measure, results, orphans, hist>>

BeginRun ==
  /\ pc = "in" /\ run < MaxRuns
  /\ run'   = run + 1
  /\ labOf' = [labOf EXCEPT ![run + 1] = lab]
  /\ next'  = 1 /\ results' = 0
  /\ Goto("start")
  /\ UNCHANGED <<lab, outcome, link, server, cell, client, measure, orphans, hist>>

-----------------------------------------------------------------------------
(* NpteGrid.run.                                                           *)

\* An exception: the results are lost, and on to the finally clause.
Raise ==
  /\ outcome' = [outcome EXCEPT ![run] = "raised"]
  /\ results' = 0 /\ measure' = Nothing
  /\ meddled' = {} /\ ignored' = {}
  /\ next'    = 1 /\ cell' = 1 /\ client' = 1
  /\ Goto("kill")

\* A server that finds its port taken will have to end.
StartServer ==
  /\ pc = "start" /\ next \in Servers
  /\ server' = [server EXCEPT ![run][next].state = "running",
                              ![run][next].bound = (Serving(next) = {})]
  /\ next' = next + 1
  /\ UNCHANGED <<pc, script, link, cell, client, measure, results, orphans, hist>>

StartFails ==
  /\ pc = "start" /\ next \in Servers /\ "fail" \in Disturbances
  /\ Raise
  /\ UNCHANGED <<lab, run, labOf, link, server, orphans, unwaited, hung>>

\* Half a second later: is_running of all of them.
CheckServers ==
  /\ pc = "start" /\ next \notin Servers
  /\ IF \A s \in Servers : Running(s)
       THEN Goto("cell") /\ cell' = 1 /\ UNCHANGED <<outcome, next, client, measure, results, meddled, ignored>>
       ELSE Raise
  /\ UNCHANGED <<lab, run, labOf, link, server, orphans, unwaited, hung>>

\* Mutant: a direction without a shape is left as it is.
MutCommands(c) ==
  LET Reshape(i) == IF Cells[c].shape[i] = NoShape THEN <<>>
                    ELSE <<[op |-> "clear", iface |-> i], [op |-> "apply", iface |-> i]>>
  IN  Reshape("if_client") \o Reshape("if_server")

\* The npte commands that shape the links for a cell.
Commands(c) ==
  LET Reshape(i) == <<[op |-> "clear", iface |-> i]>> \o
                    IF Cells[c].shape[i] = NoShape THEN <<>> ELSE <<[op |-> "apply", iface |-> i]>>
  IN  Reshape("if_client") \o Reshape("if_server")

Iface == Commands(cell)[next].iface

Shaping(op) == pc = "shape" /\ next <= Len(Commands(cell)) /\ Commands(cell)[next].op = op

BeginCell ==
  /\ pc = "cell"
  /\ next' = 1 /\ client' = 1
  /\ meddled' = {} /\ ignored' = {}
  /\ Goto(IF cell <= Len(Cells) THEN "shape" ELSE "kill")
  /\ UNCHANGED <<script, link, server, cell, measure, results, orphans, unwaited, hung>>

Clear ==
  /\ Shaping("clear")
  /\ link'    = [link EXCEPT ![Iface] = NoShape]
  /\ meddled' = meddled \ {Iface}
  /\ ignored' = ignored \ {Iface}
  /\ next'    = next + 1
  /\ UNCHANGED <<pc, script, server, cell, client, measure, results, orphans, unwaited, hung>>

\* tc fails, and `netem clear` exits with 0.
ClearIgnored ==
  /\ Shaping("clear") /\ "fail" \in Disturbances
  /\ ignored' = ignored \cup {Iface}
  /\ meddled' = meddled \ {Iface}
  /\ next'    = next + 1
  /\ UNCHANGED <<pc, script, link, server, cell, client, measure, results, orphans, unwaited, hung>>

Apply ==
  /\ Shaping("apply")
  /\ link[Iface] = NoShape
  /\ link' = [link EXCEPT ![Iface] = Cells[cell].shape[Iface]]
  /\ next' = next + 1
  /\ UNCHANGED <<pc, script, server, cell, client, measure, results, orphans, hist>>

\* The npte command exits with another code: CalledProcessError.
ShapeFails ==
  /\ pc = "shape" /\ next <= Len(Commands(cell))
  /\ "fail" \in Disturbances \/ (Shaping("apply") /\ link[Iface] # NoShape)
  /\ link' \in {link} \cup
       IF Shaping("apply") /\ link[Iface] = NoShape THEN {[link EXCEPT ![Iface] = Half]} ELSE {}
  /\ Raise
  /\ UNCHANGED <<lab, run, labOf, server, orphans, unwaited, hung>>

Shaped ==
  /\ pc = "shape" /\ next > Len(Commands(cell))
  /\ Goto("client")
  /\ UNCHANGED <<script, link, server, next, cell, client, measure, results, orphans, hist>>

\* The client of some server, with whoever serves at its port.
StartClient ==
  /\ pc = "client" /\ client <= Cells[cell].clients
  /\ \E s \in Servers :
       measure' = [with  |-> IF Serving(s) = {} THEN 0 ELSE CHOOSE r \in Serving(s) : TRUE,
                   alone |-> \A r \in orphans : labOf[r] # lab,
                   wrong |-> Wrong]
  /\ client' = client + 1
  /\ Goto("measure")
  /\ UNCHANGED <<script, link, server, next, cell, results, orphans, hist>>

CellDone ==
  /\ pc = "client" /\ client > Cells[cell].clients
  /\ cell' = cell + 1
  /\ measure' = Nothing
  /\ Goto("cell")
  /\ UNCHANGED <<script, link, server, next, client, results, orphans, hist>>

\* Without a server no client succeeds.
ClientSucceeds ==
  /\ pc = "measure" /\ measure.with # 0
  /\ results' = results + 1
  /\ Goto("client")
  /\ UNCHANGED <<script, link, server, next, cell, client, measure, orphans, hist>>

\* Mutant: no finally clause.
MutClientFails ==
  /\ pc = "measure"
  /\ outcome' = [outcome EXCEPT ![run] = "raised"]
  /\ Goto("in")
  /\ measure' = Nothing
  /\ UNCHANGED <<lab, run, labOf, link, server, next, cell, client, results, orphans, hist>>

ClientFails ==
  /\ pc = "measure"
  /\ Raise
  /\ UNCHANGED <<lab, run, labOf, link, server, orphans, unwaited, hung>>

\* subprocess.run kills the sudo, which cannot pass the signal on.
ClientTimesOut ==
  /\ pc = "measure"
  /\ Raise
  /\ orphans' \in {orphans, orphans \cup {run}}
  /\ hung'    = hung \cup {run}
  /\ UNCHANGED <<lab, run, labOf, link, server, unwaited>>

\* Mutant: only the first server is signalled before the script waits.
MutKillServer ==
  /\ pc = "kill" /\ next \in Servers /\ Mine(next).state # "none"
  /\ server' = [server EXCEPT ![run][next].signalled = @ \/ Running(next)]
  /\ Goto("wait")
  /\ UNCHANGED <<script, link, next, cell, client, measure, results, orphans, hist>>

\* The finally clause signals all servers that were started, then waits for them.
\* send_signal does nothing to a process that is over.
KillServer ==
  /\ pc = "kill" /\ next \in Servers /\ Mine(next).state # "none"
  /\ server' = [server EXCEPT ![run][next].signalled = @ \/ Running(next)]
  /\ next'   = next + 1
  /\ UNCHANGED <<pc, script, link, cell, client, measure, results, orphans, hist>>

AllKilled ==
  /\ pc = "kill" /\ (next \in Servers => Mine(next).state = "none")
  /\ next' = 1
  /\ Goto("wait")
  /\ UNCHANGED <<script, link, server, cell, client, measure, results, orphans, hist>>

WaitServer ==
  /\ pc = "wait" /\ next \in Servers /\ Mine(next).state = "over"
  /\ server' = [server EXCEPT ![run][next].exitFile = TRUE]
  /\ next'   = next + 1
  /\ UNCHANGED <<pc, script, link, cell, client, measure, results, orphans, hist>>

\* Mutant: waits for as long as it takes.
MutWaitTimesOut ==
  /\ pc = "wait" /\ next \in Servers /\ Running(next)
  /\ UNCHANGED vars

\* TimeoutExpired, out of the finally clause: nobody waits for the others.
WaitTimesOut ==
  /\ pc = "wait" /\ next \in Servers /\ Running(next)
  /\ outcome' = [outcome EXCEPT ![run] = "raised"]
  /\ results' = 0 /\ next' = 1
  /\ unwaited' = unwaited \cup {run}
  /\ Goto("in")
  /\ UNCHANGED <<lab, run, labOf, link, server, cell, client, measure, orphans, hung, meddled, ignored>>

EndRun ==
  /\ pc = "wait" /\ (next \in Servers => Mine(next).state = "none")
  /\ outcome' = [outcome EXCEPT ![run] = IF @ = "raised" THEN @ ELSE "returned"]
  /\ next' = 1 /\ cell' = 1 /\ client' = 1
  /\ Goto("in")
  /\ UNCHANGED <<lab, run, labOf, link, server, measure, results, orphans, hist>>

-----------------------------------------------------------------------------
(* The others.                                                             *)

\* A server ends: when it is told to, when its port is taken, or by itself.
ServerEnds(r, s) ==
  /\ server[r][s].state = "running"
  /\ server[r][s].signalled \/ ~server[r][s].bound \/ "die" \in Disturbances
  /\ server' = [server EXCEPT ![r][s] = [NotStarted EXCEPT !.state = "over"]]
  /\ UNCHANGED <<pc, script, link, next, cell, client, measure, results, orphans, hist>>

OrphanEnds(r) ==
  /\ r \in orphans
  /\ orphans' = orphans \ {r}
  /\ UNCHANGED <<pc, script, link, server, next, cell, client, measure, results, hist>>

\* Somebody else shapes an interface of the lab.  Before a run reaches its cells, and
\* after it has left them, that comes to the same as before the next cell.
Meddle(i) ==
  /\ "meddle" \in Disturbances /\ pc \in {"cell", "shape", "client", "measure"}
  /\ \E s \in Shapes \cup {NoShape, Half} : s # link[i] /\ link' = [link EXCEPT ![i] = s]
  /\ meddled' = meddled \cup {i}
  /\ measure' = IF pc = "measure" THEN [measure EXCEPT !.wrong = @ \cup {i}] ELSE measure
  /\ UNCHANGED <<pc, script, server, next, cell, client, results, orphans, unwaited, hung, ignored>>

-----------------------------------------------------------------------------
Shape   == Clear \/ ClearIgnored \/ Apply \/ ShapeFails \/ Shaped
Client  == StartClient \/ ClientSucceeds \/ ClientFails \/ ClientTimesOut \/ CellDone
Cleanup == KillServer \/ AllKilled \/ WaitServer \/ WaitTimesOut \/ EndRun
Grid    == StartServer \/ StartFails \/ CheckServers \/ BeginCell \/ Shape \/ Client \/ Cleanup

Next == \/ Enter \/ Exit \/ BeginRun \/ Grid
        \/ \E r \in Runs : OrphanEnds(r) \/ \E s \in Servers : ServerEnds(r, s)
        \/ \E i \in Ifaces : Meddle(i)

Spec == Init /\ [][Next]_vars

\* The interpreter goes on, the npte commands that shape end, and the timeouts of
\* clients and waits are kept.  Servers and orphans need not end.
FairSpec == Spec /\ WF_vars(Grid)

-----------------------------------------------------------------------------
(* Properties.                                                             *)

InRun == pc \notin {"out", "in"}

\* The clients that the cells ask for: cell and number.
Asked == UNION {{c} \X (1..Cells[c].clients) : c \in 1..Len(Cells)}

\* A client has just succeeded.
Measured == pc = "client" /\ measure # Nothing

\* Every result was measured from its beginning to its end on the links that its
\* cell asks for, whatever an earlier cell or run, or somebody else, had left there,
\* unless somebody else shaped the interface at the same time.  A direction with a
\* shape is right even if its clear has failed without a word; one without may have
\* kept the shape that the clear was to remove (subprocess.go's TODO on RunTolerant).
MeasuredAsAsked ==
  Measured => \A i \in measure.wrong :
     \/ i \in meddled
     \/ (i \in ignored /\ Cells[cell].shape[i] = NoShape)

\* Has a run of rs before this one been in the same lab?
Left(rs) == \E r \in rs \ {run} : labOf[r] = labOf[run]

\* Every result was measured with a server of the same run, unless an earlier run in
\* the same lab gave up waiting for its servers, and without another client beside it,
\* unless one of an earlier run in the same lab had timed out: what is left from an
\* earlier lab does not matter, nor does what a run that failed in some other way, or
\* in the other of these two, had started.
MeasuredByItsOwn ==
  Measured => /\ measure.with = run \/ Left(unwaited)
              /\ measure.alone      \/ Left(hung)

Over(r) == r < run \/ (r = run /\ ~InRun)

\* A run that returns has every result and an exit code of every server.  After one
\* that raises, every server that it started has been signalled, or was over by
\* itself, and has left its exit code, unless a wait for one of them timed out: a
\* client that timed out is no excuse.
ServersAccountedFor ==
  \A r \in Runs : Over(r) =>
     /\ \A s \in Servers : LET v == server[r][s] IN
          /\ v.state = "running" => v.signalled
          /\ v.state = "none" \/ v.exitFile \/ r \in unwaited
     /\ outcome[r] = "returned" =>
          /\ \A s \in Servers : server[r][s].exitFile
          /\ r = run => results = Cardinality(Asked)

\* Servers that ignore the SIGINT and clients that hang do not keep a run from
\* coming to its end.
RunEnds == InRun ~> ~InRun
=============================================================================
