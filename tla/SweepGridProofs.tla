--------------------------- MODULE SweepGridProofs ---------------------------
(***************************************************************************)
(* Theorems about SweepGrid, for any number of servers, any cells, any     *)
(* shapes and disturbances, and any number of labs and runs.               *)
(***************************************************************************)
EXTENDS SweepGrid, FiniteSetTheorems, SequenceTheorems, TLAPS

Labels  == {"out", "in", "start", "cell", "shape", "client", "measure", "kill", "wait"}
\* Where no exception has been raised yet, and where cells are being measured.
Normal  == {"start", "cell", "shape", "client", "measure"}
Measure == {"client", "measure"}

AServer  == [state : {"none", "running", "over"},
             bound : BOOLEAN, signalled : BOOLEAN, exitFile : BOOLEAN]
AMeasure == [with : Int, alone : BOOLEAN, wrong : SUBSET Ifaces]

\* The variables have their types, and the run that is on belongs to this lab.
ScriptTypes ==
  /\ pc \in Labels
  /\ lab \in Nat /\ run \in 0..MaxRuns /\ labOf \in [Runs -> Nat]
  /\ next \in Nat \ {0} /\ cell \in 1..(Len(Cells) + 1) /\ client \in Nat \ {0}
  /\ results \in Nat
  /\ outcome \in [Runs -> {"none", "raised", "returned"}]
  /\ pc \in {"shape", "client", "measure"} => cell <= Len(Cells)
  /\ InRun => run \in Runs /\ labOf[run] = lab

LinkTypes ==
  /\ link \in [Ifaces -> Shapes \cup {NoShape, Half}]
  /\ measure \in AMeasure
  /\ meddled \subseteq Ifaces /\ ignored \subseteq Ifaces

ServerTypes ==
  /\ server \in [Runs -> [Servers -> AServer]]
  /\ orphans \subseteq hung /\ hung \subseteq 1..run /\ unwaited \subseteq 1..run

\* What was left undone, and by whom, on an interface that is not as it should be.
Excused(i) == i \in meddled \/ (i \in ignored /\ Cells[cell].shape[i] = NoShape)

\* No command of this cell is left for i.
Handled(i) == \A k \in 1..Len(Commands(cell)) : Commands(cell)[k].iface = i => k < next

\* An interface that this cell has shaped is as the cell wants it, and so is what a
\* client has seen of it.
LinkInv ==
  /\ pc = "shape" => \A i \in Ifaces : Handled(i) => link[i] = Cells[cell].shape[i] \/ Excused(i)
  /\ pc \in Measure => \A i \in Wrong \cup measure.wrong : Excused(i)
  /\ pc \notin Measure => measure = Nothing

\* The servers of the runs that are to come have not been started, and only a server
\* that is over has an exit code.
FutureInv ==
  /\ \A r \in Runs : r > run => outcome[r] = "none" /\ \A s \in Servers : server[r][s] = NotStarted
  /\ \A r \in Runs, s \in Servers : server[r][s].exitFile => server[r][s].state = "over"

Started(s) == Mine(s).state # "none"
Told(s)    == Running(s) => Mine(s).signalled

\* How far the run that is on has come with its servers.
ServerInv ==
  /\ pc \in Normal => outcome[run] = "none" /\ run \notin unwaited
  /\ pc = "start" => next <= NumServers + 1 /\ \A s \in Servers : Started(s) <=> s < next
  /\ pc \in Normal \ {"start"} => \A s \in Servers : Started(s)
  /\ pc \in {"kill", "wait"} =>
       /\ next <= NumServers + 1 /\ outcome[run] # "returned"
       /\ \A s, t \in Servers : s < t /\ Started(t) => Started(s)
       /\ \A s \in Servers : s < next => Started(s)
       /\ outcome[run] = "none" => \A s \in Servers : Started(s)
  /\ pc = "kill" => \A s \in Servers : s < next => Told(s)
  /\ pc = "wait" => \A s \in Servers : Told(s) /\ (s < next => Mine(s).exitFile)

\* The clients of the cells before c, and of its own those before n.
Before(c, n) == {x \in Asked : x[1] < c \/ (x[1] = c /\ x[2] < n)}

Has(c, n) == IsFiniteSet(Before(c, n)) /\ results = Cardinality(Before(c, n))

\* The results are as many as the clients that are done.
ResultsInv ==
  /\ pc = "start" => results = 0
  /\ pc \in {"cell", "shape"} => Has(cell, 1)
  /\ pc = "shape" => client = 1
  /\ pc = "client"  => Has(cell, client)
  /\ pc = "measure" => client - 1 \in 1..Cells[cell].clients /\ Has(cell, client - 1)
  /\ pc \in {"kill", "wait"} /\ outcome[run] = "none" => results = Cardinality(Asked)

\* The current measure is with a server of this run, or there is a reason; no client
\* of a run that is still measuring has timed out.
OwnInv ==
  /\ pc \in Normal => run \notin hung
  /\ pc = "measure" => measure.with # -1
  /\ pc \in Measure /\ measure # Nothing =>
       /\ measure.with \in {0, run} \/ Left(unwaited)
       /\ measure.alone \/ Left(hung)
       /\ pc = "client" => measure.with # 0

IInv == /\ ScriptTypes /\ LinkTypes /\ ServerTypes /\ LinkInv /\ FutureInv /\ ServerInv /\ ResultsInv /\ OwnInv
        /\ ServersAccountedFor

-----------------------------------------------------------------------------
(* Helpers.                                                                *)

\* What shapes one interface: a clear, then an apply if it gets a shape.
CommandsFor(c, i) ==
  <<[op |-> "clear", iface |-> i]>> \o
  IF Cells[c].shape[i] = NoShape THEN <<>> ELSE <<[op |-> "apply", iface |-> i]>>

\* A command is a clear, and then the last of its interface only if that gets no shape,
\* or the apply of an interface that gets one; every interface has its commands.
LEMMA CommandsOfCell ==
  ASSUME NEW c
  PROVE  /\ Len(Commands(c)) \in 2..4
         /\ \A i \in Ifaces : \E k \in 1..Len(Commands(c)) : Commands(c)[k].iface = i
         /\ \A k \in 1..Len(Commands(c)) :
              LET cmd == Commands(c)[k] IN
              /\ cmd.iface \in Ifaces
              /\ \/ /\ cmd.op = "apply" /\ Cells[c].shape[cmd.iface] # NoShape
                 \/ /\ cmd.op = "clear"
                    /\ Cells[c].shape[cmd.iface] = NoShape \/
                       \E m \in 1..Len(Commands(c)) : m > k /\ Commands(c)[m].iface = cmd.iface
<1> DEFINE cl(i) == [op |-> "clear", iface |-> i]
           ap(i) == [op |-> "apply", iface |-> i]
           S == {cl(i) : i \in Ifaces} \cup {ap(i) : i \in Ifaces}
           x == "if_client"
           y == "if_server"
           none(i) == Cells[c].shape[i] = NoShape
<1>1. x \in Ifaces /\ y \in Ifaces
  BY DEF Ifaces
<1>2. ASSUME NEW i \in Ifaces
      PROVE  CommandsFor(c, i) = IF none(i) THEN <<cl(i)>> ELSE <<cl(i), ap(i)>>
  <2>1. cl(i) \in S /\ ap(i) \in S
    BY <1>2
  <2> HIDE DEF cl, ap, S
  <2>2. <<cl(i)>> \in Seq(S) /\ <<ap(i)>> \in Seq(S) /\ <<cl(i), ap(i)>> \in Seq(S) /\ <<>> \in Seq(S)
    BY <2>1
  <2>3. <<cl(i)>> \o <<>> = <<cl(i)>>
    BY <2>2, ConcatEmptySeq
  <2>4. <<cl(i)>> \o <<ap(i)>> = <<cl(i), ap(i)>>
    <3>1. /\ <<cl(i)>> \o <<ap(i)>> \in Seq(S) /\ Len(<<cl(i)>> \o <<ap(i)>>) = 2
          /\ \A k \in 1..2 : (<<cl(i)>> \o <<ap(i)>>)[k] = <<cl(i), ap(i)>>[k]
      BY <2>2, ConcatProperties
    <3>2. QED
      BY <2>2, <3>1, SeqEqual
  <2>5. QED
    BY <2>3, <2>4 DEF CommandsFor, cl, ap
<1>3. /\ CommandsFor(c, x) \in Seq(S) /\ CommandsFor(c, y) \in Seq(S)
      /\ Commands(c) = CommandsFor(c, x) \o CommandsFor(c, y)
  <2>1. \A i \in Ifaces : cl(i) \in S /\ ap(i) \in S
    OBVIOUS
  <2>2. Commands(c) = CommandsFor(c, x) \o CommandsFor(c, y)
    BY DEF Commands, CommandsFor
  <2> HIDE DEF cl, ap, S
  <2>3. QED
    BY <1>1, <1>2, <2>1, <2>2
<1>4. /\ Len(Commands(c)) = Len(CommandsFor(c, x)) + Len(CommandsFor(c, y))
      /\ \A k \in 1..Len(Commands(c)) :
           Commands(c)[k] = IF k <= Len(CommandsFor(c, x)) THEN CommandsFor(c, x)[k]
                            ELSE CommandsFor(c, y)[k - Len(CommandsFor(c, x))]
  BY <1>3, ConcatProperties
<1> HIDE DEF S
<1> DEFINE Kinds == Len(Commands(c)) \in 2..4 /\ \A k \in 1..Len(Commands(c)) :
              LET cmd == Commands(c)[k] IN
              /\ cmd.iface \in Ifaces
              /\ \/ /\ cmd.op = "apply" /\ Cells[c].shape[cmd.iface] # NoShape
                 \/ /\ cmd.op = "clear"
                    /\ Cells[c].shape[cmd.iface] = NoShape \/
                       \E m \in 1..Len(Commands(c)) : m > k /\ Commands(c)[m].iface = cmd.iface
<1>5. ASSUME none(x) /\ none(y) PROVE Kinds
  BY <1>1, <1>2, <1>4, <1>5
<1>6. ASSUME none(x) /\ ~none(y) PROVE Kinds
  BY SMTT(30), <1>1, <1>2, <1>4, <1>6
<1>7. ASSUME ~none(x) /\ none(y) PROVE Kinds
  BY SMTT(30), <1>1, <1>2, <1>4, <1>7
<1>8. ASSUME ~none(x) /\ ~none(y) PROVE Kinds
  BY <1>1, <1>2, <1>4, <1>8
<1>9. Kinds
  BY <1>5, <1>6, <1>7, <1>8
<1>10. /\ Len(CommandsFor(c, x)) \in 1..2 /\ CommandsFor(c, x)[1].iface = x
       /\ Len(CommandsFor(c, y)) \in 1..2 /\ CommandsFor(c, y)[1].iface = y
  BY <1>1, <1>2
<1>11. /\ 1 \in 1..Len(Commands(c)) /\ Commands(c)[1].iface = x
       /\ Len(CommandsFor(c, x)) + 1 \in 1..Len(Commands(c))
       /\ Commands(c)[Len(CommandsFor(c, x)) + 1].iface = y
  BY <1>4, <1>10
<1>12. QED
  BY <1>9, <1>11 DEF Ifaces

\* The cells, and what they ask for.
LEMMA CellFacts ==
  /\ Len(Cells) \in Nat
  /\ \A c \in 1..Len(Cells) : Cells[c].shape \in [Ifaces -> Shapes \cup {NoShape}] /\ Cells[c].clients \in Nat
  /\ \A x : x \in Asked <=> \E c \in 1..Len(Cells) : \E k \in 1..Cells[c].clients : x = <<c, k>>
<1>1. /\ Len(Cells) \in Nat
      /\ \A c \in 1..Len(Cells) : Cells[c].shape \in [Ifaces -> Shapes \cup {NoShape}] /\ Cells[c].clients \in Nat
  <2>1. /\ Len(Cells) \in Nat
        /\ \A c \in 1..Len(Cells) : Cells[c] \in [shape : [Ifaces -> Shapes \cup {NoShape}], clients : Nat]
    <3> DEFINE S == [shape : [Ifaces -> Shapes \cup {NoShape}], clients : Nat]
    <3>1. Cells \in Seq(S)
      BY CellsAssumption
    <3> HIDE DEF S
    <3>2. Len(Cells) \in Nat /\ \A c \in 1..Len(Cells) : Cells[c] \in S
      BY <3>1, ElementOfSeq
    <3>3. QED
      BY <3>2 DEF S
  <2>2. QED
    BY <2>1
<1>2. \A x : x \in Asked <=> \E c \in 1..Len(Cells) : \E k \in 1..Cells[c].clients : x = <<c, k>>
  BY DEF Asked
<1>3. QED
  BY <1>1, <1>2

\* The server that is next, and the run that it is of.
LEMMA ServerSet ==
  /\ NumServers \in Nat
  /\ \A s \in Servers : s \in Nat /\ s >= 1 /\ s <= NumServers
  /\ NotStarted \in AServer /\ NotStarted.state = "none" /\ ~NotStarted.exitFile
BY BoundsAssumption DEF Servers, NotStarted, AServer

-----------------------------------------------------------------------------
(* The inductive invariant, part by part.                                  *)

\* Every step keeps ScriptTypes.
LEMMA ScriptTypesStep ==
  ASSUME ScriptTypes, [Next]_vars
  PROVE  ScriptTypes'
<1> USE CellFacts, BoundsAssumption DEF ScriptTypes, Labels, InRun, Runs
<1>1. CASE Enter
  BY <1>1 DEF Enter, Goto, hist
<1>2. CASE Exit
  BY <1>2 DEF Exit, Goto, script, hist
<1>3. CASE BeginRun
  BY <1>3 DEF BeginRun, Goto, hist
<1>4. CASE StartServer
  BY <1>4 DEF StartServer, Goto, script, hist
<1>5. CASE StartFails
  BY <1>5 DEF StartFails, Goto, Raise
<1>6. CASE CheckServers
  <2>1. /\ pc = "start" /\ UNCHANGED <<lab, run, labOf, link, server, orphans, unwaited, hung>>
        /\ \/ /\ pc' = "cell" /\ cell' = 1
              /\ UNCHANGED <<outcome, next, client, measure, results, meddled, ignored>>
           \/ Raise
    BY <1>6 DEF CheckServers, Goto
  <2>2. CASE pc' = "cell" /\ cell' = 1 /\ UNCHANGED <<outcome, next, client, measure, results, meddled, ignored>>
    BY <2>1, <2>2
  <2>3. CASE Raise
    BY <2>1, <2>3 DEF Raise, Goto
  <2>4. QED
    BY <2>1, <2>2, <2>3
<1>7. CASE BeginCell
  BY <1>7 DEF BeginCell, Goto, script, hist
<1>8. CASE Clear
  BY <1>8 DEF Clear, Goto, script, hist, Shaping
<1>9. CASE ClearIgnored
  BY <1>9 DEF ClearIgnored, Goto, script, hist, Shaping
<1>10. CASE Apply
  BY <1>10 DEF Apply, Goto, script, hist, Shaping
<1>11. CASE ShapeFails
  BY <1>11 DEF ShapeFails, Goto, Raise, Shaping
<1>12. CASE Shaped
  BY <1>12 DEF Shaped, Goto, script, hist
<1>13. CASE StartClient
  BY <1>13 DEF StartClient, Goto, script, hist
<1>14. CASE ClientSucceeds
  BY <1>14 DEF ClientSucceeds, Goto, script, hist
<1>15. CASE ClientFails
  BY <1>15 DEF ClientFails, Goto, Raise
<1>16. CASE ClientTimesOut
  BY <1>16 DEF ClientTimesOut, Goto, Raise
<1>17. CASE CellDone
  BY <1>17 DEF CellDone, Goto, script, hist
<1>18. CASE KillServer
  BY <1>18 DEF KillServer, Goto, script, hist
<1>19. CASE AllKilled
  BY <1>19 DEF AllKilled, Goto, script, hist
<1>20. CASE WaitServer
  BY <1>20 DEF WaitServer, Goto, script, hist
<1>21. CASE WaitTimesOut
  BY <1>21 DEF WaitTimesOut, Goto, script, hist
<1>22. CASE EndRun
  BY <1>22 DEF EndRun, Goto, script, hist
<1>23. ASSUME NEW r \in Runs, OrphanEnds(r) PROVE ScriptTypes'
  BY <1>23 DEF OrphanEnds, script, hist
<1>24. ASSUME NEW r \in Runs, NEW s \in Servers, ServerEnds(r, s) PROVE ScriptTypes'
  BY <1>24 DEF ServerEnds, script, hist
<1>25. ASSUME NEW i \in Ifaces, Meddle(i) PROVE ScriptTypes'
  BY <1>25 DEF Meddle, script, hist
<1>26. CASE UNCHANGED vars
  BY <1>26 DEF vars, script, hist
<1>27. QED
  BY <1>1, <1>2, <1>3, <1>4, <1>5, <1>6, <1>7, <1>8, <1>9, <1>10,
     <1>11, <1>12, <1>13, <1>14, <1>15, <1>16, <1>17, <1>18, <1>19, <1>20,
     <1>21, <1>22, <1>23, <1>24, <1>25, <1>26
     DEF Next, Grid, Shape, Client, Cleanup

\* The shaping command that is next.
LEMMA NextCommand ==
  ASSUME ScriptTypes, pc = "shape", next <= Len(Commands(cell))
  PROVE  /\ next \in 1..Len(Commands(cell)) /\ Len(Commands(cell)) \in Nat
         /\ Iface \in Ifaces /\ Iface = Commands(cell)[next].iface
         /\ cell \in 1..Len(Cells)
         /\ \/ Shaping("apply") /\ ~Shaping("clear") /\ Cells[cell].shape[Iface] \in Shapes
            \/ /\ Shaping("clear") /\ ~Shaping("apply")
               /\ Cells[cell].shape[Iface] = NoShape \/
                  \E m \in 1..Len(Commands(cell)) : m > next /\ Commands(cell)[m].iface = Iface
<1>1. Len(Commands(cell)) \in 2..4 /\ next \in Nat /\ next >= 1 /\ cell \in 1..Len(Cells)
  BY CommandsOfCell, CellFacts DEF ScriptTypes
<1>2. next \in 1..Len(Commands(cell)) /\ Len(Commands(cell)) \in Nat
  BY <1>1
<1>3. Cells[cell].shape \in [Ifaces -> Shapes \cup {NoShape}]
  BY <1>1, CellFacts
<1>4. QED
  BY <1>1, <1>2, <1>3, CommandsOfCell DEF Iface, Shaping

\* Every step keeps LinkTypes.
LEMMA LinkTypesStep ==
  ASSUME ScriptTypes, LinkTypes, [Next]_vars
  PROVE  LinkTypes'
<1> USE CellFacts DEF LinkTypes, AMeasure, Nothing
<1>1. CASE Enter
  BY <1>1 DEF Enter, Goto, hist
<1>2. CASE Exit
  BY <1>2 DEF Exit, Goto, script, hist
<1>3. CASE BeginRun
  BY <1>3 DEF BeginRun, Goto, hist
<1>4. CASE StartServer
  BY <1>4 DEF StartServer, Goto, script, hist
<1>5. CASE StartFails
  BY <1>5 DEF StartFails, Goto, Raise
<1>6. CASE CheckServers
  <2>1. /\ pc = "start" /\ UNCHANGED <<lab, run, labOf, link, server, orphans, unwaited, hung>>
        /\ \/ /\ pc' = "cell" /\ cell' = 1
              /\ UNCHANGED <<outcome, next, client, measure, results, meddled, ignored>>
           \/ Raise
    BY <1>6 DEF CheckServers, Goto
  <2>2. CASE pc' = "cell" /\ cell' = 1 /\ UNCHANGED <<outcome, next, client, measure, results, meddled, ignored>>
    BY <2>1, <2>2
  <2>3. CASE Raise
    BY <2>1, <2>3 DEF Raise, Goto
  <2>4. QED
    BY <2>1, <2>2, <2>3
<1>7. CASE BeginCell
  BY <1>7 DEF BeginCell, Goto, script, hist
<1>8. CASE Clear
  BY <1>8 DEF Clear, Goto, script, hist, Shaping
<1>9. CASE ClearIgnored
  <2>1. Iface \in Ifaces
    BY <1>9, NextCommand DEF ClearIgnored, Shaping
  <2>2. QED
    BY <1>9, <2>1 DEF ClearIgnored, script
<1>10. CASE Apply
  <2>1. Iface \in Ifaces /\ Cells[cell].shape[Iface] \in Shapes
    BY <1>10, NextCommand DEF Apply, Shaping
  <2>2. QED
    BY <1>10, <2>1 DEF Apply, script, hist
<1>11. CASE ShapeFails
  BY <1>11 DEF ShapeFails, Goto, Raise, Shaping
<1>12. CASE Shaped
  BY <1>12 DEF Shaped, Goto, script, hist
<1>13. CASE StartClient
  <2>1. PICK s \in Servers :
          measure' = [with  |-> IF Serving(s) = {} THEN 0 ELSE CHOOSE r \in Serving(s) : TRUE,
                      alone |-> \A r \in orphans : labOf[r] # lab,
                      wrong |-> Wrong]
    BY <1>13 DEF StartClient
  <2>2. (IF Serving(s) = {} THEN 0 ELSE CHOOSE r \in Serving(s) : TRUE) \in Int
    BY DEF Serving, Runs
  <2>3. Wrong \subseteq Ifaces
    BY DEF Wrong
  <2>4. measure' \in AMeasure
    BY <2>1, <2>2, <2>3
  <2>5. QED
    BY <1>13, <2>4 DEF StartClient, script, hist
<1>14. CASE ClientSucceeds
  BY <1>14 DEF ClientSucceeds, Goto, script, hist
<1>15. CASE ClientFails
  BY <1>15 DEF ClientFails, Goto, Raise
<1>16. CASE ClientTimesOut
  BY <1>16 DEF ClientTimesOut, Goto, Raise
<1>17. CASE CellDone
  BY <1>17 DEF CellDone, Goto, script, hist
<1>18. CASE KillServer
  BY <1>18 DEF KillServer, Goto, script, hist
<1>19. CASE AllKilled
  BY <1>19 DEF AllKilled, Goto, script, hist
<1>20. CASE WaitServer
  BY <1>20 DEF WaitServer, Goto, script, hist
<1>21. CASE WaitTimesOut
  BY <1>21 DEF WaitTimesOut, Goto, script, hist
<1>22. CASE EndRun
  BY <1>22 DEF EndRun, Goto, script, hist
<1>23. ASSUME NEW r \in Runs, OrphanEnds(r) PROVE LinkTypes'
  BY <1>23 DEF OrphanEnds, script, hist
<1>24. ASSUME NEW r \in Runs, NEW s \in Servers, ServerEnds(r, s) PROVE LinkTypes'
  BY <1>24 DEF ServerEnds, script, hist
<1>25. ASSUME NEW i \in Ifaces, Meddle(i) PROVE LinkTypes'
  BY <1>25 DEF Meddle, script, hist
<1>26. CASE UNCHANGED vars
  BY <1>26 DEF vars, script, hist
<1>27. QED
  BY <1>1, <1>2, <1>3, <1>4, <1>5, <1>6, <1>7, <1>8, <1>9, <1>10,
     <1>11, <1>12, <1>13, <1>14, <1>15, <1>16, <1>17, <1>18, <1>19, <1>20,
     <1>21, <1>22, <1>23, <1>24, <1>25, <1>26
     DEF Next, Grid, Shape, Client, Cleanup

\* Every step keeps ServerTypes.
LEMMA ServerTypesStep ==
  ASSUME ScriptTypes, ServerTypes, [Next]_vars
  PROVE  ServerTypes'
<1> USE BoundsAssumption DEF ServerTypes, AServer, NotStarted
<1>1. CASE Enter
  BY <1>1 DEF Enter, Goto, hist
<1>2. CASE Exit
  BY <1>2 DEF Exit, Goto, script, hist
<1>3. CASE BeginRun
  <2>1. 1..run \subseteq 1..(run + 1)
    BY DEF ScriptTypes
  <2>2. QED
    BY <1>3, <2>1 DEF BeginRun, hist
<1>4. CASE StartServer
  <2>1. run \in Runs /\ next \in Servers
    BY <1>4 DEF StartServer, ScriptTypes, InRun
  <2>2. server' = [server EXCEPT ![run][next] = [server[run][next] EXCEPT !.state = "running", !.bound = (Serving(next) = {})]]
    BY <1>4 DEF StartServer, Mine
  <2>3. [server[run][next] EXCEPT !.state = "running", !.bound = (Serving(next) = {})] \in AServer
    <3>1. server[run][next] \in AServer
      BY <2>1 DEF ServerTypes
    <3>2. QED
      BY <3>1, Zenon DEF AServer
  <2>4. server' \in [Runs -> [Servers -> AServer]]
    BY <2>1, <2>2, <2>3 DEF ServerTypes
  <2>5. QED
    BY <1>4, <2>4 DEF StartServer, ServerTypes, script, hist
<1>5. CASE StartFails
  BY <1>5 DEF StartFails, Goto, Raise
<1>6. CASE CheckServers
  BY <1>6 DEF CheckServers, Goto, Raise
<1>7. CASE BeginCell
  BY <1>7 DEF BeginCell, Goto, script, hist
<1>8. CASE Clear
  BY <1>8 DEF Clear, Goto, script, hist, Shaping
<1>9. CASE ClearIgnored
  BY <1>9 DEF ClearIgnored, Goto, script, hist, Shaping
<1>10. CASE Apply
  BY <1>10 DEF Apply, Goto, script, hist, Shaping
<1>11. CASE ShapeFails
  BY <1>11 DEF ShapeFails, Goto, Raise, Shaping
<1>12. CASE Shaped
  BY <1>12 DEF Shaped, Goto, script, hist
<1>13. CASE StartClient
  BY <1>13 DEF StartClient, Goto, script, hist
<1>14. CASE ClientSucceeds
  BY <1>14 DEF ClientSucceeds, Goto, script, hist
<1>15. CASE ClientFails
  BY <1>15 DEF ClientFails, Goto, Raise
<1>16. CASE ClientTimesOut
  <2>1. run \in 1..run /\ run \in Nat
    BY <1>16 DEF ClientTimesOut, ScriptTypes, InRun, Runs
  <2>2. QED
    BY <1>16, <2>1 DEF ClientTimesOut, ServerTypes, Raise, Goto
<1>17. CASE CellDone
  BY <1>17 DEF CellDone, Goto, script, hist
<1>18. CASE KillServer
  <2>1. run \in Runs /\ next \in Servers
    BY <1>18 DEF KillServer, ScriptTypes, InRun
  <2>2. server' = [server EXCEPT ![run][next] = [server[run][next] EXCEPT !.signalled = @ \/ Running(next)]]
    BY <1>18 DEF KillServer, Mine
  <2>3. [server[run][next] EXCEPT !.signalled = @ \/ Running(next)] \in AServer
    <3>1. server[run][next] \in AServer
      BY <2>1 DEF ServerTypes
    <3>2. QED
      BY <3>1, Zenon DEF AServer
  <2>4. server' \in [Runs -> [Servers -> AServer]]
    BY <2>1, <2>2, <2>3 DEF ServerTypes
  <2>5. QED
    BY <1>18, <2>4 DEF KillServer, ServerTypes, script, hist
<1>19. CASE AllKilled
  BY <1>19 DEF AllKilled, Goto, script, hist
<1>20. CASE WaitServer
  <2>1. run \in Runs /\ next \in Servers
    BY <1>20 DEF WaitServer, ScriptTypes, InRun
  <2>2. server' = [server EXCEPT ![run][next] = [server[run][next] EXCEPT !.exitFile = TRUE]]
    BY <1>20 DEF WaitServer, Mine
  <2>3. [server[run][next] EXCEPT !.exitFile = TRUE] \in AServer
    <3>1. server[run][next] \in AServer
      BY <2>1 DEF ServerTypes
    <3>2. QED
      BY <3>1, Zenon DEF AServer
  <2>4. server' \in [Runs -> [Servers -> AServer]]
    BY <2>1, <2>2, <2>3 DEF ServerTypes
  <2>5. QED
    BY <1>20, <2>4 DEF WaitServer, ServerTypes, script, hist
<1>21. CASE WaitTimesOut
  <2>1. run \in 1..run /\ run \in Nat
    BY <1>21 DEF WaitTimesOut, ScriptTypes, InRun, Runs
  <2>2. QED
    BY <1>21, <2>1 DEF WaitTimesOut, ServerTypes, Raise, Goto
<1>22. CASE EndRun
  BY <1>22 DEF EndRun, Goto, script, hist
<1>23. ASSUME NEW r \in Runs, OrphanEnds(r) PROVE ServerTypes'
  BY <1>23 DEF OrphanEnds, script, hist
<1>24. ASSUME NEW r \in Runs, NEW s \in Servers, ServerEnds(r, s) PROVE ServerTypes'
  BY <1>24 DEF ServerEnds, script, hist
<1>25. ASSUME NEW i \in Ifaces, Meddle(i) PROVE ServerTypes'
  BY <1>25 DEF Meddle, script, hist
<1>26. CASE UNCHANGED vars
  BY <1>26 DEF vars, script, hist
<1>27. QED
  BY <1>1, <1>2, <1>3, <1>4, <1>5, <1>6, <1>7, <1>8, <1>9, <1>10,
     <1>11, <1>12, <1>13, <1>14, <1>15, <1>16, <1>17, <1>18, <1>19, <1>20,
     <1>21, <1>22, <1>23, <1>24, <1>25, <1>26
     DEF Next, Grid, Shape, Client, Cleanup

\* What one server does shows in no other.
LEMMA OneServer ==
  ASSUME ServerTypes, NEW r \in Runs, NEW s \in Servers, NEW v, server' = [server EXCEPT ![r][s] = v]
  PROVE  /\ server'[r][s] = v
         /\ \A q \in Runs, t \in Servers : q # r \/ t # s => server'[q][t] = server[q][t]
         /\ \A q \in Runs : q # r => server'[q] = server[q]
BY DEF ServerTypes

\* Every step keeps FutureInv.
LEMMA FutureStep ==
  ASSUME ScriptTypes, ServerTypes, FutureInv, ServerInv, [Next]_vars
  PROVE  FutureInv'
<1> USE DEF FutureInv, ScriptTypes, InRun
<1>1. CASE Enter
  BY <1>1 DEF Enter, Goto, hist
<1>2. CASE Exit
  BY <1>2 DEF Exit, Goto, script, hist
<1>3. CASE BeginRun
  BY <1>3 DEF BeginRun, Goto, hist, Runs
<1>4. CASE StartServer
  <2>1. run \in Runs /\ next \in Servers
    BY <1>4 DEF StartServer, ScriptTypes, InRun
  <2>2. server[run][next] \in AServer
    BY <2>1 DEF ServerTypes
  <2>3. PICK v : v = [server[run][next] EXCEPT !.state = "running", !.bound = (Serving(next) = {})]
    OBVIOUS
  <2>4. server' = [server EXCEPT ![run][next] = v]
    BY <1>4, <2>3 DEF StartServer, Mine
  <2>5. /\ server'[run][next] = v
        /\ \A q \in Runs, t \in Servers : q # run \/ t # next => server'[q][t] = server[q][t]
        /\ \A q \in Runs : q # run => server'[q] = server[q]
    BY <2>1, <2>4, OneServer
  <2>6. v.exitFile => v.state = "over"
    BY <1>4, <2>1, <2>2, <2>3 DEF StartServer, AServer, Mine, ServerInv, Started
  <2>7. UNCHANGED <<run, outcome>>
    BY <1>4 DEF StartServer, script
  <2>8. QED
    BY <2>1, <2>5, <2>6, <2>7 DEF Runs
<1>5. CASE StartFails
  BY <1>5 DEF StartFails, Goto, Raise
<1>6. CASE CheckServers
  BY <1>6 DEF CheckServers, Goto, Raise
<1>7. CASE BeginCell
  BY <1>7 DEF BeginCell, Goto, script, hist
<1>8. CASE Clear
  BY <1>8 DEF Clear, Goto, script, hist, Shaping
<1>9. CASE ClearIgnored
  BY <1>9 DEF ClearIgnored, Goto, script, hist, Shaping
<1>10. CASE Apply
  BY <1>10 DEF Apply, Goto, script, hist, Shaping
<1>11. CASE ShapeFails
  BY <1>11 DEF ShapeFails, Goto, Raise, Shaping
<1>12. CASE Shaped
  BY <1>12 DEF Shaped, Goto, script, hist
<1>13. CASE StartClient
  BY <1>13 DEF StartClient, Goto, script, hist
<1>14. CASE ClientSucceeds
  BY <1>14 DEF ClientSucceeds, Goto, script, hist
<1>15. CASE ClientFails
  BY <1>15 DEF ClientFails, Goto, Raise
<1>16. CASE ClientTimesOut
  BY <1>16 DEF ClientTimesOut, Goto, Raise
<1>17. CASE CellDone
  BY <1>17 DEF CellDone, Goto, script, hist
<1>18. CASE KillServer
  <2>1. run \in Runs /\ next \in Servers
    BY <1>18 DEF KillServer, ScriptTypes, InRun
  <2>2. server[run][next] \in AServer
    BY <2>1 DEF ServerTypes
  <2>3. PICK v : v = [server[run][next] EXCEPT !.signalled = @ \/ Running(next)]
    OBVIOUS
  <2>4. server' = [server EXCEPT ![run][next] = v]
    BY <1>18, <2>3 DEF KillServer, Mine
  <2>5. /\ server'[run][next] = v
        /\ \A q \in Runs, t \in Servers : q # run \/ t # next => server'[q][t] = server[q][t]
        /\ \A q \in Runs : q # run => server'[q] = server[q]
    BY <2>1, <2>4, OneServer
  <2>6. v.exitFile => v.state = "over"
    BY <1>18, <2>1, <2>2, <2>3 DEF KillServer, AServer, Mine, ServerInv, Started
  <2>7. UNCHANGED <<run, outcome>>
    BY <1>18 DEF KillServer, script
  <2>8. QED
    BY <2>1, <2>5, <2>6, <2>7 DEF Runs
<1>19. CASE AllKilled
  BY <1>19 DEF AllKilled, Goto, script, hist
<1>20. CASE WaitServer
  <2>1. run \in Runs /\ next \in Servers
    BY <1>20 DEF WaitServer, ScriptTypes, InRun
  <2>2. server[run][next] \in AServer
    BY <2>1 DEF ServerTypes
  <2>3. PICK v : v = [server[run][next] EXCEPT !.exitFile = TRUE]
    OBVIOUS
  <2>4. server' = [server EXCEPT ![run][next] = v]
    BY <1>20, <2>3 DEF WaitServer, Mine
  <2>5. /\ server'[run][next] = v
        /\ \A q \in Runs, t \in Servers : q # run \/ t # next => server'[q][t] = server[q][t]
        /\ \A q \in Runs : q # run => server'[q] = server[q]
    BY <2>1, <2>4, OneServer
  <2>6. v.exitFile => v.state = "over"
    BY <1>20, <2>1, <2>2, <2>3 DEF WaitServer, AServer, Mine, ServerInv, Started
  <2>7. UNCHANGED <<run, outcome>>
    BY <1>20 DEF WaitServer, script
  <2>8. QED
    BY <2>1, <2>5, <2>6, <2>7 DEF Runs
<1>21. CASE WaitTimesOut
  BY <1>21 DEF WaitTimesOut, Goto, script, hist
<1>22. CASE EndRun
  BY <1>22 DEF EndRun, Goto, script, hist
<1>23. ASSUME NEW r \in Runs, OrphanEnds(r) PROVE FutureInv'
  BY <1>23 DEF OrphanEnds, script, hist
<1>24. ASSUME NEW r \in Runs, NEW s \in Servers, ServerEnds(r, s) PROVE FutureInv'
  <2>1. PICK v : v = [NotStarted EXCEPT !.state = "over"]
    OBVIOUS
  <2>2. server' = [server EXCEPT ![r][s] = v]
    BY <1>24, <2>1 DEF ServerEnds
  <2>3. /\ server'[r][s] = v
        /\ \A q \in Runs, t \in Servers : q # r \/ t # s => server'[q][t] = server[q][t]
        /\ \A q \in Runs : q # r => server'[q] = server[q]
    BY <2>2, OneServer
  <2>4. v.state = "over" /\ ~v.exitFile
    BY <2>1 DEF NotStarted
  <2>5. server[r][s] # NotStarted
    BY <1>24 DEF ServerEnds, NotStarted
  <2>6. QED
    BY <1>24, <2>3, <2>4, <2>5 DEF ServerEnds, script, Runs
<1>25. ASSUME NEW i \in Ifaces, Meddle(i) PROVE FutureInv'
  BY <1>25 DEF Meddle, script, hist
<1>26. CASE UNCHANGED vars
  BY <1>26 DEF vars, script, hist
<1>27. QED
  BY <1>1, <1>2, <1>3, <1>4, <1>5, <1>6, <1>7, <1>8, <1>9, <1>10,
     <1>11, <1>12, <1>13, <1>14, <1>15, <1>16, <1>17, <1>18, <1>19, <1>20,
     <1>21, <1>22, <1>23, <1>24, <1>25, <1>26
     DEF Next, Grid, Shape, Client, Cleanup

\* Every step keeps ServerInv.
LEMMA ServerStep ==
  ASSUME ScriptTypes, ServerTypes, FutureInv, ServerInv, [Next]_vars
  PROVE  ServerInv'
<1> USE ServerSet DEF ServerInv, Started, Told, Running, Mine, Normal, ScriptTypes, InRun, Labels
<1>1. CASE Enter
  BY <1>1 DEF Enter, Goto, hist
<1>2. CASE Exit
  BY <1>2 DEF Exit, Goto, script, hist
<1>3. CASE BeginRun
  <2>1. run + 1 \in Runs /\ run + 1 \notin unwaited /\ run + 1 > run
    BY <1>3, BoundsAssumption DEF BeginRun, Runs, ServerTypes
  <2>2. outcome[run + 1] = "none" /\ \A s \in Servers : server[run + 1][s] = NotStarted
    BY <2>1 DEF FutureInv
  <2>3. QED
    BY <1>3, <2>1, <2>2 DEF BeginRun, Goto, hist
<1>4. CASE StartServer
  <2>1. run \in Runs /\ next \in Servers
    BY <1>4 DEF StartServer, ScriptTypes, InRun
  <2>2. server[run][next] \in AServer
    BY <2>1 DEF ServerTypes
  <2>3. PICK v : v = [server[run][next] EXCEPT !.state = "running", !.bound = (Serving(next) = {})]
    OBVIOUS
  <2>4. server' = [server EXCEPT ![run][next] = v]
    BY <1>4, <2>3 DEF StartServer, Mine
  <2>5. /\ server'[run][next] = v
        /\ \A q \in Runs, t \in Servers : q # run \/ t # next => server'[q][t] = server[q][t]
        /\ \A q \in Runs : q # run => server'[q] = server[q]
    BY <2>1, <2>4, OneServer
  <2>6. v.state = "running"
    BY <2>2, <2>3 DEF AServer
  <2>7. pc = "start" /\ next' = next + 1 /\ UNCHANGED <<pc, run, outcome, unwaited, hung>>
    BY <1>4 DEF StartServer, script, hist
  <2>8. ASSUME NEW s \in Servers PROVE server'[run][s].state # "none" <=> s < next + 1
    <3>1. CASE s = next
      BY <2>5, <2>6, <3>1
    <3>2. CASE s # next
      BY <2>1, <2>5, <2>7, <3>2
    <3>3. QED
      BY <3>1, <3>2
  <2>9. QED
    BY <2>1, <2>7, <2>8 DEF Servers
<1>5. CASE StartFails
  BY <1>5 DEF StartFails, Goto, Raise
<1>6. CASE CheckServers
  <2>1. /\ pc = "start" /\ UNCHANGED <<lab, run, labOf, link, server, orphans, unwaited, hung>>
        /\ \/ /\ pc' = "cell" /\ cell' = 1
              /\ UNCHANGED <<outcome, next, client, measure, results, meddled, ignored>>
           \/ Raise
    BY <1>6 DEF CheckServers, Goto
  <2>2. CASE pc' = "cell" /\ cell' = 1 /\ UNCHANGED <<outcome, next, client, measure, results, meddled, ignored>>
    BY <1>6, <2>1, <2>2 DEF CheckServers, Servers
  <2>3. CASE Raise
    BY <2>1, <2>3 DEF Raise, Goto, Servers
  <2>4. QED
    BY <2>1, <2>2, <2>3
<1>7. CASE BeginCell
  BY <1>7 DEF BeginCell, Goto, script, hist
<1>8. CASE Clear
  BY <1>8 DEF Clear, Goto, script, hist, Shaping
<1>9. CASE ClearIgnored
  BY <1>9 DEF ClearIgnored, Goto, script, hist, Shaping
<1>10. CASE Apply
  BY <1>10 DEF Apply, Goto, script, hist, Shaping
<1>11. CASE ShapeFails
  BY <1>11 DEF ShapeFails, Goto, Raise, Shaping
<1>12. CASE Shaped
  BY <1>12 DEF Shaped, Goto, script, hist
<1>13. CASE StartClient
  BY <1>13 DEF StartClient, Goto, script, hist
<1>14. CASE ClientSucceeds
  BY <1>14 DEF ClientSucceeds, Goto, script, hist
<1>15. CASE ClientFails
  BY <1>15 DEF ClientFails, Goto, Raise
<1>16. CASE ClientTimesOut
  BY <1>16 DEF ClientTimesOut, Goto, Raise
<1>17. CASE CellDone
  BY <1>17 DEF CellDone, Goto, script, hist
<1>18. CASE KillServer
  <2>1. run \in Runs /\ next \in Servers
    BY <1>18 DEF KillServer, ScriptTypes, InRun
  <2>2. server[run][next] \in AServer
    BY <2>1 DEF ServerTypes
  <2>3. PICK v : v = [server[run][next] EXCEPT !.signalled = @ \/ Running(next)]
    OBVIOUS
  <2>4. server' = [server EXCEPT ![run][next] = v]
    BY <1>18, <2>3 DEF KillServer, Mine
  <2>5. /\ server'[run][next] = v
        /\ \A q \in Runs, t \in Servers : q # run \/ t # next => server'[q][t] = server[q][t]
        /\ \A q \in Runs : q # run => server'[q] = server[q]
    BY <2>1, <2>4, OneServer
  <2>6. /\ v.state = server[run][next].state
        /\ v.state = "running" => v.signalled
    BY <2>2, <2>3 DEF AServer
  <2>7. pc = "kill" /\ next' = next + 1 /\ UNCHANGED <<pc, run, outcome, unwaited, hung>> /\ Started(next)
    BY <1>18 DEF KillServer, script, hist
  <2>8. ASSUME NEW s \in Servers
        PROVE  /\ server'[run][s].state = server[run][s].state
               /\ s < next + 1 /\ server'[run][s].state = "running" => server'[run][s].signalled
    <3>1. CASE s = next
      BY <2>5, <2>6, <3>1
    <3>2. CASE s # next
      BY <2>1, <2>5, <2>7, <3>2
    <3>3. QED
      BY <3>1, <3>2
  <2>9. ASSUME NEW s \in Servers, s < next + 1 PROVE Started(s)
    <3>1. s \in Nat /\ next \in Nat
      BY <2>1, ServerSet
    <3>2. CASE s = next
      BY <2>7, <3>2
    <3>3. CASE s < next
      BY <2>7, <3>3
    <3>4. QED
      BY <2>9, <3>1, <3>2, <3>3
  <2>10. next + 1 <= NumServers + 1
    BY <2>1
  <2>11. \A s \in Servers : Started(s)' <=> Started(s)
    BY <2>7, <2>8
  <2>12. QED
    BY <2>7, <2>8, <2>9, <2>10, <2>11
<1>19. CASE AllKilled
  <2>1. /\ pc = "kill" /\ pc' = "wait" /\ next' = 1 /\ UNCHANGED <<server, run, outcome, unwaited, hung>>
        /\ next \in Servers => ~Started(next)
    BY <1>19 DEF AllKilled, Goto, script, hist
  <2>2. \A s \in Servers : s >= next => ~Running(s)
    BY <2>1 DEF Servers
  <2>3. \A s \in Servers : Told(s)
    BY <2>1, <2>2
  <2>4. QED
    BY <2>1, <2>3
<1>20. CASE WaitServer
  <2>1. run \in Runs /\ next \in Servers
    BY <1>20 DEF WaitServer, ScriptTypes, InRun
  <2>2. server[run][next] \in AServer
    BY <2>1 DEF ServerTypes
  <2>3. PICK v : v = [server[run][next] EXCEPT !.exitFile = TRUE]
    OBVIOUS
  <2>4. server' = [server EXCEPT ![run][next] = v]
    BY <1>20, <2>3 DEF WaitServer, Mine
  <2>5. /\ server'[run][next] = v
        /\ \A q \in Runs, t \in Servers : q # run \/ t # next => server'[q][t] = server[q][t]
        /\ \A q \in Runs : q # run => server'[q] = server[q]
    BY <2>1, <2>4, OneServer
  <2>6. QED
    BY <1>20, <2>1, <2>2, <2>3, <2>5 DEF WaitServer, Goto, script, hist, AServer
<1>21. CASE WaitTimesOut
  BY <1>21 DEF WaitTimesOut, Goto, script, hist
<1>22. CASE EndRun
  BY <1>22 DEF EndRun, Goto, script, hist
<1>23. ASSUME NEW r \in Runs, OrphanEnds(r) PROVE ServerInv'
  BY <1>23 DEF OrphanEnds, script, hist
<1>24. ASSUME NEW r \in Runs, NEW s \in Servers, ServerEnds(r, s) PROVE ServerInv'
  <2>1. PICK v : v = [NotStarted EXCEPT !.state = "over"]
    OBVIOUS
  <2>2. server' = [server EXCEPT ![r][s] = v]
    BY <1>24, <2>1 DEF ServerEnds
  <2>3. /\ server'[r][s] = v
        /\ \A q \in Runs, t \in Servers : q # r \/ t # s => server'[q][t] = server[q][t]
        /\ \A q \in Runs : q # r => server'[q] = server[q]
    BY <2>2, OneServer
  <2>4. v.state = "over" /\ ~v.exitFile
    BY <2>1 DEF NotStarted
  <2>5. server[r][s].state = "running"
    BY <1>24 DEF ServerEnds
  <2>6. \A q \in Runs, t \in Servers :
           /\ server'[q][t].state # "none" <=> server[q][t].state # "none"
           /\ server'[q][t].state = "running" =>
                server[q][t].state = "running" /\ server'[q][t].signalled = server[q][t].signalled
           /\ server[q][t].exitFile => server'[q][t].exitFile
    BY <2>3, <2>4, <2>5 DEF FutureInv
  <2>7. QED
    BY SMTT(30), <1>24, <2>6 DEF ServerEnds, script, hist
<1>25. ASSUME NEW i \in Ifaces, Meddle(i) PROVE ServerInv'
  BY <1>25 DEF Meddle, script, hist
<1>26. CASE UNCHANGED vars
  BY <1>26 DEF vars, script, hist
<1>27. QED
  BY <1>1, <1>2, <1>3, <1>4, <1>5, <1>6, <1>7, <1>8, <1>9, <1>10,
     <1>11, <1>12, <1>13, <1>14, <1>15, <1>16, <1>17, <1>18, <1>19, <1>20,
     <1>21, <1>22, <1>23, <1>24, <1>25, <1>26
     DEF Next, Grid, Shape, Client, Cleanup

\* Every step keeps LinkInv.
LEMMA LinkStep ==
  ASSUME ScriptTypes, LinkTypes, LinkInv, [Next]_vars
  PROVE  LinkInv'
<1> USE DEF LinkInv, Measure, Excused, Wrong, ScriptTypes, LinkTypes, Labels
<1>1. CASE Enter
  BY <1>1 DEF Enter, Goto, hist
<1>2. CASE Exit
  BY <1>2 DEF Exit, Goto, script, hist
<1>3. CASE BeginRun
  BY <1>3 DEF BeginRun, Goto, hist
<1>4. CASE StartServer
  BY <1>4 DEF StartServer, Goto, script, hist
<1>5. CASE StartFails
  BY <1>5 DEF StartFails, Goto, Raise
<1>6. CASE CheckServers
  BY <1>6 DEF CheckServers, Goto, Raise
<1>7. CASE BeginCell
  <2>1. \A i \in Ifaces : ~Handled(i)'
    BY <1>7, CommandsOfCell DEF BeginCell, Handled, script
  <2>2. QED
    BY <1>7, <2>1 DEF BeginCell, Goto, script
<1>8. CASE Clear
  <2>i. PICK i \in Ifaces : i = Iface
    BY <1>8, NextCommand DEF Clear, Shaping
  <2>1. /\ next \in 1..Len(Commands(cell)) /\ i = Commands(cell)[next].iface
        /\ cell \in 1..Len(Cells) /\ Len(Commands(cell)) \in Nat
        /\ Cells[cell].shape[i] = NoShape \/
           \E m \in 1..Len(Commands(cell)) : m > next /\ Commands(cell)[m].iface = i
    BY <1>8, <2>i, NextCommand DEF Clear, Shaping
  <2>2. ASSUME NEW j \in Ifaces, j # i, Handled(j)' PROVE Handled(j)
    BY <1>8, <2>1, <2>2 DEF Clear, Handled, script
  <2>3. ASSUME Handled(i)', Cells[cell].shape[i] # NoShape PROVE FALSE
    BY <1>8, <2>1, <2>3 DEF Clear, Handled, script
  <2>4. QED
    BY <1>8, <2>i, <2>1, <2>2, <2>3 DEF Clear, Shaping, script
<1>9. CASE ClearIgnored
  <2>i. PICK i \in Ifaces : i = Iface
    BY <1>9, NextCommand DEF ClearIgnored, Shaping
  <2>1. /\ next \in 1..Len(Commands(cell)) /\ i = Commands(cell)[next].iface
        /\ cell \in 1..Len(Cells) /\ Len(Commands(cell)) \in Nat
        /\ Cells[cell].shape[i] = NoShape \/
           \E m \in 1..Len(Commands(cell)) : m > next /\ Commands(cell)[m].iface = i
    BY <1>9, <2>i, NextCommand DEF ClearIgnored, Shaping
  <2>2. ASSUME NEW j \in Ifaces, j # i, Handled(j)' PROVE Handled(j)
    BY <1>9, <2>1, <2>2 DEF ClearIgnored, Handled, script
  <2>3. ASSUME Handled(i)', Cells[cell].shape[i] # NoShape PROVE FALSE
    BY <1>9, <2>1, <2>3 DEF ClearIgnored, Handled, script
  <2>4. QED
    BY <1>9, <2>i, <2>1, <2>2, <2>3 DEF ClearIgnored, Shaping, script
<1>10. CASE Apply
  <2>i. PICK i \in Ifaces : i = Iface
    BY <1>10, NextCommand DEF Apply, Shaping
  <2>1. /\ next \in 1..Len(Commands(cell)) /\ i = Commands(cell)[next].iface
        /\ cell \in 1..Len(Cells) /\ Len(Commands(cell)) \in Nat
        /\ Cells[cell].shape[i] \in Shapes
    BY <1>10, <2>i, NextCommand DEF Apply, Shaping
  <2>2. ASSUME NEW j \in Ifaces, j # i, Handled(j)' PROVE Handled(j)
    BY <1>10, <2>1, <2>2 DEF Apply, Handled, script
  <2>3. QED
    BY <1>10, <2>i, <2>1, <2>2 DEF Apply, Shaping, script, hist
<1>11. CASE ShapeFails
  BY <1>11 DEF ShapeFails, Goto, Raise, Shaping
<1>12. CASE Shaped
  <2>1. \A i \in Ifaces : Handled(i)
    BY <1>12, CommandsOfCell DEF Shaped, Handled
  <2>2. measure.wrong = {}
    BY <1>12 DEF Shaped, Nothing
  <2>3. QED
    BY <1>12, <2>1, <2>2 DEF Shaped, Goto, script, hist
<1>13. CASE StartClient
  BY <1>13 DEF StartClient, Goto, script, hist
<1>14. CASE ClientSucceeds
  BY <1>14 DEF ClientSucceeds, Goto, script, hist
<1>15. CASE ClientFails
  BY <1>15 DEF ClientFails, Goto, Raise
<1>16. CASE ClientTimesOut
  BY <1>16 DEF ClientTimesOut, Goto, Raise
<1>17. CASE CellDone
  BY <1>17 DEF CellDone, Goto, script, hist
<1>18. CASE KillServer
  BY <1>18 DEF KillServer, Goto, script, hist
<1>19. CASE AllKilled
  BY <1>19 DEF AllKilled, Goto, script, hist
<1>20. CASE WaitServer
  BY <1>20 DEF WaitServer, Goto, script, hist
<1>21. CASE WaitTimesOut
  BY <1>21 DEF WaitTimesOut, Goto, script, hist
<1>22. CASE EndRun
  BY <1>22 DEF EndRun, Goto, script, hist
<1>23. ASSUME NEW r \in Runs, OrphanEnds(r) PROVE LinkInv'
  <2>1. ASSUME NEW j \in Ifaces, Handled(j)' PROVE Handled(j)
    BY <1>23, <2>1 DEF OrphanEnds, Handled, script
  <2>2. QED
    BY <1>23, <2>1 DEF OrphanEnds, script, hist
<1>24. ASSUME NEW r \in Runs, NEW s \in Servers, ServerEnds(r, s) PROVE LinkInv'
  <2>1. ASSUME NEW j \in Ifaces, Handled(j)' PROVE Handled(j)
    BY <1>24, <2>1 DEF ServerEnds, Handled, script
  <2>2. QED
    BY <1>24, <2>1 DEF ServerEnds, script, hist
<1>25. ASSUME NEW i \in Ifaces, Meddle(i) PROVE LinkInv'
  <2>1. ASSUME NEW j \in Ifaces, Handled(j)' PROVE Handled(j)
    BY <1>25, <2>1 DEF Meddle, Handled, script
  <2>2. /\ \A j \in Ifaces : j # i => link'[j] = link[j]
        /\ measure'.wrong \subseteq measure.wrong \cup {i}
        /\ pc \notin Measure => measure' = measure
    BY <1>25 DEF Meddle, AMeasure
  <2>3. QED
    BY <1>25, <2>1, <2>2 DEF Meddle, script
<1>26. CASE UNCHANGED vars
  <2>1. ASSUME NEW j \in Ifaces, Handled(j)' PROVE Handled(j)
    BY <1>26, <2>1 DEF vars, Handled, script
  <2>2. QED
    BY <1>26, <2>1 DEF vars, script, hist
<1>27. QED
  BY <1>1, <1>2, <1>3, <1>4, <1>5, <1>6, <1>7, <1>8, <1>9, <1>10,
     <1>11, <1>12, <1>13, <1>14, <1>15, <1>16, <1>17, <1>18, <1>19, <1>20,
     <1>21, <1>22, <1>23, <1>24, <1>25, <1>26
     DEF Next, Grid, Shape, Client, Cleanup

\* What has been measured so far grows by one.
LEMMA OneMore ==
  ASSUME NEW c \in 1..Len(Cells), NEW n \in 1..Cells[c].clients, IsFiniteSet(Before(c, n))
  PROVE  /\ IsFiniteSet(Before(c, n + 1))
         /\ Cardinality(Before(c, n)) \in Nat
         /\ Cardinality(Before(c, n + 1)) = Cardinality(Before(c, n)) + 1
<1>1. Cells[c].clients \in Nat
  BY CellFacts
<1>2. <<c, n>> \in Asked /\ <<c, n>> \notin Before(c, n)
  BY CellFacts DEF Before
<1>3. Before(c, n + 1) = Before(c, n) \cup {<<c, n>>}
  <2>1. ASSUME NEW x \in Asked
        PROVE  x \in Before(c, n + 1) <=> x \in Before(c, n) \/ x = <<c, n>>
    <3>1. PICK d \in 1..Len(Cells) : \E k \in 1..Cells[d].clients : x = <<d, k>>
      BY CellFacts
    <3>2. PICK k \in 1..Cells[d].clients : x = <<d, k>>
      BY <3>1
    <3>3. x[1] = d /\ x[2] = k /\ k \in Nat /\ d \in Nat
      BY <3>2, CellFacts
    <3>4. QED
      BY <1>1, <3>2, <3>3 DEF Before
  <2>2. QED
    BY <1>2, <2>1 DEF Before
<1>4. QED
  BY <1>2, <1>3, FS_AddElement, FS_CardinalityType

\* The clients of a cell are done when there is none after the last.
LEMMA CellOver ==
  ASSUME NEW c \in 1..Len(Cells), NEW n \in Nat \ {0}, n > Cells[c].clients
  PROVE  Before(c, n) = Before(c + 1, 1)
<1>1. ASSUME NEW x \in Asked PROVE x \in Before(c, n) <=> x \in Before(c + 1, 1)
  <2>1. PICK d \in 1..Len(Cells) : \E k \in 1..Cells[d].clients : x = <<d, k>>
    BY CellFacts
  <2>2. PICK k \in 1..Cells[d].clients : x = <<d, k>>
    BY <2>1
  <2>3. x[1] = d /\ x[2] = k /\ k \in Nat /\ k >= 1 /\ d \in Nat /\ c \in Nat /\ Cells[d].clients \in Nat
    BY <2>2, CellFacts
  <2>4. QED
    BY <2>2, <2>3 DEF Before
<1>2. QED
  BY <1>1 DEF Before

\* Before the first cell nothing is done, and after the last all is.
LEMMA EndsOfGrid ==
  /\ Before(1, 1) = {} /\ Before(Len(Cells) + 1, 1) = Asked
<1>1. ASSUME NEW x \in Asked PROVE x[1] \in 1..Len(Cells) /\ x[2] \in Nat /\ x[2] >= 1
  <2>1. PICK d \in 1..Len(Cells) : \E k \in 1..Cells[d].clients : x = <<d, k>>
    BY CellFacts
  <2>2. QED
    BY <2>1, CellFacts
<1>2. Len(Cells) \in Nat
  BY CellFacts
<1>3. QED
  BY <1>1, <1>2 DEF Before

\* Every step keeps ResultsInv.
LEMMA ResultsStep ==
  ASSUME ScriptTypes, FutureInv, ServerInv, ResultsInv, [Next]_vars
  PROVE  ResultsInv'
<1> USE DEF ResultsInv, Has
<1>1. CASE Enter
  BY <1>1 DEF Enter, Goto, hist
<1>2. CASE Exit
  BY <1>2 DEF Exit, Goto, script, hist
<1>3. CASE BeginRun
  BY <1>3 DEF BeginRun, Goto, hist
<1>4. CASE StartServer
  BY <1>4 DEF StartServer, Goto, script, hist
<1>5. CASE StartFails
  <2>1. run \in Runs /\ outcome' = [outcome EXCEPT ![run] = "raised"] /\ pc' = "kill" /\ run' = run
    BY <1>5 DEF StartFails, Raise, Goto, ScriptTypes, InRun
  <2>2. outcome'[run'] = "raised"
    BY <2>1 DEF ScriptTypes
  <2>3. QED
    BY <2>1, <2>2
<1>6. CASE CheckServers
  <2>1. /\ pc = "start" /\ results = 0 /\ results' = 0
        /\ \/ pc' = "cell" /\ cell' = 1
           \/ pc' = "kill" /\ outcome'[run'] = "raised"
    <3>1. pc = "start" /\ run \in Runs /\ run' = run
      BY <1>6 DEF CheckServers, ScriptTypes, InRun
    <3>2. CASE Raise
      BY <3>1, <3>2 DEF Raise, Goto, ScriptTypes
    <3>3. CASE ~Raise
      <4>1. pc' = "cell" /\ cell' = 1 /\ results' = results
        BY <1>6, <3>3 DEF CheckServers, Goto
      <4>2. QED
        BY <3>1, <4>1
    <3>4. QED
      BY <3>2, <3>3
  <2>2. IsFiniteSet(Before(1, 1)) /\ Cardinality(Before(1, 1)) = 0
    BY EndsOfGrid, FS_EmptySet
  <2>3. QED
    BY <2>1, <2>2
<1>7. CASE BeginCell
  <2>1. /\ pc = "cell" /\ UNCHANGED <<results, cell, outcome, run>> /\ client' = 1
        /\ \/ cell <= Len(Cells) /\ pc' = "shape"
           \/ cell > Len(Cells) /\ pc' = "kill"
    BY <1>7, CellFacts DEF BeginCell, Goto, script, ScriptTypes
  <2>2. cell > Len(Cells) => cell = Len(Cells) + 1
    BY CellFacts DEF ScriptTypes
  <2>3. QED
    BY <2>1, <2>2, EndsOfGrid
<1>8. CASE Clear
  BY <1>8 DEF Clear, Goto, script, hist, Shaping
<1>9. CASE ClearIgnored
  BY <1>9 DEF ClearIgnored, Goto, script, hist, Shaping
<1>10. CASE Apply
  BY <1>10 DEF Apply, Goto, script, hist, Shaping
<1>11. CASE ShapeFails
  <2>1. run \in Runs /\ outcome' = [outcome EXCEPT ![run] = "raised"] /\ pc' = "kill" /\ run' = run
    BY <1>11 DEF ShapeFails, Raise, Goto, ScriptTypes, InRun
  <2>2. outcome'[run'] = "raised"
    BY <2>1 DEF ScriptTypes
  <2>3. QED
    BY <2>1, <2>2
<1>12. CASE Shaped
  <2>1. pc = "shape" /\ pc' = "client" /\ client = 1 /\ UNCHANGED <<results, cell, client>>
    BY <1>12 DEF Shaped, Goto, script
  <2>2. QED
    BY <1>12, <2>1
<1>13. CASE StartClient
  <2>1. /\ pc = "client" /\ pc' = "measure" /\ client <= Cells[cell].clients
        /\ client' = client + 1 /\ UNCHANGED <<results, cell>>
    BY <1>13 DEF StartClient, Goto, script, hist
  <2>2. client' - 1 = client /\ client \in 1..Cells[cell].clients
    BY <2>1, CellFacts DEF ScriptTypes
  <2>3. QED
    BY <2>1, <2>2
<1>14. CASE ClientSucceeds
  <2>1. /\ pc = "measure" /\ pc' = "client" /\ results' = results + 1
        /\ UNCHANGED <<cell, client>> /\ (client - 1) + 1 = client /\ cell \in 1..Len(Cells)
    BY <1>14, CellFacts DEF ClientSucceeds, Goto, script, hist, ScriptTypes
  <2>2. IsFiniteSet(Before(cell, client)) /\ Cardinality(Before(cell, client)) = results + 1
    BY <2>1, OneMore
  <2>3. QED
    BY <2>1, <2>2
<1>15. CASE ClientFails
  <2>1. run \in Runs /\ outcome' = [outcome EXCEPT ![run] = "raised"] /\ pc' = "kill" /\ run' = run
    BY <1>15 DEF ClientFails, Raise, Goto, ScriptTypes, InRun
  <2>2. outcome'[run'] = "raised"
    BY <2>1 DEF ScriptTypes
  <2>3. QED
    BY <2>1, <2>2
<1>16. CASE ClientTimesOut
  <2>1. run \in Runs /\ outcome' = [outcome EXCEPT ![run] = "raised"] /\ pc' = "kill" /\ run' = run
    BY <1>16 DEF ClientTimesOut, Raise, Goto, ScriptTypes, InRun
  <2>2. outcome'[run'] = "raised"
    BY <2>1 DEF ScriptTypes
  <2>3. QED
    BY <2>1, <2>2
<1>17. CASE CellDone
  <2>1. /\ pc = "client" /\ client > Cells[cell].clients /\ pc' = "cell" /\ cell' = cell + 1
        /\ UNCHANGED results /\ cell \in 1..Len(Cells) /\ client \in Nat \ {0}
    BY <1>17, CellFacts DEF CellDone, Goto, script, hist, ScriptTypes
  <2>2. Before(cell, client) = Before(cell + 1, 1)
    BY <2>1, CellOver
  <2>3. QED
    BY <2>1, <2>2
<1>18. CASE KillServer
  BY <1>18 DEF KillServer, Goto, script, hist
<1>19. CASE AllKilled
  BY <1>19 DEF AllKilled, Goto, script, hist
<1>20. CASE WaitServer
  BY <1>20 DEF WaitServer, Goto, script, hist
<1>21. CASE WaitTimesOut
  BY <1>21 DEF WaitTimesOut, Goto, script, hist
<1>22. CASE EndRun
  BY <1>22 DEF EndRun, Goto, script, hist
<1>23. ASSUME NEW r \in Runs, OrphanEnds(r) PROVE ResultsInv'
  BY <1>23 DEF OrphanEnds, script, hist
<1>24. ASSUME NEW r \in Runs, NEW s \in Servers, ServerEnds(r, s) PROVE ResultsInv'
  BY <1>24 DEF ServerEnds, script, hist
<1>25. ASSUME NEW i \in Ifaces, Meddle(i) PROVE ResultsInv'
  BY <1>25 DEF Meddle, script, hist
<1>26. CASE UNCHANGED vars
  BY <1>26 DEF vars, script, hist
<1>27. QED
  BY <1>1, <1>2, <1>3, <1>4, <1>5, <1>6, <1>7, <1>8, <1>9, <1>10,
     <1>11, <1>12, <1>13, <1>14, <1>15, <1>16, <1>17, <1>18, <1>19, <1>20,
     <1>21, <1>22, <1>23, <1>24, <1>25, <1>26
     DEF Next, Grid, Shape, Client, Cleanup

\* Every step keeps OwnInv.
LEMMA OwnStep ==
  ASSUME ScriptTypes, LinkTypes, ServerTypes, LinkInv, FutureInv, ServerInv,
         ServersAccountedFor, OwnInv, [Next]_vars
  PROVE  OwnInv'
<1> USE DEF OwnInv, Left, Measure, Normal, ScriptTypes, InRun
<1>1. CASE Enter
  BY <1>1 DEF Enter, Goto, hist
<1>2. CASE Exit
  BY <1>2 DEF Exit, Goto, script, hist
<1>3. CASE BeginRun
  <2>1. run' = run + 1 /\ pc' = "start" /\ UNCHANGED hung
    BY <1>3 DEF BeginRun, Goto, hist
  <2>2. run + 1 \notin hung
    BY DEF ServerTypes
  <2>3. QED
    BY <2>1, <2>2
<1>4. CASE StartServer
  BY <1>4 DEF StartServer, Goto, script, hist
<1>5. CASE StartFails
  BY <1>5 DEF StartFails, Goto, Raise
<1>6. CASE CheckServers
  BY <1>6 DEF CheckServers, Goto, Raise
<1>7. CASE BeginCell
  BY <1>7 DEF BeginCell, Goto, script, hist
<1>8. CASE Clear
  BY <1>8 DEF Clear, Goto, script, hist, Shaping
<1>9. CASE ClearIgnored
  BY <1>9 DEF ClearIgnored, Goto, script, hist, Shaping
<1>10. CASE Apply
  BY <1>10 DEF Apply, Goto, script, hist, Shaping
<1>11. CASE ShapeFails
  BY <1>11 DEF ShapeFails, Goto, Raise, Shaping
<1>12. CASE Shaped
  BY <1>12 DEF Shaped, Goto, script, hist, LinkInv
<1>13. CASE StartClient
  <2>1. PICK t \in Servers :
          measure' = [with  |-> IF Serving(t) = {} THEN 0 ELSE CHOOSE r \in Serving(t) : TRUE,
                      alone |-> \A r \in orphans : labOf[r] # lab,
                      wrong |-> Wrong]
    BY <1>13 DEF StartClient
  <2>2. /\ pc = "client" /\ pc' = "measure" /\ UNCHANGED <<run, unwaited, hung, labOf>>
        /\ run \in Runs /\ labOf[run] = lab
    BY <1>13 DEF StartClient, Goto, script, hist
  <2>3. Left(unwaited)' = Left(unwaited) /\ Left(hung)' = Left(hung)
    BY <2>2 DEF Left
  <2>4. ASSUME NEW r \in Serving(t), r # run PROVE Left(unwaited)
    <3>1. r \in Runs /\ server[r][t].state = "running" /\ labOf[r] = lab
      BY <2>4 DEF Serving
    <3>2. r < run
      BY <2>2, <2>4, <3>1 DEF FutureInv, NotStarted, Runs
    <3>3. ~server[r][t].exitFile
      BY <3>1 DEF FutureInv
    <3>4. r \in unwaited
      BY <3>1, <3>2, <3>3 DEF ServersAccountedFor, Over
    <3>5. QED
      BY <2>2, <2>4, <3>1, <3>4 DEF Left
  <2>5. measure'.with # -1
    <3>1. CASE Serving(t) = {}
      BY <2>1, <3>1
    <3>2. CASE Serving(t) # {}
      BY <2>1, <3>2 DEF Serving, Runs
    <3>3. QED
      BY <3>1, <3>2
  <2>6. measure'.with \in {0, run} \/ Left(unwaited)
    BY <2>1, <2>4
  <2>7. measure'.alone \/ Left(hung)
    <3>1. ASSUME NEW r \in orphans, labOf[r] = lab PROVE Left(hung)
      <4>1. r \in hung /\ run \notin hung
        BY <2>2, <3>1 DEF ServerTypes, OwnInv
      <4>2. QED
        BY <2>2, <3>1, <4>1 DEF Left
    <3>2. QED
      BY <2>1, <3>1
  <2>8. QED
    BY <2>2, <2>3, <2>5, <2>6, <2>7
<1>14. CASE ClientSucceeds
  BY <1>14 DEF ClientSucceeds, Goto, script, hist
<1>15. CASE ClientFails
  BY <1>15 DEF ClientFails, Goto, Raise
<1>16. CASE ClientTimesOut
  BY <1>16 DEF ClientTimesOut, Goto, Raise
<1>17. CASE CellDone
  BY <1>17 DEF CellDone, Goto, script, hist
<1>18. CASE KillServer
  BY <1>18 DEF KillServer, Goto, script, hist
<1>19. CASE AllKilled
  BY <1>19 DEF AllKilled, Goto, script, hist
<1>20. CASE WaitServer
  BY <1>20 DEF WaitServer, Goto, script, hist
<1>21. CASE WaitTimesOut
  BY <1>21 DEF WaitTimesOut, Goto, script, hist
<1>22. CASE EndRun
  BY <1>22 DEF EndRun, Goto, script, hist
<1>23. ASSUME NEW r \in Runs, OrphanEnds(r) PROVE OwnInv'
  BY <1>23 DEF OrphanEnds, script, hist
<1>24. ASSUME NEW r \in Runs, NEW s \in Servers, ServerEnds(r, s) PROVE OwnInv'
  BY <1>24 DEF ServerEnds, script, hist
<1>25. ASSUME NEW i \in Ifaces, Meddle(i) PROVE OwnInv'
  <2>1. /\ pc' = pc /\ UNCHANGED <<run, unwaited, hung, labOf>>
        /\ measure' # Nothing => measure # Nothing
        /\ measure'.with = measure.with /\ measure'.alone = measure.alone
    <3>1. pc' = pc /\ UNCHANGED <<run, unwaited, hung, labOf>> /\ (pc # "measure" => measure' = measure)
      BY <1>25 DEF Meddle, script
    <3>2. measure.with # -1 => measure # Nothing
      BY DEF Nothing
    <3>3. CASE pc = "measure"
      <4>1. measure' = [measure EXCEPT !.wrong = @ \cup {i}]
        BY <1>25, <3>3 DEF Meddle
      <4>2. QED
        BY <3>1, <3>2, <3>3, <4>1 DEF LinkTypes, AMeasure
    <3>4. QED
      BY <3>1, <3>3
  <2>2. QED
    BY <1>25, <2>1
<1>26. CASE UNCHANGED vars
  BY <1>26 DEF vars, script, hist
<1>27. QED
  BY <1>1, <1>2, <1>3, <1>4, <1>5, <1>6, <1>7, <1>8, <1>9, <1>10,
     <1>11, <1>12, <1>13, <1>14, <1>15, <1>16, <1>17, <1>18, <1>19, <1>20,
     <1>21, <1>22, <1>23, <1>24, <1>25, <1>26
     DEF Next, Grid, Shape, Client, Cleanup

\* Every step keeps ServersAccountedFor.
LEMMA AccountedStep ==
  ASSUME ScriptTypes, ServerTypes, FutureInv, ServerInv, ResultsInv,
         ServersAccountedFor, [Next]_vars
  PROVE  ServersAccountedFor'
<1> USE DEF ServersAccountedFor, Over, InRun, ScriptTypes
<1>1. CASE Enter
  BY <1>1 DEF Enter, Goto, hist
<1>2. CASE Exit
  BY <1>2 DEF Exit, Goto, script, hist
<1>3. CASE BeginRun
  <2>1. ~InRun /\ run' = run + 1 /\ InRun' /\ UNCHANGED <<server, outcome, unwaited, hung>>
    BY <1>3 DEF BeginRun, Goto, hist
  <2>2. \A r \in Runs : Over(r)' => Over(r) /\ r # run'
    BY <2>1 DEF Runs
  <2>3. QED
    BY <2>1, <2>2
<1>4. CASE StartServer
  <2>1. run \in Runs /\ next \in Servers
    BY <1>4 DEF StartServer, ScriptTypes, InRun
  <2>2. server[run][next] \in AServer
    BY <2>1 DEF ServerTypes
  <2>3. PICK v : v = [server[run][next] EXCEPT !.state = "running", !.bound = (Serving(next) = {})]
    OBVIOUS
  <2>4. server' = [server EXCEPT ![run][next] = v]
    BY <1>4, <2>3 DEF StartServer, Mine
  <2>5. /\ server'[run][next] = v
        /\ \A q \in Runs, t \in Servers : q # run \/ t # next => server'[q][t] = server[q][t]
        /\ \A q \in Runs : q # run => server'[q] = server[q]
    BY <2>1, <2>4, OneServer
  <2>6. InRun /\ UNCHANGED <<pc, run, outcome, unwaited, hung>>
    BY <1>4 DEF StartServer, script, hist
  <2>7. \A r \in Runs : Over(r)' => Over(r) /\ r # run
    BY <2>6 DEF Runs
  <2>8. QED
    BY <2>5, <2>6, <2>7
<1>5. CASE StartFails
  BY <1>5 DEF StartFails, Goto, Raise
<1>6. CASE CheckServers
  BY <1>6 DEF CheckServers, Goto, Raise
<1>7. CASE BeginCell
  BY <1>7 DEF BeginCell, Goto, script, hist
<1>8. CASE Clear
  BY <1>8 DEF Clear, Goto, script, hist, Shaping
<1>9. CASE ClearIgnored
  BY <1>9 DEF ClearIgnored, Goto, script, hist, Shaping
<1>10. CASE Apply
  BY <1>10 DEF Apply, Goto, script, hist, Shaping
<1>11. CASE ShapeFails
  BY <1>11 DEF ShapeFails, Goto, Raise, Shaping
<1>12. CASE Shaped
  BY <1>12 DEF Shaped, Goto, script, hist
<1>13. CASE StartClient
  BY <1>13 DEF StartClient, Goto, script, hist
<1>14. CASE ClientSucceeds
  BY <1>14 DEF ClientSucceeds, Goto, script, hist
<1>15. CASE ClientFails
  BY <1>15 DEF ClientFails, Goto, Raise
<1>16. CASE ClientTimesOut
  BY <1>16 DEF ClientTimesOut, Goto, Raise
<1>17. CASE CellDone
  BY <1>17 DEF CellDone, Goto, script, hist
<1>18. CASE KillServer
  <2>1. run \in Runs /\ next \in Servers
    BY <1>18 DEF KillServer, ScriptTypes, InRun
  <2>2. server[run][next] \in AServer
    BY <2>1 DEF ServerTypes
  <2>3. PICK v : v = [server[run][next] EXCEPT !.signalled = @ \/ Running(next)]
    OBVIOUS
  <2>4. server' = [server EXCEPT ![run][next] = v]
    BY <1>18, <2>3 DEF KillServer, Mine
  <2>5. /\ server'[run][next] = v
        /\ \A q \in Runs, t \in Servers : q # run \/ t # next => server'[q][t] = server[q][t]
        /\ \A q \in Runs : q # run => server'[q] = server[q]
    BY <2>1, <2>4, OneServer
  <2>6. InRun /\ UNCHANGED <<pc, run, outcome, unwaited, hung>>
    BY <1>18 DEF KillServer, script, hist
  <2>7. \A r \in Runs : Over(r)' => Over(r) /\ r # run
    BY <2>6 DEF Runs
  <2>8. QED
    BY <2>5, <2>6, <2>7
<1>19. CASE AllKilled
  BY <1>19 DEF AllKilled, Goto, script, hist
<1>20. CASE WaitServer
  <2>1. run \in Runs /\ next \in Servers
    BY <1>20 DEF WaitServer, ScriptTypes, InRun
  <2>2. server[run][next] \in AServer
    BY <2>1 DEF ServerTypes
  <2>3. PICK v : v = [server[run][next] EXCEPT !.exitFile = TRUE]
    OBVIOUS
  <2>4. server' = [server EXCEPT ![run][next] = v]
    BY <1>20, <2>3 DEF WaitServer, Mine
  <2>5. /\ server'[run][next] = v
        /\ \A q \in Runs, t \in Servers : q # run \/ t # next => server'[q][t] = server[q][t]
        /\ \A q \in Runs : q # run => server'[q] = server[q]
    BY <2>1, <2>4, OneServer
  <2>6. InRun /\ UNCHANGED <<pc, run, outcome, unwaited, hung>>
    BY <1>20 DEF WaitServer, script, hist
  <2>7. \A r \in Runs : Over(r)' => Over(r) /\ r # run
    BY <2>6 DEF Runs
  <2>8. QED
    BY <2>5, <2>6, <2>7
<1>21. CASE WaitTimesOut
  <2>1. /\ pc = "wait" /\ run \in Runs /\ unwaited' = unwaited \cup {run} /\ outcome' = [outcome EXCEPT ![run] = "raised"]
        /\ UNCHANGED <<server, run>>
    BY <1>21 DEF WaitTimesOut
  <2>2. \A r \in Runs : Over(r)' /\ r # run => Over(r) /\ outcome'[r] = outcome[r]
    BY <2>1
  <2>3. \A s \in Servers : server[run][s].state = "running" => server[run][s].signalled
    BY <2>1 DEF ServerInv, Told, Running, Mine
  <2>4. outcome'[run] = "raised"
    BY <2>1
  <2>5. ASSUME NEW q \in Runs, Over(q)', NEW s \in Servers
        PROVE  /\ server[q][s].state = "running" => server[q][s].signalled
               /\ server[q][s].state = "none" \/ server[q][s].exitFile \/ q \in unwaited'
               /\ outcome'[q] = "returned" => q # run /\ server[q][s].exitFile
    <3>1. CASE q = run
      BY <2>1, <2>3, <2>4, <3>1
    <3>2. CASE q # run
      BY <2>1, <2>2, <2>5, <3>2
    <3>3. QED
      BY <3>1, <3>2
  <2>6. ASSUME NEW q \in Runs, Over(q)' PROVE ~(outcome'[q] = "returned" /\ q = run')
    BY <2>1, <2>4
  <2>7. QED
    BY <2>1, <2>5, <2>6
<1>22. CASE EndRun
  <2>1. /\ pc = "wait" /\ run \in Runs /\ UNCHANGED <<server, run, unwaited, hung, results>>
        /\ outcome' = [outcome EXCEPT ![run] = IF @ = "raised" THEN @ ELSE "returned"]
        /\ next \in Servers => server[run][next].state = "none"
    BY <1>22 DEF EndRun, hist, Mine
  <2>2. \A r \in Runs : Over(r)' /\ r # run => Over(r) /\ outcome'[r] = outcome[r]
    BY <2>1
  <2>3. \A s \in Servers : /\ server[run][s].state = "running" => server[run][s].signalled
                           /\ s < next => server[run][s].exitFile
    BY <2>1 DEF ServerInv, Told, Running, Mine
  <2>4. \A s \in Servers : server[run][s].state # "none" => s < next
    <3>1. ASSUME NEW s \in Servers, server[run][s].state # "none", s >= next PROVE FALSE
      <4>1. next \in Servers /\ server[run][next].state = "none"
        BY <2>1, <3>1, ServerSet DEF Servers
      <4>2. next # s
        BY <3>1, <4>1, Zenon
      <4>3. \A m, n \in Servers : m >= n /\ n # m => n < m
        BY ServerSet, SMT
      <4>4. next < s
        BY <3>1, <4>1, <4>2, <4>3, Zenon
      <4>5. QED
        BY <2>1, <3>1, <4>1, <4>4 DEF ServerInv, Started, Mine
    <3>2. QED
      BY <3>1, ServerSet
  <2>5. outcome'[run] = "returned" =>
          results = Cardinality(Asked) /\ \A s \in Servers : server[run][s].state # "none"
    BY <2>1 DEF ServerInv, ResultsInv, Started, Mine
  <2>6. ASSUME NEW q \in Runs, Over(q)', NEW s \in Servers
        PROVE  /\ server[q][s].state = "running" => server[q][s].signalled
               /\ server[q][s].state = "none" \/ server[q][s].exitFile \/ q \in unwaited
               /\ outcome'[q] = "returned" => server[q][s].exitFile
    <3>1. CASE q = run
      <4>1. run \in Runs /\ s \in Servers
        BY <2>1, <2>6
      <4>2. server[run][s].state = "running" => server[run][s].signalled
        BY <2>3, <4>1
      <4>3. server[run][s].state = "none" \/ server[run][s].exitFile
        BY <2>3, <2>4, <4>1
      <4>4. outcome'[run] = "returned" => server[run][s].exitFile
        BY <2>5, <4>1, <4>3
      <4>5. QED
        BY <3>1, <4>2, <4>3, <4>4
    <3>2. CASE q # run
      BY <2>2, <2>6, <3>2
    <3>3. QED
      BY <3>1, <3>2
  <2>7. QED
    BY <2>1, <2>5, <2>6
<1>23. ASSUME NEW r \in Runs, OrphanEnds(r) PROVE ServersAccountedFor'
  BY <1>23 DEF OrphanEnds, script, hist
<1>24. ASSUME NEW r \in Runs, NEW s \in Servers, ServerEnds(r, s) PROVE ServersAccountedFor'
  <2>1. PICK v : v = [NotStarted EXCEPT !.state = "over"]
    OBVIOUS
  <2>2. server' = [server EXCEPT ![r][s] = v]
    BY <1>24, <2>1 DEF ServerEnds
  <2>3. /\ server'[r][s] = v
        /\ \A q \in Runs, t \in Servers : q # r \/ t # s => server'[q][t] = server[q][t]
        /\ \A q \in Runs : q # r => server'[q] = server[q]
    BY <2>2, OneServer
  <2>4. v.state = "over" /\ ~v.exitFile
    BY <2>1 DEF NotStarted
  <2>5. server[r][s].state = "running" /\ ~server[r][s].exitFile
    BY <1>24 DEF ServerEnds, FutureInv
  <2>6. UNCHANGED <<pc, run, outcome, unwaited, hung, results>>
    BY <1>24 DEF ServerEnds, script, hist
  <2>7. ASSUME NEW q \in Runs, Over(q)' PROVE Over(q) /\ outcome'[q] = outcome[q]
    BY <2>6, <2>7
  <2>8. QED
    BY <2>3, <2>4, <2>5, <2>6, <2>7
<1>25. ASSUME NEW i \in Ifaces, Meddle(i) PROVE ServersAccountedFor'
  BY <1>25 DEF Meddle, script, hist
<1>26. CASE UNCHANGED vars
  BY <1>26 DEF vars, script, hist
<1>27. QED
  BY <1>1, <1>2, <1>3, <1>4, <1>5, <1>6, <1>7, <1>8, <1>9, <1>10,
     <1>11, <1>12, <1>13, <1>14, <1>15, <1>16, <1>17, <1>18, <1>19, <1>20,
     <1>21, <1>22, <1>23, <1>24, <1>25, <1>26
     DEF Next, Grid, Shape, Client, Cleanup


-----------------------------------------------------------------------------
(* The inductive invariant, and the theorems.                              *)

\* IInv is an invariant.
THEOREM Invariance == Spec => []IInv
<1>1. Init => IInv
  <2>1. ASSUME Init PROVE ScriptTypes /\ LinkTypes
    BY <2>1, BoundsAssumption, CellsAssumption
       DEF Init, ScriptTypes, LinkTypes, Labels, InRun, Nothing, AMeasure
  <2>2. ASSUME Init PROVE ServerTypes /\ FutureInv
    BY <2>2 DEF Init, ServerTypes, AServer, NotStarted, FutureInv, Runs
  <2>3. ASSUME Init PROVE LinkInv /\ ServerInv /\ ResultsInv /\ OwnInv
    BY <2>3 DEF Init, LinkInv, ServerInv, ResultsInv, OwnInv, Normal, Measure
  <2>4. ASSUME Init PROVE ServersAccountedFor
    BY <2>4 DEF Init, ServersAccountedFor, Over, InRun, NotStarted, Runs
  <2>5. QED
    BY <2>1, <2>2, <2>3, <2>4 DEF IInv
<1>2. IInv /\ [Next]_vars => IInv'
  BY ScriptTypesStep, LinkTypesStep, ServerTypesStep, LinkStep, FutureStep, ServerStep,
     ResultsStep, OwnStep, AccountedStep DEF IInv
<1>3. QED
  BY <1>1, <1>2, PTL DEF Spec

\* Every result was measured on the links that its cell asks for: from LinkInv, the
\* wrong interfaces that a client has seen all have their excuse.
THEOREM OnTheRightLinks == Spec => []MeasuredAsAsked
<1>1. IInv => MeasuredAsAsked
  BY DEF IInv, LinkInv, MeasuredAsAsked, Measured, Excused, Measure
<1>2. QED
  BY <1>1, Invariance, PTL

\* Every result was measured with a server of its own run, unless an earlier run gave up
\* waiting for its own in the same lab, and alone, unless a client had timed out there.
THEOREM WithItsOwnServer == Spec => []MeasuredByItsOwn
<1>1. IInv => MeasuredByItsOwn
  BY DEF IInv, OwnInv, MeasuredByItsOwn, Measured, Measure
<1>2. QED
  BY <1>1, Invariance, PTL

\* What a run that is over leaves behind: all results and exit codes if it returns,
\* signals and exit codes for what it started if it raises.
THEOREM AllAccountedFor == Spec => []ServersAccountedFor
<1>1. IInv => ServersAccountedFor
  BY DEF IInv
<1>2. QED
  BY <1>1, Invariance, PTL

=============================================================================
