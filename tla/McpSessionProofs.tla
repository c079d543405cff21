-------------------------- MODULE McpSessionProofs --------------------------
(***************************************************************************)
(* Theorems about McpSession, for any number of handlers and processes,    *)
(* any bound on the count of run_command, and a server that drains its     *)
(* calls or does not.                                                      *)
(***************************************************************************)
EXTENDS McpSession, TLAPS

Starting == {"fork", "insert"}
Working  == {"select", "parked", "reap", "interrupt", "terminate", "check", "signal"}

Untouched(p) == p \notin table \cup stolen \cup reported \cup survived /\ reaper[p] = "none"

\* How far the reaper, or startProc in its place, has come.
ProcInv ==
  \A p \in Procs :
    /\ reaper[p] # "none" => child[p] \in {"running", "exited"}
    /\ reaper[p] \notin {"none", "wait"} => child[p] = "exited"
    /\ reaper[p] \in {"close", "store", "broadcast", "end"} => exitfile[p] \in {status[p], "empty"}
    /\ reaper[p] \in {"store", "broadcast", "end"} => ~open[p]
    /\ reaper[p] \in {"broadcast", "end"} => stored[p] = status[p]
    /\ done[p] => child[p] = "failed" \/ reaper[p] = "end"
    /\ child[p] = "failed" =>
         done[p] /\ ~open[p] /\ stored[p] = status[p] /\ exitfile[p] \in {status[p], "empty"}

\* A process that was not inserted yet is known to one handler at most, and the
\* table has processes that were started, or failed to.
FreshInv ==
  /\ \A p \in Procs : child[p] = "unused" =>
       Untouched(p) /\ \A h \in Handlers : pc[h] \in Working \cup Starting => Proc(h) # p
  /\ \A g \in Handlers : pc[g] \in Starting =>
       /\ Proc(g) \in Procs /\ Untouched(Proc(g))
       /\ child[Proc(g)] \in IF pc[g] = "fork" THEN {"prepared"} ELSE {"running", "exited", "failed"}
       /\ \A h \in Handlers \ {g} : pc[h] \in Working \cup Starting => Proc(h) # Proc(g)
  /\ \A p \in table : child[p] \in {"running", "exited", "failed"}

CallInv ==
  \A h \in Handlers :
    /\ pc[h] \in {"prepare", "lookup"} \cup Starting \cup Working => call[h].result = "none"
    /\ pc[h] \in {"prepare", "lookup"} => ~call[h].grace
    /\ pc[h] \in Working \cup {"lookup"} => Proc(h) \in Procs
    /\ pc[h] \in Working => child[Proc(h)] \in {"running", "exited", "failed"}
    /\ pc[h] = "reap" => done[Proc(h)]
    /\ call[h].result = "terminated" =>
         Proc(h) \in Procs /\ Over(Proc(h)) /\ call[h].code = status[Proc(h)]
    /\ pc[h] \in Working /\ server = "serving" => Proc(h) \in table \cup reported

\* What was sent to a process that run_command is about to give up on.
SignalInv ==
  \A h \in Handlers :
    /\ pc[h] = "terminate" => Over(Proc(h)) \/ "INT" \in signals[Proc(h)]
    /\ pc[h] \in Working \cup Starting /\ call[h].grace =>
         pc[h] \in Working /\ (Over(Proc(h)) \/ signals[Proc(h)] = Signals)

\* Once the server has drained its calls there are none.
DrainInv ==
  /\ server \in {"serving", "sweep"} => stolen = {}
  /\ Drains /\ server # "serving" => \A h \in Handlers : pc[h] = "idle"
  /\ Drains /\ server \notin {"serving", "sweep"} => table = {}

IInv == /\ TypeOK /\ ProcInv /\ FreshInv /\ CallInv /\ SignalInv /\ DrainInv
        /\ ReapIsOneShot /\ SurvivorStaysValid /\ GivesUpAfterSignals
        /\ SweepMissesOnlyLate /\ CleanExitLeavesNoChild

-----------------------------------------------------------------------------
(* What the steps of a handler do to it.                                   *)

Others(h) == \A g \in Handlers \ {h} : pc'[g] = pc[g] /\ call'[g] = call[g]

Typed == pc' \in [Handlers -> HandlerLabels] /\ call' \in [Handlers -> Calls]

Answers(h, result) ==
  /\ pc'[h] = "return" /\ call'[h].result = result
  /\ call'[h].proc = call[h].proc
  /\ Others(h) /\ Typed

\* An answer changes the result of the call and nothing else of it.
LEMMA ReturnAnswers ==
  ASSUME TypeOK, NEW h \in Handlers, NEW result \in Results, Return(h, result)
  PROVE  Answers(h, result)
<1>1. PICK c \in Calls : c = [call[h] EXCEPT !.result = result]
  BY DEF TypeOK, Calls
<1>2. c.proc = call[h].proc /\ c.result = result
  BY <1>1 DEF TypeOK, Calls
<1>3. call' = [call EXCEPT ![h] = c]
  BY <1>1 DEF Return
<1>4. QED
  BY <1>2, <1>3 DEF TypeOK, Return, Goto, Answers, Others, Typed, HandlerLabels

\* A call that begins has no result, and its grace period has not started.
LEMMA NoCallTyped == NoCall \in Calls /\ NoCall.result = "none" /\ NoCall.grace = FALSE
  BY MaxCountAssumption DEF NoCall, Calls, Tools, Results, Codes

\* A call that begins is the record it begins with.
LEMMA Begins ==
  ASSUME TypeOK, NEW h \in Handlers, NEW c \in Calls, c.result = "none", c.grace = FALSE,
         NEW label \in HandlerLabels, Goto(h, label), call' = [call EXCEPT ![h] = c]
  PROVE  /\ pc'[h] = label /\ call'[h].result = "none" /\ call'[h].grace = FALSE
         /\ call'[h].proc = c.proc
         /\ Others(h) /\ Typed
  BY DEF TypeOK, Goto, Others, Typed

Invoked(h) ==
  /\ pc[h] = "idle" /\ call'[h].result = "none" /\ call'[h].grace = FALSE
  /\ \/ pc'[h] = "prepare"
     \/ pc'[h] = "lookup" /\ call'[h].proc \in Procs
  /\ Others(h) /\ Typed
  /\ server = "serving" /\ UNCHANGED <<proc, table, server, stolen, hist>>

\* A new call has no result, and those for a given process look it up.
LEMMA InvokeEffect ==
  ASSUME TypeOK, NEW h \in Handlers, Invoke(h)
  PROVE  Invoked(h)
<1> USE DEF Invoked
<1>1. "prepare" \in HandlerLabels /\ "lookup" \in HandlerLabels
  BY DEF HandlerLabels
<1>2. pc[h] = "idle" /\ server = "serving" /\ UNCHANGED <<proc, table, server, stolen, hist>>
  BY DEF Invoke
<1>3. CASE \E n \in 1..MaxCount :
             /\ call' = [call EXCEPT ![h] = [NoCall EXCEPT !.tool = "run", !.left = n]]
             /\ Goto(h, "prepare")
  <2>1. PICK n \in 1..MaxCount :
             /\ call' = [call EXCEPT ![h] = [NoCall EXCEPT !.tool = "run", !.left = n]]
             /\ Goto(h, "prepare")
    BY <1>3
  <2> n \in 0..MaxCount
    BY MaxCountAssumption
  <2>2. PICK c \in Calls : c = [NoCall EXCEPT !.tool = "run", !.left = n]
    BY NoCallTyped DEF Calls, Tools
  <2>3. c.result = "none" /\ c.grace = FALSE
    BY <2>2, NoCallTyped DEF Calls
  <2>4. QED
    BY <1>1, <1>2, <2>1, <2>2, <2>3, Begins
<1>4. CASE call' = [call EXCEPT ![h] = [NoCall EXCEPT !.tool = "start"]] /\ Goto(h, "prepare")
  <2>1. PICK c \in Calls : c = [NoCall EXCEPT !.tool = "start"]
    BY NoCallTyped DEF Calls, Tools
  <2>2. c.result = "none" /\ c.grace = FALSE
    BY <2>1, NoCallTyped DEF Calls
  <2>3. QED
    BY <1>1, <1>2, <1>4, <2>1, <2>2, Begins
<1>5. CASE \E tool \in {"wait", "kill"}, p \in {q \in Procs : child[q] # "unused"} :
             /\ call' = [call EXCEPT ![h] = [NoCall EXCEPT !.tool = tool, !.proc = p]]
             /\ Goto(h, "lookup")
  <2>1. PICK tool \in {"wait", "kill"}, p \in Procs :
             /\ call' = [call EXCEPT ![h] = [NoCall EXCEPT !.tool = tool, !.proc = p]]
             /\ Goto(h, "lookup")
    BY <1>5
  <2>2. PICK c \in Calls : c = [NoCall EXCEPT !.tool = tool, !.proc = p]
    BY NoCallTyped DEF Calls, Tools, TypeOK
  <2>3. c.result = "none" /\ c.grace = FALSE /\ c.proc = p
    BY <2>2, NoCallTyped DEF Calls
  <2>4. QED
    BY <1>1, <1>2, <2>1, <2>2, <2>3, Begins
<1>6. QED
  BY <1>3, <1>4, <1>5 DEF Invoke

Restarted(h) ==
  /\ pc[h] = "return" /\ pc'[h] = "prepare"
  /\ call'[h].result = "none" /\ call'[h].grace = FALSE
  /\ Others(h) /\ Typed
  /\ UNCHANGED <<proc, table, server, stolen, hist>>

\* The next run starts as the first one did.
LEMMA NextRunEffect ==
  ASSUME TypeOK, NEW h \in Handlers, NextRun(h)
  PROVE  Restarted(h)
<1> USE DEF Restarted
<1>1. PICK n \in 0..MaxCount : n = call[h].left - 1
  BY MaxCountAssumption DEF NextRun, MoreRuns, TypeOK, Calls
<1>2. PICK c \in Calls : c = [NoCall EXCEPT !.tool = "run", !.left = n]
  BY NoCallTyped DEF Calls, Tools
<1>3. c.result = "none" /\ c.grace = FALSE
  BY <1>2, NoCallTyped DEF Calls
<1>4. call' = [call EXCEPT ![h] = c] /\ Goto(h, "prepare") /\ "prepare" \in HandlerLabels
  BY <1>1, <1>2 DEF NextRun, HandlerLabels
<1>5. QED
  BY <1>3, <1>4, Begins DEF NextRun

Replied(h) ==
  /\ pc'[h] = "idle"
  /\ call'[h].result = "none" /\ call'[h].grace = FALSE
  /\ Others(h) /\ Typed
  /\ UNCHANGED <<proc, table, server, stolen, hist>>

\* A handler that replied is idle.
LEMMA ReplyEffect ==
  ASSUME TypeOK, NEW h \in Handlers, Reply(h)
  PROVE  Replied(h)
<1> USE DEF Replied
<1>1. Goto(h, "idle") /\ call' = [call EXCEPT ![h] = NoCall] /\ "idle" \in HandlerLabels
  BY DEF Reply, HandlerLabels
<1>2. QED
  BY <1>1, NoCallTyped, Begins DEF Reply

Reaped(h) ==
  /\ pc'[h] = "return" /\ call'[h].proc = call[h].proc
  /\ call'[h].code = stored[Proc(h)] /\ call'[h].result = "terminated"
  /\ Others(h) /\ Typed

\* The answer after a reap has the stored exit code.
LEMMA ReapEffect ==
  ASSUME TypeOK, NEW h \in Handlers, Reap(h), Proc(h) \in Procs
  PROVE  Reaped(h)
<1> USE DEF Reaped
<1>1. PICK code \in Codes : code = stored[call[h].proc]
  BY DEF TypeOK, Proc
<1>2. PICK c \in Calls : c = [call[h] EXCEPT !.result = "terminated", !.code = code]
  BY DEF TypeOK, Calls, Results
<1>3. /\ c.proc = call[h].proc /\ c.result = "terminated"
      /\ c.code = stored[call[h].proc]
  BY <1>1, <1>2 DEF TypeOK, Calls
<1>4. call' = [call EXCEPT ![h] = c]
  BY <1>1, <1>2 DEF Reap, Proc, TypeOK
<1>5. QED
  BY <1>3, <1>4 DEF TypeOK, Reap, Goto, Others, Typed, HandlerLabels, Proc

Looked(h) ==
  /\ pc[h] = "lookup" /\ UNCHANGED <<proc, table, server, stolen, hist>>
  /\ \/ /\ Proc(h) \in table /\ pc'[h] \in {"select", "check"}
        /\ UNCHANGED call /\ Others(h) /\ Typed
     \/ Answers(h, "not_found")

\* The steps that look at done and may answer.
LEMMA LookupEffect ==
  ASSUME TypeOK, NEW h \in Handlers, Lookup(h)
  PROVE  Looked(h)
<1> USE DEF Looked
<1>1. CASE Proc(h) \in table
  BY <1>1 DEF Lookup, Goto, TypeOK, Others, Typed, HandlerLabels
<1>2. CASE Proc(h) \notin table
  BY <1>2, ReturnAnswers DEF Lookup, Results
<1>3. QED
  BY <1>1, <1>2

Checked(h) ==
  /\ pc[h] = "check" /\ UNCHANGED <<proc, table, server, stolen, hist>>
  /\ \/ pc'[h] = "signal" /\ UNCHANGED call /\ Others(h) /\ Typed
     \/ Answers(h, "already_done")

\* The kill tool goes on to signal, or answers.
LEMMA CheckEffect ==
  ASSUME TypeOK, NEW h \in Handlers, Check(h), Proc(h) \in Procs
  PROVE  Checked(h)
<1> USE DEF Checked
<1>1. CASE ~done[Proc(h)]
  BY <1>1 DEF Check, Goto, TypeOK, Others, Typed, HandlerLabels
<1>2. CASE done[Proc(h)]
  BY <1>2, ReturnAnswers DEF Check, Results
<1>3. QED
  BY <1>1, <1>2

\* Signals are only added, and to children that run.
Sent(p, signal) ==
  /\ signals' \in [Procs -> SUBSET Signals]
  /\ signal \in signals'[p] \/ child[p] # "running"
  /\ \A q \in Procs : signals[q] \subseteq signals'[q]

\* A signal is sent to a child that runs, and dropped otherwise.
LEMMA SendAdds ==
  ASSUME TypeOK, NEW p \in Procs, NEW signal \in Signals, Send(p, signal)
  PROVE  Sent(p, signal)
<1>1. CASE child[p] = "running"
  BY <1>1 DEF Send, Sent, TypeOK
<1>2. CASE child[p] # "running"
  BY <1>2 DEF Send, Sent, TypeOK
<1>3. QED
  BY <1>1, <1>2

Signalled(h) ==
  /\ pc[h] = "signal" /\ Sent(Proc(h), "INT")
  /\ Answers(h, "signalled") \/ Answers(h, "already_done")

\* The kill tool answers after it sent SIGINT.
LEMMA SignalEffect ==
  ASSUME TypeOK, NEW h \in Handlers, Signal(h), Proc(h) \in Procs
  PROVE  Signalled(h)
<1> USE DEF Signalled
<1>1. Sent(Proc(h), "INT")
  <2>1. PICK p \in Procs : p = Proc(h)
    OBVIOUS
  <2>2. Send(p, "INT")
    BY <2>1 DEF Signal, Send
  <2>3. Sent(p, "INT")
    BY <2>2, SendAdds DEF Signals
  <2>4. QED
    BY <2>1, <2>3 DEF Sent
<1>2. CASE reaper[Proc(h)] = "wait"
  BY <1>1, <1>2, ReturnAnswers DEF Signal, Results
<1>3. CASE reaper[Proc(h)] # "wait"
  BY <1>1, <1>3, ReturnAnswers DEF Signal, Results
<1>4. QED
  BY <1>2, <1>3


Interrupted(h) ==
  /\ signals' \in [Procs -> SUBSET Signals]
  /\ \A q \in Procs : signals[q] \subseteq signals'[q]
  /\ done[Proc(h)] \/ child[Proc(h)] # "running" \/ "INT" \in signals'[Proc(h)]

\* The first signal of a run that timed out.
LEMMA InterruptEffect ==
  ASSUME TypeOK, NEW h \in Handlers, Interrupt(h), Proc(h) \in Procs
  PROVE  Interrupted(h)
<1> USE DEF Interrupted
<1>1. CASE done[Proc(h)]
  BY <1>1 DEF Interrupt, TypeOK
<1>2. CASE ~done[Proc(h)]
  <2>1. PICK p \in Procs : p = Proc(h)
    OBVIOUS
  <2>2. Send(p, "INT")
    BY <1>2, <2>1 DEF Interrupt, Send
  <2>3. Sent(p, "INT")
    BY <2>2, SendAdds DEF Signals
  <2>4. QED
    BY <2>1, <2>3 DEF Sent
<1>3. QED
  BY <1>1, <1>2

Terminated(h) ==
  /\ signals' \in [Procs -> SUBSET Signals]
  /\ \A q \in Procs : signals[q] \subseteq signals'[q]
  /\ done[Proc(h)] \/ child[Proc(h)] # "running" \/ "TERM" \in signals'[Proc(h)]
  /\ pc'[h] = "select" /\ call'[h].proc = call[h].proc
  /\ call'[h].result = call[h].result
  /\ Others(h) /\ Typed

\* The second one, after which a grace period starts.
LEMMA TerminateEffect ==
  ASSUME TypeOK, NEW h \in Handlers, Terminate(h), Proc(h) \in Procs
  PROVE  Terminated(h)
<1> USE DEF Terminated
<1>1. /\ signals' \in [Procs -> SUBSET Signals]
      /\ \A q \in Procs : signals[q] \subseteq signals'[q]
      /\ done[Proc(h)] \/ child[Proc(h)] # "running" \/ "TERM" \in signals'[Proc(h)]
  <2>1. CASE done[Proc(h)]
    BY <2>1 DEF Terminate, TypeOK
  <2>2. CASE ~done[Proc(h)]
    <3>1. PICK p \in Procs : p = Proc(h)
      OBVIOUS
    <3>2. Send(p, "TERM")
      BY <2>2, <3>1 DEF Terminate, Send
    <3>3. Sent(p, "TERM")
      BY <3>2, SendAdds DEF Signals
    <3>4. QED
      BY <3>1, <3>3 DEF Sent
  <2>3. QED
    BY <2>1, <2>2
<1>2. PICK c \in Calls : c = [call[h] EXCEPT !.grace = TRUE]
  BY DEF TypeOK, Calls
<1>3. c.proc = call[h].proc /\ c.grace = TRUE /\ c.result = call[h].result
  BY <1>2 DEF TypeOK, Calls
<1>4. call' = [call EXCEPT ![h] = c]
  BY <1>2 DEF Terminate
<1>5. QED
  BY <1>1, <1>3, <1>4 DEF TypeOK, Terminate, Goto, Others, Typed, HandlerLabels

Expired(h) ==
  \/ /\ pc'[h] = "interrupt" /\ ~call[h].grace
     /\ UNCHANGED <<call, survived>>
     /\ Others(h) /\ Typed
  \/ /\ Answers(h, "running")
     /\ survived' = survived \/ (call[h].grace /\ survived' = survived \cup {Proc(h)})

\* A context that expires.
LEMMA ExpireEffect ==
  ASSUME TypeOK, NEW h \in Handlers, Expire(h)
  PROVE  Expired(h)
<1> USE DEF Expired
<1>1. CASE call[h].tool = "run" /\ ~call[h].grace
  BY <1>1 DEF Expire, Goto, TypeOK, Others, Typed, HandlerLabels
<1>2. CASE ~(call[h].tool = "run" /\ ~call[h].grace)
  <2>1. Return(h, "running") /\ "running" \in Results
    BY <1>2 DEF Expire, Results
  <2>2. Answers(h, "running")
    BY <2>1, ReturnAnswers
  <2>3. QED
    BY <1>2, <2>2 DEF Expire
<1>3. QED
  BY <1>1, <1>2

-----------------------------------------------------------------------------
(* Every step keeps each part of the invariant.                            *)

\* A handler past its lookup or its preparation has a process.
LEMMA HasProc ==
  ASSUME CallInv, FreshInv, NEW h \in Handlers, pc[h] \in Working \cup Starting \cup {"lookup"}
  PROVE  Proc(h) \in Procs
  BY DEF CallInv, FreshInv

\* The types.
LEMMA TypeStep ==
  ASSUME TypeOK, CallInv, FreshInv, [Next]_vars
  PROVE  TypeOK'
<1> USE DEF TypeOK
<1>1. ASSUME NEW h \in Handlers, Invoke(h) PROVE TypeOK'
  BY <1>1, InvokeEffect DEF Invoked, Typed, proc, hist
<1>2. ASSUME NEW h \in Handlers, Prepare(h) PROVE TypeOK'
  <2>1. PICK p \in Procs :
             /\ child'    = [child    EXCEPT ![p] = "prepared"]
             /\ exitfile' = [exitfile EXCEPT ![p] = "empty"]
             /\ open'     = [open     EXCEPT ![p] = TRUE]
             /\ call'     = [call     EXCEPT ![h].proc = p]
    BY <1>2 DEF Prepare
  <2>2. PICK c \in Calls : c = [call[h] EXCEPT !.proc = p]
    BY DEF Calls
  <2>3. call' = [call EXCEPT ![h] = c]
    BY <2>1, <2>2
  <2>4. QED
    BY <1>2, <2>1, <2>3 DEF Prepare, Goto, HandlerLabels, hist
<1>3. ASSUME NEW h \in Handlers, PrepareFails(h) PROVE TypeOK'
  <2>1. Answers(h, "error")
    BY <1>3, ReturnAnswers DEF PrepareFails, Results
  <2>2. QED
    BY <1>3, <2>1 DEF PrepareFails, Answers, Typed, hist
<1>4. ASSUME NEW h \in Handlers, Fork(h) PROVE TypeOK'
  <2>1. Proc(h) \in Procs
    BY <1>4, HasProc DEF Fork, Starting
  <2>2. QED
    BY <1>4, <2>1 DEF Fork, Goto, HandlerLabels, hist
<1>5. ASSUME NEW h \in Handlers, ForkFails(h) PROVE TypeOK'
  <2>1. Proc(h) \in Procs
    BY <1>5, HasProc DEF ForkFails, Starting
  <2>2. QED
    BY <1>5, <2>1 DEF ForkFails, Goto, HandlerLabels, Codes, hist
<1>6. ASSUME NEW h \in Handlers, Insert(h) PROVE TypeOK'
  <2>1. Proc(h) \in Procs
    BY <1>6, HasProc DEF Insert, Starting
  <2>2. table' \subseteq Procs /\ reaper' \in [Procs -> ReaperLabels]
    BY <1>6, <2>1 DEF Insert, ReaperLabels
  <2>3. Typed
    BY <1>6, ReturnAnswers DEF Insert, Goto, Answers, Typed, HandlerLabels, Results
  <2>4. QED
    BY <1>6, <2>2, <2>3 DEF Insert, Typed, hist
<1>7. ASSUME NEW h \in Handlers, Lookup(h) PROVE TypeOK'
  BY <1>7, LookupEffect DEF Looked, Answers, Typed, proc, hist
<1>8. ASSUME NEW h \in Handlers, SelectDone(h) PROVE TypeOK'
  BY <1>8 DEF SelectDone, Goto, HandlerLabels, proc, hist
<1>9. ASSUME NEW h \in Handlers, SelectExpired(h) PROVE TypeOK'
  <2>1. Proc(h) \in Procs
    BY <1>9, HasProc DEF SelectExpired, Working
  <2>2. QED
    BY <1>9, <2>1, ExpireEffect DEF Expired, SelectExpired, Answers, Typed, proc
<1>10. ASSUME NEW h \in Handlers, Park(h) PROVE TypeOK'
  BY <1>10 DEF Park, Goto, HandlerLabels, proc, hist
<1>11. ASSUME NEW h \in Handlers, TimerFires(h) PROVE TypeOK'
  <2>1. Proc(h) \in Procs
    BY <1>11, HasProc DEF TimerFires, Working
  <2>2. QED
    BY <1>11, <2>1, ExpireEffect DEF Expired, TimerFires, Answers, Typed, proc
<1>12. ASSUME NEW h \in Handlers, Reap(h) PROVE TypeOK'
  <2>1. Proc(h) \in Procs
    BY <1>12, HasProc DEF Reap, Working
  <2>2. Typed
    BY <1>12, <2>1, ReapEffect DEF Reaped
  <2>3. QED
    BY <1>12, <2>1, <2>2 DEF Reap, Typed, proc
<1>13. ASSUME NEW h \in Handlers, NextRun(h) PROVE TypeOK'
  BY <1>13, NextRunEffect DEF Restarted, Typed, proc, hist
<1>14. ASSUME NEW h \in Handlers, Reply(h) PROVE TypeOK'
  BY <1>14, ReplyEffect DEF Replied, Typed, proc, hist
<1>15. ASSUME NEW h \in Handlers, Interrupt(h) PROVE TypeOK'
  <2>1. Proc(h) \in Procs
    BY <1>15, HasProc DEF Interrupt, Working
  <2>2. signals' \in [Procs -> SUBSET Signals]
    BY <1>15, <2>1, InterruptEffect DEF Interrupted
  <2>3. QED
    BY <1>15, <2>2 DEF Interrupt, Goto, HandlerLabels, hist
<1>16. ASSUME NEW h \in Handlers, Terminate(h) PROVE TypeOK'
  <2>1. Proc(h) \in Procs
    BY <1>16, HasProc DEF Terminate, Working
  <2>2. signals' \in [Procs -> SUBSET Signals] /\ Typed
    BY <1>16, <2>1, TerminateEffect DEF Terminated
  <2>3. QED
    BY <1>16, <2>2 DEF Terminate, Typed, hist
<1>17. ASSUME NEW h \in Handlers, Check(h) PROVE TypeOK'
  <2>1. Proc(h) \in Procs
    BY <1>17, HasProc DEF Check, Working
  <2>2. QED
    BY <1>17, <2>1, CheckEffect DEF Checked, Answers, Typed, proc, hist
<1>18. ASSUME NEW h \in Handlers, Signal(h) PROVE TypeOK'
  <2>1. Proc(h) \in Procs
    BY <1>18, HasProc DEF Signal, Working
  <2>2. QED
    BY <1>18, <2>1, SignalEffect DEF Signalled, Signal, Sent, Answers, Typed, hist
<1>19. ASSUME NEW p \in Procs, Exit(p) PROVE TypeOK'
  BY <1>19 DEF Exit, Codes, hist
<1>20. ASSUME NEW p \in Procs, ReaperWaits(p) PROVE TypeOK'
  BY <1>20 DEF ReaperWaits, ReaperGoto, ReaperLabels, hist
<1>21. ASSUME NEW p \in Procs, ReaperWrites(p) PROVE TypeOK'
  BY <1>21 DEF ReaperWrites, ReaperGoto, ReaperLabels, hist
<1>22. ASSUME NEW p \in Procs, ReaperCloses(p) PROVE TypeOK'
  BY <1>22 DEF ReaperCloses, ReaperGoto, ReaperLabels, hist
<1>23. ASSUME NEW p \in Procs, ReaperStores(p) PROVE TypeOK'
  BY <1>23 DEF ReaperStores, ReaperGoto, ReaperLabels, hist
<1>24. ASSUME NEW p \in Procs, ReaperBroadcasts(p) PROVE TypeOK'
  BY <1>24 DEF ReaperBroadcasts, ReaperGoto, ReaperLabels, HandlerLabels, hist
<1>25. CASE RunReturns
  BY <1>25 DEF RunReturns, proc, hist
<1>26. CASE Sweep
  BY <1>26 DEF Sweep, proc, hist
<1>27. CASE SweepSignals
  BY <1>27 DEF SweepSignals, Signals, hist
<1>28. CASE SweepAwaits
  BY <1>28 DEF SweepAwaits, proc, hist
<1>29. CASE SweepEnds
  BY <1>29 DEF SweepEnds, proc, hist
<1>30. CASE SweepExpires
  BY <1>30 DEF SweepExpires, proc, hist
<1>31. CASE UNCHANGED vars
  BY <1>31 DEF vars, proc, hist
<1>32. QED
  BY <1>1, <1>2, <1>3, <1>4, <1>5, <1>6, <1>7, <1>8, <1>9, <1>10, <1>11, <1>12,
     <1>13, <1>14, <1>15, <1>16, <1>17, <1>18, <1>19, <1>20, <1>21, <1>22, <1>23,
     <1>24, <1>25, <1>26, <1>27, <1>28, <1>29, <1>30, <1>31
     DEF Next, HandlerStep, StartStep, WaitStep, SignalStep, ReaperStep, CleanupStep

\* The work of the reapers.
LEMMA ProcStep ==
  ASSUME TypeOK, FreshInv, ProcInv, [Next]_vars
  PROVE  ProcInv'
<1> USE DEF TypeOK, FreshInv, ProcInv, Starting, Untouched, Proc
<1>1. ASSUME NEW h \in Handlers, Prepare(h) PROVE ProcInv'
  BY <1>1 DEF Prepare, Goto
<1>2. ASSUME NEW h \in Handlers, PrepareFails(h) PROVE ProcInv'
  BY <1>2 DEF PrepareFails, Return, Goto
<1>3. ASSUME NEW h \in Handlers, Fork(h) PROVE ProcInv'
  BY <1>3 DEF Fork, Goto
<1>4. ASSUME NEW h \in Handlers, ForkFails(h) PROVE ProcInv'
  BY <1>4 DEF ForkFails, Goto
<1>5. ASSUME NEW h \in Handlers, Insert(h) PROVE ProcInv'
  BY <1>5 DEF Insert, Goto, Return
<1>6. ASSUME NEW p \in Procs, Exit(p) PROVE ProcInv'
  BY <1>6 DEF Exit
<1>7. ASSUME NEW p \in Procs, ReaperWaits(p) PROVE ProcInv'
  BY <1>7 DEF ReaperWaits, ReaperGoto
<1>8. ASSUME NEW p \in Procs, ReaperWrites(p) PROVE ProcInv'
  BY <1>8 DEF ReaperWrites, ReaperGoto
<1>9. ASSUME NEW p \in Procs, ReaperCloses(p) PROVE ProcInv'
  BY <1>9 DEF ReaperCloses, ReaperGoto
<1>10. ASSUME NEW p \in Procs, ReaperStores(p) PROVE ProcInv'
  BY <1>10 DEF ReaperStores, ReaperGoto
<1>11. ASSUME NEW p \in Procs, ReaperBroadcasts(p) PROVE ProcInv'
  BY <1>11 DEF ReaperBroadcasts, ReaperGoto
<1>12. CASE UNCHANGED <<child, status, exitfile, open, stored, done, reaper>>
  BY <1>12
<1>13. ASSUME NEW h \in Handlers,
              Invoke(h) \/ Lookup(h) \/ WaitStep(h) \/ SignalStep(h) \/ Reply(h)
       PROVE  UNCHANGED <<child, status, exitfile, open, stored, done, reaper>>
  BY <1>13 DEF Invoke, Lookup, WaitStep, SignalStep, Reply, SelectDone, SelectExpired, Park,
               TimerFires, Reap, NextRun, Interrupt, Terminate, Check, Signal, proc
<1>14. ASSUME RunReturns \/ CleanupStep \/ UNCHANGED vars
       PROVE  UNCHANGED <<child, status, exitfile, open, stored, done, reaper>>
  BY <1>14 DEF RunReturns, CleanupStep, Sweep, SweepSignals, SweepAwaits, SweepEnds,
               SweepExpires, vars, proc
<1>15. QED
  <2> HIDE DEF TypeOK, FreshInv, ProcInv
  <2> QED
    BY <1>1, <1>2, <1>3, <1>4, <1>5, <1>6, <1>7, <1>8, <1>9, <1>10, <1>11, <1>12, <1>13, <1>14
       DEF Next, HandlerStep, StartStep, ReaperStep

\* Processes that are not inserted yet.
LEMMA FreshStep ==
  ASSUME TypeOK, ProcInv, CallInv, FreshInv, [Next]_vars
  PROVE  FreshInv'
<1> USE DEF FreshInv, Working, Starting, Untouched, Proc, proc, hist
<1>1. ASSUME NEW h \in Handlers, Invoke(h) PROVE FreshInv'
  <2>1. Invoked(h)
    BY <1>1, InvokeEffect
  <2>2. QED
    BY <2>1 DEF Invoked, Others
<1>2. ASSUME NEW h \in Handlers, Prepare(h) PROVE FreshInv'
  BY <1>2 DEF Prepare, Goto, TypeOK
<1>3. ASSUME NEW h \in Handlers, PrepareFails(h) PROVE FreshInv'
  BY <1>3 DEF PrepareFails, Return, Goto, TypeOK
<1>4. ASSUME NEW h \in Handlers, Fork(h) PROVE FreshInv'
  BY <1>4 DEF Fork, Goto, TypeOK
<1>5. ASSUME NEW h \in Handlers, ForkFails(h) PROVE FreshInv'
  BY <1>5 DEF ForkFails, Goto, TypeOK
<1>6. ASSUME NEW h \in Handlers, Insert(h) PROVE FreshInv'
  BY <1>6 DEF Insert, Goto, Return, TypeOK
<1>7. ASSUME NEW h \in Handlers, Lookup(h) PROVE FreshInv'
  <2>1. Looked(h)
    BY <1>7, LookupEffect
  <2>2. CASE Answers(h, "not_found")
    BY <2>1, <2>2 DEF Looked, Answers, Others
  <2>3. CASE ~Answers(h, "not_found")
    BY <2>1, <2>3 DEF Looked, Others
  <2>4. QED
    BY <2>2, <2>3
<1>8. ASSUME NEW h \in Handlers, SelectDone(h) PROVE FreshInv'
  BY <1>8 DEF SelectDone, Goto, TypeOK
<1>9. ASSUME NEW h \in Handlers, SelectExpired(h) PROVE FreshInv'
  <2>1. Expired(h)
    BY <1>9, ExpireEffect DEF SelectExpired
  <2>2. Proc(h) \in Procs
    BY <1>9, HasProc DEF SelectExpired
  <2>3. QED
    BY <1>9, <2>1, <2>2 DEF SelectExpired, Expired, Answers, Others
<1>10. ASSUME NEW h \in Handlers, Park(h) PROVE FreshInv'
  BY <1>10 DEF Park, Goto, TypeOK
<1>11. ASSUME NEW h \in Handlers, TimerFires(h) PROVE FreshInv'
  <2>1. Expired(h)
    BY <1>11, ExpireEffect DEF TimerFires
  <2>2. Proc(h) \in Procs
    BY <1>11, HasProc DEF TimerFires
  <2>3. QED
    BY <1>11, <2>1, <2>2 DEF TimerFires, Expired, Answers, Others
<1>12. ASSUME NEW h \in Handlers, Reap(h) PROVE FreshInv'
  BY <1>12 DEF Reap, Goto, TypeOK
<1>13. ASSUME NEW h \in Handlers, NextRun(h) PROVE FreshInv'
  <2>1. Restarted(h)
    BY <1>13, NextRunEffect
  <2>2. QED
    BY <2>1 DEF Restarted, Others
<1>14. ASSUME NEW h \in Handlers, Reply(h) PROVE FreshInv'
  <2>1. Replied(h)
    BY <1>14, ReplyEffect
  <2>2. QED
    BY <2>1 DEF Replied, Others
<1>15. ASSUME NEW h \in Handlers, Interrupt(h) PROVE FreshInv'
  BY <1>15 DEF Interrupt, Send, Goto, TypeOK
<1>16. ASSUME NEW h \in Handlers, Terminate(h) PROVE FreshInv'
  BY <1>16 DEF Terminate, Send, Goto, TypeOK
<1>17. ASSUME NEW h \in Handlers, Check(h) PROVE FreshInv'
  <2>1. Proc(h) \in Procs
    BY <1>17, HasProc DEF Check, Working
  <2>2. Checked(h)
    BY <1>17, <2>1, CheckEffect
  <2>3. QED
    BY <2>2 DEF Checked, Answers, Others
<1>18. ASSUME NEW h \in Handlers, Signal(h) PROVE FreshInv'
  <2>1. Proc(h) \in Procs
    BY <1>18, HasProc DEF Signal, Working
  <2>2. Signalled(h)
    BY <1>18, <2>1, SignalEffect
  <2>3. QED
    BY <1>18, <2>2 DEF Signalled, Answers, Others, Signal, Sent
<1>19. ASSUME NEW p \in Procs, Exit(p) PROVE FreshInv'
  BY <1>19 DEF Exit, TypeOK
<1>20. ASSUME NEW p \in Procs, ReaperWaits(p) PROVE FreshInv'
  BY <1>20 DEF ReaperWaits, ReaperGoto, TypeOK
<1>21. ASSUME NEW p \in Procs, ReaperWrites(p) PROVE FreshInv'
  BY <1>21 DEF ReaperWrites, ReaperGoto, TypeOK
<1>22. ASSUME NEW p \in Procs, ReaperCloses(p) PROVE FreshInv'
  BY <1>22 DEF ReaperCloses, ReaperGoto, TypeOK
<1>23. ASSUME NEW p \in Procs, ReaperStores(p) PROVE FreshInv'
  BY <1>23 DEF ReaperStores, ReaperGoto, TypeOK
<1>24. ASSUME NEW p \in Procs, ReaperBroadcasts(p) PROVE FreshInv'
  BY <1>24 DEF ReaperBroadcasts, ReaperGoto, TypeOK
<1>25. CASE RunReturns
  BY <1>25 DEF RunReturns
<1>26. CASE Sweep
  BY <1>26 DEF Sweep
<1>27. CASE SweepSignals
  BY <1>27 DEF SweepSignals
<1>28. CASE SweepAwaits
  BY <1>28 DEF SweepAwaits
<1>29. CASE SweepEnds
  BY <1>29 DEF SweepEnds
<1>30. CASE SweepExpires
  BY <1>30 DEF SweepExpires
<1>31. CASE UNCHANGED vars
  BY <1>31 DEF vars, proc, hist
<1>32. QED
  BY <1>1, <1>2, <1>3, <1>4, <1>5, <1>6, <1>7, <1>8, <1>9, <1>10, <1>11, <1>12,
     <1>13, <1>14, <1>15, <1>16, <1>17, <1>18, <1>19, <1>20, <1>21, <1>22, <1>23,
     <1>24, <1>25, <1>26, <1>27, <1>28, <1>29, <1>30, <1>31
     DEF Next, HandlerStep, StartStep, WaitStep, SignalStep, ReaperStep, CleanupStep

\* What the handlers know of their processes.
LEMMA CallStep ==
  ASSUME IInv, [Next]_vars
  PROVE  CallInv'
<1> USE NullAssumption DEF Calls, IInv, TypeOK, ProcInv, FreshInv, CallInv, Working, Starting,
        Over, Proc, proc, hist
<1>1. ASSUME NEW h \in Handlers, Invoke(h) PROVE CallInv'
  <2>1. Invoked(h)
    BY <1>1, InvokeEffect
  <2>2. QED
    BY <2>1 DEF Invoked, Others
<1>2. ASSUME NEW h \in Handlers, Prepare(h) PROVE CallInv'
  BY <1>2 DEF Prepare, Goto
<1>3. ASSUME NEW h \in Handlers, PrepareFails(h) PROVE CallInv'
  BY <1>3 DEF PrepareFails, Return, Goto
<1>4. ASSUME NEW h \in Handlers, Fork(h) PROVE CallInv'
  BY <1>4 DEF Fork, Goto
<1>5. ASSUME NEW h \in Handlers, ForkFails(h) PROVE CallInv'
  BY <1>5 DEF ForkFails, Goto
<1>6. ASSUME NEW h \in Handlers, Insert(h) PROVE CallInv'
  BY <1>6 DEF Insert, Goto, Return
<1>7. ASSUME NEW h \in Handlers, Lookup(h) PROVE CallInv'
  <2>1. Looked(h)
    BY <1>7, LookupEffect
  <2>2. CASE Answers(h, "not_found")
    BY <2>1, <2>2 DEF Looked, Answers, Others
  <2>3. CASE ~Answers(h, "not_found")
    BY <2>1, <2>3 DEF Looked, Others
  <2>4. QED
    BY <2>2, <2>3
<1>8. ASSUME NEW h \in Handlers, SelectDone(h) PROVE CallInv'
  BY <1>8 DEF SelectDone, Goto
<1>9. ASSUME NEW h \in Handlers, SelectExpired(h) PROVE CallInv'
  BY <1>9 DEF SelectExpired, Expire, Goto, Return
<1>10. ASSUME NEW h \in Handlers, Park(h) PROVE CallInv'
  BY <1>10 DEF Park, Goto
<1>11. ASSUME NEW h \in Handlers, TimerFires(h) PROVE CallInv'
  BY <1>11 DEF TimerFires, Expire, Goto, Return
<1>12. ASSUME NEW h \in Handlers, Reap(h) PROVE CallInv'
  BY SMTT(30), <1>12 DEF Reap, Goto
<1>13. ASSUME NEW h \in Handlers, NextRun(h) PROVE CallInv'
  <2>1. Restarted(h)
    BY <1>13, NextRunEffect
  <2>2. QED
    BY <2>1 DEF Restarted, Others
<1>14. ASSUME NEW h \in Handlers, Reply(h) PROVE CallInv'
  <2>1. Replied(h)
    BY <1>14, ReplyEffect
  <2>2. QED
    BY <2>1 DEF Replied, Others
<1>15. ASSUME NEW h \in Handlers, Interrupt(h) PROVE CallInv'
  BY <1>15 DEF Interrupt, Send, Goto
<1>16. ASSUME NEW h \in Handlers, Terminate(h) PROVE CallInv'
  BY <1>16 DEF Terminate, Send, Goto
<1>17. ASSUME NEW h \in Handlers, Check(h) PROVE CallInv'
  <2>1. Proc(h) \in Procs
    BY <1>17, HasProc DEF Check, Working
  <2>2. Checked(h)
    BY <1>17, <2>1, CheckEffect
  <2>3. QED
    BY <2>2 DEF Checked, Answers, Others
<1>18. ASSUME NEW h \in Handlers, Signal(h) PROVE CallInv'
  <2>1. Proc(h) \in Procs
    BY <1>18, HasProc DEF Signal, Working
  <2>2. Signalled(h)
    BY <1>18, <2>1, SignalEffect
  <2>3. QED
    BY <1>18, <2>2 DEF Signalled, Answers, Others, Signal, Sent
<1>19. ASSUME NEW p \in Procs, Exit(p) PROVE CallInv'
  BY <1>19 DEF Exit
<1>20. ASSUME NEW p \in Procs, ReaperWaits(p) PROVE CallInv'
  BY <1>20 DEF ReaperWaits, ReaperGoto
<1>21. ASSUME NEW p \in Procs, ReaperWrites(p) PROVE CallInv'
  BY <1>21 DEF ReaperWrites, ReaperGoto
<1>22. ASSUME NEW p \in Procs, ReaperCloses(p) PROVE CallInv'
  BY <1>22 DEF ReaperCloses, ReaperGoto
<1>23. ASSUME NEW p \in Procs, ReaperStores(p) PROVE CallInv'
  BY <1>23 DEF ReaperStores, ReaperGoto
<1>24. ASSUME NEW p \in Procs, ReaperBroadcasts(p) PROVE CallInv'
  BY <1>24 DEF ReaperBroadcasts, ReaperGoto
<1>25. CASE RunReturns
  BY <1>25 DEF RunReturns
<1>26. CASE Sweep
  BY <1>26 DEF Sweep
<1>27. CASE SweepSignals
  BY <1>27 DEF SweepSignals
<1>28. CASE SweepAwaits
  BY <1>28 DEF SweepAwaits
<1>29. CASE SweepEnds
  BY <1>29 DEF SweepEnds
<1>30. CASE SweepExpires
  BY <1>30 DEF SweepExpires
<1>31. CASE UNCHANGED vars
  BY <1>31 DEF vars, proc, hist
<1>32. QED
  BY <1>1, <1>2, <1>3, <1>4, <1>5, <1>6, <1>7, <1>8, <1>9, <1>10, <1>11, <1>12,
     <1>13, <1>14, <1>15, <1>16, <1>17, <1>18, <1>19, <1>20, <1>21, <1>22, <1>23,
     <1>24, <1>25, <1>26, <1>27, <1>28, <1>29, <1>30, <1>31
     DEF Next, HandlerStep, StartStep, WaitStep, SignalStep, ReaperStep, CleanupStep

\* What was signalled.
LEMMA SignalsStep ==
  ASSUME IInv, [Next]_vars
  PROVE  SignalInv'
<1> USE DEF Calls, IInv, TypeOK, CallInv, FreshInv, SignalInv, Working, Starting, Over, Signals,
        Proc, proc, hist
<1>1. ASSUME NEW h \in Handlers, Invoke(h) PROVE SignalInv'
  <2>1. Invoked(h)
    BY <1>1, InvokeEffect
  <2>2. QED
    BY <2>1 DEF Invoked, Others
<1>2. ASSUME NEW h \in Handlers, Prepare(h) PROVE SignalInv'
  BY <1>2 DEF Prepare, Goto
<1>3. ASSUME NEW h \in Handlers, PrepareFails(h) PROVE SignalInv'
  BY <1>3 DEF PrepareFails, Return, Goto
<1>4. ASSUME NEW h \in Handlers, Fork(h) PROVE SignalInv'
  BY <1>4 DEF Fork, Goto
<1>5. ASSUME NEW h \in Handlers, ForkFails(h) PROVE SignalInv'
  BY <1>5 DEF ForkFails, Goto
<1>6. ASSUME NEW h \in Handlers, Insert(h) PROVE SignalInv'
  BY <1>6 DEF Insert, Goto, Return
<1>7. ASSUME NEW h \in Handlers, Lookup(h) PROVE SignalInv'
  <2>1. Looked(h)
    BY <1>7, LookupEffect
  <2>2. CASE Answers(h, "not_found")
    BY <2>1, <2>2 DEF Looked, Answers, Others
  <2>3. CASE ~Answers(h, "not_found")
    BY <2>1, <2>3 DEF Looked, Others
  <2>4. QED
    BY <2>2, <2>3
<1>8. ASSUME NEW h \in Handlers, SelectDone(h) PROVE SignalInv'
  BY <1>8 DEF SelectDone, Goto
<1>9. ASSUME NEW h \in Handlers, SelectExpired(h) PROVE SignalInv'
  BY <1>9 DEF SelectExpired, Expire, Goto, Return
<1>10. ASSUME NEW h \in Handlers, Park(h) PROVE SignalInv'
  BY <1>10 DEF Park, Goto
<1>11. ASSUME NEW h \in Handlers, TimerFires(h) PROVE SignalInv'
  BY <1>11 DEF TimerFires, Expire, Goto, Return
<1>12. ASSUME NEW h \in Handlers, Reap(h) PROVE SignalInv'
  BY <1>12 DEF Reap, Goto
<1>13. ASSUME NEW h \in Handlers, NextRun(h) PROVE SignalInv'
  <2>1. Restarted(h)
    BY <1>13, NextRunEffect
  <2>2. QED
    BY <2>1 DEF Restarted, Others
<1>14. ASSUME NEW h \in Handlers, Reply(h) PROVE SignalInv'
  <2>1. Replied(h)
    BY <1>14, ReplyEffect
  <2>2. QED
    BY <2>1 DEF Replied, Others
<1>15. ASSUME NEW h \in Handlers, Interrupt(h) PROVE SignalInv'
  <2>1. Proc(h) \in Procs
    BY <1>15, HasProc DEF Interrupt, Working
  <2>2. Interrupted(h)
    BY <1>15, <2>1, InterruptEffect
  <2>3. Over(Proc(h)) \/ "INT" \in signals'[Proc(h)]
    BY <1>15, <2>1, <2>2 DEF Interrupt, Interrupted, ProcInv
  <2>4. QED
    BY <1>15, <2>1, <2>2, <2>3 DEF Interrupt, Interrupted, Goto
<1>16. ASSUME NEW h \in Handlers, Terminate(h) PROVE SignalInv'
  <2>1. Proc(h) \in Procs
    BY <1>16, HasProc DEF Terminate, Working
  <2>2. Terminated(h)
    BY <1>16, <2>1, TerminateEffect
  <2>3. Over(Proc(h)) \/ "TERM" \in signals'[Proc(h)]
    BY <1>16, <2>1, <2>2 DEF Terminate, Terminated, ProcInv
  <2>4. Over(Proc(h)) \/ signals'[Proc(h)] = Signals
    <3>1. Over(Proc(h)) \/ "INT" \in signals'[Proc(h)]
      BY <1>16, <2>1, <2>2 DEF Terminate, Terminated
    <3>2. signals'[Proc(h)] \subseteq Signals
      BY <2>1, <2>2 DEF Terminated
    <3>3. QED
      BY <2>3, <3>1, <3>2
  <2>5. QED
    BY <1>16, <2>1, <2>2, <2>4 DEF Terminate, Terminated, Others
<1>17. ASSUME NEW h \in Handlers, Check(h) PROVE SignalInv'
  <2>1. Proc(h) \in Procs
    BY <1>17, HasProc DEF Check, Working
  <2>2. Checked(h)
    BY <1>17, <2>1, CheckEffect
  <2>3. QED
    BY <2>2 DEF Checked, Answers, Others
<1>18. ASSUME NEW h \in Handlers, Signal(h) PROVE SignalInv'
  <2>1. Proc(h) \in Procs
    BY <1>18, HasProc DEF Signal, Working
  <2>2. Signalled(h)
    BY <1>18, <2>1, SignalEffect
  <2>3. QED
    BY <1>18, <2>2 DEF Signalled, Answers, Others, Signal, Sent
<1>19. ASSUME NEW p \in Procs, Exit(p) PROVE SignalInv'
  BY <1>19 DEF Exit
<1>20. ASSUME NEW p \in Procs, ReaperWaits(p) PROVE SignalInv'
  BY <1>20 DEF ReaperWaits, ReaperGoto
<1>21. ASSUME NEW p \in Procs, ReaperWrites(p) PROVE SignalInv'
  BY <1>21 DEF ReaperWrites, ReaperGoto
<1>22. ASSUME NEW p \in Procs, ReaperCloses(p) PROVE SignalInv'
  BY <1>22 DEF ReaperCloses, ReaperGoto
<1>23. ASSUME NEW p \in Procs, ReaperStores(p) PROVE SignalInv'
  BY <1>23 DEF ReaperStores, ReaperGoto
<1>24. ASSUME NEW p \in Procs, ReaperBroadcasts(p) PROVE SignalInv'
  BY <1>24 DEF ReaperBroadcasts, ReaperGoto
<1>25. CASE RunReturns
  BY <1>25 DEF RunReturns
<1>26. CASE Sweep
  BY <1>26 DEF Sweep
<1>27. CASE SweepSignals
  BY <1>27 DEF SweepSignals
<1>28. CASE SweepAwaits
  BY <1>28 DEF SweepAwaits
<1>29. CASE SweepEnds
  BY <1>29 DEF SweepEnds
<1>30. CASE SweepExpires
  BY <1>30 DEF SweepExpires
<1>31. CASE UNCHANGED vars
  BY <1>31 DEF vars, proc, hist
<1>32. QED
  BY <1>1, <1>2, <1>3, <1>4, <1>5, <1>6, <1>7, <1>8, <1>9, <1>10, <1>11, <1>12,
     <1>13, <1>14, <1>15, <1>16, <1>17, <1>18, <1>19, <1>20, <1>21, <1>22, <1>23,
     <1>24, <1>25, <1>26, <1>27, <1>28, <1>29, <1>30, <1>31
     DEF Next, HandlerStep, StartStep, WaitStep, SignalStep, ReaperStep, CleanupStep

\* The end of a server that drains its calls.
LEMMA DrainStep ==
  ASSUME IInv, [Next]_vars
  PROVE  DrainInv'
<1> USE DEF IInv, TypeOK, DrainInv, Alive, Proc, proc, hist
<1>1. ASSUME NEW h \in Handlers, Invoke(h) PROVE DrainInv'
  BY <1>1 DEF Invoke, Goto, NoCall
<1>2. ASSUME NEW h \in Handlers, Prepare(h) PROVE DrainInv'
  BY <1>2 DEF Prepare, Goto
<1>3. ASSUME NEW h \in Handlers, PrepareFails(h) PROVE DrainInv'
  BY <1>3 DEF PrepareFails, Return, Goto
<1>4. ASSUME NEW h \in Handlers, Fork(h) PROVE DrainInv'
  BY <1>4 DEF Fork, Goto
<1>5. ASSUME NEW h \in Handlers, ForkFails(h) PROVE DrainInv'
  BY <1>5 DEF ForkFails, Goto
<1>6. ASSUME NEW h \in Handlers, Insert(h) PROVE DrainInv'
  BY <1>6 DEF Insert, Goto, Return
<1>7. ASSUME NEW h \in Handlers, Lookup(h) PROVE DrainInv'
  BY <1>7 DEF Lookup, Goto, Return
<1>8. ASSUME NEW h \in Handlers, SelectDone(h) PROVE DrainInv'
  BY <1>8 DEF SelectDone, Goto
<1>9. ASSUME NEW h \in Handlers, SelectExpired(h) PROVE DrainInv'
  BY <1>9 DEF SelectExpired, Expire, Goto, Return
<1>10. ASSUME NEW h \in Handlers, Park(h) PROVE DrainInv'
  BY <1>10 DEF Park, Goto
<1>11. ASSUME NEW h \in Handlers, TimerFires(h) PROVE DrainInv'
  BY <1>11 DEF TimerFires, Expire, Goto, Return
<1>12. ASSUME NEW h \in Handlers, Reap(h) PROVE DrainInv'
  BY <1>12 DEF Reap, Goto
<1>13. ASSUME NEW h \in Handlers, NextRun(h) PROVE DrainInv'
  BY <1>13 DEF NextRun, Goto, NoCall, MoreRuns
<1>14. ASSUME NEW h \in Handlers, Reply(h) PROVE DrainInv'
  BY <1>14 DEF Reply, Goto, NoCall
<1>15. ASSUME NEW h \in Handlers, Interrupt(h) PROVE DrainInv'
  BY <1>15 DEF Interrupt, Send, Goto
<1>16. ASSUME NEW h \in Handlers, Terminate(h) PROVE DrainInv'
  BY <1>16 DEF Terminate, Send, Goto
<1>17. ASSUME NEW h \in Handlers, Check(h) PROVE DrainInv'
  BY <1>17 DEF Check, Goto, Return
<1>18. ASSUME NEW h \in Handlers, Signal(h) PROVE DrainInv'
  BY <1>18 DEF Signal, Send, Return, Goto
<1>19. ASSUME NEW p \in Procs, Exit(p) PROVE DrainInv'
  BY <1>19 DEF Exit
<1>20. ASSUME NEW p \in Procs, ReaperWaits(p) PROVE DrainInv'
  BY <1>20 DEF ReaperWaits, ReaperGoto
<1>21. ASSUME NEW p \in Procs, ReaperWrites(p) PROVE DrainInv'
  BY <1>21 DEF ReaperWrites, ReaperGoto
<1>22. ASSUME NEW p \in Procs, ReaperCloses(p) PROVE DrainInv'
  BY <1>22 DEF ReaperCloses, ReaperGoto
<1>23. ASSUME NEW p \in Procs, ReaperStores(p) PROVE DrainInv'
  BY <1>23 DEF ReaperStores, ReaperGoto
<1>24. ASSUME NEW p \in Procs, ReaperBroadcasts(p) PROVE DrainInv'
  BY <1>24 DEF ReaperBroadcasts, ReaperGoto
<1>25. CASE RunReturns
  BY <1>25 DEF RunReturns
<1>26. CASE Sweep
  BY <1>26 DEF Sweep
<1>27. CASE SweepSignals
  BY <1>27 DEF SweepSignals
<1>28. CASE SweepAwaits
  BY <1>28 DEF SweepAwaits
<1>29. CASE SweepEnds
  BY <1>29 DEF SweepEnds
<1>30. CASE SweepExpires
  BY <1>30 DEF SweepExpires
<1>31. CASE UNCHANGED vars
  BY <1>31 DEF vars, proc, hist
<1>32. QED
  BY <1>1, <1>2, <1>3, <1>4, <1>5, <1>6, <1>7, <1>8, <1>9, <1>10, <1>11, <1>12,
     <1>13, <1>14, <1>15, <1>16, <1>17, <1>18, <1>19, <1>20, <1>21, <1>22, <1>23,
     <1>24, <1>25, <1>26, <1>27, <1>28, <1>29, <1>30, <1>31
     DEF Next, HandlerStep, StartStep, WaitStep, SignalStep, ReaperStep, CleanupStep

\* Reaped processes and the table.
LEMMA OneShotStep ==
  ASSUME IInv, [Next]_vars
  PROVE  ReapIsOneShot'
<1> USE DEF IInv, ReapIsOneShot
<1>1. ASSUME NEW h \in Handlers, Insert(h) PROVE ReapIsOneShot'
  BY <1>1 DEF Insert, FreshInv, Starting, Untouched, hist
<1>2. ASSUME NEW h \in Handlers, Reap(h) PROVE ReapIsOneShot'
  BY <1>2 DEF Reap
<1>3. CASE Sweep
  BY <1>3 DEF Sweep, hist
<1>4. CASE UNCHANGED <<table, reported>>
  BY <1>4
<1>5. ASSUME NEW h \in Handlers, Invoke(h) \/ Prepare(h) \/ PrepareFails(h) \/ Fork(h) \/ ForkFails(h)
                                 \/ Lookup(h) \/ SignalStep(h) \/ Reply(h)
      PROVE  UNCHANGED <<table, reported>>
  BY <1>5 DEF Invoke, Prepare, PrepareFails, Fork, ForkFails, Lookup, SignalStep, Reply,
              Interrupt, Terminate, Check, Signal, hist
<1>6. ASSUME NEW h \in Handlers, SelectDone(h) \/ SelectExpired(h) \/ Park(h) \/ TimerFires(h)
                                 \/ NextRun(h)
      PROVE  UNCHANGED <<table, reported>>
  BY <1>6 DEF SelectDone, SelectExpired, Park, TimerFires, NextRun, hist
<1>7. ASSUME NEW p \in Procs, Exit(p) \/ ReaperStep(p)
      PROVE  UNCHANGED <<table, reported>>
  BY <1>7 DEF Exit, ReaperStep, ReaperWaits, ReaperWrites, ReaperCloses, ReaperStores,
              ReaperBroadcasts, hist
<1>8. ASSUME RunReturns \/ SweepSignals \/ SweepAwaits \/ SweepEnds \/ SweepExpires \/ UNCHANGED vars
      PROVE  UNCHANGED <<table, reported>>
  BY <1>8 DEF RunReturns, SweepSignals, SweepAwaits, SweepEnds, SweepExpires, vars, hist
<1>9. QED
  <2> HIDE DEF IInv, ReapIsOneShot
  <2> QED
    BY <1>1, <1>2, <1>3, <1>4, <1>5, <1>6, <1>7, <1>8
       DEF Next, HandlerStep, StartStep, WaitStep, CleanupStep

\* What is in the table while the server serves stays there until it is reaped,
\* and run_command gives up on a process that is there.
LEMMA SurvivorStep ==
  ASSUME IInv, [Next]_vars
  PROVE  SurvivorStaysValid'
<1> USE DEF IInv, SurvivorStaysValid
<1>1. ASSUME NEW h \in Handlers, Insert(h) PROVE SurvivorStaysValid'
  BY <1>1 DEF Insert, hist
<1>2. ASSUME NEW h \in Handlers, Reap(h) PROVE SurvivorStaysValid'
  BY <1>2 DEF Reap
<1>3. ASSUME NEW h \in Handlers, SelectExpired(h) \/ TimerFires(h)
      PROVE  SurvivorStaysValid'
  <2>1. Expire(h) /\ UNCHANGED <<table, server, reported>> /\ pc[h] \in Working
    BY <1>3 DEF SelectExpired, TimerFires, Working
  <2>2. survived' \subseteq survived \cup {Proc(h)}
    BY <2>1 DEF Expire
  <2>3. server = "serving" => Proc(h) \in table \cup reported
    BY <2>1 DEF CallInv
  <2>4. QED
    BY <2>1, <2>2, <2>3
<1>4. CASE RunReturns \/ CleanupStep
  BY <1>4 DEF RunReturns, CleanupStep, Sweep, SweepSignals, SweepAwaits, SweepEnds, SweepExpires, hist
<1>5. CASE UNCHANGED <<table, server, hist>>
  BY <1>5 DEF hist
<1>6. ASSUME NEW h \in Handlers, Invoke(h) \/ Prepare(h) \/ PrepareFails(h) \/ Fork(h) \/ ForkFails(h)
                                 \/ Lookup(h) \/ SignalStep(h) \/ Reply(h)
      PROVE  UNCHANGED <<table, server, hist>>
  BY <1>6 DEF Invoke, Prepare, PrepareFails, Fork, ForkFails, Lookup, SignalStep, Reply,
              Interrupt, Terminate, Check, Signal
<1>7. ASSUME NEW h \in Handlers, SelectDone(h) \/ Park(h) \/ NextRun(h)
      PROVE  UNCHANGED <<table, server, hist>>
  BY <1>7 DEF SelectDone, Park, NextRun
<1>8. ASSUME NEW p \in Procs, Exit(p) \/ ReaperStep(p)
      PROVE  UNCHANGED <<table, server, hist>>
  BY <1>8 DEF Exit, ReaperStep, ReaperWaits, ReaperWrites, ReaperCloses, ReaperStores, ReaperBroadcasts
<1>9. ASSUME UNCHANGED vars PROVE UNCHANGED <<table, server, hist>>
  BY <1>9 DEF vars
<1>10. QED
  <2> HIDE DEF IInv, SurvivorStaysValid
  <2> QED
    BY <1>1, <1>2, <1>3, <1>4, <1>5, <1>6, <1>7, <1>8, <1>9
       DEF Next, HandlerStep, StartStep, WaitStep

\* A process that ended stays ended, and what it was sent stays sent.
Forward == \A p \in Procs : /\ Over(p) => Over(p)'
                            /\ signals[p] \subseteq signals'[p]

\* Every step goes forward in this sense.
LEMMA GoesForward ==
  ASSUME IInv, [Next]_vars
  PROVE  Forward
<1> USE DEF IInv, TypeOK, Forward, Over
<1>1. ASSUME NEW h \in Handlers, Prepare(h) \/ PrepareFails(h) PROVE Forward
  BY <1>1 DEF Prepare, PrepareFails
<1>2. ASSUME NEW h \in Handlers, Fork(h) \/ ForkFails(h) PROVE Forward
  BY <1>2 DEF Fork, ForkFails, FreshInv, Starting
<1>3. ASSUME NEW p \in Procs, Exit(p) PROVE Forward
  BY <1>3 DEF Exit
<1>4. ASSUME NEW h \in Handlers, Interrupt(h) PROVE Forward
  <2>1. Proc(h) \in Procs
    BY <1>4, HasProc DEF Interrupt, Working
  <2>2. QED
    BY <1>4, <2>1, InterruptEffect DEF Interrupted, Interrupt
<1>5. ASSUME NEW h \in Handlers, Terminate(h) PROVE Forward
  <2>1. Proc(h) \in Procs
    BY <1>5, HasProc DEF Terminate, Working
  <2>2. QED
    BY <1>5, <2>1, TerminateEffect DEF Terminated, Terminate
<1>6. ASSUME NEW h \in Handlers, Signal(h) PROVE Forward
  <2>1. Proc(h) \in Procs
    BY <1>6, HasProc DEF Signal, Working
  <2>2. QED
    BY <1>6, <2>1, SignalEffect DEF Signalled, Sent, Signal
<1>7. CASE SweepSignals
  BY <1>7 DEF SweepSignals
<1>8. CASE UNCHANGED <<child, signals>>
  BY <1>8
<1>9. ASSUME NEW h \in Handlers, Invoke(h) \/ Insert(h) \/ Lookup(h) \/ WaitStep(h) \/ Check(h) \/ Reply(h)
      PROVE  UNCHANGED <<child, signals>>
  BY <1>9 DEF Invoke, Insert, Lookup, WaitStep, Check, Reply, SelectDone, SelectExpired, Park,
              TimerFires, Reap, NextRun, proc
<1>10. ASSUME NEW p \in Procs, ReaperStep(p) PROVE UNCHANGED <<child, signals>>
  BY <1>10 DEF ReaperStep, ReaperWaits, ReaperWrites, ReaperCloses, ReaperStores, ReaperBroadcasts
<1>11. ASSUME RunReturns \/ Sweep \/ SweepAwaits \/ SweepEnds \/ SweepExpires \/ UNCHANGED vars
       PROVE  UNCHANGED <<child, signals>>
  BY <1>11 DEF RunReturns, Sweep, SweepAwaits, SweepEnds, SweepExpires, vars, proc
<1>12. QED
  <2> HIDE DEF IInv, Forward
  <2> QED
    BY <1>1, <1>2, <1>3, <1>4, <1>5, <1>6, <1>7, <1>8, <1>9, <1>10, <1>11
       DEF Next, HandlerStep, StartStep, SignalStep, CleanupStep

\* run_command gives up on a process that was sent both signals.
LEMMA GivesUpStep ==
  ASSUME IInv, [Next]_vars
  PROVE  GivesUpAfterSignals'
<1>1. Forward /\ TypeOK' /\ survived \subseteq Procs
  BY GoesForward, TypeStep DEF IInv, TypeOK
<1>2. ASSUME NEW p \in Procs, Over(p) \/ signals[p] = Signals
      PROVE  (Over(p) \/ signals[p] = Signals)'
  BY <1>1, <1>2 DEF Forward, TypeOK
<1>3. \A p \in survived : (Over(p) \/ signals[p] = Signals)'
  BY <1>1, <1>2 DEF IInv, GivesUpAfterSignals
<1>4. ASSUME NEW h \in Handlers, SelectExpired(h) \/ TimerFires(h)
      PROVE  GivesUpAfterSignals'
  <2>1. Expire(h) /\ pc[h] \in Working /\ Proc(h) \in Procs
    BY <1>4, HasProc DEF SelectExpired, TimerFires, Working, IInv
  <2>2. survived' = survived \/ (call[h].grace /\ survived' = survived \cup {Proc(h)})
    BY <2>1, ExpireEffect DEF Expired, IInv
  <2>3. call[h].grace => (Over(Proc(h)) \/ signals[Proc(h)] = Signals)
    BY <2>1 DEF IInv, SignalInv
  <2>4. PICK p \in Procs : p = Proc(h)
    BY <2>1
  <2>5. call[h].grace => (Over(p) \/ signals[p] = Signals)'
    BY <2>3, <2>4, <1>2
  <2>6. survived' = survived \/ (call[h].grace /\ survived' = survived \cup {p})
    BY <2>2, <2>4
  <2>7. QED
    BY <1>3, <2>5, <2>6 DEF GivesUpAfterSignals
<1>5. CASE UNCHANGED survived
  BY <1>3, <1>5 DEF GivesUpAfterSignals
<1>6. ASSUME NEW h \in Handlers, Invoke(h) \/ StartStep(h) \/ Lookup(h) \/ SignalStep(h) \/ Reply(h)
      PROVE  UNCHANGED survived
  BY <1>6 DEF Invoke, StartStep, Prepare, PrepareFails, Fork, ForkFails, Insert, Lookup,
              SignalStep, Reply, Interrupt, Terminate, Check, Signal, hist
<1>7. ASSUME NEW h \in Handlers, SelectDone(h) \/ Park(h) \/ Reap(h) \/ NextRun(h)
      PROVE  UNCHANGED survived
  BY <1>7 DEF SelectDone, Park, Reap, NextRun, hist
<1>8. ASSUME NEW p \in Procs, Exit(p) \/ ReaperStep(p)
      PROVE  UNCHANGED survived
  BY <1>8 DEF Exit, ReaperStep, ReaperWaits, ReaperWrites, ReaperCloses, ReaperStores,
              ReaperBroadcasts, hist
<1>9. ASSUME RunReturns \/ CleanupStep \/ UNCHANGED vars
      PROVE  UNCHANGED survived
  BY <1>9 DEF RunReturns, CleanupStep, Sweep, SweepSignals, SweepAwaits, SweepEnds, SweepExpires,
              vars, hist
<1>10. QED
  BY <1>4, <1>5, <1>6, <1>7, <1>8, <1>9 DEF Next, HandlerStep, WaitStep

\* A child that runs was forked by a handler that inserts it next, leaves the
\* table when it is over or with the sweep, and the sweep when it is over.
LEMMA TrackedStep ==
  ASSUME IInv, [Next]_vars
  PROVE  SweepMissesOnlyLate'
<1> USE DEF IInv, TypeOK, SweepMissesOnlyLate, Pending, Late, Proc
<1>0. \A p \in Procs : signals[p] \subseteq signals'[p]
  BY GoesForward DEF Forward
<1>1. ASSUME NEW h \in Handlers, Invoke(h) PROVE SweepMissesOnlyLate'
  <2>1. Invoked(h)
    BY <1>1, InvokeEffect
  <2>2. QED
    BY <2>1 DEF Invoked, Others, proc
<1>2. ASSUME NEW h \in Handlers, Prepare(h) PROVE SweepMissesOnlyLate'
  BY <1>2 DEF Prepare, Goto
<1>3. ASSUME NEW h \in Handlers, PrepareFails(h) PROVE SweepMissesOnlyLate'
  BY <1>3 DEF PrepareFails, Return, Goto
<1>4. ASSUME NEW h \in Handlers, Fork(h) PROVE SweepMissesOnlyLate'
  BY <1>4 DEF Fork, Goto, DrainInv
<1>5. ASSUME NEW h \in Handlers, ForkFails(h) PROVE SweepMissesOnlyLate'
  BY <1>5 DEF ForkFails, Goto
<1>6. ASSUME NEW h \in Handlers, Insert(h) PROVE SweepMissesOnlyLate'
  BY <1>6 DEF Insert, Goto, Return, DrainInv
<1>7. ASSUME NEW h \in Handlers, Lookup(h) PROVE SweepMissesOnlyLate'
  <2>1. Looked(h)
    BY <1>7, LookupEffect
  <2>2. QED
    BY <2>1 DEF Looked, Answers, Others, proc
<1>8. ASSUME NEW h \in Handlers, SelectDone(h) PROVE SweepMissesOnlyLate'
  BY <1>8 DEF SelectDone, Goto, proc
<1>9. ASSUME NEW h \in Handlers, SelectExpired(h) \/ TimerFires(h) PROVE SweepMissesOnlyLate'
  <2>1. Expired(h) /\ pc[h] # "insert" /\ UNCHANGED <<child, signals, table, stolen, server>>
    BY <1>9, ExpireEffect DEF SelectExpired, TimerFires, proc
  <2>2. QED
    BY <2>1 DEF Expired, Answers, Others
<1>10. ASSUME NEW h \in Handlers, Park(h) PROVE SweepMissesOnlyLate'
  BY <1>10 DEF Park, Goto, proc
<1>11. ASSUME NEW h \in Handlers, Reap(h) PROVE SweepMissesOnlyLate'
  <2>1. Proc(h) \in Procs /\ done[Proc(h)]
    BY <1>11, HasProc DEF Reap, Working, CallInv
  <2>2. child[Proc(h)] # "running"
    BY <2>1 DEF ProcInv
  <2>3. QED
    BY <1>11, <2>2 DEF Reap, Goto, proc
<1>12. ASSUME NEW h \in Handlers, NextRun(h) PROVE SweepMissesOnlyLate'
  <2>1. Restarted(h)
    BY <1>12, NextRunEffect
  <2>2. QED
    BY <2>1 DEF Restarted, Others, proc
<1>13. ASSUME NEW h \in Handlers, Reply(h) PROVE SweepMissesOnlyLate'
  <2>1. Replied(h) /\ pc[h] # "insert"
    BY <1>13, ReplyEffect DEF Reply
  <2>2. QED
    BY <2>1 DEF Replied, Others, proc
<1>14. ASSUME NEW h \in Handlers, Interrupt(h) PROVE SweepMissesOnlyLate'
  BY <1>0, <1>14 DEF Interrupt, Goto
<1>15. ASSUME NEW h \in Handlers, Terminate(h) PROVE SweepMissesOnlyLate'
  BY <1>0, <1>15 DEF Terminate, Goto
<1>16. ASSUME NEW h \in Handlers, Check(h) PROVE SweepMissesOnlyLate'
  <2>1. Proc(h) \in Procs
    BY <1>16, HasProc DEF Check, Working
  <2>2. Checked(h)
    BY <1>16, <2>1, CheckEffect
  <2>3. QED
    BY <2>2 DEF Checked, Answers, Others, proc
<1>17. ASSUME NEW h \in Handlers, Signal(h) PROVE SweepMissesOnlyLate'
  <2>1. Proc(h) \in Procs
    BY <1>17, HasProc DEF Signal, Working
  <2>2. Signalled(h)
    BY <1>17, <2>1, SignalEffect
  <2>3. QED
    BY <1>0, <1>17, <2>2 DEF Signalled, Signal, Answers, Others
<1>18. ASSUME NEW p \in Procs, Exit(p) PROVE SweepMissesOnlyLate'
  BY <1>18 DEF Exit
<1>19. ASSUME NEW p \in Procs, ReaperWaits(p) \/ ReaperWrites(p) \/ ReaperCloses(p) \/ ReaperStores(p)
       PROVE  SweepMissesOnlyLate'
  BY <1>19 DEF ReaperWaits, ReaperWrites, ReaperCloses, ReaperStores
<1>20. ASSUME NEW p \in Procs, ReaperBroadcasts(p) PROVE SweepMissesOnlyLate'
  BY <1>20 DEF ReaperBroadcasts
<1>21. CASE RunReturns
  BY <1>21 DEF RunReturns, proc
<1>22. CASE Sweep
  BY <1>22 DEF Sweep, DrainInv, proc
<1>23. CASE SweepSignals
  BY <1>23 DEF SweepSignals, ProcInv
<1>24. CASE SweepAwaits
  BY <1>24 DEF SweepAwaits, ProcInv, proc
<1>25. CASE SweepEnds \/ SweepExpires
  BY <1>25 DEF SweepEnds, SweepExpires, proc
<1>26. CASE UNCHANGED vars
  BY <1>26 DEF vars, proc
<1>27. QED
  <2> HIDE DEF IInv, SweepMissesOnlyLate
  <2> QED
    BY <1>1, <1>2, <1>3, <1>4, <1>5, <1>6, <1>7, <1>8, <1>9, <1>10, <1>11, <1>12, <1>13,
       <1>14, <1>15, <1>16, <1>17, <1>18, <1>19, <1>20, <1>21, <1>22, <1>23, <1>24, <1>25, <1>26
       DEF Next, HandlerStep, StartStep, WaitStep, SignalStep, ReaperStep, CleanupStep

\* When the sweep of a drained server ends, nobody is about to insert a child
\* and neither the table nor the sweep has one.
LEMMA CleanExitStep ==
  ASSUME IInv, [Next]_vars
  PROVE  CleanExitLeavesNoChild'
<1> USE DEF IInv, TypeOK, CleanExitLeavesNoChild
<1>1. CASE SweepEnds
  <2>1. Drains => \A p \in Procs : child[p] # "running"
    BY <1>1 DEF SweepEnds, SweepMissesOnlyLate
  <2>2. QED
    BY <1>1, <2>1 DEF SweepEnds, proc
<1>2. ASSUME NEW h \in Handlers, Fork(h) PROVE CleanExitLeavesNoChild'
  BY <1>2 DEF Fork, DrainInv
<1>3. ASSUME NEW h \in Handlers, Prepare(h) \/ PrepareFails(h) \/ ForkFails(h)
      PROVE  CleanExitLeavesNoChild'
  BY <1>3 DEF Prepare, PrepareFails, ForkFails
<1>4. ASSUME NEW p \in Procs, Exit(p) PROVE CleanExitLeavesNoChild'
  BY <1>4 DEF Exit
<1>5. CASE UNCHANGED <<child, server>> \/ server' \in {"sweep", "signal", "await", "exit_err"}
  BY <1>5
<1>6. ASSUME NEW h \in Handlers, Invoke(h) \/ Insert(h) \/ Lookup(h) \/ WaitStep(h) \/ SignalStep(h) \/ Reply(h)
      PROVE  UNCHANGED <<child, server>>
  BY <1>6 DEF Invoke, Insert, Lookup, WaitStep, SignalStep, Reply, SelectDone, SelectExpired, Park,
              TimerFires, Reap, NextRun, Interrupt, Terminate, Check, Signal, proc
<1>7. ASSUME NEW p \in Procs, ReaperStep(p) PROVE UNCHANGED <<child, server>>
  BY <1>7 DEF ReaperStep, ReaperWaits, ReaperWrites, ReaperCloses, ReaperStores, ReaperBroadcasts
<1>8. ASSUME RunReturns \/ Sweep \/ SweepSignals \/ SweepAwaits \/ SweepExpires \/ UNCHANGED vars
      PROVE  UNCHANGED <<child, server>> \/ server' \in {"sweep", "signal", "await", "exit_err"}
  BY <1>8 DEF RunReturns, Sweep, SweepSignals, SweepAwaits, SweepExpires, vars, proc
<1>9. QED
  <2> HIDE DEF IInv, CleanExitLeavesNoChild
  <2> QED
    BY <1>1, <1>2, <1>3, <1>4, <1>5, <1>6, <1>7, <1>8
       DEF Next, HandlerStep, StartStep, CleanupStep

-----------------------------------------------------------------------------
(* The invariant and what follows from it.                                 *)

\* The invariant holds at first ...
LEMMA InitIInv == Init => IInv
<1> SUFFICES ASSUME Init PROVE IInv
  OBVIOUS
<1>1. TypeOK
  BY NoCallTyped DEF Init, TypeOK, Codes, HandlerLabels, ReaperLabels
<1>2. ProcInv /\ FreshInv
  BY DEF Init, ProcInv, FreshInv, Untouched, Working, Starting
<1>3. CallInv
  BY NoCallTyped DEF Init, CallInv, Working, Starting
<1>4. SignalInv /\ DrainInv
  BY DEF Init, SignalInv, DrainInv, Working, Starting
<1>5. QED
  BY <1>1, <1>2, <1>3, <1>4 DEF IInv, Init, ReapIsOneShot, SurvivorStaysValid,
     GivesUpAfterSignals, SweepMissesOnlyLate, CleanExitLeavesNoChild

\* ... and every step keeps it.
LEMMA NextIInv == IInv /\ [Next]_vars => IInv'
  BY TypeStep, ProcStep, FreshStep, CallStep, SignalsStep, DrainStep, OneShotStep,
     SurvivorStep, GivesUpStep, TrackedStep, CleanExitStep
     DEF IInv

\* The parts of IInv hold in every reachable state.
THEOREM Invariance == Spec => []IInv
  BY InitIInv, NextIInv, PTL DEF Spec

\* Every variable keeps its type.
THEOREM TypeCorrect == Spec => []TypeOK
<1>1. IInv => TypeOK
  BY DEF IInv
<1>2. QED
  BY <1>1, Invariance, PTL

\* Who sees done closed sees the exit code stored, closed files, and on disk that
\* code or the nothing of a failed write.
THEOREM Barrier == Spec => []BarrierPublishes
<1>1. IInv => BarrierPublishes
  BY DEF IInv, ProcInv, BarrierPublishes, Over
<1>2. QED
  BY <1>1, Invariance, PTL

\* terminated=true comes with the exit code of a process that ended.
THEOREM Reports == Spec => []ReportIsTrue
<1>1. IInv => ReportIsTrue
  BY DEF IInv, CallInv, ReportIsTrue
<1>2. QED
  BY <1>1, Invariance, PTL

\* A process is reported as terminated once.
THEOREM OneShot == Spec => []ReapIsOneShot
<1>1. IInv => ReapIsOneShot
  BY DEF IInv
<1>2. QED
  BY <1>1, Invariance, PTL

\* A process that survives run_command can be waited for and signalled.
THEOREM SurvivorsStay == Spec => []SurvivorStaysValid
<1>1. IInv => SurvivorStaysValid
  BY DEF IInv
<1>2. QED
  BY <1>1, Invariance, PTL

\* run_command sends both signals before it gives up.
THEOREM SignalsFirst == Spec => []GivesUpAfterSignals
<1>1. IInv => GivesUpAfterSignals
  BY DEF IInv
<1>2. QED
  BY <1>1, Invariance, PTL

\* Cleanup takes, signals and waits for every child that runs, but those that a
\* call inserts after it: none where calls are drained.
THEOREM Tracked == Spec => []SweepMissesOnlyLate
<1>1. IInv => SweepMissesOnlyLate
  BY DEF IInv
<1>2. QED
  BY <1>1, Invariance, PTL

\* A server that drains its calls leaves no child behind, unless it says so.
THEOREM CleanExit == Spec => []CleanExitLeavesNoChild
<1>1. IInv => CleanExitLeavesNoChild
  BY DEF IInv
<1>2. QED
  BY <1>1, Invariance, PTL
=============================================================================
