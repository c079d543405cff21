--------------------------- MODULE PipelineProofs ---------------------------
(***************************************************************************)
(* Theorems about Pipeline, for any number of stages, any amount of data   *)
(* and pipes of any size.                                                  *)
(***************************************************************************)
EXTENDS Pipeline, TLAPS

Ending == {"closeOut", "closeIn", "over"}

CursorsInv ==
  /\ taken \in [Links -> Nat] /\ passed \in [Links -> Nat]
  /\ fed   \in [Links -> Nat] /\ got    \in [Links -> Nat]

Ordered == CursorsInv /\ wrote \in [Links -> 0..MaxUnits] /\ \A i \in Links : InOrder(i)

\* Stages are started in their order, and each has its copiers.
StartedInv ==
  /\ pc = "start" => /\ \A i \in Stages : proc[i] = "new" <=> i >= cursor
                     /\ \A i \in Stages : waiter[i] = "new"
                     /\ wclosed = {} /\ rclosed = {}
  /\ pc = "kill"  => \E i \in Stages : proc[i] = "new"
  /\ pc = "wait"  => \A i \in Stages : proc[i] # "new" /\ waiter[i] # "new"
  /\ \A i, j \in Stages : i < j /\ proc[i] = "new" => proc[j] = "new"
  /\ \A i \in Links : /\ proc[i] = "new" <=> out[i] = "new"
                      /\ proc[i + 1] = "new" <=> in[i] = "new"
  /\ \A i \in Stages : i \in eof => proc[i] # "new"

\* What has been waited for is over.
WaitedInv ==
  /\ \A i \in Stages : waiter[i] \in Ending => Ended(i)
  /\ pc = "kill" => \A i \in Stages : i < cursor => waiter[i] = "over"
  /\ pc = "returned" => \A i \in Stages : proc[i] = "new" \/ waiter[i] = "over"

\* A copier that is over has copied everything that its stage wrote.
CopiedInv ==
  \A i \in Links : out[i] = "over" => Exited(i) /\ taken[i] = wrote[i] /\ passed[i] = wrote[i]

\* Unless the pipeline is torn down, an io.Pipe is closed by who has waited for the
\* stage at that end of it, and a copier fails only when nobody reads any more.
ClosedInv ==
  ~TornDown => \A i \in Links : /\ i \in wclosed => waiter[i] \in {"closeIn", "over"}
                                /\ i \in rclosed => waiter[i + 1] = "over"
                                /\ out[i] = "failed" => i \in rclosed

\* The copier before a stage stops when it has copied everything, or when the stage
\* is over.
EndsInv ==
  ~TornDown => \A i \in Links : Stopped(in, i) => \/ Exited(i + 1)
                                                  \/ Exited(i) /\ fed[i] = wrote[i]

\* What the results say.
ErrorsInv ==
  /\ \A i \in Stages : proc[i] = "zero" => i \in eof \cup Hasty
  /\ pc \in {"wait", "returned"} =>
       \A i \in Stages : waiter[i] \in Ending /\ i \notin errs => proc[i] = "zero" \/ TornDown
  /\ result = "nil" => /\ pc = "returned" /\ errs = {}
                       /\ \A i \in Stages : waiter[i] = "over" /\ proc[i] # "new"

IInv == /\ TypeOK /\ CursorsInv /\ StartedInv /\ WaitedInv
        /\ CopiedInv /\ ClosedInv /\ EndsInv /\ ErrorsInv /\ EofIsTheEnd

\* What a cursor that has advanced is.
LEMMA Bumped ==
  ASSUME NEW c \in [Links -> Nat], NEW k \in Links
  PROVE  /\ Bump(c, k) \in [Links -> Nat] /\ Bump(c, k)[k] = c[k] + 1
         /\ \A j \in Links : j # k => Bump(c, k)[j] = c[j]
         /\ \A j \in Links : Bump(c, k)[j] >= c[j]
BY DEF Bump

\* Every step keeps the order of the cursors of each link.
LEMMA CursorsStep ==
  ASSUME Ordered, [Next]_vars
  PROVE  Ordered'
<1> USE StagesAssumption, BoundsAssumption
<1>1. CASE Start
  BY <1>1 DEF Start, Ordered, CursorsInv, InOrder, cursors
<1>2. CASE Kill
  BY <1>2 DEF Kill, Ordered, CursorsInv, InOrder, cursors
<1>3. CASE Killed
  BY <1>3 DEF Killed, Ordered, CursorsInv, InOrder, cursors
<1>4. CASE AbortReturns
  BY <1>4 DEF AbortReturns, Ordered, CursorsInv, InOrder, cursors
<1>5. CASE WaitForAll
  BY <1>5 DEF WaitForAll, Ordered, CursorsInv, InOrder, cursors
<1>6. CASE Returns
  BY <1>6 DEF Returns, Ordered, CursorsInv, InOrder, cursors
<1>7. CASE StartFails
  BY <1>7 DEF StartFails, Ordered, CursorsInv, InOrder, cursors
<1>8. ASSUME NEW k \in Stages, Reads(k) PROVE Ordered'
  <2> DEFINE n == k - 1
  <2>1. CASE got' = Bump(got, n)
    <3>1. n \in Links /\ UNCHANGED <<wrote, taken, passed, fed>>
      BY <1>8, <2>1 DEF Reads, Stages, Links
    <3>2. /\ got' \in [Links -> Nat] /\ got'[n] = got[n] + 1
          /\ \A j \in Links : j # n => got'[j] = got[j]
      BY <2>1, <3>1, Bumped DEF Ordered, CursorsInv
    <3>3. InOrder(n)' /\ wrote'[n] \in 0..MaxUnits
      BY <1>8, <3>1, <3>2 DEF Reads, Ordered, CursorsInv, InOrder, Stages
    <3>4. ASSUME NEW j \in Links, j # n PROVE InOrder(j)' /\ wrote'[j] \in 0..MaxUnits
      BY <3>1, <3>2, <3>4 DEF Ordered, InOrder
    <3>5. QED
      BY <3>1, <3>2, <3>3, <3>4 DEF Ordered, CursorsInv
  <2>2. CASE UNCHANGED cursors
    BY <2>2 DEF cursors, Ordered, CursorsInv, InOrder
  <2>3. QED
    BY <1>8, <2>1, <2>2 DEF Reads, cursors
<1>9. ASSUME NEW k \in Stages, SeesEof(k) PROVE Ordered'
  BY <1>9 DEF SeesEof, Ordered, CursorsInv, InOrder, cursors
<1>10. ASSUME NEW k \in Stages, Writes(k) PROVE Ordered'
  <2> DEFINE n == k
  <2>1. CASE wrote' = Bump(wrote, n)
    <3>1. n \in Links /\ UNCHANGED <<taken, passed, fed, got>>
      BY <1>10, <2>1 DEF Writes, Stopped, Stages, Links
    <3>2. /\ wrote' \in [Links -> Nat] /\ wrote'[n] = wrote[n] + 1
          /\ \A j \in Links : j # n => wrote'[j] = wrote[j]
      BY <2>1, <3>1, Bumped DEF Ordered, CursorsInv
    <3>3. InOrder(n)' /\ wrote'[n] \in 0..MaxUnits
      BY <1>10, <3>1, <3>2 DEF Writes, Stopped, Ordered, CursorsInv, InOrder, Stages
    <3>4. ASSUME NEW j \in Links, j # n PROVE InOrder(j)' /\ wrote'[j] \in 0..MaxUnits
      BY <3>1, <3>2, <3>4 DEF Ordered, InOrder
    <3>5. QED
      BY <3>1, <3>2, <3>3, <3>4 DEF Ordered, CursorsInv
  <2>2. CASE UNCHANGED cursors
    BY <2>2 DEF cursors, Ordered, CursorsInv, InOrder
  <2>3. QED
    BY <1>10, <2>1, <2>2 DEF Writes, Stopped, cursors
<1>11. ASSUME NEW k \in Stages, Succeeds(k) PROVE Ordered'
  BY <1>11 DEF Succeeds, Ordered, CursorsInv, InOrder, cursors
<1>12. ASSUME NEW k \in Stages, Fails(k) PROVE Ordered'
  BY <1>12 DEF Fails, Ordered, CursorsInv, InOrder, cursors
<1>13. ASSUME NEW k \in Stages, WaitReturns(k) PROVE Ordered'
  BY <1>13 DEF WaitReturns, Ordered, CursorsInv, InOrder, cursors
<1>14. ASSUME NEW k \in Stages, CloseOut(k) PROVE Ordered'
  BY <1>14 DEF CloseOut, Ordered, CursorsInv, InOrder, cursors
<1>15. ASSUME NEW k \in Stages, CloseIn(k) PROVE Ordered'
  BY <1>15 DEF CloseIn, Ordered, CursorsInv, InOrder, cursors
<1>16. ASSUME NEW k \in Links, OutReads(k) PROVE Ordered'
  <2> DEFINE n == k
  <2>1. CASE taken' = Bump(taken, n)
    <3>1. n \in Links /\ UNCHANGED <<wrote, passed, fed, got>>
      BY <1>16, <2>1 DEF OutReads, Exited, Stages, Links
    <3>2. /\ taken' \in [Links -> Nat] /\ taken'[n] = taken[n] + 1
          /\ \A j \in Links : j # n => taken'[j] = taken[j]
      BY <2>1, <3>1, Bumped DEF Ordered, CursorsInv
    <3>3. InOrder(n)' /\ wrote'[n] \in 0..MaxUnits
      BY <1>16, <3>1, <3>2 DEF OutReads, Exited, Ordered, CursorsInv, InOrder, Stages
    <3>4. ASSUME NEW j \in Links, j # n PROVE InOrder(j)' /\ wrote'[j] \in 0..MaxUnits
      BY <3>1, <3>2, <3>4 DEF Ordered, InOrder
    <3>5. QED
      BY <3>1, <3>2, <3>3, <3>4 DEF Ordered, CursorsInv
  <2>2. CASE UNCHANGED cursors
    BY <2>2 DEF cursors, Ordered, CursorsInv, InOrder
  <2>3. QED
    BY <1>16, <2>1, <2>2 DEF OutReads, Exited, cursors
<1>17. ASSUME NEW k \in Links, Pass(k) PROVE Ordered'
  <2> DEFINE n == k
  <2>1. CASE passed' = Bump(passed, n)
    <3>1. n \in Links /\ UNCHANGED <<wrote, taken, fed, got>>
      BY <1>17, <2>1 DEF Pass, Stages, Links
    <3>2. /\ passed' \in [Links -> Nat] /\ passed'[n] = passed[n] + 1
          /\ \A j \in Links : j # n => passed'[j] = passed[j]
      BY <2>1, <3>1, Bumped DEF Ordered, CursorsInv
    <3>3. InOrder(n)' /\ wrote'[n] \in 0..MaxUnits
      BY <1>17, <3>1, <3>2 DEF Pass, Ordered, CursorsInv, InOrder, Stages
    <3>4. ASSUME NEW j \in Links, j # n PROVE InOrder(j)' /\ wrote'[j] \in 0..MaxUnits
      BY <3>1, <3>2, <3>4 DEF Ordered, InOrder
    <3>5. QED
      BY <3>1, <3>2, <3>3, <3>4 DEF Ordered, CursorsInv
  <2>2. CASE UNCHANGED cursors
    BY <2>2 DEF cursors, Ordered, CursorsInv, InOrder
  <2>3. QED
    BY <1>17, <2>1, <2>2 DEF Pass, cursors
<1>18. ASSUME NEW k \in Links, OutFails(k) PROVE Ordered'
  BY <1>18 DEF OutFails, Ordered, CursorsInv, InOrder, cursors
<1>19. ASSUME NEW k \in Links, InWrites(k) PROVE Ordered'
  <2> DEFINE n == k
  <2>1. CASE fed' = Bump(fed, n)
    <3>1. n \in Links /\ UNCHANGED <<wrote, taken, passed, got>>
      BY <1>19, <2>1 DEF InWrites, Exited, Stages, Links
    <3>2. /\ fed' \in [Links -> Nat] /\ fed'[n] = fed[n] + 1
          /\ \A j \in Links : j # n => fed'[j] = fed[j]
      BY <2>1, <3>1, Bumped DEF Ordered, CursorsInv
    <3>3. InOrder(n)' /\ wrote'[n] \in 0..MaxUnits
      BY <1>19, <3>1, <3>2 DEF InWrites, Exited, Ordered, CursorsInv, InOrder, Stages
    <3>4. ASSUME NEW j \in Links, j # n PROVE InOrder(j)' /\ wrote'[j] \in 0..MaxUnits
      BY <3>1, <3>2, <3>4 DEF Ordered, InOrder
    <3>5. QED
      BY <3>1, <3>2, <3>3, <3>4 DEF Ordered, CursorsInv
  <2>2. CASE UNCHANGED cursors
    BY <2>2 DEF cursors, Ordered, CursorsInv, InOrder
  <2>3. QED
    BY <1>19, <2>1, <2>2 DEF InWrites, Exited, cursors
<1>20. ASSUME NEW k \in Links, InEnds(k) PROVE Ordered'
  BY <1>20 DEF InEnds, Ordered, CursorsInv, InOrder, cursors
<1>21. CASE UNCHANGED vars
  BY <1>21 DEF vars, cursors, Ordered, CursorsInv, InOrder
<1>22. QED
  BY <1>1, <1>2, <1>3, <1>4, <1>5, <1>6, <1>7, <1>8, <1>9, <1>10, <1>11, <1>12,
     <1>13, <1>14, <1>15, <1>16, <1>17, <1>18, <1>19, <1>20, <1>21
     DEF Next, Main, Works, Waits, Copies

\* Every step keeps the types.
LEMMA TypeStep ==
  ASSUME TypeOK, StartedInv, Ordered', [Next]_vars
  PROVE  TypeOK'
<1> USE StagesAssumption, BoundsAssumption DEF TypeOK, Ordered, StartedInv, Stages, copiers, pipes,
    cursors
<1>1. CASE Start
  BY <1>1 DEF Start
<1>2. CASE Kill
  BY <1>2 DEF Kill, Exited
<1>3. CASE Killed
  BY <1>3 DEF Killed
<1>4. CASE AbortReturns
  BY <1>4 DEF AbortReturns
<1>5. CASE WaitForAll
  BY <1>5 DEF WaitForAll
<1>6. CASE Returns
  BY <1>6 DEF Returns
<1>7. CASE StartFails
  BY <1>7 DEF StartFails
<1>8. ASSUME NEW k \in Stages, Reads(k) PROVE TypeOK'
  BY <1>8 DEF Reads, Stopped, Exited
<1>9. ASSUME NEW k \in Stages, SeesEof(k) PROVE TypeOK'
  BY <1>9 DEF SeesEof
<1>10. ASSUME NEW k \in Stages, Writes(k) PROVE TypeOK'
  BY <1>10 DEF Writes, Stopped, Exited
<1>11. ASSUME NEW k \in Stages, Succeeds(k) PROVE TypeOK'
  BY <1>11 DEF Succeeds
<1>12. ASSUME NEW k \in Stages, Fails(k) PROVE TypeOK'
  BY <1>12 DEF Fails
<1>13. ASSUME NEW k \in Stages, WaitReturns(k) PROVE TypeOK'
  BY <1>13 DEF WaitReturns
<1>14. ASSUME NEW k \in Stages, CloseOut(k) PROVE TypeOK'
  BY <1>14 DEF CloseOut
<1>15. ASSUME NEW k \in Stages, CloseIn(k) PROVE TypeOK'
  BY <1>15 DEF CloseIn
<1>16. ASSUME NEW k \in Links, OutReads(k) PROVE TypeOK'
  BY <1>16 DEF OutReads, Stopped, Exited
<1>17. ASSUME NEW k \in Links, Pass(k) PROVE TypeOK'
  BY <1>17 DEF Pass, Stopped, Exited
<1>18. ASSUME NEW k \in Links, OutFails(k) PROVE TypeOK'
  BY <1>18 DEF OutFails
<1>19. ASSUME NEW k \in Links, InWrites(k) PROVE TypeOK'
  BY <1>19 DEF InWrites, Stopped, Exited
<1>20. ASSUME NEW k \in Links, InEnds(k) PROVE TypeOK'
  BY <1>20 DEF InEnds
<1>21. CASE UNCHANGED vars
  BY <1>21 DEF vars, copiers, pipes, cursors
<1>22. QED
  BY <1>1, <1>2, <1>3, <1>4, <1>5, <1>6, <1>7, <1>8, <1>9, <1>10, <1>11, <1>12,
     <1>13, <1>14, <1>15, <1>16, <1>17, <1>18, <1>19, <1>20, <1>21
     DEF Next, Main, Works, Waits, Copies

\* Every step keeps StartedInv.
LEMMA StartedStep ==
  ASSUME TypeOK, StartedInv, [Next]_vars
  PROVE  StartedInv'
<1> USE StagesAssumption, BoundsAssumption DEF TypeOK, StartedInv, Stages, Links, Exited, Stopped,
    copiers, pipes, cursors
<1>1. CASE Start
  BY <1>1 DEF Start
<1>2. CASE Kill
  BY <1>2 DEF Kill
<1>3. CASE Killed
  BY <1>3 DEF Killed
<1>4. CASE AbortReturns
  BY <1>4 DEF AbortReturns
<1>5. CASE WaitForAll
  BY <1>5 DEF WaitForAll
<1>6. CASE Returns
  BY <1>6 DEF Returns
<1>7. CASE StartFails
  BY <1>7 DEF StartFails
<1>8. ASSUME NEW k \in Stages, Reads(k) PROVE StartedInv'
  BY <1>8 DEF Reads
<1>9. ASSUME NEW k \in Stages, SeesEof(k) PROVE StartedInv'
  BY <1>9 DEF SeesEof
<1>10. ASSUME NEW k \in Stages, Writes(k) PROVE StartedInv'
  <2>1. CASE Stopped(out, k)
    <3>1. /\ proc[k] = "running" /\ proc' = [proc EXCEPT ![k] = "nonzero"]
          /\ UNCHANGED <<pc, cursor, waiter, wclosed, rclosed, out, in, eof>>
      BY <1>10, <2>1 DEF Writes
    <3>2. \A i \in Stages : proc'[i] = "new" <=> proc[i] = "new"
      BY <3>1
    <3>3. QED
      BY <3>1, <3>2
  <2>2. CASE ~Stopped(out, k)
    BY <1>10, <2>2 DEF Writes
  <2>3. QED
    BY <2>1, <2>2
<1>11. ASSUME NEW k \in Stages, Succeeds(k) PROVE StartedInv'
  BY <1>11 DEF Succeeds
<1>12. ASSUME NEW k \in Stages, Fails(k) PROVE StartedInv'
  BY SMTT(30), <1>12 DEF Fails
<1>13. ASSUME NEW k \in Stages, WaitReturns(k) PROVE StartedInv'
  BY <1>13 DEF WaitReturns
<1>14. ASSUME NEW k \in Stages, CloseOut(k) PROVE StartedInv'
  BY <1>14 DEF CloseOut
<1>15. ASSUME NEW k \in Stages, CloseIn(k) PROVE StartedInv'
  BY <1>15 DEF CloseIn
<1>16. ASSUME NEW k \in Links, OutReads(k) PROVE StartedInv'
  BY <1>16 DEF OutReads
<1>17. ASSUME NEW k \in Links, Pass(k) PROVE StartedInv'
  BY <1>17 DEF Pass
<1>18. ASSUME NEW k \in Links, OutFails(k) PROVE StartedInv'
  BY <1>18 DEF OutFails
<1>19. ASSUME NEW k \in Links, InWrites(k) PROVE StartedInv'
  BY SMTT(30), <1>19 DEF InWrites
<1>20. ASSUME NEW k \in Links, InEnds(k) PROVE StartedInv'
  BY <1>20 DEF InEnds
<1>21. CASE UNCHANGED vars
  BY <1>21 DEF vars, copiers, pipes, cursors
<1>22. QED
  BY <1>1, <1>2, <1>3, <1>4, <1>5, <1>6, <1>7, <1>8, <1>9, <1>10, <1>11, <1>12,
     <1>13, <1>14, <1>15, <1>16, <1>17, <1>18, <1>19, <1>20, <1>21
     DEF Next, Main, Works, Waits, Copies

\* Every step keeps WaitedInv.
LEMMA WaitedStep ==
  ASSUME TypeOK, StartedInv, WaitedInv, [Next]_vars
  PROVE  WaitedInv'
<1> USE StagesAssumption, BoundsAssumption DEF TypeOK, StartedInv, WaitedInv, Ended, Exited,
    Stopped, Ending, Stages, Links, copiers, pipes, cursors
<1>1. CASE Start
  BY <1>1 DEF Start
<1>2. CASE Kill
  BY <1>2 DEF Kill
<1>3. CASE Killed
  BY SMTT(30), <1>3 DEF Killed
<1>4. CASE AbortReturns
  BY <1>4 DEF AbortReturns
<1>5. CASE WaitForAll
  BY <1>5 DEF WaitForAll
<1>6. CASE Returns
  BY <1>6 DEF Returns
<1>7. CASE StartFails
  BY <1>7 DEF StartFails
<1>8. ASSUME NEW k \in Stages, Reads(k) PROVE WaitedInv'
  BY <1>8 DEF Reads
<1>9. ASSUME NEW k \in Stages, SeesEof(k) PROVE WaitedInv'
  BY <1>9 DEF SeesEof
<1>10. ASSUME NEW k \in Stages, Writes(k) PROVE WaitedInv'
  BY <1>10 DEF Writes
<1>11. ASSUME NEW k \in Stages, Succeeds(k) PROVE WaitedInv'
  BY <1>11 DEF Succeeds
<1>12. ASSUME NEW k \in Stages, Fails(k) PROVE WaitedInv'
  BY <1>12 DEF Fails
<1>13. ASSUME NEW k \in Stages, WaitReturns(k) PROVE WaitedInv'
  BY <1>13 DEF WaitReturns
<1>14. ASSUME NEW k \in Stages, CloseOut(k) PROVE WaitedInv'
  BY <1>14 DEF CloseOut
<1>15. ASSUME NEW k \in Stages, CloseIn(k) PROVE WaitedInv'
  BY <1>15 DEF CloseIn
<1>16. ASSUME NEW k \in Links, OutReads(k) PROVE WaitedInv'
  <2>1. CASE taken[k] < wrote[k]
    BY <1>16, <2>1 DEF OutReads
  <2>2. CASE ~(taken[k] < wrote[k])
    <3>1. out' = [out EXCEPT ![k] = "over"] /\ UNCHANGED <<pc, cursor, proc, waiter, in>>
      BY <1>16, <2>2 DEF OutReads
    <3>2. \A i \in Stages : Ended(i) => Ended(i)'
      BY <3>1
    <3>3. QED
      BY <3>1, <3>2
  <2>3. QED
    BY <2>1, <2>2
<1>17. ASSUME NEW k \in Links, Pass(k) PROVE WaitedInv'
  BY <1>17 DEF Pass
<1>18. ASSUME NEW k \in Links, OutFails(k) PROVE WaitedInv'
  BY <1>18 DEF OutFails
<1>19. ASSUME NEW k \in Links, InWrites(k) PROVE WaitedInv'
  BY SMTT(30), <1>19 DEF InWrites
<1>20. ASSUME NEW k \in Links, InEnds(k) PROVE WaitedInv'
  BY <1>20 DEF InEnds
<1>21. CASE UNCHANGED vars
  BY <1>21 DEF vars, copiers, pipes, cursors
<1>22. QED
  BY <1>1, <1>2, <1>3, <1>4, <1>5, <1>6, <1>7, <1>8, <1>9, <1>10, <1>11, <1>12,
     <1>13, <1>14, <1>15, <1>16, <1>17, <1>18, <1>19, <1>20, <1>21
     DEF Next, Main, Works, Waits, Copies

\* A pipeline that is torn down stays so.
LEMMA TornStep ==
  ASSUME TypeOK, StartedInv, TornDown, [Next]_vars
  PROVE  TornDown'
<1> USE StagesAssumption, BoundsAssumption DEF TypeOK, TornDown, Exited, copiers, pipes, cursors
<1>1. CASE Start
  BY <1>1 DEF Start
<1>2. CASE Kill
  BY <1>2 DEF Kill
<1>3. CASE Killed
  BY <1>3 DEF Killed
<1>4. CASE AbortReturns
  BY <1>4 DEF AbortReturns
<1>5. CASE WaitForAll
  BY <1>5 DEF WaitForAll
<1>6. CASE Returns
  BY <1>6 DEF Returns
<1>7. CASE StartFails
  BY <1>7 DEF StartFails
<1>8. ASSUME NEW k \in Stages, Reads(k) PROVE TornDown'
  BY <1>8 DEF Reads
<1>9. ASSUME NEW k \in Stages, SeesEof(k) PROVE TornDown'
  BY <1>9 DEF SeesEof
<1>10. ASSUME NEW k \in Stages, Writes(k) PROVE TornDown'
  BY <1>10 DEF Writes
<1>11. ASSUME NEW k \in Stages, Succeeds(k) PROVE TornDown'
  BY <1>11 DEF Succeeds
<1>12. ASSUME NEW k \in Stages, Fails(k) PROVE TornDown'
  BY <1>12 DEF Fails
<1>13. ASSUME NEW k \in Stages, WaitReturns(k) PROVE TornDown'
  BY <1>13 DEF WaitReturns
<1>14. ASSUME NEW k \in Stages, CloseOut(k) PROVE TornDown'
  BY <1>14 DEF CloseOut
<1>15. ASSUME NEW k \in Stages, CloseIn(k) PROVE TornDown'
  BY <1>15 DEF CloseIn
<1>16. ASSUME NEW k \in Links, OutReads(k) PROVE TornDown'
  BY <1>16 DEF OutReads
<1>17. ASSUME NEW k \in Links, Pass(k) PROVE TornDown'
  BY <1>17 DEF Pass
<1>18. ASSUME NEW k \in Links, OutFails(k) PROVE TornDown'
  BY <1>18 DEF OutFails
<1>19. ASSUME NEW k \in Links, InWrites(k) PROVE TornDown'
  BY <1>19 DEF InWrites
<1>20. ASSUME NEW k \in Links, InEnds(k) PROVE TornDown'
  BY <1>20 DEF InEnds
<1>21. CASE UNCHANGED vars
  BY <1>21 DEF vars, copiers, pipes, cursors
<1>22. QED
  BY <1>1, <1>2, <1>3, <1>4, <1>5, <1>6, <1>7, <1>8, <1>9, <1>10, <1>11, <1>12,
     <1>13, <1>14, <1>15, <1>16, <1>17, <1>18, <1>19, <1>20, <1>21
     DEF Next, Main, Works, Waits, Copies

\* A process that has exited stays so and writes no more, and the cursors only grow.
LEMMA OnlyGrow ==
  ASSUME Ordered, TypeOK, StartedInv, [Next]_vars
  PROVE  /\ \A i \in Stages : Exited(i) => Exited(i)'
         /\ \A i \in Links : Exited(i) => wrote'[i] = wrote[i]
         /\ \A i \in Links : /\ taken'[i] >= taken[i] /\ passed'[i] >= passed[i]
                             /\ fed'[i] >= fed[i] /\ got'[i] >= got[i]
<1> DEFINE Keeps == \A i \in Stages : Exited(i) => Exited(i)'
           Quiet == \A i \in Links : Exited(i) => wrote'[i] = wrote[i]
           Grow  == \A i \in Links : /\ taken'[i] >= taken[i] /\ passed'[i] >= passed[i]
                                     /\ fed'[i] >= fed[i] /\ got'[i] >= got[i]
<1>0. Keeps
  BY DEF TypeOK, StartedInv, Exited,
         Next, Main, Works, Waits, Copies, Start, Kill, Killed, AbortReturns, WaitForAll, Returns, StartFails,
         Reads, SeesEof, Writes, Succeeds, Fails, WaitReturns, CloseOut, CloseIn,
         OutReads, Pass, OutFails, InWrites, InEnds, vars, copiers, pipes, cursors
<1> HIDE DEF Keeps
<1> USE StagesAssumption, BoundsAssumption DEF Ordered, CursorsInv
<1>1. ASSUME Start PROVE Quiet /\ Grow
  BY <1>1 DEF Start, cursors
<1>2. ASSUME Kill PROVE Quiet /\ Grow
  BY <1>2 DEF Kill, Exited, cursors
<1>3. ASSUME Killed PROVE Quiet /\ Grow
  BY <1>3 DEF Killed, cursors
<1>4. ASSUME AbortReturns PROVE Quiet /\ Grow
  BY <1>4 DEF AbortReturns, cursors
<1>5. ASSUME WaitForAll PROVE Quiet /\ Grow
  BY <1>5 DEF WaitForAll, cursors
<1>6. ASSUME Returns PROVE Quiet /\ Grow
  BY <1>6 DEF Returns, cursors
<1>7. ASSUME StartFails PROVE Quiet /\ Grow
  BY <1>7 DEF StartFails, cursors
<1>8. ASSUME NEW k \in Stages, Reads(k) PROVE Quiet /\ Grow
  <2>1. k - 1 \in Links /\ got' = Bump(got, k - 1) /\ UNCHANGED <<wrote, taken, passed, fed>>
    BY <1>8 DEF Reads, Stages, Links
  <2>2. \A j \in Links : got'[j] >= got[j]
    BY <2>1, Bumped
  <2>3. QED
    BY <2>1, <2>2
<1>9. ASSUME NEW k \in Stages, SeesEof(k) PROVE Quiet /\ Grow
  BY <1>9 DEF SeesEof, cursors
<1>10. ASSUME NEW k \in Stages, Writes(k) PROVE Quiet /\ Grow
  <2>1. CASE wrote' = Bump(wrote, k)
    <3>1. k \in Links /\ UNCHANGED <<taken, passed, fed, got>> /\ ~Exited(k)
      BY <1>10, <2>1 DEF Writes, Stopped, Stages, Links, Exited
    <3>2. \A j \in Links : /\ j # k => wrote'[j] = wrote[j]
                           /\ wrote'[j] >= wrote[j]
      BY <2>1, <3>1, Bumped
    <3>3. QED
      BY <3>1, <3>2
  <2>2. CASE UNCHANGED cursors
    BY <1>10, <2>2 DEF cursors, Writes, Stopped
  <2>3. QED
    BY <1>10, <2>1, <2>2 DEF Writes, cursors
<1>11. ASSUME NEW k \in Stages, Succeeds(k) PROVE Quiet /\ Grow
  BY <1>11 DEF Succeeds, cursors
<1>12. ASSUME NEW k \in Stages, Fails(k) PROVE Quiet /\ Grow
  BY <1>12 DEF Fails, cursors
<1>13. ASSUME NEW k \in Stages, WaitReturns(k) PROVE Quiet /\ Grow
  BY <1>13 DEF WaitReturns, cursors
<1>14. ASSUME NEW k \in Stages, CloseOut(k) PROVE Quiet /\ Grow
  BY <1>14 DEF CloseOut, cursors
<1>15. ASSUME NEW k \in Stages, CloseIn(k) PROVE Quiet /\ Grow
  BY <1>15 DEF CloseIn, cursors
<1>16. ASSUME NEW k \in Links, OutReads(k) PROVE Quiet /\ Grow
  <2>1. CASE taken' = Bump(taken, k)
    <3>1. k \in Links /\ UNCHANGED <<wrote, passed, fed, got>>
      BY <1>16, <2>1 DEF OutReads, Stages, Links
    <3>2. \A j \in Links : /\ j # k => taken'[j] = taken[j]
                           /\ taken'[j] >= taken[j]
      BY <2>1, <3>1, Bumped
    <3>3. QED
      BY <3>1, <3>2
  <2>2. CASE UNCHANGED cursors
    BY <1>16, <2>2 DEF cursors, OutReads
  <2>3. QED
    BY <1>16, <2>1, <2>2 DEF OutReads, cursors
<1>17. ASSUME NEW k \in Links, Pass(k) PROVE Quiet /\ Grow
  <2>1. k \in Links /\ passed' = Bump(passed, k) /\ UNCHANGED <<wrote, taken, fed, got>>
    BY <1>17 DEF Pass, Stages, Links
  <2>2. \A j \in Links : passed'[j] >= passed[j]
    BY <2>1, Bumped
  <2>3. QED
    BY <2>1, <2>2
<1>18. ASSUME NEW k \in Links, OutFails(k) PROVE Quiet /\ Grow
  BY <1>18 DEF OutFails, cursors
<1>19. ASSUME NEW k \in Links, InWrites(k) PROVE Quiet /\ Grow
  <2>1. CASE fed' = Bump(fed, k)
    <3>1. k \in Links /\ UNCHANGED <<wrote, taken, passed, got>>
      BY <1>19, <2>1 DEF InWrites, Exited, Stages, Links
    <3>2. \A j \in Links : /\ j # k => fed'[j] = fed[j]
                           /\ fed'[j] >= fed[j]
      BY <2>1, <3>1, Bumped
    <3>3. QED
      BY <3>1, <3>2
  <2>2. CASE UNCHANGED cursors
    BY <1>19, <2>2 DEF cursors, InWrites, Exited
  <2>3. QED
    BY <1>19, <2>1, <2>2 DEF InWrites, cursors
<1>20. ASSUME NEW k \in Links, InEnds(k) PROVE Quiet /\ Grow
  BY <1>20 DEF InEnds, cursors
<1>21. ASSUME UNCHANGED vars PROVE Quiet /\ Grow
  BY <1>21 DEF vars, cursors, Exited
<1>22. QED
  BY <1>0, <1>1, <1>2, <1>3, <1>4, <1>5, <1>6, <1>7, <1>8, <1>9, <1>10, <1>11,
     <1>12, <1>13, <1>14, <1>15, <1>16, <1>17, <1>18, <1>19, <1>20, <1>21
     DEF Next, Main, Works, Waits, Copies, Keeps

\* A copier or a stage for which there is nothing more to come stays so.
LEMMA StaysDrained ==
  ASSUME Ordered, Ordered', TypeOK, StartedInv, [Next]_vars, NEW i \in Links, Exited(i)
  PROVE  /\ Exited(i)'
         /\ taken[i]  = wrote[i] => taken'[i]  = wrote'[i]
         /\ passed[i] = wrote[i] => passed'[i] = wrote'[i]
         /\ fed[i]    = wrote[i] => fed'[i]    = wrote'[i]
         /\ got[i]    = wrote[i] => got'[i]    = wrote'[i]
<1>1. i \in Stages
  BY StagesAssumption DEF Stages, Links
<1>2. /\ wrote'[i] = wrote[i] /\ taken'[i] >= taken[i] /\ passed'[i] >= passed[i]
      /\ fed'[i] >= fed[i] /\ got'[i] >= got[i] /\ Exited(i)'
  BY <1>1, OnlyGrow
<1>3. /\ wrote[i] \in Nat /\ taken[i] \in Nat /\ passed[i] \in Nat /\ fed[i] \in Nat /\ got[i] \in Nat
      /\ wrote'[i] \in Nat /\ taken'[i] \in Nat /\ passed'[i] \in Nat /\ fed'[i] \in Nat /\ got'[i] \in Nat
  BY BoundsAssumption DEF Ordered, CursorsInv
<1>4. /\ taken'[i] <= wrote'[i] /\ passed'[i] <= taken'[i]
      /\ fed'[i] <= passed'[i] /\ got'[i] <= fed'[i]
  BY <1>3 DEF Ordered, InOrder
<1>5. QED
  BY <1>2, <1>3, <1>4

\* Every step keeps CopiedInv.
LEMMA CopiedStep ==
  ASSUME TypeOK, Ordered, Ordered', StartedInv, CopiedInv, [Next]_vars
  PROVE  CopiedInv'
<1> SUFFICES ASSUME NEW i \in Links, out'[i] = "over"
             PROVE  Exited(i)' /\ taken'[i] = wrote'[i] /\ passed'[i] = wrote'[i]
  BY DEF CopiedInv, Exited
<1>1. CASE out[i] = "over"
  BY <1>1, StaysDrained DEF CopiedInv
<1>2. CASE out[i] # "over"
  <2>1. OutReads(i) /\ ~(taken[i] < wrote[i])
    BY <1>2 DEF TypeOK,
         Next, Main, Works, Waits, Copies, Start, Kill, Killed, AbortReturns, WaitForAll, Returns, StartFails,
         Reads, SeesEof, Writes, Succeeds, Fails, WaitReturns, CloseOut, CloseIn,
         OutReads, Pass, OutFails, InWrites, InEnds, vars, copiers, pipes, cursors
  <2>2. Exited(i) /\ taken[i] = wrote[i] /\ passed[i] = wrote[i]
    <3>1. Exited(i) /\ taken[i] = passed[i] /\ i \in Links
      BY <2>1 DEF OutReads
    <3>2. wrote[i] \in Nat /\ taken[i] \in 0..wrote[i]
      BY BoundsAssumption DEF Ordered, InOrder
    <3>3. QED
      BY <2>1, <3>1, <3>2
  <2>3. QED
    BY <2>2, StaysDrained
<1>3. QED
  BY <1>1, <1>2

\* Every step keeps ClosedInv.
LEMMA ClosedStep ==
  ASSUME TypeOK, StartedInv, WaitedInv, ClosedInv, [Next]_vars
  PROVE  ClosedInv'
<1>t. /\ TornDown => TornDown'
      /\ pc = "kill" => TornDown
  BY TornStep DEF TornDown, StartedInv
<1> USE StagesAssumption, BoundsAssumption, <1>t DEF TypeOK, StartedInv, WaitedInv, ClosedInv,
    Ended, Exited, Stopped, Ending, Stages, Links, copiers, pipes, cursors
<1>1. CASE Start
  BY <1>1 DEF Start
<1>2. CASE Kill
  BY <1>2 DEF Kill
<1>3. CASE Killed
  BY <1>3 DEF Killed
<1>4. CASE AbortReturns
  BY <1>4 DEF AbortReturns
<1>5. CASE WaitForAll
  BY <1>5 DEF WaitForAll
<1>6. CASE Returns
  BY <1>6 DEF Returns
<1>7. CASE StartFails
  <2>1. TornDown'
    BY <1>7 DEF StartFails, TornDown
  <2>2. QED
    BY <2>1
<1>8. ASSUME NEW k \in Stages, Reads(k) PROVE ClosedInv'
  BY <1>8 DEF Reads
<1>9. ASSUME NEW k \in Stages, SeesEof(k) PROVE ClosedInv'
  BY <1>9 DEF SeesEof
<1>10. ASSUME NEW k \in Stages, Writes(k) PROVE ClosedInv'
  BY <1>10 DEF Writes
<1>11. ASSUME NEW k \in Stages, Succeeds(k) PROVE ClosedInv'
  BY <1>11 DEF Succeeds
<1>12. ASSUME NEW k \in Stages, Fails(k) PROVE ClosedInv'
  BY <1>12 DEF Fails
<1>13. ASSUME NEW k \in Stages, WaitReturns(k) PROVE ClosedInv'
  BY <1>13 DEF WaitReturns
<1>14. ASSUME NEW k \in Stages, CloseOut(k) PROVE ClosedInv'
  BY <1>14 DEF CloseOut
<1>15. ASSUME NEW k \in Stages, CloseIn(k) PROVE ClosedInv'
  BY <1>15 DEF CloseIn
<1>16. ASSUME NEW k \in Links, OutReads(k) PROVE ClosedInv'
  BY <1>16 DEF OutReads
<1>17. ASSUME NEW k \in Links, Pass(k) PROVE ClosedInv'
  BY <1>17 DEF Pass
<1>18. ASSUME NEW k \in Links, OutFails(k) PROVE ClosedInv'
  BY <1>18 DEF OutFails
<1>19. ASSUME NEW k \in Links, InWrites(k) PROVE ClosedInv'
  BY <1>19 DEF InWrites
<1>20. ASSUME NEW k \in Links, InEnds(k) PROVE ClosedInv'
  BY <1>20 DEF InEnds
<1>21. CASE UNCHANGED vars
  BY <1>21 DEF vars, copiers, pipes, cursors
<1>22. QED
  BY <1>1, <1>2, <1>3, <1>4, <1>5, <1>6, <1>7, <1>8, <1>9, <1>10, <1>11, <1>12,
     <1>13, <1>14, <1>15, <1>16, <1>17, <1>18, <1>19, <1>20, <1>21
     DEF Next, Main, Works, Waits, Copies

\* Every step keeps EndsInv.
LEMMA EndsStep ==
  ASSUME TypeOK, Ordered, Ordered', StartedInv, WaitedInv, CopiedInv, ClosedInv, EndsInv, [Next]_vars
  PROVE  EndsInv'
<1> SUFFICES ASSUME ~TornDown', NEW i \in Links, Stopped(in, i)'
             PROVE  Exited(i + 1)' \/ (Exited(i)' /\ fed'[i] = wrote'[i])
  BY DEF EndsInv
<1>1. ~TornDown
  BY TornStep
<1>2. i \in Stages /\ i + 1 \in Stages
  BY StagesAssumption DEF Stages, Links
<1>3. CASE Stopped(in, i)
  <2>1. Exited(i + 1) \/ (Exited(i) /\ fed[i] = wrote[i])
    BY <1>1, <1>3 DEF EndsInv
  <2>2. QED
    BY <1>2, <2>1, OnlyGrow, StaysDrained
<1>4. CASE ~Stopped(in, i)
  <2>1. (InWrites(i) /\ Exited(i + 1)) \/ InEnds(i)
    BY <1>4 DEF TypeOK, Stopped, Exited,
         Next, Main, Works, Waits, Copies, Start, Kill, Killed, AbortReturns, WaitForAll, Returns, StartFails,
         Reads, SeesEof, Writes, Succeeds, Fails, WaitReturns, CloseOut, CloseIn,
         OutReads, Pass, OutFails, InWrites, InEnds, vars, copiers, pipes, cursors
  <2>2. CASE Exited(i + 1)
    BY <1>2, <2>2, OnlyGrow
  <2>3. CASE InEnds(i) /\ i \in rclosed
    <3>1. waiter[i + 1] = "over"
      BY <1>1, <2>3 DEF ClosedInv
    <3>2. Exited(i + 1)
      BY <1>2, <3>1 DEF WaitedInv, Ending, Ended
    <3>3. QED
      BY <2>2, <3>2
  <2>4. CASE InEnds(i) /\ i \notin rclosed
    <3>1. fed[i] = passed[i] /\ i \in wclosed
      BY <2>4 DEF InEnds
    <3>2. waiter[i] \in Ending /\ out[i] # "failed"
      BY <1>1, <2>4, <3>1 DEF ClosedInv, Ending
    <3>3. out[i] = "over"
      BY <1>2, <3>2 DEF WaitedInv, Ended, Stopped
    <3>4. Exited(i) /\ fed[i] = wrote[i]
      BY <3>1, <3>3 DEF CopiedInv
    <3>5. QED
      BY <3>4, StaysDrained
  <2>5. QED
    BY <2>1, <2>2, <2>3, <2>4
<1>5. QED
  BY <1>3, <1>4

\* Every step keeps EofIsTheEnd.
LEMMA EofStep ==
  ASSUME TypeOK, Ordered, Ordered', StartedInv, EndsInv, EofIsTheEnd, [Next]_vars
  PROVE  EofIsTheEnd'
<1> SUFFICES ASSUME ~TornDown', NEW i \in Links, i + 1 \in eof'
             PROVE  Exited(i)' /\ got'[i] = wrote'[i]
  BY DEF EofIsTheEnd
<1>1. ~TornDown
  BY TornStep
<1>2. CASE i + 1 \in eof
  BY <1>1, <1>2, StaysDrained DEF EofIsTheEnd
<1>3. CASE i + 1 \notin eof
  <2>1. SeesEof(i + 1)
    BY <1>3 DEF Next, Main, Works, Waits, Copies, Start, Kill, Killed, AbortReturns, WaitForAll,
      Returns, StartFails,
         Reads, SeesEof, Writes, Succeeds, Fails, WaitReturns, CloseOut, CloseIn,
         OutReads, Pass, OutFails, InWrites, InEnds, vars, copiers, pipes, cursors
  <2>2. got[i] = fed[i] /\ Stopped(in, i) /\ ~Exited(i + 1)
    BY <2>1, StagesAssumption DEF SeesEof, Exited, Links
  <2>3. Exited(i) /\ got[i] = wrote[i]
    BY <1>1, <2>2 DEF EndsInv
  <2>4. QED
    BY <2>3, StaysDrained
<1>4. QED
  BY <1>2, <1>3

\* Every step keeps ErrorsInv.
LEMMA ErrorsStep ==
  ASSUME TypeOK, StartedInv, WaitedInv, ErrorsInv, [Next]_vars
  PROVE  ErrorsInv'
<1>t. /\ TornDown => TornDown'
      /\ pc = "kill" => TornDown
  BY TornStep DEF TornDown, StartedInv
<1> USE StagesAssumption, BoundsAssumption, <1>t DEF TypeOK, StartedInv, WaitedInv, ErrorsInv,
    Erred, Ended, Exited, Stopped, Ending, Stages, Links, copiers, pipes, cursors
<1>1. CASE Start
  BY <1>1 DEF Start, TornDown
<1>2. CASE Kill
  BY <1>2 DEF Kill
<1>3. CASE Killed
  BY <1>3 DEF Killed
<1>4. CASE AbortReturns
  BY <1>4 DEF AbortReturns
<1>5. CASE WaitForAll
  BY <1>5 DEF WaitForAll
<1>6. CASE Returns
  BY <1>6 DEF Returns
<1>7. CASE StartFails
  BY <1>7 DEF StartFails
<1>8. ASSUME NEW k \in Stages, Reads(k) PROVE ErrorsInv'
  BY <1>8 DEF Reads
<1>9. ASSUME NEW k \in Stages, SeesEof(k) PROVE ErrorsInv'
  BY <1>9 DEF SeesEof
<1>10. ASSUME NEW k \in Stages, Writes(k) PROVE ErrorsInv'
  BY <1>10 DEF Writes
<1>11. ASSUME NEW k \in Stages, Succeeds(k) PROVE ErrorsInv'
  BY <1>11 DEF Succeeds
<1>12. ASSUME NEW k \in Stages, Fails(k) PROVE ErrorsInv'
  BY <1>12 DEF Fails
<1>13. ASSUME NEW k \in Stages, WaitReturns(k) PROVE ErrorsInv'
  BY <1>13 DEF WaitReturns
<1>14. ASSUME NEW k \in Stages, CloseOut(k) PROVE ErrorsInv'
  BY <1>14 DEF CloseOut
<1>15. ASSUME NEW k \in Stages, CloseIn(k) PROVE ErrorsInv'
  BY <1>15 DEF CloseIn
<1>16. ASSUME NEW k \in Links, OutReads(k) PROVE ErrorsInv'
  BY <1>16 DEF OutReads
<1>17. ASSUME NEW k \in Links, Pass(k) PROVE ErrorsInv'
  BY <1>17 DEF Pass
<1>18. ASSUME NEW k \in Links, OutFails(k) PROVE ErrorsInv'
  BY <1>18 DEF OutFails
<1>19. ASSUME NEW k \in Links, InWrites(k) PROVE ErrorsInv'
  BY <1>19 DEF InWrites
<1>20. ASSUME NEW k \in Links, InEnds(k) PROVE ErrorsInv'
  BY <1>20 DEF InEnds
<1>21. CASE UNCHANGED vars
  BY <1>21 DEF vars, copiers, pipes, cursors
<1>22. QED
  BY <1>1, <1>2, <1>3, <1>4, <1>5, <1>6, <1>7, <1>8, <1>9, <1>10, <1>11, <1>12,
     <1>13, <1>14, <1>15, <1>16, <1>17, <1>18, <1>19, <1>20, <1>21
     DEF Next, Main, Works, Waits, Copies


\* IInv is an inductive invariant.
THEOREM Invariance == Spec => []IInv
<1>1. Init => IInv
  <2> SUFFICES ASSUME Init PROVE IInv
    OBVIOUS
  <2> USE StagesAssumption, BoundsAssumption DEF Init, Stages, Links
  <2>1. TypeOK /\ CursorsInv
    BY DEF TypeOK, InOrder, CursorsInv
  <2>2. StartedInv /\ WaitedInv
    BY DEF StartedInv, WaitedInv, Ending
  <2>3. CopiedInv /\ ClosedInv /\ EndsInv /\ ErrorsInv /\ EofIsTheEnd
    BY DEF CopiedInv, ClosedInv, EndsInv, Stopped, ErrorsInv, EofIsTheEnd
  <2>4. QED
    BY <2>1, <2>2, <2>3 DEF IInv
<1>2. IInv /\ [Next]_vars => IInv'
  <2> SUFFICES ASSUME IInv, [Next]_vars PROVE IInv'
    OBVIOUS
  <2>1. /\ TypeOK /\ StartedInv /\ WaitedInv /\ CopiedInv /\ ClosedInv
        /\ EndsInv /\ ErrorsInv /\ EofIsTheEnd /\ Ordered
    BY DEF IInv, TypeOK, Ordered
  <2>2. Ordered'
    BY <2>1, CursorsStep
  <2>3. TypeOK' /\ CursorsInv'
    BY <2>1, <2>2, TypeStep DEF Ordered
  <2>4. StartedInv' /\ WaitedInv'
    BY <2>1, StartedStep, WaitedStep
  <2>5. CopiedInv' /\ ClosedInv' /\ EndsInv'
    BY <2>1, <2>2, CopiedStep, ClosedStep, EndsStep
  <2>6. ErrorsInv' /\ EofIsTheEnd'
    BY <2>1, <2>2, ErrorsStep, EofStep
  <2>7. QED
    BY <2>3, <2>4, <2>5, <2>6 DEF IInv
<1>3. QED
  BY <1>1, <1>2, PTL DEF Spec

\* The variables have their types, no cursor overtakes the one before it nor a pipe
\* its capacity, and no process is waited for that was not started.
THEOREM TypeCorrect == Spec => []TypeOK
<1>1. IInv => TypeOK
  BY DEF IInv
<1>2. QED
  BY <1>1, Invariance, PTL

\* No stage takes a part of its input for the whole (EofIsTheEnd): what `iptables-restore`
\* is given is all that `iptables-save` and `grep` had to say.
THEOREM NoShortInput == Spec => []EofIsTheEnd
<1>1. IInv => EofIsTheEnd
  BY DEF IInv
<1>2. QED
  BY <1>1, Invariance, PTL

\* Pipeline does not return nil unless every command has succeeded and everything that
\* was written has been read (NilIsWhole), except by a command that may succeed before it
\* has read everything (Hasty).
THEOREM NoLostError == Spec => []NilIsWhole
<1>1. IInv => NilIsWhole
  <2> SUFFICES ASSUME IInv, result = "nil" PROVE NilIsWhole
    BY DEF NilIsWhole
  <2>1. /\ pc = "returned" /\ errs = {}
        /\ \A i \in Stages : waiter[i] = "over" /\ proc[i] # "new"
    BY DEF IInv, ErrorsInv
  <2>2. ~TornDown
    BY <2>1 DEF TornDown
  <2>3. \A i \in Stages : proc[i] = "zero" /\ i \in eof \cup Hasty
    BY <2>1, <2>2 DEF IInv, ErrorsInv, Ending
  <2>4. \A i \in Links : i + 1 \in Stages
    BY StagesAssumption DEF Stages, Links
  <2>5. \A i \in Links : i + 1 \notin Hasty => got[i] = wrote[i]
    BY <2>2, <2>3, <2>4 DEF IInv, EofIsTheEnd
  <2>6. QED
    BY <2>3, <2>5 DEF NilIsWhole
<1>2. QED
  BY <1>1, Invariance, PTL

\* When Pipeline returns, however the pipeline has fared, it has left no process and no
\* goroutine behind (the safety half of ReturnsClean).
THEOREM NoLeftovers == Spec => []LeavesNothing
<1>1. IInv => LeavesNothing
  <2> SUFFICES ASSUME IInv, pc = "returned" PROVE NothingLeft
    BY DEF LeavesNothing
  <2>1. \A i \in Stages : proc[i] = "new" \/ Ended(i)
    BY DEF IInv, WaitedInv, Ending
  <2>2. \A i \in Stages : ~Running(i)
    BY <2>1 DEF Ended, Exited, Running
  <2>3. ASSUME NEW i \in Links PROVE out[i] # "copying" /\ in[i] # "copying"
    <3>1. i \in Stages /\ i + 1 \in Stages /\ (i + 1) - 1 = i
      BY StagesAssumption DEF Stages, Links
    <3>2. out[i] = "new" \/ Stopped(out, i)
      BY <2>1, <3>1 DEF IInv, StartedInv, Ended
    <3>3. in[i] = "new" \/ Stopped(in, i)
      <4>1. CASE proc[i + 1] = "new"
        BY <4>1 DEF IInv, StartedInv
      <4>2. CASE Ended(i + 1)
        BY <4>2, <3>1 DEF Ended
      <4>3. QED
        BY <2>1, <3>1, <4>1, <4>2
    <3>4. QED
      BY <3>2, <3>3 DEF Stopped
  <2>4. QED
    BY <2>2, <2>3 DEF NothingLeft
<1>2. QED
  BY <1>1, Invariance, PTL

-----------------------------------------------------------------------------
(* The refinement of AbstractPipeline.                                     *)

\* A stage that has seen the end of its stdin has read it all.
DrainedInv == \A i \in Links : i + 1 \in eof => Stopped(in, i) /\ got[i] = fed[i]

\* An error has a cause that stays: a command that failed, or data that got stuck.
CauseInv ==
  /\ pc # "returned" => result = "none"
  /\ \A i \in errs : Erred(i)
  /\ ~TornDown => \A i \in Links : in[i] # "failed" /\ (out[i] = "failed" => passed[i] < taken[i])

\* Every step keeps DrainedInv.
LEMMA DrainedStep ==
  ASSUME TypeOK, Ordered, StartedInv, DrainedInv, [Next]_vars
  PROVE  DrainedInv'
<1> SUFFICES ASSUME NEW i \in Links, i + 1 \in eof' PROVE Stopped(in, i)' /\ got'[i] = fed'[i]
  BY DEF DrainedInv
<1>1. i + 1 \in Stages /\ (i + 1) - 1 = i /\ i + 1 > 1
  BY StagesAssumption DEF Stages, Links
<1>2. CASE i + 1 \notin eof
  <2>1. SeesEof(i + 1)
    BY <1>2 DEF Next, Main, Works, Waits, Copies, Start, Kill, Killed, AbortReturns, WaitForAll,
      Returns, StartFails,
         Reads, SeesEof, Writes, Succeeds, Fails, WaitReturns, CloseOut, CloseIn,
         OutReads, Pass, OutFails, InWrites, InEnds, vars, copiers, pipes, cursors
  <2>2. got[i] = fed[i] /\ Stopped(in, i) /\ UNCHANGED <<got, fed, in>>
    BY <1>1, <2>1 DEF SeesEof, copiers, cursors
  <2>3. QED
    BY <2>2 DEF Stopped
<1>3. CASE i + 1 \in eof
  <2>1. Stopped(in, i) /\ got[i] = fed[i] /\ proc[i + 1] # "new"
    BY <1>1, <1>3 DEF DrainedInv, StartedInv
  <2>2. got[i] \in Nat /\ fed[i] \in Nat
    BY DEF Ordered, CursorsInv
  <2>3. in'[i] = in[i]
    <3>1. CASE Start
      <4>1. i + 1 # cursor
        BY <1>1, <2>1, <3>1 DEF Start, StartedInv, TypeOK
      <4>2. QED
        BY <3>1, <4>1 DEF Start
    <3>2. CASE ~Start
      BY <2>1, <3>2 DEF TypeOK, Stopped, Next, Main, Works, Waits, Copies, Kill, Killed, AbortReturns,
         WaitForAll, Returns, StartFails,
         Reads, SeesEof, Writes, Succeeds, Fails, WaitReturns, CloseOut, CloseIn,
         OutReads, Pass, OutFails, InWrites, InEnds, vars, copiers, pipes, cursors
    <3>3. QED
      BY <3>1, <3>2
  <2>4. fed'[i] = fed[i]
    <3>1. ASSUME NEW k \in Links, InWrites(k) PROVE fed'[i] = fed[i]
      <4>1. k # i
        BY <2>1, <3>1 DEF InWrites, Stopped
      <4>2. QED
        BY <3>1, <4>1 DEF InWrites, Bump, Ordered, CursorsInv
    <3>2. CASE UNCHANGED fed
      BY <3>2
    <3>3. QED
      BY <3>1, <3>2 DEF Next, Main, Works, Waits, Copies, Start, Kill, Killed, AbortReturns,
         WaitForAll, Returns, StartFails,
         Reads, SeesEof, Writes, Succeeds, Fails, WaitReturns, CloseOut, CloseIn,
         OutReads, Pass, OutFails, InEnds, vars, copiers, pipes, cursors
  <2>5. got'[i] = got[i]
    <3>1. ASSUME NEW k \in Stages, Reads(k) PROVE got'[i] = got[i]
      <4>1. k - 1 # i
        BY <2>1, <2>2, <3>1 DEF Reads
      <4>2. QED
        BY <3>1, <4>1 DEF Reads, Bump, Ordered, CursorsInv
    <3>2. CASE UNCHANGED got
      BY <3>2
    <3>3. QED
      BY <3>1, <3>2 DEF Next, Main, Works, Waits, Copies, Start, Kill, Killed, AbortReturns,
         WaitForAll, Returns, StartFails,
         SeesEof, Writes, Succeeds, Fails, WaitReturns, CloseOut, CloseIn,
         OutReads, Pass, OutFails, InWrites, InEnds, vars, copiers, pipes, cursors
  <2>6. QED
    BY <2>1, <2>3, <2>4, <2>5 DEF Stopped
<1>4. QED
  BY <1>2, <1>3

\* What is wrong with a stage stays wrong.
LEMMA ErredStays ==
  ASSUME TypeOK, StartedInv, NEW i \in Stages, Erred(i), [Next]_vars
  PROVE  Erred(i)'
<1>1. CASE Start
  <2>1. /\ proc[cursor] = "new"
        /\ \A j \in Links : (j = cursor => out[j] = "new") /\ (j + 1 = cursor => in[j] = "new")
    BY <1>1 DEF Start, StartedInv, TypeOK
  <2>2. /\ proc[i] = "nonzero" => proc'[i] = "nonzero"
        /\ \A j \in Links : /\ out[j] = "failed" => out'[j] = "failed"
                            /\ in[j] = "failed" => in'[j] = "failed"
    BY <1>1, <2>1 DEF Start, TypeOK
  <2>3. QED
    BY <2>2 DEF Erred
<1>2. CASE ~Start
  <2>1. proc[i] = "nonzero" => proc'[i] = "nonzero"
    BY <1>2 DEF TypeOK, Exited, Next, Main, Works, Waits, Copies, Kill, Killed, AbortReturns,
         WaitForAll, Returns, StartFails,
         Reads, SeesEof, Writes, Succeeds, Fails, WaitReturns, CloseOut, CloseIn,
         OutReads, Pass, OutFails, InWrites, InEnds, vars, copiers, pipes, cursors
  <2>2. \A j \in Links : /\ out[j] = "failed" => out'[j] = "failed"
                         /\ in[j] = "failed" => in'[j] = "failed"
    BY <1>2 DEF TypeOK, Next, Main, Works, Waits, Copies, Kill, Killed, AbortReturns,
         WaitForAll, Returns, StartFails,
         Reads, SeesEof, Writes, Succeeds, Fails, WaitReturns, CloseOut, CloseIn,
         OutReads, Pass, OutFails, InWrites, InEnds, vars, copiers, pipes, cursors
  <2>3. QED
    BY <2>1, <2>2 DEF Erred
<1>3. QED
  BY <1>1, <1>2

\* Every step keeps CauseInv.
LEMMA CauseStep ==
  ASSUME TypeOK, Ordered, StartedInv, WaitedInv, ClosedInv, CauseInv, [Next]_vars
  PROVE  CauseInv'
<1>1. pc' # "returned" => result' = "none"
  BY DEF CauseInv, Next, Main, Works, Waits, Copies, Start, Kill, Killed, AbortReturns,
         WaitForAll, Returns, StartFails,
         Reads, SeesEof, Writes, Succeeds, Fails, WaitReturns, CloseOut, CloseIn,
         OutReads, Pass, OutFails, InWrites, InEnds, vars, copiers, pipes, cursors
<1>2. \A i \in errs' : Erred(i)'
  <2>1. \A i \in errs : Erred(i)'
    BY ErredStays DEF CauseInv, TypeOK
  <2>2. ASSUME NEW k \in Stages, WaitReturns(k) PROVE \A i \in errs' : Erred(i)'
    <3>1. UNCHANGED <<proc, out, in>> /\ errs' \subseteq errs \cup {k} /\ (k \in errs' => k \in errs \/ Erred(k))
      BY <2>2 DEF WaitReturns, copiers
    <3>2. Erred(k) => Erred(k)'
      BY <3>1 DEF Erred
    <3>3. QED
      BY <2>1, <3>1, <3>2
  <2>3. CASE UNCHANGED errs
    BY <2>1, <2>3
  <2>4. QED
    BY <2>2, <2>3 DEF Next, Main, Works, Waits, Copies, Start, Kill, Killed, AbortReturns,
         WaitForAll, Returns, StartFails,
         Reads, SeesEof, Writes, Succeeds, Fails, CloseOut, CloseIn,
         OutReads, Pass, OutFails, InWrites, InEnds, vars, copiers, pipes, cursors
<1>3. ASSUME ~TornDown', NEW i \in Links
      PROVE  in'[i] # "failed" /\ (out'[i] = "failed" => passed'[i] < taken'[i])
  <2>1. ~TornDown
    BY <1>3, TornStep
  <2>2. in[i] # "failed" /\ (out[i] = "failed" => passed[i] < taken[i])
    BY <2>1 DEF CauseInv
  <2>3. i \in Stages /\ i + 1 \in Stages /\ (i + 1) - 1 = i
    BY StagesAssumption DEF Stages, Links
  <2>4. in'[i] # "failed"
    <3>1. ASSUME InEnds(i) PROVE i \notin rclosed
      <4>1. SUFFICES ASSUME i \in rclosed PROVE FALSE
        OBVIOUS
      <4>2. waiter[i + 1] = "over"
        BY <2>1, <4>1 DEF ClosedInv
      <4>3. Stopped(in, i)
        BY <2>3, <4>2 DEF WaitedInv, Ending, Ended
      <4>4. QED
        BY <3>1, <4>3 DEF InEnds, Stopped
    <3>2. QED
      BY <2>2, <3>1 DEF TypeOK, Next, Main, Works, Waits, Copies, Start, Kill, Killed, AbortReturns,
         WaitForAll, Returns, StartFails,
         Reads, SeesEof, Writes, Succeeds, Fails, WaitReturns, CloseOut, CloseIn,
         OutReads, Pass, OutFails, InWrites, InEnds, vars, copiers, pipes, cursors
  <2>5. out'[i] = "failed" => passed'[i] < taken'[i]
    <3>1. CASE OutFails(i)
      BY <3>1 DEF OutFails, cursors
    <3>2. CASE ~OutFails(i)
      <4>1. out'[i] = "failed" => out[i] = "failed"
        BY <3>2 DEF TypeOK, Next, Main, Works, Waits, Copies, Start, Kill, Killed, AbortReturns,
         WaitForAll, Returns, StartFails,
         Reads, SeesEof, Writes, Succeeds, Fails, WaitReturns, CloseOut, CloseIn,
         OutReads, Pass, OutFails, InWrites, InEnds, vars, copiers, pipes, cursors
      <4>2. ASSUME out[i] = "failed" PROVE passed'[i] = passed[i] /\ taken'[i] = taken[i]
        <5>1. ASSUME NEW k \in Links, OutReads(k) \/ Pass(k) PROVE passed'[i] = passed[i] /\ taken'[i] = taken[i]
          <6>1. k # i
            BY <4>2, <5>1 DEF OutReads, Pass
          <6>2. QED
            BY <5>1, <6>1 DEF OutReads, Pass, Bump, Ordered, CursorsInv
        <5>2. CASE UNCHANGED <<passed, taken>>
          BY <5>2
        <5>3. QED
          BY <5>1, <5>2 DEF Next, Main, Works, Waits, Copies, Start, Kill, Killed, AbortReturns,
         WaitForAll, Returns, StartFails,
         Reads, SeesEof, Writes, Succeeds, Fails, WaitReturns, CloseOut, CloseIn,
         OutFails, InWrites, InEnds, vars, copiers, pipes, cursors
      <4>3. QED
        BY <2>2, <4>1, <4>2
    <3>3. QED
      BY <3>1, <3>2
  <2>6. QED
    BY <2>4, <2>5
<1>4. QED
  BY <1>1, <1>2, <1>3 DEF CauseInv

\* A stage that has seen the end of its stdin has no more to come, and an error that a Wait
\* returns has a cause that is still to be seen when Pipeline returns (DrainedInv, CauseInv).
THEOREM Causes == Spec => [](DrainedInv /\ CauseInv)
<1>1. Init => DrainedInv /\ CauseInv
  BY DEF Init, DrainedInv, CauseInv
<1>2. IInv /\ (DrainedInv /\ CauseInv) /\ [Next]_vars => (DrainedInv /\ CauseInv)'
  BY DrainedStep, CauseStep DEF IInv, Ordered, TypeOK
<1>3. QED
  BY <1>1, <1>2, Invariance, PTL DEF Spec

\* No action but a Start that fails gives the pipeline up.
LEMMA TornSteady ==
  ASSUME TypeOK, StartedInv, [Next]_vars, ~StartFails
  PROVE  TornDown' = TornDown
<1>1. ASSUME TornDown' PROVE TornDown
  <2>1. PICK i \in Stages : proc'[i] = "new"
    BY <1>1 DEF TornDown
  <2>2. proc[i] = "new"
    BY <2>1 DEF TypeOK, Exited, Next, Main, Works, Waits, Copies, Start, Kill, Killed, AbortReturns,
         WaitForAll, Returns, Reads, SeesEof, Writes, Succeeds, Fails, WaitReturns, CloseOut, CloseIn,
         OutReads, Pass, OutFails, InWrites, InEnds, vars, copiers, pipes, cursors
  <2>3. ~WaitForAll
    BY <2>2, StagesAssumption DEF WaitForAll, StartedInv, Stages
  <2>4. pc # "start"
    BY <1>1, <2>3 DEF TornDown, Next, Main, Works, Waits, Copies, Start, Kill, Killed, AbortReturns,
         Returns, Reads, SeesEof, Writes, Succeeds, Fails, WaitReturns, CloseOut, CloseIn,
         OutReads, Pass, OutFails, InWrites, InEnds, vars, copiers, pipes, cursors
  <2>5. QED
    BY <2>2, <2>4 DEF TornDown
<1>2. TornDown' \in BOOLEAN /\ TornDown \in BOOLEAN
  BY DEF TornDown
<1>3. QED
  BY <1>1, <1>2, TornStep

\* Between the two ends of a link there is room for two pipes of the system and for the
\* two pieces that its copiers hold.
LEMMA RoomInChannel ==
  ASSUME Ordered, NEW i \in Links, wrote[i] - taken[i] < PipeSize
  PROVE  wrote[i] - got[i] < 2 * PipeSize + 2
<1>1. /\ wrote[i] \in Nat /\ taken[i] \in Nat /\ passed[i] \in Nat /\ fed[i] \in Nat /\ got[i] \in Nat
      /\ PipeSize \in Nat
  BY BoundsAssumption DEF Ordered, CursorsInv
<1>2. /\ taken[i] - passed[i] <= 1 /\ passed[i] - fed[i] <= 1 /\ fed[i] - got[i] <= PipeSize
  BY DEF Ordered, InOrder
<1>3. QED
  BY <1>1, <1>2

\* Pipeline starts a stage, or gives up.
LEMMA StartRefines ==
  ASSUME TypeOK, StartedInv, [Next]_vars, Start \/ StartFails
  PROVE  Channels!Next
<1>1. CASE StartFails
  <2>1. ~TornDown /\ \E i \in Stages : proc[i] = "new"
    BY <1>1, StagesAssumption DEF StartFails, TornDown, StartedInv, Stages
  <2>2. TornDown' /\ UNCHANGED <<proc, wrote, got, eof, result>>
    BY <1>1, <2>1 DEF StartFails, TornDown, cursors
  <2>3. Channels!GiveUp
    BY <2>1, <2>2 DEF Channels!GiveUp, Channels!Stages, Stages, TornDown
  <2>4. QED
    BY <2>3 DEF Channels!Next
<1>2. CASE Start
  <2>1. /\ cursor \in Stages /\ pc = "start"
        /\ proc' = [proc EXCEPT ![cursor] = "running"]
        /\ UNCHANGED <<wrote, got, eof, result>>
    BY <1>2 DEF Start, cursors
  <2>2. ~TornDown /\ \A j \in Stages : proc[j] = "new" <=> j >= cursor
    BY <2>1 DEF TornDown, StartedInv
  <2>3. TornDown' = TornDown
    BY <1>2, TornSteady DEF Start, StartFails
  <2>4. Channels!Begin(cursor)
    BY <2>1, <2>2, <2>3 DEF Channels!Begin, Channels!Stages, Stages
  <2>5. QED
    BY <2>1, <2>4 DEF Channels!Next, Channels!Stages, Stages
<1>3. QED
  BY <1>1, <1>2

\* A process ends, by itself or killed.
LEMMA ExitRefines ==
  ASSUME [Next]_vars, TypeOK, StartedInv, NEW i \in Stages, NEW code \in {"zero", "nonzero"},
         proc[i] = "running", proc' = [proc EXCEPT ![i] = code],
         code = "zero" => i \in eof \cup Hasty,
         UNCHANGED <<wrote, got, eof, result>>, ~StartFails
  PROVE  Channels!Next
<1>1. Channels!Exit(i, code)
  BY TornSteady DEF Channels!Exit
<1>2. QED
  BY <1>1 DEF Channels!Next, Channels!Stages, Stages

\* What a command does.
LEMMA WorkRefines ==
  ASSUME IInv, Ordered, DrainedInv, [Next]_vars, NEW i \in Stages, Works(i) \/ Fails(i)
  PROVE  Channels!Next
<1>1. TypeOK /\ StartedInv /\ EndsInv
  BY DEF IInv
<1>2. proc[i] = "running" /\ ~StartFails
  BY DEF Works, Fails, Reads, SeesEof, Writes, Succeeds, StartFails
<1>3. TornDown' = TornDown
  BY <1>1, <1>2, TornSteady
<1>4. CASE Reads(i)
  <2>1. PICK n \in Links : n = i - 1 /\ n + 1 = i
    BY <1>4, StagesAssumption DEF Reads, Stages, Links
  <2>2. /\ got[n] < fed[n] /\ got' = Bump(got, n)
        /\ UNCHANGED <<proc, eof, wrote, result>>
    BY <1>4, <2>1 DEF Reads
  <2>3. n + 1 \notin eof
    <3>1. got[n] \in Nat /\ fed[n] \in Nat
      BY DEF Ordered, CursorsInv
    <3>2. QED
      BY <2>2, <3>1 DEF DrainedInv
  <2>4. got[n] < wrote[n]
    <3>1. /\ got[n] \in Nat /\ fed[n] \in Nat /\ passed[n] \in Nat /\ taken[n] \in Nat /\ wrote[n] \in Nat
      BY BoundsAssumption DEF Ordered, CursorsInv
    <3>2. fed[n] <= passed[n] /\ passed[n] <= taken[n] /\ taken[n] <= wrote[n]
      BY <3>1 DEF Ordered, InOrder
    <3>3. QED
      BY <2>2, <3>1, <3>2
  <2>5. Channels!Receive(n)
    BY <1>2, <1>3, <2>1, <2>2, <2>3, <2>4 DEF Channels!Receive, Bump
  <2>6. QED
    BY <2>5 DEF Channels!Next, Channels!Links, Links
<1>5. CASE SeesEof(i)
  <2>1. /\ i \notin eof /\ eof' = eof \cup {i}
        /\ UNCHANGED <<proc, wrote, got, result>>
    BY <1>5 DEF SeesEof, cursors
  <2>2. TornDown \/ i = 1 \/ (Exited(i - 1) /\ got[i - 1] = wrote[i - 1])
    <3>1. SUFFICES ASSUME ~TornDown, i # 1 PROVE Exited(i - 1) /\ got[i - 1] = wrote[i - 1]
      OBVIOUS
    <3>2. PICK n \in Links : n = i - 1 /\ n + 1 = i /\ i > 1
      BY <3>1, StagesAssumption DEF Stages, Links
    <3>3. Stopped(in, n) /\ got[n] = fed[n] /\ ~Exited(n + 1)
      BY <1>5, <3>2 DEF SeesEof, Exited
    <3>4. Exited(n) /\ fed[n] = wrote[n]
      BY <1>1, <3>1, <3>3 DEF EndsInv
    <3>5. QED
      BY <3>2, <3>3, <3>4
  <2>3. Channels!SeesEnd(i)
    BY <1>2, <1>3, <2>1, <2>2 DEF Channels!SeesEnd, Channels!Exited, Exited
  <2>4. QED
    BY <2>3 DEF Channels!Next, Channels!Stages, Stages
<1>6. CASE Writes(i) /\ Stopped(out, i)
  <2>1. proc' = [proc EXCEPT ![i] = "nonzero"] /\ UNCHANGED <<wrote, got, eof, result>>
    BY <1>6 DEF Writes
  <2>2. QED
    BY <1>1, <1>2, <2>1, ExitRefines
<1>7. CASE Writes(i) /\ ~Stopped(out, i)
  <2>1. /\ i \in Links /\ wrote[i] - taken[i] < PipeSize /\ wrote' = Bump(wrote, i)
        /\ UNCHANGED <<proc, got, eof, result>>
    BY <1>7, StagesAssumption DEF Writes, Stages, Links
  <2>2. wrote[i] - got[i] < 2 * PipeSize + 2
    BY <2>1, RoomInChannel
  <2>3. Channels!Send(i)
    BY <1>2, <1>3, <2>1, <2>2 DEF Channels!Send, Bump
  <2>4. QED
    BY <2>1, <2>3 DEF Channels!Next, Channels!Links, Links
<1>8. CASE Succeeds(i)
  <2>1. /\ proc' = [proc EXCEPT ![i] = "zero"] /\ i \in eof \cup Hasty
        /\ UNCHANGED <<wrote, got, eof, result>>
    BY <1>8 DEF Succeeds, cursors
  <2>2. QED
    BY <1>1, <1>2, <2>1, ExitRefines
<1>9. CASE Fails(i)
  <2>1. proc' = [proc EXCEPT ![i] = "nonzero"] /\ UNCHANGED <<wrote, got, eof, result>>
    BY <1>9 DEF Fails, cursors
  <2>2. QED
    BY <1>1, <1>2, <2>1, ExitRefines
<1>10. QED
  BY <1>4, <1>5, <1>6, <1>7, <1>8, <1>9 DEF Works

\* Pipeline returns the error of a stage that could not be started.
LEMMA AbortRefines ==
  ASSUME IInv, CauseInv, [Next]_vars, AbortReturns
  PROVE  Channels!Next
<1>1. TypeOK /\ StartedInv /\ WaitedInv
  BY DEF IInv
<1>2. /\ pc = "kill" /\ result = "none" /\ result' = "error"
      /\ UNCHANGED <<proc, wrote, got, eof>>
  BY DEF AbortReturns, cursors, CauseInv
<1>3. TornDown' = TornDown
  BY <1>1, TornSteady DEF AbortReturns, StartFails
<1>4. TornDown
  BY <1>1, <1>2 DEF TornDown, StartedInv
<1>5. ASSUME NEW i \in Stages, proc[i] # "new" PROVE Exited(i)
  <2>1. i < cursor
    BY <1>1, <1>5, StagesAssumption DEF AbortReturns, StartedInv, TypeOK, Stages
  <2>2. QED
    BY <1>1, <1>2, <2>1 DEF WaitedInv, Ending, Ended
<1>6. Channels!Return
  BY <1>2, <1>3, <1>4, <1>5 DEF Channels!Return, Channels!Trouble, Channels!Stages, Stages,
     Channels!Exited, Exited
<1>7. QED
  BY <1>6 DEF Channels!Next

\* Pipeline returns when all its stages have been waited for.
LEMMA ReturnRefines ==
  ASSUME IInv, Ordered, CauseInv, [Next]_vars, Returns
  PROVE  Channels!Next
<1>1. TypeOK /\ StartedInv /\ WaitedInv /\ ErrorsInv /\ EofIsTheEnd
  BY DEF IInv
<1>2. /\ pc = "wait" /\ result = "none" /\ \A i \in Stages : waiter[i] = "over"
      /\ result' = IF errs = {} THEN "nil" ELSE "error"
      /\ UNCHANGED <<proc, wrote, got, eof>>
  BY DEF Returns, cursors, CauseInv
<1>3. TornDown' = TornDown
  BY <1>1, TornSteady DEF Returns, StartFails
<1>4. ~TornDown
  BY <1>1, <1>2 DEF TornDown, StartedInv
<1>5. \A i \in Stages : Exited(i)
  BY <1>1, <1>2 DEF WaitedInv, Ending, Ended
<1>6. ASSUME errs = {} PROVE Channels!Whole
  <2>1. \A i \in Stages : proc[i] = "zero" /\ i \in eof \cup Hasty
    BY <1>1, <1>2, <1>4, <1>6 DEF ErrorsInv, Ending
  <2>2. \A i \in Links : i + 1 \in Stages
    BY StagesAssumption DEF Stages, Links
  <2>3. \A i \in Links : i + 1 \in Hasty \/ got[i] = wrote[i]
    BY <1>1, <1>4, <2>1, <2>2 DEF EofIsTheEnd
  <2>4. QED
    BY <2>1, <2>3 DEF Channels!Whole, Channels!Stages, Channels!Links, Stages, Links
<1>7. ASSUME errs # {} PROVE Channels!Trouble
  <2>1. PICK k \in errs : Erred(k)
    BY <1>7 DEF CauseInv
  <2>2. k \in Stages
    BY <1>1 DEF TypeOK
  <2>3. CASE proc[k] = "nonzero"
    BY <2>2, <2>3 DEF Channels!Trouble, Channels!Stages, Stages
  <2>4. CASE k \in Links /\ out[k] = "failed"
    <3>1. passed[k] < taken[k]
      BY <1>4, <2>4 DEF CauseInv
    <3>2. /\ got[k] \in Nat /\ fed[k] \in Nat /\ passed[k] \in Nat /\ taken[k] \in Nat /\ wrote[k] \in Nat
      BY <2>4, BoundsAssumption DEF Ordered, CursorsInv
    <3>3. got[k] <= fed[k] /\ fed[k] <= passed[k] /\ taken[k] <= wrote[k]
      BY <2>4, <3>2 DEF Ordered, InOrder
    <3>4. got[k] # wrote[k]
      BY <3>1, <3>2, <3>3
    <3>5. QED
      BY <2>4, <3>4 DEF Channels!Trouble, Channels!Links, Links
  <2>5. QED
    BY <1>4, <2>1, <2>3, <2>4 DEF Erred, CauseInv
<1>8. Channels!Return
  BY <1>2, <1>3, <1>5, <1>6, <1>7 DEF Channels!Return, Channels!Stages, Stages,
     Channels!Exited, Exited
<1>9. QED
  BY <1>8 DEF Channels!Next

\* Every step is one of the abstract pipeline, or none.
LEMMA StepRefines ==
  ASSUME IInv, DrainedInv, CauseInv, [Next]_vars
  PROVE  [Channels!Next]_(Channels!vars)
<1>1. TypeOK /\ StartedInv /\ Ordered
  BY DEF IInv, TypeOK, Ordered
<1>2. CASE Start \/ StartFails
  BY <1>1, <1>2, StartRefines
<1>3. ASSUME NEW i \in Stages, Works(i) \/ Fails(i) PROVE Channels!Next
  BY <1>1, <1>3, WorkRefines
<1>4. CASE AbortReturns \/ Returns
  BY <1>1, <1>4, AbortRefines, ReturnRefines
<1>5. CASE Kill
  <2>1. cursor \in Stages /\ proc[cursor] # "new" /\ UNCHANGED <<wrote, got, eof, result>>
    BY <1>5 DEF Kill, cursors
  <2>2. ~StartFails
    BY <1>5 DEF Kill, StartFails
  <2>3. CASE Exited(cursor)
    <3>1. proc' = proc
      BY <1>1, <1>5, <2>3 DEF Kill, TypeOK
    <3>2. QED
      BY <1>1, <2>1, <2>2, <3>1, TornSteady DEF Channels!vars
  <2>4. CASE ~Exited(cursor)
    <3>1. proc[cursor] = "running" /\ proc' = [proc EXCEPT ![cursor] = "nonzero"]
      BY <1>1, <1>5, <2>1, <2>4 DEF Kill, TypeOK, Exited
    <3>2. QED
      BY <1>1, <2>1, <2>2, <3>1, ExitRefines
  <2>5. QED
    BY <2>3, <2>4
<1>6. ASSUME UNCHANGED <<proc, wrote, got, eof, result>>, ~StartFails
      PROVE  UNCHANGED Channels!vars
  BY <1>1, <1>6, TornSteady DEF Channels!vars
<1>7. CASE Killed \/ WaitForAll
  BY <1>6, <1>7 DEF Killed, WaitForAll, StartFails, cursors
<1>8. ASSUME NEW i \in Stages, Waits(i) PROVE UNCHANGED Channels!vars
  <2>1. UNCHANGED <<proc, wrote, got, eof, result>>
    BY <1>8 DEF Waits, WaitReturns, CloseOut, CloseIn, cursors
  <2>2. ~StartFails
    BY <1>8 DEF Waits, WaitReturns, CloseOut, CloseIn, StartFails, pipes
  <2>3. QED
    BY <1>6, <2>1, <2>2
<1>9. ASSUME NEW i \in Links, Copies(i) PROVE UNCHANGED Channels!vars
  <2>1. UNCHANGED <<proc, wrote, got, eof, result, pc>>
    BY <1>9 DEF Copies, OutReads, Pass, OutFails, InWrites, InEnds, cursors
  <2>2. QED
    BY <1>6, <2>1 DEF StartFails
<1>10. CASE UNCHANGED vars
  BY <1>6, <1>10 DEF vars, cursors, StartFails
<1>11. QED
  BY <1>2, <1>3, <1>4, <1>5, <1>7, <1>8, <1>9, <1>10 DEF Next, Main

\* However the goroutines, the pipes and the copiers of pipeline.go and os/exec interleave,
\* the commands are joined as if by one channel each, and the one result tells the truth
\* (AbstractPiping).
THEOREM OneChannelEach == Spec => AbstractPiping
<1>1. Init => Channels!Init
  BY DEF Init, TornDown, Channels!Init, Channels!Stages, Channels!Links, Stages, Links
<1>2. QED
  BY <1>1, StepRefines, Invariance, Causes, PTL DEF Spec, AbstractPiping, Channels!Spec
==============================================================================
