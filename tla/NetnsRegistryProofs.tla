------------------------ MODULE NetnsRegistryProofs ------------------------
(***************************************************************************)
(* Theorems about NetnsRegistry, for any number of processes, names and    *)
(* settings and any set of disturbances.                                   *)
(***************************************************************************)
EXTENDS NetnsRegistry, TLAPS

\* Labels at which a process is bound to have a name.
Named == Commands \cup {"check", "use", "leave", "exec", "inside"}

\* The lock and the labels agree; a command may outlive the lock, nothing else.
LockInv ==
  \A p \in Procs : /\ lock = p => pc[p] \in Locked
                   /\ pc[p] \in Locked \ Commands => lock = p

JobInv ==
  \A p \in Procs : /\ pc[p] \in Named => Name(p) \in Names
                   /\ pc[p] = "lock"  => job[p] # NoJob
                   /\ pc[p] = "check" => Verb(p) # "create"
                   /\ pc[p] \in {"use", "list"} => Verb(p) \notin {"create", "destroy"}
                   /\ pc[p] \in CreateCommands  => Verb(p) = "create"
                   /\ pc[p] \in DestroyCommands => Verb(p) = "destroy"
                   /\ pc[p] \in {"idle", "lock", "modprobe", "netns_add"} => step[p] = 0

\* A name is in order unless damaged, or the holder is in the middle of it.
SettledInv ==
  \A n \in Names \ damaged :
     \/ Ready(n) \/ Gone(n)
     \/ \E p \in Procs : lock = p /\ Dirty(p) /\ Name(p) = n

\* How far the holder's verb has come on its name.
Reached(l, n, k) ==
  /\ l \in {"configure", "etc_clean", "resolv_install", "register"}
       => ~marker[n] /\ netns[n] = "npte"
  /\ l = "configure" => config[n] = k
  /\ l \in {"etc_clean", "resolv_install", "register"} => config[n] = Settings
  /\ l = "register" => resolv[n]
  /\ l \in {"use", "leave", "etc_remove"} => Ready(n)
  /\ l = "netns_del"  => marker[n] /\ netns[n] = "npte"
  /\ l = "unregister" => marker[n] /\ netns[n] # "npte"

WorkInv ==
  \A p \in Procs : lock = p /\ Name(p) \notin damaged => Reached(pc[p], Name(p), step[p])

IInv == TypeOK /\ LockInv /\ JobInv /\ SettledInv /\ WorkInv

\* Every step keeps the types.
LEMMA TypeStep ==
  ASSUME TypeOK, JobInv, [Next]_vars
  PROVE  TypeOK'
<1>a. \A p \in Procs : pc[p] \in Commands => Name(p) \in Names
  BY DEF JobInv, Named
<1> USE SettingsAssumption, NullAssumption, <1>a DEF TypeOK, Jobs, NoJob, Name, Verb, Verbs,
        Commands, CreateCommands, DestroyCommands, Locked, Labels, kernel
<1>1. ASSUME NEW p \in Procs, Invoke(p) PROVE TypeOK'
  BY <1>1 DEF Invoke
<1>2. ASSUME NEW p \in Procs, Lock(p) PROVE TypeOK'
  BY <1>2 DEF Lock, Goto, FirstLabel
<1>3. ASSUME NEW p \in Procs, LockFails(p) PROVE TypeOK'
  BY <1>3 DEF LockFails, Quit
<1>4. ASSUME NEW p \in Procs, RequireManaged(p) PROVE TypeOK'
  BY <1>4 DEF RequireManaged, Goto, ManagedLabel
<1>5. ASSUME NEW p \in Procs, Read(p) PROVE TypeOK'
  BY <1>5 DEF Read, Goto
<1>6. ASSUME NEW p \in Procs, Unlock(p) PROVE TypeOK'
  BY <1>6 DEF Unlock, Quit
<1>7. ASSUME NEW p \in Procs, Modprobe(p) PROVE TypeOK'
  BY <1>7 DEF Modprobe, Continue, Goto, Quit
<1>8. ASSUME NEW p \in Procs, NetnsAdd(p) PROVE TypeOK'
  BY <1>8 DEF NetnsAdd, Continue, Goto, Quit, DamageIf
<1>9. ASSUME NEW p \in Procs, Configure(p) PROVE TypeOK'
  BY <1>9 DEF Configure, Continue, Goto, Quit, DamageIf
<1>10. ASSUME NEW p \in Procs, EtcClean(p) PROVE TypeOK'
  BY <1>10 DEF EtcClean, Continue, Goto, Quit, DamageIf
<1>11. ASSUME NEW p \in Procs, ResolvInstall(p) PROVE TypeOK'
  BY <1>11 DEF ResolvInstall, Continue, Goto, Quit, DamageIf
<1>12. ASSUME NEW p \in Procs, Register(p) PROVE TypeOK'
  BY <1>12 DEF Register, Continue, Goto, Quit, DamageIf
<1>13. ASSUME NEW p \in Procs, EtcRemove(p) PROVE TypeOK'
  BY SMTT(30), <1>13 DEF EtcRemove, Continue, Goto, Quit, DamageIf
<1>14. ASSUME NEW p \in Procs, NetnsDel(p) PROVE TypeOK'
  BY <1>14 DEF NetnsDel, Continue, Goto, Quit, DamageIf
<1>15. ASSUME NEW p \in Procs, Unregister(p) PROVE TypeOK'
  BY <1>15 DEF Unregister, Continue, Goto, Quit, DamageIf
<1>16. ASSUME NEW p \in Procs, Leave(p) PROVE TypeOK'
  BY <1>16 DEF Leave, Goto
<1>17. ASSUME NEW p \in Procs, Exec(p) PROVE TypeOK'
  BY <1>17 DEF Exec, Goto, View
<1>18. ASSUME NEW p \in Procs, ExecFails(p) PROVE TypeOK'
  BY <1>18 DEF ExecFails, Quit
<1>19. ASSUME NEW p \in Procs, CommandFails(p) PROVE TypeOK'
  BY <1>19 DEF CommandFails, Continue, Goto, Quit, Refused, Dirty
<1>20. ASSUME NEW p \in Procs, CommandEnds(p) PROVE TypeOK'
  BY <1>20 DEF CommandEnds, Quit
<1>21. ASSUME NEW p \in Procs, Crash(p) PROVE TypeOK'
  BY <1>21 DEF Crash, Quit, Dirty
<1>22. ASSUME NEW n \in Names, ForeignAdd(n) PROVE TypeOK'
  BY <1>22 DEF ForeignAdd
<1>23. ASSUME NEW n \in Names, ForeignDel(n) PROVE TypeOK'
  BY <1>23 DEF ForeignDel
<1>24. ASSUME NEW n \in Names, OperatorRecovers(n) PROVE TypeOK'
  BY <1>24 DEF OperatorRecovers
<1>25. CASE UNCHANGED vars
  BY <1>25 DEF vars, kernel
<1>26. QED
  BY <1>1, <1>2, <1>3, <1>4, <1>5, <1>6, <1>7, <1>8, <1>9, <1>10, <1>11, <1>12, <1>13, <1>14,
    <1>15, <1>16, <1>17, <1>18, <1>19, <1>20, <1>21, <1>22, <1>23, <1>24, <1>25
     DEF Next, Progress, CreateStep, DestroyStep, RunStep, Environment

\* Every step keeps JobInv.
LEMMA JobStep ==
  ASSUME TypeOK, JobInv, [Next]_vars
  PROVE  JobInv'
<1> USE SettingsAssumption, NullAssumption DEF TypeOK, JobInv, Named, Jobs, NoJob, Name, Verb,
    Verbs, Commands, CreateCommands, DestroyCommands, Locked, Labels, kernel
<1>1. ASSUME NEW p \in Procs, Invoke(p) PROVE JobInv'
  BY <1>1 DEF Invoke
<1>2. ASSUME NEW p \in Procs, Lock(p) PROVE JobInv'
  BY <1>2 DEF Lock, Goto, FirstLabel
<1>3. ASSUME NEW p \in Procs, LockFails(p) PROVE JobInv'
  BY <1>3 DEF LockFails, Quit
<1>4. ASSUME NEW p \in Procs, RequireManaged(p) PROVE JobInv'
  BY <1>4 DEF RequireManaged, Goto, ManagedLabel
<1>5. ASSUME NEW p \in Procs, Read(p) PROVE JobInv'
  BY <1>5 DEF Read, Goto
<1>6. ASSUME NEW p \in Procs, Unlock(p) PROVE JobInv'
  BY <1>6 DEF Unlock, Quit
<1>7. ASSUME NEW p \in Procs, Modprobe(p) PROVE JobInv'
  BY <1>7 DEF Modprobe, Continue, Goto, Quit
<1>8. ASSUME NEW p \in Procs, NetnsAdd(p) PROVE JobInv'
  BY <1>8 DEF NetnsAdd, Continue, Goto, Quit, DamageIf
<1>9. ASSUME NEW p \in Procs, Configure(p) PROVE JobInv'
  BY <1>9 DEF Configure, Continue, Goto, Quit, DamageIf
<1>10. ASSUME NEW p \in Procs, EtcClean(p) PROVE JobInv'
  BY <1>10 DEF EtcClean, Continue, Goto, Quit, DamageIf
<1>11. ASSUME NEW p \in Procs, ResolvInstall(p) PROVE JobInv'
  BY <1>11 DEF ResolvInstall, Continue, Goto, Quit, DamageIf
<1>12. ASSUME NEW p \in Procs, Register(p) PROVE JobInv'
  BY <1>12 DEF Register, Continue, Goto, Quit, DamageIf
<1>13. ASSUME NEW p \in Procs, EtcRemove(p) PROVE JobInv'
  BY <1>13 DEF EtcRemove, Continue, Goto, Quit, DamageIf
<1>14. ASSUME NEW p \in Procs, NetnsDel(p) PROVE JobInv'
  BY <1>14 DEF NetnsDel, Continue, Goto, Quit, DamageIf
<1>15. ASSUME NEW p \in Procs, Unregister(p) PROVE JobInv'
  BY <1>15 DEF Unregister, Continue, Goto, Quit, DamageIf
<1>16. ASSUME NEW p \in Procs, Leave(p) PROVE JobInv'
  BY <1>16 DEF Leave, Goto
<1>17. ASSUME NEW p \in Procs, Exec(p) PROVE JobInv'
  BY <1>17 DEF Exec, Goto
<1>18. ASSUME NEW p \in Procs, ExecFails(p) PROVE JobInv'
  BY <1>18 DEF ExecFails, Quit
<1>19. ASSUME NEW p \in Procs, CommandFails(p) PROVE JobInv'
  BY <1>19 DEF CommandFails, Continue, Goto, Quit, Refused, Dirty
<1>20. ASSUME NEW p \in Procs, CommandEnds(p) PROVE JobInv'
  BY <1>20 DEF CommandEnds, Quit
<1>21. ASSUME NEW p \in Procs, Crash(p) PROVE JobInv'
  BY <1>21 DEF Crash, Quit, Dirty
<1>22. ASSUME NEW n \in Names, ForeignAdd(n) PROVE JobInv'
  BY <1>22 DEF ForeignAdd
<1>23. ASSUME NEW n \in Names, ForeignDel(n) PROVE JobInv'
  BY <1>23 DEF ForeignDel
<1>24. ASSUME NEW n \in Names, OperatorRecovers(n) PROVE JobInv'
  BY <1>24 DEF OperatorRecovers
<1>25. CASE UNCHANGED vars
  BY <1>25 DEF vars, kernel
<1>26. QED
  BY <1>1, <1>2, <1>3, <1>4, <1>5, <1>6, <1>7, <1>8, <1>9, <1>10, <1>11, <1>12, <1>13, <1>14,
    <1>15, <1>16, <1>17, <1>18, <1>19, <1>20, <1>21, <1>22, <1>23, <1>24, <1>25
     DEF Next, Progress, CreateStep, DestroyStep, RunStep, Environment

\* Every step keeps the lock and the labels in agreement.
LEMMA LockStep ==
  ASSUME TypeOK, LockInv, JobInv, [Next]_vars
  PROVE  LockInv'
<1> USE SettingsAssumption, NullAssumption DEF TypeOK, LockInv, JobInv, Named, Jobs, NoJob, Name,
    Verb, Verbs, Commands, CreateCommands, DestroyCommands, Locked, Labels, kernel
<1>1. ASSUME NEW p \in Procs, Invoke(p) PROVE LockInv'
  BY <1>1 DEF Invoke
<1>2. ASSUME NEW p \in Procs, Lock(p) PROVE LockInv'
  BY <1>2 DEF Lock, Goto, FirstLabel
<1>3. ASSUME NEW p \in Procs, LockFails(p) PROVE LockInv'
  BY <1>3 DEF LockFails, Quit
<1>4. ASSUME NEW p \in Procs, RequireManaged(p) PROVE LockInv'
  BY <1>4 DEF RequireManaged, Goto, ManagedLabel
<1>5. ASSUME NEW p \in Procs, Read(p) PROVE LockInv'
  BY <1>5 DEF Read, Goto
<1>6. ASSUME NEW p \in Procs, Unlock(p) PROVE LockInv'
  BY <1>6 DEF Unlock, Quit
<1>7. ASSUME NEW p \in Procs, Modprobe(p) PROVE LockInv'
  BY <1>7 DEF Modprobe, Continue, Goto, Quit
<1>8. ASSUME NEW p \in Procs, NetnsAdd(p) PROVE LockInv'
  BY <1>8 DEF NetnsAdd, Continue, Goto, Quit, DamageIf
<1>9. ASSUME NEW p \in Procs, Configure(p) PROVE LockInv'
  BY <1>9 DEF Configure, Continue, Goto, Quit, DamageIf
<1>10. ASSUME NEW p \in Procs, EtcClean(p) PROVE LockInv'
  BY <1>10 DEF EtcClean, Continue, Goto, Quit, DamageIf
<1>11. ASSUME NEW p \in Procs, ResolvInstall(p) PROVE LockInv'
  BY <1>11 DEF ResolvInstall, Continue, Goto, Quit, DamageIf
<1>12. ASSUME NEW p \in Procs, Register(p) PROVE LockInv'
  BY <1>12 DEF Register, Continue, Goto, Quit, DamageIf
<1>13. ASSUME NEW p \in Procs, EtcRemove(p) PROVE LockInv'
  BY <1>13 DEF EtcRemove, Continue, Goto, Quit, DamageIf
<1>14. ASSUME NEW p \in Procs, NetnsDel(p) PROVE LockInv'
  BY <1>14 DEF NetnsDel, Continue, Goto, Quit, DamageIf
<1>15. ASSUME NEW p \in Procs, Unregister(p) PROVE LockInv'
  BY <1>15 DEF Unregister, Continue, Goto, Quit, DamageIf
<1>16. ASSUME NEW p \in Procs, Leave(p) PROVE LockInv'
  BY <1>16 DEF Leave, Goto
<1>17. ASSUME NEW p \in Procs, Exec(p) PROVE LockInv'
  BY <1>17 DEF Exec, Goto
<1>18. ASSUME NEW p \in Procs, ExecFails(p) PROVE LockInv'
  BY <1>18 DEF ExecFails, Quit
<1>19. ASSUME NEW p \in Procs, CommandFails(p) PROVE LockInv'
  BY <1>19 DEF CommandFails, Continue, Goto, Quit, Refused, Dirty
<1>20. ASSUME NEW p \in Procs, CommandEnds(p) PROVE LockInv'
  BY <1>20 DEF CommandEnds, Quit
<1>21. ASSUME NEW p \in Procs, Crash(p) PROVE LockInv'
  BY <1>21 DEF Crash, Quit, Dirty
<1>22. ASSUME NEW n \in Names, ForeignAdd(n) PROVE LockInv'
  BY <1>22 DEF ForeignAdd
<1>23. ASSUME NEW n \in Names, ForeignDel(n) PROVE LockInv'
  BY <1>23 DEF ForeignDel
<1>24. ASSUME NEW n \in Names, OperatorRecovers(n) PROVE LockInv'
  BY <1>24 DEF OperatorRecovers
<1>25. CASE UNCHANGED vars
  BY <1>25 DEF vars, kernel
<1>26. QED
  BY <1>1, <1>2, <1>3, <1>4, <1>5, <1>6, <1>7, <1>8, <1>9, <1>10, <1>11, <1>12, <1>13, <1>14,
    <1>15, <1>16, <1>17, <1>18, <1>19, <1>20, <1>21, <1>22, <1>23, <1>24, <1>25
     DEF Next, Progress, CreateStep, DestroyStep, RunStep, Environment

\* Every step keeps WorkInv.
LEMMA WorkStep ==
  ASSUME IInv, [Next]_vars
  PROVE  WorkInv'
<1> USE SettingsAssumption, NullAssumption DEF IInv, TypeOK, LockInv, JobInv, SettledInv, WorkInv,
    Reached, Ready, Gone, Dirty, Named, Jobs, NoJob, Name, Verb, Verbs, Commands, CreateCommands,
    DestroyCommands, Locked, Labels, kernel
<1>1. ASSUME NEW p \in Procs, Invoke(p) PROVE WorkInv'
  BY <1>1 DEF Invoke
<1>2. ASSUME NEW p \in Procs, Lock(p) PROVE WorkInv'
  BY <1>2 DEF Lock, Goto, FirstLabel
<1>3. ASSUME NEW p \in Procs, LockFails(p) PROVE WorkInv'
  BY <1>3 DEF LockFails, Quit
<1>4. ASSUME NEW p \in Procs, RequireManaged(p) PROVE WorkInv'
  BY <1>4 DEF RequireManaged, Goto, ManagedLabel
<1>5. ASSUME NEW p \in Procs, Read(p) PROVE WorkInv'
  BY <1>5 DEF Read, Goto
<1>6. ASSUME NEW p \in Procs, Unlock(p) PROVE WorkInv'
  BY <1>6 DEF Unlock, Quit
<1>7. ASSUME NEW p \in Procs, Modprobe(p) PROVE WorkInv'
  BY <1>7 DEF Modprobe, Continue, Goto, Quit
<1>8. ASSUME NEW p \in Procs, NetnsAdd(p) PROVE WorkInv'
  BY <1>8 DEF NetnsAdd, Continue, Goto, Quit, DamageIf
<1>9. ASSUME NEW p \in Procs, Configure(p) PROVE WorkInv'
  <2>1. CASE lock = p /\ step[p] + 1 < Settings
    BY <1>9, <2>1 DEF Configure, DamageIf
  <2>2. CASE lock = p /\ ~(step[p] + 1 < Settings)
    <3>1. step[p] + 1 = Settings
      <4>1. step[p] \in 0..(Settings - 1)
        OBVIOUS
      <4>2. QED
        BY <4>1, <2>2
    <3>2. QED
      BY <1>9, <2>2, <3>1 DEF Configure, Continue, Goto, DamageIf
  <2>3. CASE lock # p
    \* An orphan that changes anything damages the name.
    <3>1. Name(p) \notin damaged' => config' = config
      BY <1>9, <2>3 DEF Configure, DamageIf
    <3>2. \A q \in Procs : lock = q => pc'[q] = pc[q] /\ job'[q] = job[q] /\ step'[q] = step[q]
      BY <1>9, <2>3 DEF Configure, Continue, Quit
    <3>3. \A n \in Names \ {Name(p)} : config'[n] = config[n]
      BY <1>9 DEF Configure
    <3>4. damaged \subseteq damaged'
      BY <1>9 DEF Configure, DamageIf
    <3>5. QED
      BY <1>9, <2>3, <3>1, <3>2, <3>3, <3>4 DEF Configure
  <2>4. QED
    BY <2>1, <2>2, <2>3
<1>10. ASSUME NEW p \in Procs, EtcClean(p) PROVE WorkInv'
  BY <1>10 DEF EtcClean, Continue, Goto, Quit, DamageIf
<1>11. ASSUME NEW p \in Procs, ResolvInstall(p) PROVE WorkInv'
  BY <1>11 DEF ResolvInstall, Continue, Goto, Quit, DamageIf
<1>12. ASSUME NEW p \in Procs, Register(p) PROVE WorkInv'
  BY <1>12 DEF Register, Continue, Goto, Quit, DamageIf
<1>13. ASSUME NEW p \in Procs, EtcRemove(p) PROVE WorkInv'
  BY <1>13 DEF EtcRemove, Continue, Goto, Quit, DamageIf
<1>14. ASSUME NEW p \in Procs, NetnsDel(p) PROVE WorkInv'
  BY <1>14 DEF NetnsDel, Continue, Goto, Quit, DamageIf
<1>15. ASSUME NEW p \in Procs, Unregister(p) PROVE WorkInv'
  BY <1>15 DEF Unregister, Continue, Goto, Quit, DamageIf
<1>16. ASSUME NEW p \in Procs, Leave(p) PROVE WorkInv'
  BY <1>16 DEF Leave, Goto
<1>17. ASSUME NEW p \in Procs, Exec(p) PROVE WorkInv'
  BY <1>17 DEF Exec, Goto
<1>18. ASSUME NEW p \in Procs, ExecFails(p) PROVE WorkInv'
  BY <1>18 DEF ExecFails, Quit
<1>19. ASSUME NEW p \in Procs, CommandFails(p) PROVE WorkInv'
  BY <1>19 DEF CommandFails, Continue, Goto, Quit, Refused
<1>20. ASSUME NEW p \in Procs, CommandEnds(p) PROVE WorkInv'
  BY <1>20 DEF CommandEnds, Quit
<1>21. ASSUME NEW p \in Procs, Crash(p) PROVE WorkInv'
  BY <1>21 DEF Crash, Quit
<1>22. ASSUME NEW n \in Names, ForeignAdd(n) PROVE WorkInv'
  BY <1>22 DEF ForeignAdd, Orphan
<1>23. ASSUME NEW n \in Names, ForeignDel(n) PROVE WorkInv'
  BY <1>23 DEF ForeignDel, Orphan
<1>24. ASSUME NEW n \in Names, OperatorRecovers(n) PROVE WorkInv'
  BY <1>24 DEF OperatorRecovers, Orphan
<1>25. CASE UNCHANGED vars
  BY <1>25 DEF vars, kernel
<1>26. QED
  BY <1>1, <1>2, <1>3, <1>4, <1>5, <1>6, <1>7, <1>8, <1>9, <1>10, <1>11, <1>12, <1>13, <1>14,
    <1>15, <1>16, <1>17, <1>18, <1>19, <1>20, <1>21, <1>22, <1>23, <1>24, <1>25
     DEF Next, Progress, CreateStep, DestroyStep, RunStep, Environment

\* Every step keeps SettledInv.
LEMMA SettledStep ==
  ASSUME IInv, [Next]_vars
  PROVE  SettledInv'
<1> USE SettingsAssumption, NullAssumption DEF IInv, TypeOK, LockInv, JobInv, SettledInv, WorkInv,
    Reached, Ready, Gone, Dirty, Named, Jobs, NoJob, Name, Verb, Verbs, Commands, CreateCommands,
    DestroyCommands, Locked, Labels, kernel
<1>1. ASSUME NEW p \in Procs, Invoke(p) PROVE SettledInv'
  BY <1>1 DEF Invoke
<1>2. ASSUME NEW p \in Procs, Lock(p) PROVE SettledInv'
  BY <1>2 DEF Lock, Goto, FirstLabel
<1>3. ASSUME NEW p \in Procs, LockFails(p) PROVE SettledInv'
  BY <1>3 DEF LockFails, Quit
<1>4. ASSUME NEW p \in Procs, RequireManaged(p) PROVE SettledInv'
  BY <1>4 DEF RequireManaged, Goto, ManagedLabel
<1>5. ASSUME NEW p \in Procs, Read(p) PROVE SettledInv'
  BY <1>5 DEF Read, Goto
<1>6. ASSUME NEW p \in Procs, Unlock(p) PROVE SettledInv'
  BY <1>6 DEF Unlock, Quit
<1>7. ASSUME NEW p \in Procs, Modprobe(p) PROVE SettledInv'
  BY <1>7 DEF Modprobe, Continue, Goto, Quit
<1>8. ASSUME NEW p \in Procs, NetnsAdd(p) PROVE SettledInv'
  BY <1>8 DEF NetnsAdd, Continue, Goto, Quit, DamageIf
<1>9. ASSUME NEW p \in Procs, Configure(p) PROVE SettledInv'
  BY <1>9 DEF Configure, Continue, Goto, Quit, DamageIf
<1>10. ASSUME NEW p \in Procs, EtcClean(p) PROVE SettledInv'
  BY <1>10 DEF EtcClean, Continue, Goto, Quit, DamageIf
<1>11. ASSUME NEW p \in Procs, ResolvInstall(p) PROVE SettledInv'
  BY <1>11 DEF ResolvInstall, Continue, Goto, Quit, DamageIf
<1>12. ASSUME NEW p \in Procs, Register(p) PROVE SettledInv'
  BY <1>12 DEF Register, Continue, Goto, Quit, DamageIf
<1>13. ASSUME NEW p \in Procs, EtcRemove(p) PROVE SettledInv'
  BY <1>13 DEF EtcRemove, Continue, Goto, Quit, DamageIf
<1>14. ASSUME NEW p \in Procs, NetnsDel(p) PROVE SettledInv'
  BY <1>14 DEF NetnsDel, Continue, Goto, Quit, DamageIf
<1>15. ASSUME NEW p \in Procs, Unregister(p) PROVE SettledInv'
  BY <1>15 DEF Unregister, Continue, Goto, Quit, DamageIf
<1>16. ASSUME NEW p \in Procs, Leave(p) PROVE SettledInv'
  BY <1>16 DEF Leave, Goto
<1>17. ASSUME NEW p \in Procs, Exec(p) PROVE SettledInv'
  BY <1>17 DEF Exec, Goto
<1>18. ASSUME NEW p \in Procs, ExecFails(p) PROVE SettledInv'
  BY <1>18 DEF ExecFails, Quit
<1>19. ASSUME NEW p \in Procs, CommandFails(p) PROVE SettledInv'
  BY <1>19 DEF CommandFails, Continue, Goto, Quit, Refused
<1>20. ASSUME NEW p \in Procs, CommandEnds(p) PROVE SettledInv'
  BY <1>20 DEF CommandEnds, Quit
<1>21. ASSUME NEW p \in Procs, Crash(p) PROVE SettledInv'
  BY <1>21 DEF Crash, Quit
<1>22. ASSUME NEW n \in Names, ForeignAdd(n) PROVE SettledInv'
  BY <1>22 DEF ForeignAdd, Orphan
<1>23. ASSUME NEW n \in Names, ForeignDel(n) PROVE SettledInv'
  BY <1>23 DEF ForeignDel, Orphan
<1>24. ASSUME NEW n \in Names, OperatorRecovers(n) PROVE SettledInv'
  BY <1>24 DEF OperatorRecovers, Orphan
<1>25. CASE UNCHANGED vars
  BY <1>25 DEF vars, kernel
<1>26. QED
  BY <1>1, <1>2, <1>3, <1>4, <1>5, <1>6, <1>7, <1>8, <1>9, <1>10, <1>11, <1>12, <1>13, <1>14,
    <1>15, <1>16, <1>17, <1>18, <1>19, <1>20, <1>21, <1>22, <1>23, <1>24, <1>25
     DEF Next, Progress, CreateStep, DestroyStep, RunStep, Environment


-----------------------------------------------------------------------------
(* The inductive invariant, and the state properties that follow from it.  *)

\* No name has a marker or a namespace at first, and nobody works on one.
LEMMA InitIInv == Init => IInv
  BY SettingsAssumption, NullAssumption
     DEF Init, IInv, TypeOK, LockInv, JobInv, SettledInv, WorkInv, Reached, Ready, Gone,
         Named, Locked, Labels, Commands, CreateCommands, DestroyCommands, Jobs, NoJob

\* Every step of every process, orphan, other program and operator keeps it.
LEMMA NextIInv == IInv /\ [Next]_vars => IInv'
  BY TypeStep, JobStep, LockStep, WorkStep, SettledStep DEF IInv

\* IInv holds in every reachable state.
THEOREM Invariance == Spec => []IInv
  BY InitIInv, NextIInv, PTL DEF Spec

\* The types of the variables hold in every reachable state.
THEOREM TypeCorrect == Spec => []TypeOK
<1>1. IInv => TypeOK
  BY DEF IInv
<1>2. QED
  BY <1>1, Invariance, PTL

\* Whenever the lock is free, the markers agree with the namespaces on every
\* name that is not damaged: SettledInv with no holder in the way.
THEOREM Agreement == Spec => []RegistryAgreement
<1>1. IInv => RegistryAgreement
  BY NullAssumption DEF IInv, SettledInv, RegistryAgreement
<1>2. QED
  BY <1>1, Invariance, PTL

\* A verb that found the marker relies on a namespace configured in full.
THEOREM HolderReliesOnReady == Spec => []HolderSeesReady
<1>1. IInv => HolderSeesReady
  BY DEF IInv, LockInv, WorkInv, Reached, HolderSeesReady, Locked, Commands,
         CreateCommands, DestroyCommands
<1>2. QED
  BY <1>1, Invariance, PTL

-----------------------------------------------------------------------------
(* Action properties.                                                      *)

\* A name that npte works on for its own ends is not foreign: the holder's
\* commands find the namespace that npte made (WorkInv), and what an orphan
\* changes is damaged from then on.
THEOREM ForeignIsSpared == Spec => ForeignSpared
<1> DEFINE Spared == \A n \in Names :
             netns[n] = "foreign" /\ n \notin damaged \cup damaged' =>
               /\ netns'[n] # "foreign" => UNCHANGED <<pc, lock>>
               /\ resolv'[n] = resolv[n]
<1>1. ASSUME IInv, [Next]_vars PROVE Spared
  <2> USE <1>1 DEF IInv, TypeOK, LockInv, JobInv, WorkInv, Reached, Ready, Named, Locked,
                   Commands, CreateCommands, DestroyCommands, kernel
  <2>1. ASSUME NEW p \in Procs, NetnsAdd(p) PROVE Spared
    BY <2>1 DEF NetnsAdd
  <2>2. ASSUME NEW p \in Procs, EtcClean(p) PROVE Spared
    BY <2>2 DEF EtcClean, DamageIf
  <2>3. ASSUME NEW p \in Procs, ResolvInstall(p) PROVE Spared
    BY <2>3 DEF ResolvInstall, DamageIf
  <2>4. ASSUME NEW p \in Procs, EtcRemove(p) PROVE Spared
    BY <2>4 DEF EtcRemove, DamageIf
  <2>5. ASSUME NEW p \in Procs, NetnsDel(p) PROVE Spared
    BY <2>5 DEF NetnsDel, DamageIf
  <2>6. CASE UNCHANGED <<netns, resolv>>
    BY <2>6
  <2>7. ASSUME NEW n \in Names, ForeignAdd(n) PROVE Spared
    BY <2>7 DEF ForeignAdd
  <2>8. ASSUME NEW n \in Names, ForeignDel(n) PROVE Spared
    BY <2>8 DEF ForeignDel
  <2>9. ASSUME NEW n \in Names, OperatorRecovers(n) PROVE Spared
    BY <2>9 DEF OperatorRecovers
  <2>10. QED
    BY <2>1, <2>2, <2>3, <2>4, <2>5, <2>6, <2>7, <2>8, <2>9
       DEF Next, vars, Progress, CreateStep, DestroyStep, RunStep, Environment,
           Invoke, Lock, LockFails, RequireManaged, Read, Unlock, Modprobe, Configure,
           Register, Unregister, Leave, Exec, ExecFails, CommandFails, CommandEnds, Crash
<1>2. QED
  BY <1>1, Invariance, PTL DEF Spec, ForeignSpared

\* Only Exec enters a namespace, and by SettledInv a namespace of npte's that is
\* neither damaged nor in order has a holder that works on it.
THEOREM RunSees == Spec => RunSeesWorkInProgress
<1> DEFINE Seen == \A p \in Procs : entered[p] = "nothing" /\ entered'[p] = "partial" =>
             \E q \in Procs : /\ lock = q /\ Name(q) = Name(p)
                              /\ Verb(q) \in {"create", "destroy"}
<1>1. ASSUME IInv, [Next]_vars PROVE Seen
  <2>1. ASSUME NEW p \in Procs, Exec(p), entered'[p] = "partial"
        PROVE  \E q \in Procs : /\ lock = q /\ Name(q) = Name(p)
                                /\ Verb(q) \in {"create", "destroy"}
    <3>1. /\ Name(p) \in Names /\ Name(p) \notin damaged
          /\ netns[Name(p)] = "npte" /\ ~Ready(Name(p))
      BY <1>1, <2>1 DEF Exec, View, IInv, TypeOK, JobInv, Named, Ready
    <3>2. PICK q \in Procs : lock = q /\ Dirty(q) /\ Name(q) = Name(p)
      BY <1>1, <3>1 DEF IInv, SettledInv, Gone
    <3>3. Verb(q) \in {"create", "destroy"}
      BY <1>1, <3>2 DEF IInv, JobInv, Dirty, CreateCommands, DestroyCommands
    <3>4. QED
      BY <3>2, <3>3
  <2>2. ASSUME NEW p \in Procs, Exec(p), NEW q \in Procs, q # p
        PROVE  entered'[q] = entered[q]
    BY <1>1, <2>2 DEF Exec, IInv, TypeOK
  <2>3. ASSUME NEW p \in Procs, CommandEnds(p), NEW q \in Procs, entered'[q] = "partial"
        PROVE  entered[q] = "partial"
    BY <1>1, <2>3 DEF CommandEnds, IInv, TypeOK
  <2>4. CASE UNCHANGED entered
    BY <2>4
  <2>5. QED
    BY <1>1, <2>1, <2>2, <2>3, <2>4
       DEF Next, vars, Progress, CreateStep, DestroyStep, RunStep, Environment,
           Invoke, Lock, LockFails, RequireManaged, Read, Unlock, Modprobe, NetnsAdd,
           Configure, EtcClean, ResolvInstall, Register, EtcRemove, NetnsDel, Unregister,
           Leave, ExecFails, CommandFails, Crash, ForeignAdd, ForeignDel, OperatorRecovers
<1>2. QED
  BY <1>1, Invariance, PTL DEF Spec, RunSeesWorkInProgress

-----------------------------------------------------------------------------
(* Exit statuses, where npte is not killed.                                *)

\* What the holder's verb has achieved on its name, damaged or not.
Achieved(l, verb, n, k) ==
  /\ l \in {"configure", "etc_clean", "resolv_install", "register"} => netns[n] = "npte"
  /\ l = "configure" => config[n] = k
  /\ l \in {"etc_clean", "resolv_install", "register"} => config[n] = Settings
  /\ l = "register"   => resolv[n]
  /\ l = "unregister" => netns[n] # "npte"
  /\ l = "done" /\ verb = "create"  => Ready(n)
  /\ l = "done" /\ verb = "destroy" => Gone(n)

\* Without crashes there are no orphans, and nobody disturbs the holder.
ExitInv ==
  "crash" \notin Disturbances =>
    \A p \in Procs :
      /\ pc[p] \in Commands => lock = p
      /\ pc[p] = "done" /\ Verb(p) \in {"create", "destroy"} => Name(p) \in Names
      /\ lock = p => Achieved(pc[p], Verb(p), Name(p), step[p])

\* Every step keeps ExitInv.
LEMMA ExitStep ==
  ASSUME IInv, ExitInv, [Next]_vars
  PROVE  ExitInv'
<1>1. CASE "crash" \in Disturbances
  BY <1>1 DEF ExitInv
<1>2. CASE "crash" \notin Disturbances
  <2> USE SettingsAssumption, NullAssumption, <1>2
          DEF IInv, TypeOK, LockInv, JobInv, ExitInv, Achieved, Ready, Gone, Named,
              Jobs, NoJob, Name, Verb, Verbs, Commands, CreateCommands, DestroyCommands,
              Locked, Labels, kernel
  <2>1. ASSUME NEW p \in Procs, Invoke(p) PROVE ExitInv'
    BY <2>1 DEF Invoke
  <2>2. ASSUME NEW p \in Procs, Lock(p) PROVE ExitInv'
    BY <2>2 DEF Lock, Goto, FirstLabel
  <2>3. ASSUME NEW p \in Procs, LockFails(p) PROVE ExitInv'
    BY <2>3 DEF LockFails, Quit
  <2>4. ASSUME NEW p \in Procs, RequireManaged(p) PROVE ExitInv'
    BY <2>4 DEF RequireManaged, Goto, ManagedLabel
  <2>5. ASSUME NEW p \in Procs, Read(p) PROVE ExitInv'
    BY <2>5 DEF Read, Goto
  <2>6. ASSUME NEW p \in Procs, Unlock(p) PROVE ExitInv'
    BY <2>6 DEF Unlock, Quit
  <2>7. ASSUME NEW p \in Procs, Modprobe(p) PROVE ExitInv'
    BY <2>7 DEF Modprobe, Continue, Goto, Quit
  <2>8. ASSUME NEW p \in Procs, NetnsAdd(p) PROVE ExitInv'
    BY <2>8 DEF NetnsAdd, Continue, Goto, Quit
  <2>9. ASSUME NEW p \in Procs, Configure(p) PROVE ExitInv'
    <3>1. lock = p
      BY <2>9 DEF Configure
    <3>2. step[p] + 1 < Settings \/ step[p] + 1 = Settings
      <4>1. step[p] \in 0..(Settings - 1)
        OBVIOUS
      <4>2. QED
        BY <4>1
    <3>3. CASE step[p] + 1 < Settings
      BY <2>9, <3>1, <3>3 DEF Configure
    <3>4. CASE step[p] + 1 = Settings
      BY <2>9, <3>1, <3>4 DEF Configure, Continue, Goto
    <3>5. QED
      BY <3>2, <3>3, <3>4
  <2>10. ASSUME NEW p \in Procs, EtcClean(p) PROVE ExitInv'
    BY <2>10 DEF EtcClean, Continue, Goto, Quit
  <2>11. ASSUME NEW p \in Procs, ResolvInstall(p) PROVE ExitInv'
    BY <2>11 DEF ResolvInstall, Continue, Goto, Quit
  <2>12. ASSUME NEW p \in Procs, Register(p) PROVE ExitInv'
    BY <2>12 DEF Register, Continue, Goto, Quit
  <2>13. ASSUME NEW p \in Procs, EtcRemove(p) PROVE ExitInv'
    BY <2>13 DEF EtcRemove, Continue, Goto, Quit
  <2>14. ASSUME NEW p \in Procs, NetnsDel(p) PROVE ExitInv'
    BY <2>14 DEF NetnsDel, Continue, Goto, Quit
  <2>15. ASSUME NEW p \in Procs, Unregister(p) PROVE ExitInv'
    BY <2>15 DEF Unregister, Continue, Goto, Quit
  <2>16. ASSUME NEW p \in Procs, Leave(p) PROVE ExitInv'
    BY <2>16 DEF Leave, Goto
  <2>17. ASSUME NEW p \in Procs, Exec(p) PROVE ExitInv'
    BY <2>17 DEF Exec, Goto
  <2>18. ASSUME NEW p \in Procs, ExecFails(p) PROVE ExitInv'
    BY <2>18 DEF ExecFails, Quit
  <2>19. ASSUME NEW p \in Procs, CommandFails(p) PROVE ExitInv'
    BY <2>19 DEF CommandFails, Continue, Goto, Quit
  <2>20. ASSUME NEW p \in Procs, CommandEnds(p) PROVE ExitInv'
    BY <2>20 DEF CommandEnds, Quit
  <2>21. ASSUME NEW p \in Procs, Crash(p) PROVE ExitInv'
    BY <2>21 DEF Crash
  <2>22. ASSUME NEW n \in Names, ForeignAdd(n) PROVE ExitInv'
    BY <2>22 DEF ForeignAdd
  <2>23. ASSUME NEW n \in Names, ForeignDel(n) PROVE ExitInv'
    BY <2>23 DEF ForeignDel
  <2>24. ASSUME NEW n \in Names, OperatorRecovers(n) PROVE ExitInv'
    BY <2>24 DEF OperatorRecovers
  <2>25. CASE UNCHANGED vars
    BY <2>25 DEF vars
  <2>26. QED
    BY <2>1, <2>2, <2>3, <2>4, <2>5, <2>6, <2>7, <2>8, <2>9, <2>10, <2>11, <2>12,
       <2>13, <2>14, <2>15, <2>16, <2>17, <2>18, <2>19, <2>20, <2>21, <2>22, <2>23,
       <2>24, <2>25
       DEF Next, Progress, CreateStep, DestroyStep, RunStep, Environment
<1>3. QED
  BY <1>1, <1>2

\* Where npte is not killed, exit status 0 means that the namespace is managed
\* and configured in full (create), or that nothing of it is left (destroy).
THEOREM ExitZero == Spec => []ExitZeroMeansDone
<1>1. Init => ExitInv
  BY NullAssumption DEF Init, ExitInv, Achieved, Commands, CreateCommands, DestroyCommands
<1>2. IInv /\ ExitInv /\ [Next]_vars => ExitInv'
  BY ExitStep
<1>3. IInv /\ ExitInv => ExitZeroMeansDone
  BY DEF IInv, LockInv, ExitInv, Achieved, ExitZeroMeansDone, Locked, Commands,
         CreateCommands, DestroyCommands
<1>4. QED
  BY <1>1, <1>2, <1>3, Invariance, PTL DEF Spec

-----------------------------------------------------------------------------
(* The refinement of AbstractRegistry.                                     *)

\* The life of a name, once "torn" is known to be impossible.
Seen(n) == IF n \in damaged THEN "broken"
           ELSE IF marker[n] THEN "managed"
           ELSE IF netns[n] = "foreign" THEN "foreign" ELSE "free"

LifeFact == Life = [n \in Names |-> Seen(n)]

\* No name is torn: SettledInv.
LEMMA LifeIsSeen == IInv => LifeFact
  BY DEF IInv, SettledInv, Life, Seen, AtWork, LifeFact

InUseFact == /\ lock = NoProc => InUse = {}
             /\ \A p \in Procs : lock = p =>
                  InUse = IF pc[p] \in {"use", "leave"} THEN {Name(p)} ELSE {}

\* Only the holder of the lock makes use of a name, and of one only.
LEMMA InUseIsHolders == IInv => InUseFact
  BY NullAssumption DEF IInv, JobInv, InUse, InUseFact, Named

\* What a step may do to the life of one name.
MayBecome(n) ==
  \/ Seen(n)' = Seen(n)
  \/ Seen(n)' = "broken"
  \/ Seen(n) = "free" /\ Seen(n)' = "foreign"
  \/ Seen(n) = "foreign" /\ Seen(n)' = "free"
  \/ /\ n \notin InUse
     /\ \/ Seen(n) = "broken"
        \/ Seen(n) = "free" /\ Seen(n)' = "managed"
        \/ Seen(n) = "managed" /\ Seen(n)' \in {"free", "foreign"}

\* A step that changes the life of at most one name, in a permitted way, is a
\* step of the abstract registry or a stutter.
LEMMA OneMove ==
  ASSUME IInv, IInv', NEW n \in Names, InUse' = InUse, MayBecome(n),
         \A m \in Names \ {n} : Seen(m)' = Seen(m)
  PROVE  [Abstract!Next]_(Abstract!avars)
<1>0. LifeFact /\ LifeFact'
  BY LifeIsSeen, PTL
<1>1. Life = [m \in Names |-> Seen(m)] /\ Life' = [m \in Names |-> Seen(m)']
  BY <1>0 DEF LifeFact
<1>2. Life' = [Life EXCEPT ![n] = Seen(n)']
  BY <1>1
<1>3. /\ Seen(n) \in {"free", "managed", "foreign", "broken"}
      /\ Seen(n)' \in {"free", "managed", "foreign", "broken"}
  BY DEF Seen
<1>4. Life[n] = Seen(n)
  BY <1>1
<1>5. CASE Seen(n)' = Seen(n)
  BY <1>1, <1>5 DEF Abstract!avars
<1>6. CASE Seen(n)' # Seen(n)
  BY <1>2, <1>3, <1>4, <1>6
     DEF MayBecome, Abstract!Next, Abstract!Create, Abstract!Destroy, Abstract!Break,
         Abstract!Repair, Abstract!ForeignAdd, Abstract!ForeignDel, Abstract!Move,
         Abstract!Free, Abstract!Managed, Abstract!Foreign, Abstract!Broken
<1>7. QED
  BY <1>5, <1>6

\* A step that leaves the life of every name alone.
LEMMA NoMove ==
  ASSUME IInv, IInv', UNCHANGED <<marker, netns, damaged>>,
         \/ InUse' = InUse
         \/ \E n \in InUse : InUse' = InUse \ {n}
         \/ \E n \in Names : InUse' = InUse \cup {n} /\ marker[n]
  PROVE  [Abstract!Next]_(Abstract!avars)
<1>0. LifeFact /\ LifeFact'
  BY LifeIsSeen, PTL
<1>1. Life = [m \in Names |-> Seen(m)] /\ Life' = [m \in Names |-> Seen(m)']
  BY <1>0 DEF LifeFact
<1>2. Life' = Life
  BY <1>1 DEF Seen
<1>3. \A n \in Names : marker[n] => Life[n] \in {"managed", "broken"}
  BY <1>1 DEF Seen
<1>4. InUse \subseteq Names
  BY DEF InUse
<1>5. CASE InUse' = InUse
  BY <1>2, <1>5 DEF Abstract!avars
<1>6. CASE \E n \in InUse : InUse' = InUse \ {n}
  BY <1>2, <1>4, <1>6 DEF Abstract!Next, Abstract!Release
<1>7. CASE \E n \in Names : InUse' = InUse \cup {n} /\ marker[n]
  BY <1>2, <1>3, <1>7 DEF Abstract!Next, Abstract!Use, Abstract!Managed, Abstract!Broken
<1>8. QED
  BY <1>5, <1>6, <1>7

\* The commands of a create or a destroy change nobody's use of a name.
LEMMA CommandKeepsInUse ==
  ASSUME IInv, NEW p \in Procs, pc[p] \in Commands, UNCHANGED lock,
         \A q \in Procs \ {p} : pc'[q] = pc[q] /\ job'[q] = job[q],
         pc'[p] \notin {"use", "leave"}
  PROVE  InUse' = InUse /\ (lock = p => InUse = {})
  BY DEF InUse, Name, Commands, CreateCommands, DestroyCommands

\* Each step maps to a step of the abstract registry or to a stutter.
LEMMA StepRefines ==
  ASSUME IInv, [Next]_vars
  PROVE  [Abstract!Next]_(Abstract!avars)
<1> DEFINE Goal == [Abstract!Next]_(Abstract!avars)
<1>0. IInv'
  BY NextIInv
<1>b. InUseFact /\ InUseFact'
  BY <1>0, InUseIsHolders, PTL
<1>a. /\ \A p \in Procs : pc[p] \in Commands => Name(p) \in Names
      /\ pc \in [Procs -> Labels] /\ job \in [Procs -> Jobs]
      /\ marker \in [Names -> BOOLEAN]
      /\ netns \in [Names -> {"absent", "npte", "foreign"}]
  BY DEF IInv, TypeOK, JobInv, Named
<1>1. ASSUME NEW p \in Procs, Modprobe(p) PROVE Goal
  <2>1. pc[p] \in Commands /\ UNCHANGED lock
    BY <1>1 DEF Modprobe, Commands, CreateCommands, DestroyCommands
  <2>2. /\ \A q \in Procs \ {p} : pc'[q] = pc[q] /\ job'[q] = job[q]
        /\ pc'[p] \notin {"use", "leave"}
    BY <1>a, <1>1 DEF Modprobe, Continue, Goto, Quit
  <2>3. InUse' = InUse /\ (lock = p => InUse = {})
    BY <2>1, <2>2, CommandKeepsInUse
  <2>n. PICK n \in Names : n = Name(p)
    BY <1>a, <2>1
  <2>4. \A m \in Names \ {n} : Seen(m)' = Seen(m)
    BY <1>a, <2>n, <1>1 DEF Modprobe, DamageIf, Seen, kernel
  <2>5. MayBecome(n)
    BY <1>a, <2>n, <1>1, <2>1, <2>3 DEF Modprobe, DamageIf, MayBecome, Seen, kernel, IInv, WorkInv,
      Reached, Dirty
  <2>6. QED
    BY <1>0, <1>a, <2>1, <2>3, <2>4, <2>5, OneMove
<1>2. ASSUME NEW p \in Procs, NetnsAdd(p) PROVE Goal
  <2>1. pc[p] \in Commands /\ UNCHANGED lock
    BY <1>2 DEF NetnsAdd, Commands, CreateCommands, DestroyCommands
  <2>2. /\ \A q \in Procs \ {p} : pc'[q] = pc[q] /\ job'[q] = job[q]
        /\ pc'[p] \notin {"use", "leave"}
    BY <1>a, <1>2 DEF NetnsAdd, Continue, Goto, Quit
  <2>3. InUse' = InUse /\ (lock = p => InUse = {})
    BY <2>1, <2>2, CommandKeepsInUse
  <2>n. PICK n \in Names : n = Name(p)
    BY <1>a, <2>1
  <2>4. \A m \in Names \ {n} : Seen(m)' = Seen(m)
    BY <1>a, <2>n, <1>2 DEF NetnsAdd, DamageIf, Seen, kernel
  <2>5. MayBecome(n)
    BY <1>a, <2>n, <1>2, <2>1, <2>3 DEF NetnsAdd, DamageIf, MayBecome, Seen, kernel, IInv, WorkInv,
      Reached, Dirty
  <2>6. QED
    BY <1>0, <1>a, <2>1, <2>3, <2>4, <2>5, OneMove
<1>3. ASSUME NEW p \in Procs, Configure(p) PROVE Goal
  <2>1. pc[p] \in Commands /\ UNCHANGED lock
    BY <1>3 DEF Configure, Commands, CreateCommands, DestroyCommands
  <2>2. /\ \A q \in Procs \ {p} : pc'[q] = pc[q] /\ job'[q] = job[q]
        /\ pc'[p] \notin {"use", "leave"}
    BY <1>a, <1>3 DEF Configure, Continue, Goto, Quit
  <2>3. InUse' = InUse /\ (lock = p => InUse = {})
    BY <2>1, <2>2, CommandKeepsInUse
  <2>n. PICK n \in Names : n = Name(p)
    BY <1>a, <2>1
  <2>4. \A m \in Names \ {n} : Seen(m)' = Seen(m)
    BY <1>a, <2>n, <1>3 DEF Configure, DamageIf, Seen, kernel
  <2>5. MayBecome(n)
    BY <1>a, <2>n, <1>3, <2>1, <2>3 DEF Configure, DamageIf, MayBecome, Seen, kernel, IInv,
      WorkInv, Reached, Dirty
  <2>6. QED
    BY <1>0, <1>a, <2>1, <2>3, <2>4, <2>5, OneMove
<1>4. ASSUME NEW p \in Procs, EtcClean(p) PROVE Goal
  <2>1. pc[p] \in Commands /\ UNCHANGED lock
    BY <1>4 DEF EtcClean, Commands, CreateCommands, DestroyCommands
  <2>2. /\ \A q \in Procs \ {p} : pc'[q] = pc[q] /\ job'[q] = job[q]
        /\ pc'[p] \notin {"use", "leave"}
    BY <1>a, <1>4 DEF EtcClean, Continue, Goto, Quit
  <2>3. InUse' = InUse /\ (lock = p => InUse = {})
    BY <2>1, <2>2, CommandKeepsInUse
  <2>n. PICK n \in Names : n = Name(p)
    BY <1>a, <2>1
  <2>4. \A m \in Names \ {n} : Seen(m)' = Seen(m)
    BY <1>a, <2>n, <1>4 DEF EtcClean, DamageIf, Seen, kernel
  <2>5. MayBecome(n)
    BY <1>a, <2>n, <1>4, <2>1, <2>3 DEF EtcClean, DamageIf, MayBecome, Seen, kernel, IInv, WorkInv,
      Reached, Dirty
  <2>6. QED
    BY <1>0, <1>a, <2>1, <2>3, <2>4, <2>5, OneMove
<1>5. ASSUME NEW p \in Procs, ResolvInstall(p) PROVE Goal
  <2>1. pc[p] \in Commands /\ UNCHANGED lock
    BY <1>5 DEF ResolvInstall, Commands, CreateCommands, DestroyCommands
  <2>2. /\ \A q \in Procs \ {p} : pc'[q] = pc[q] /\ job'[q] = job[q]
        /\ pc'[p] \notin {"use", "leave"}
    BY <1>a, <1>5 DEF ResolvInstall, Continue, Goto, Quit
  <2>3. InUse' = InUse /\ (lock = p => InUse = {})
    BY <2>1, <2>2, CommandKeepsInUse
  <2>n. PICK n \in Names : n = Name(p)
    BY <1>a, <2>1
  <2>4. \A m \in Names \ {n} : Seen(m)' = Seen(m)
    BY <1>a, <2>n, <1>5 DEF ResolvInstall, DamageIf, Seen, kernel
  <2>5. MayBecome(n)
    BY <1>a, <2>n, <1>5, <2>1, <2>3 DEF ResolvInstall, DamageIf, MayBecome, Seen, kernel, IInv,
      WorkInv, Reached, Dirty
  <2>6. QED
    BY <1>0, <1>a, <2>1, <2>3, <2>4, <2>5, OneMove
<1>6. ASSUME NEW p \in Procs, Register(p) PROVE Goal
  <2>1. pc[p] \in Commands /\ UNCHANGED lock
    BY <1>6 DEF Register, Commands, CreateCommands, DestroyCommands
  <2>2. /\ \A q \in Procs \ {p} : pc'[q] = pc[q] /\ job'[q] = job[q]
        /\ pc'[p] \notin {"use", "leave"}
    BY <1>a, <1>6 DEF Register, Continue, Goto, Quit
  <2>3. InUse' = InUse /\ (lock = p => InUse = {})
    BY <2>1, <2>2, CommandKeepsInUse
  <2>n. PICK n \in Names : n = Name(p)
    BY <1>a, <2>1
  <2>4. \A m \in Names \ {n} : Seen(m)' = Seen(m)
    BY <1>a, <2>n, <1>6 DEF Register, DamageIf, Seen, kernel
  <2>5. MayBecome(n)
    BY <1>a, <2>n, <1>6, <2>1, <2>3 DEF Register, DamageIf, MayBecome, Seen, kernel, IInv, WorkInv,
      Reached, Dirty
  <2>6. QED
    BY <1>0, <1>a, <2>1, <2>3, <2>4, <2>5, OneMove
<1>7. ASSUME NEW p \in Procs, EtcRemove(p) PROVE Goal
  <2>1. pc[p] \in Commands /\ UNCHANGED lock
    BY <1>7 DEF EtcRemove, Commands, CreateCommands, DestroyCommands
  <2>2. /\ \A q \in Procs \ {p} : pc'[q] = pc[q] /\ job'[q] = job[q]
        /\ pc'[p] \notin {"use", "leave"}
    BY <1>a, <1>7 DEF EtcRemove, Continue, Goto, Quit
  <2>3. InUse' = InUse /\ (lock = p => InUse = {})
    BY <2>1, <2>2, CommandKeepsInUse
  <2>n. PICK n \in Names : n = Name(p)
    BY <1>a, <2>1
  <2>4. \A m \in Names \ {n} : Seen(m)' = Seen(m)
    BY <1>a, <2>n, <1>7 DEF EtcRemove, DamageIf, Seen, kernel
  <2>5. MayBecome(n)
    BY <1>a, <2>n, <1>7, <2>1, <2>3 DEF EtcRemove, DamageIf, MayBecome, Seen, kernel, IInv,
      WorkInv, Reached, Dirty
  <2>6. QED
    BY <1>0, <1>a, <2>1, <2>3, <2>4, <2>5, OneMove
<1>8. ASSUME NEW p \in Procs, NetnsDel(p) PROVE Goal
  <2>1. pc[p] \in Commands /\ UNCHANGED lock
    BY <1>8 DEF NetnsDel, Commands, CreateCommands, DestroyCommands
  <2>2. /\ \A q \in Procs \ {p} : pc'[q] = pc[q] /\ job'[q] = job[q]
        /\ pc'[p] \notin {"use", "leave"}
    BY <1>a, <1>8 DEF NetnsDel, Continue, Goto, Quit
  <2>3. InUse' = InUse /\ (lock = p => InUse = {})
    BY <2>1, <2>2, CommandKeepsInUse
  <2>n. PICK n \in Names : n = Name(p)
    BY <1>a, <2>1
  <2>4. \A m \in Names \ {n} : Seen(m)' = Seen(m)
    BY <1>a, <2>n, <1>8 DEF NetnsDel, DamageIf, Seen, kernel
  <2>5. MayBecome(n)
    BY <1>a, <2>n, <1>8, <2>1, <2>3 DEF NetnsDel, DamageIf, MayBecome, Seen, kernel, IInv, WorkInv,
      Reached, Dirty
  <2>6. QED
    BY <1>0, <1>a, <2>1, <2>3, <2>4, <2>5, OneMove
<1>9. ASSUME NEW p \in Procs, Unregister(p) PROVE Goal
  <2>1. pc[p] \in Commands /\ UNCHANGED lock
    BY <1>9 DEF Unregister, Commands, CreateCommands, DestroyCommands
  <2>2. /\ \A q \in Procs \ {p} : pc'[q] = pc[q] /\ job'[q] = job[q]
        /\ pc'[p] \notin {"use", "leave"}
    BY <1>a, <1>9 DEF Unregister, Continue, Goto, Quit
  <2>3. InUse' = InUse /\ (lock = p => InUse = {})
    BY <2>1, <2>2, CommandKeepsInUse
  <2>n. PICK n \in Names : n = Name(p)
    BY <1>a, <2>1
  <2>4. \A m \in Names \ {n} : Seen(m)' = Seen(m)
    BY <1>a, <2>n, <1>9 DEF Unregister, DamageIf, Seen, kernel
  <2>5. MayBecome(n)
    BY <1>a, <2>n, <1>9, <2>1, <2>3 DEF Unregister, DamageIf, MayBecome, Seen, kernel, IInv,
      WorkInv, Reached, Dirty
  <2>6. QED
    BY <1>0, <1>a, <2>1, <2>3, <2>4, <2>5, OneMove
<1>10. ASSUME NEW p \in Procs, CommandFails(p) PROVE Goal
  <2>1. pc[p] \in Commands /\ UNCHANGED lock
    BY <1>10 DEF CommandFails, Commands, CreateCommands, DestroyCommands
  <2>2. /\ \A q \in Procs \ {p} : pc'[q] = pc[q] /\ job'[q] = job[q]
        /\ pc'[p] \notin {"use", "leave"}
    BY <1>a, <1>10 DEF CommandFails, Continue, Goto, Quit
  <2>3. InUse' = InUse /\ (lock = p => InUse = {})
    BY <2>1, <2>2, CommandKeepsInUse
  <2>n. PICK n \in Names : n = Name(p)
    BY <1>a, <2>1
  <2>4. \A m \in Names \ {n} : Seen(m)' = Seen(m)
    BY <1>a, <2>n, <1>10 DEF CommandFails, DamageIf, Seen, kernel
  <2>5. MayBecome(n)
    BY <1>a, <2>n, <1>10, <2>1, <2>3 DEF CommandFails, DamageIf, MayBecome, Seen, kernel, IInv,
      WorkInv, Reached, Dirty
  <2>6. QED
    BY <1>0, <1>a, <2>1, <2>3, <2>4, <2>5, OneMove
<1>11. ASSUME NEW p \in Procs, Lock(p) PROVE Goal
  <2>1. lock = NoProc /\ lock' = p
    BY <1>11 DEF Lock, IInv, LockInv, Locked, Commands, CreateCommands, DestroyCommands
  <2>2. /\ InUse = IF lock = p /\ pc[p] \in {"use", "leave"} THEN {Name(p)} ELSE {}
        /\ InUse' = IF lock' = p /\ pc'[p] \in {"use", "leave"} THEN {Name(p)'} ELSE {}
    BY <1>b, <2>1 DEF InUseFact, Name
  <2>3. QED
    BY <1>0, <1>a, <1>11, <2>1, <2>2, NoMove DEF Lock, Goto, FirstLabel, Name, kernel, IInv,
      JobInv, Named
<1>12. ASSUME NEW p \in Procs, RequireManaged(p) PROVE Goal
  <2>1. lock = p /\ lock' = p
    BY <1>12 DEF RequireManaged, IInv, LockInv, Locked, Commands, CreateCommands, DestroyCommands
  <2>2. /\ InUse = IF lock = p /\ pc[p] \in {"use", "leave"} THEN {Name(p)} ELSE {}
        /\ InUse' = IF lock' = p /\ pc'[p] \in {"use", "leave"} THEN {Name(p)'} ELSE {}
    BY <1>b, <2>1 DEF InUseFact, Name
  <2>3. QED
    BY <1>0, <1>a, <1>12, <2>1, <2>2, NoMove DEF RequireManaged, Goto, ManagedLabel, Name, kernel,
      IInv, JobInv, Named
<1>13. ASSUME NEW p \in Procs, Read(p) PROVE Goal
  <2>1. lock = p /\ lock' = p
    BY <1>13 DEF Read, IInv, LockInv, Locked, Commands, CreateCommands, DestroyCommands
  <2>2. /\ InUse = IF lock = p /\ pc[p] \in {"use", "leave"} THEN {Name(p)} ELSE {}
        /\ InUse' = IF lock' = p /\ pc'[p] \in {"use", "leave"} THEN {Name(p)'} ELSE {}
    BY <1>b, <2>1 DEF InUseFact, Name
  <2>3. QED
    BY <1>0, <1>a, <1>13, <2>1, <2>2, NoMove DEF Read, Goto, Name, kernel, IInv, JobInv, Named
<1>14. ASSUME NEW p \in Procs, Unlock(p) PROVE Goal
  <2>1. lock = p /\ lock' = NoProc
    BY <1>14 DEF Unlock, IInv, LockInv, Locked, Commands, CreateCommands, DestroyCommands
  <2>2. /\ InUse = IF lock = p /\ pc[p] \in {"use", "leave"} THEN {Name(p)} ELSE {}
        /\ InUse' = IF lock' = p /\ pc'[p] \in {"use", "leave"} THEN {Name(p)'} ELSE {}
    BY <1>b, <2>1 DEF InUseFact, Name
  <2>3. QED
    BY <1>0, <1>a, <1>14, <2>1, <2>2, NoMove DEF Unlock, Quit, Name, kernel, IInv, JobInv, Named
<1>15. ASSUME NEW p \in Procs, Leave(p) PROVE Goal
  <2>1. lock = p /\ lock' = NoProc
    BY <1>15 DEF Leave, IInv, LockInv, Locked, Commands, CreateCommands, DestroyCommands
  <2>2. /\ InUse = IF lock = p /\ pc[p] \in {"use", "leave"} THEN {Name(p)} ELSE {}
        /\ InUse' = IF lock' = p /\ pc'[p] \in {"use", "leave"} THEN {Name(p)'} ELSE {}
    BY <1>b, <2>1 DEF InUseFact, Name
  <2>3. QED
    BY <1>0, <1>a, <1>15, <2>1, <2>2, NoMove DEF Leave, Goto, Name, kernel, IInv, JobInv, Named
<1>16. ASSUME NEW p \in Procs, Invoke(p) PROVE Goal
  <2>1. lock # p /\ pc[p] \notin {"use", "leave"} /\ pc'[p] \notin {"use", "leave"}
    BY <1>a, <1>16 DEF Invoke, IInv, LockInv, Locked, Commands, CreateCommands, DestroyCommands
  <2>2. \A q \in Procs \ {p} : pc'[q] = pc[q] /\ job'[q] = job[q]
    BY <1>a, <1>16 DEF Invoke
  <2>3. InUse' = InUse
    BY <1>16, <2>1, <2>2 DEF Invoke, InUse, Name
  <2>4. QED
    BY <1>0, <1>16, <2>3, NoMove DEF Invoke, kernel
<1>17. ASSUME NEW p \in Procs, LockFails(p) PROVE Goal
  <2>1. lock # p /\ pc[p] \notin {"use", "leave"} /\ pc'[p] \notin {"use", "leave"}
    BY <1>a, <1>17 DEF LockFails, Quit, IInv, LockInv, Locked, Commands, CreateCommands, DestroyCommands
  <2>2. \A q \in Procs \ {p} : pc'[q] = pc[q] /\ job'[q] = job[q]
    BY <1>a, <1>17 DEF LockFails, Quit
  <2>3. InUse' = InUse
    BY <1>17, <2>1, <2>2 DEF LockFails, InUse, Name
  <2>4. QED
    BY <1>0, <1>17, <2>3, NoMove DEF LockFails, kernel
<1>18. ASSUME NEW p \in Procs, Exec(p) PROVE Goal
  <2>1. lock # p /\ pc[p] \notin {"use", "leave"} /\ pc'[p] \notin {"use", "leave"}
    BY <1>a, <1>18 DEF Exec, Goto, IInv, LockInv, Locked, Commands, CreateCommands, DestroyCommands
  <2>2. \A q \in Procs \ {p} : pc'[q] = pc[q] /\ job'[q] = job[q]
    BY <1>a, <1>18 DEF Exec, Goto
  <2>3. InUse' = InUse
    BY <1>18, <2>1, <2>2 DEF Exec, InUse, Name
  <2>4. QED
    BY <1>0, <1>18, <2>3, NoMove DEF Exec, kernel
<1>19. ASSUME NEW p \in Procs, ExecFails(p) PROVE Goal
  <2>1. lock # p /\ pc[p] \notin {"use", "leave"} /\ pc'[p] \notin {"use", "leave"}
    BY <1>a, <1>19 DEF ExecFails, Quit, IInv, LockInv, Locked, Commands, CreateCommands, DestroyCommands
  <2>2. \A q \in Procs \ {p} : pc'[q] = pc[q] /\ job'[q] = job[q]
    BY <1>a, <1>19 DEF ExecFails, Quit
  <2>3. InUse' = InUse
    BY <1>19, <2>1, <2>2 DEF ExecFails, InUse, Name
  <2>4. QED
    BY <1>0, <1>19, <2>3, NoMove DEF ExecFails, kernel
<1>20. ASSUME NEW p \in Procs, CommandEnds(p) PROVE Goal
  <2>1. lock # p /\ pc[p] \notin {"use", "leave"} /\ pc'[p] \notin {"use", "leave"}
    BY <1>a, <1>20 DEF CommandEnds, Quit, IInv, LockInv, Locked, Commands, CreateCommands,
      DestroyCommands
  <2>2. \A q \in Procs \ {p} : pc'[q] = pc[q] /\ job'[q] = job[q]
    BY <1>a, <1>20 DEF CommandEnds, Quit
  <2>3. InUse' = InUse
    BY <1>20, <2>1, <2>2 DEF CommandEnds, InUse, Name
  <2>4. QED
    BY <1>0, <1>20, <2>3, NoMove DEF CommandEnds, kernel
<1>21. ASSUME NEW p \in Procs, Crash(p) PROVE Goal
  <2>1. InUse' = {}
    BY <1>b, <1>21 DEF Crash, InUseFact
  <2>2. InUse = IF pc[p] \in {"use", "leave"} THEN {Name(p)} ELSE {}
    BY <1>b, <1>21 DEF Crash, InUseFact
  <2>3. CASE Dirty(p)
    <3>n. PICK n \in Names : n = Name(p)
      BY <1>a, <2>3 DEF Dirty, Commands, CreateCommands, DestroyCommands
    <3>1. InUse = {}
      BY <2>2, <2>3 DEF Dirty, CreateCommands, DestroyCommands
    <3>2. /\ \A m \in Names \ {n} : Seen(m)' = Seen(m)
          /\ MayBecome(n)
      BY <1>21, <2>3, <3>n, <3>1 DEF Crash, Seen, MayBecome, kernel
    <3>3. QED
      BY <1>0, <2>1, <3>1, <3>2, OneMove
  <2>4. CASE ~Dirty(p)
    BY <1>0, <1>21, <2>1, <2>2, <2>4, NoMove DEF Crash, kernel
  <2>5. QED
    BY <2>3, <2>4
<1>22. ASSUME NEW n \in Names, ForeignAdd(n) PROVE Goal
  <2>1. InUse' = InUse
    BY <1>22 DEF ForeignAdd, InUse, Name
  <2>2. MayBecome(n) /\ \A m \in Names \ {n} : Seen(m)' = Seen(m)
    BY <1>a, <1>22 DEF ForeignAdd, MayBecome, Seen
  <2>3. QED
    BY <1>0, <2>1, <2>2, OneMove
<1>23. ASSUME NEW n \in Names, ForeignDel(n) PROVE Goal
  <2>1. InUse' = InUse
    BY <1>23 DEF ForeignDel, InUse, Name
  <2>2. MayBecome(n) /\ \A m \in Names \ {n} : Seen(m)' = Seen(m)
    BY <1>a, <1>23 DEF ForeignDel, MayBecome, Seen
  <2>3. QED
    BY <1>0, <2>1, <2>2, OneMove
<1>24. ASSUME NEW n \in Names, OperatorRecovers(n) PROVE Goal
  <2>1. InUse' = InUse
    BY <1>24 DEF OperatorRecovers, InUse, Name
  <2>2. n \notin InUse
    BY <1>b, <1>24 DEF OperatorRecovers, InUseFact
  <2>3. MayBecome(n) /\ \A m \in Names \ {n} : Seen(m)' = Seen(m)
    BY <1>a, <1>24, <2>2 DEF OperatorRecovers, MayBecome, Seen
  <2>4. QED
    BY <1>0, <2>1, <2>3, OneMove
<1>25. CASE UNCHANGED vars
  <2>1. InUse' = InUse
    BY <1>25 DEF vars, InUse, Name
  <2>2. QED
    BY <1>0, <1>25, <2>1, NoMove DEF vars, kernel
<1>26. QED
  BY <1>1, <1>2, <1>3, <1>4, <1>5, <1>6, <1>7, <1>8, <1>9, <1>10, <1>11, <1>12,
     <1>13, <1>14, <1>15, <1>16, <1>17, <1>18, <1>19, <1>20, <1>21, <1>22, <1>23,
     <1>24, <1>25
     DEF Next, Progress, CreateStep, DestroyStep, RunStep, Environment

\* The namespace verbs implement the abstract life cycle of a name.
THEOREM Refinement == Spec => AbstractSpec
<1>1. Init => Abstract!Init
  <2>1. ASSUME Init PROVE Life = [n \in Names |-> "free"]
    BY <2>1 DEF Init, Life, Ready, Gone
  <2>2. ASSUME Init PROVE InUse = {}
    BY <2>2, NullAssumption DEF Init, InUse
  <2>3. QED
    BY <2>1, <2>2 DEF Abstract!Init, Abstract!Free
<1>2. QED
  BY <1>1, StepRefines, Invariance, PTL DEF Spec, AbstractSpec, Abstract!Spec
============================================================================
