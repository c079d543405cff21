---------------------------- MODULE NetnsRegistry ----------------------------
(***************************************************************************)
(* The ownership registry of npte and the namespace verbs that keep it:    *)
(* `npte netns create`, `destroy`, `run`, `list`, and the verbs that       *)
(* inspect or change one namespace under the global lock (`show`,          *)
(* `assign-addr`, `add-route`, `connect`, `netem apply|clear`; what those  *)
(* do inside a namespace is not modelled here, only that they rely on it). *)
(*                                                                         *)
(* Every process is one invocation of npte at a time.  It blocks on the    *)
(* lock file, checks the marker of its name, and runs external commands    *)
(* one by one; another process, the operator and other programs act        *)
(* between any two of them.  A command may fail, which makes npte exit     *)
(* through its deferred unlock, and npte may be killed, which drops the    *)
(* lock at once while the command it was running may live on.              *)
(***************************************************************************)
EXTENDS Naturals, FiniteSets

CONSTANTS
  Procs,         \* npte processes
  Names,         \* valid namespace names (validate.NetnsName)
  Settings,      \* commands that configure a new namespace (five in the code)
  Disturbances,  \* what may go wrong: "fail", "crash", "foreign", "operator"
  NoProc,        \* nobody holds the lock
  NoName         \* an invocation without a name

ASSUME SettingsAssumption     == Settings \in Nat \ {0}
ASSUME DisturbancesAssumption ==
         Disturbances \subseteq {"fail", "crash", "foreign", "operator"}
ASSUME NullAssumption         == NoProc \notin Procs /\ NoName \notin Names

VARIABLES
  lock,     \* holder of /run/npte/.lock, or NoProc
  marker,   \* is there a regular file /run/npte/netns/<name>?
  netns,    \* the kernel namespace of a name: "absent", "npte" or "foreign"
  config,   \* how many of the settings, in their order, the namespace has
  resolv,   \* is there an /etc/netns/<name>/resolv.conf?
  pc,       \* where each process is
  job,      \* its verb and its name
  step,     \* how many settings a create has run
  entered,  \* what `netns run` found when it entered the namespace
  damaged   \* history: names on which a create or a destroy was interrupted

kernel == <<netns, config, resolv>>
vars   == <<lock, marker, kernel, pc, job, step, entered, damaged>>

-----------------------------------------------------------------------------
(* Invocations.                                                            *)

Verbs == {"create", "destroy", "run", "use", "list"}

NoJob == [verb |-> "none", name |-> NoName]
Jobs  == [verb : Verbs \ {"list"}, name : Names]
           \cup {[verb |-> "list", name |-> NoName], NoJob}

Verb(p) == job[p].verb
Name(p) == job[p].name

CreateCommands  == {"modprobe", "netns_add", "configure",
                    "etc_clean", "resolv_install", "register"}
DestroyCommands == {"etc_remove", "netns_del", "unregister"}
Commands        == CreateCommands \cup DestroyCommands

\* Labels at which an invocation holds the lock.  A process at a command that
\* does not hold it stands for a command that has outlived its npte.
Locked == Commands \cup {"check", "use", "list", "leave", "done", "abort"}
Labels == Locked \cup {"idle", "lock", "exec", "inside"}

Orphan(p) == pc[p] \in Commands /\ lock # p

\* A create or a destroy that has already changed something.
Dirty(p) == pc[p] \in (CreateCommands \ {"modprobe", "netns_add"})
                        \cup (DestroyCommands \ {"etc_remove"})

Ready(n) == marker[n] /\ netns[n] = "npte" /\ config[n] = Settings /\ resolv[n]
Gone(n)  == ~marker[n] /\ netns[n] # "npte"

\* What a process that enters namespace n finds.
View(n) == IF netns[n] = "foreign" THEN "foreign"
           ELSE IF n \in damaged THEN "damaged"
           ELSE IF config[n] = Settings /\ resolv[n] THEN "ready" ELSE "partial"

Init ==
  /\ lock = NoProc
  /\ marker  = [n \in Names |-> FALSE]
  /\ netns   = [n \in Names |-> "absent"]
  /\ config  = [n \in Names |-> 0]
  /\ resolv  = [n \in Names |-> FALSE]
  /\ pc      = [p \in Procs |-> "idle"]
  /\ job     = [p \in Procs |-> NoJob]
  /\ step    = [p \in Procs |-> 0]
  /\ entered = [p \in Procs |-> "nothing"]
  /\ damaged = {}

-----------------------------------------------------------------------------
(* The steps every verb shares.                                            *)

Goto(p, label) == pc' = [pc EXCEPT ![p] = label] /\ UNCHANGED <<job, step>>

Quit(p) == /\ pc'   = [pc   EXCEPT ![p] = "idle"]
           /\ job'  = [job  EXCEPT ![p] = NoJob]
           /\ step' = [step EXCEPT ![p] = 0]

\* A command that ended well: its npte goes on, an orphan's is not there.
Continue(p, label) == IF lock = p THEN Goto(p, label) ELSE Quit(p)

Invoke(p) ==
  /\ pc[p] = "idle"
  /\ \E j \in Jobs \ {NoJob} : job' = [job EXCEPT ![p] = j]
  /\ pc' = [pc EXCEPT ![p] = "lock"]
  /\ UNCHANGED <<step, lock, marker, kernel, entered, damaged>>

FirstLabel(verb) == IF verb = "create" THEN "modprobe"
                    ELSE IF verb = "list" THEN "list" ELSE "check"

\* Mutant: nobody waits for the lock.
MutLock(p) ==
  /\ pc[p] = "lock"
  /\ lock' = p
  /\ Goto(p, FirstLabel(Verb(p)))
  /\ UNCHANGED <<marker, kernel, entered, damaged>>

\* registry.Lock: `install -d`, then block on the lock file.
Lock(p) ==
  /\ pc[p] = "lock"
  /\ lock = NoProc
  /\ lock' = p
  /\ Goto(p, FirstLabel(Verb(p)))
  /\ UNCHANGED <<marker, kernel, entered, damaged>>

\* `install -d` fails: npte exits without ever holding the lock.
LockFails(p) ==
  /\ "fail" \in Disturbances
  /\ pc[p] = "lock"
  /\ Quit(p)
  /\ UNCHANGED <<lock, marker, kernel, entered, damaged>>

ManagedLabel(verb) == IF verb = "destroy" THEN "etc_remove"
                      ELSE IF verb = "run" THEN "leave" ELSE "use"

\* Mutant: the marker is not looked at.
MutRequireManaged(p) ==
  /\ pc[p] = "check"
  /\ Goto(p, ManagedLabel(Verb(p)))
  /\ UNCHANGED <<lock, marker, kernel, entered, damaged>>

\* registry.RequireManaged: the marker alone decides.
RequireManaged(p) ==
  /\ pc[p] = "check"
  /\ Goto(p, IF marker[Name(p)] THEN ManagedLabel(Verb(p)) ELSE "abort")
  /\ UNCHANGED <<lock, marker, kernel, entered, damaged>>

\* The verbs that only look at a namespace, or change what is inside it, and
\* `netns list`, which reads the directory of markers.
Read(p) ==
  /\ pc[p] \in {"use", "list"}
  /\ Goto(p, "done")
  /\ UNCHANGED <<lock, marker, kernel, entered, damaged>>

\* The deferred unlock, on success ("done") and on failure ("abort").
Unlock(p) ==
  /\ pc[p] \in {"done", "abort"}
  /\ lock' = NoProc
  /\ Quit(p)
  /\ UNCHANGED <<marker, kernel, entered, damaged>>

-----------------------------------------------------------------------------
(* netns create                                                            *)

\* An orphan damages the name it changes behind the back of the registry.
DamageIf(p, changed) ==
  damaged' = IF lock # p /\ changed THEN damaged \cup {Name(p)} ELSE damaged

Modprobe(p) ==
  /\ pc[p] = "modprobe"
  /\ Continue(p, "netns_add")
  /\ UNCHANGED <<lock, marker, kernel, entered, damaged>>

\* Mutant: a name that is taken is configured and registered all the same.
MutNetnsAdd(p) ==
  /\ pc[p] = "netns_add"
  /\ IF netns[Name(p)] = "absent"
       THEN /\ netns'  = [netns  EXCEPT ![Name(p)] = "npte"]
            /\ config' = [config EXCEPT ![Name(p)] = 0]
       ELSE UNCHANGED <<netns, config>>
  /\ Continue(p, "configure")
  /\ DamageIf(p, TRUE)
  /\ UNCHANGED <<lock, marker, resolv, entered>>

NetnsAdd(p) ==
  /\ pc[p] = "netns_add"
  /\ netns[Name(p)] = "absent"
  /\ netns'  = [netns  EXCEPT ![Name(p)] = "npte"]
  /\ config' = [config EXCEPT ![Name(p)] = 0]
  /\ Continue(p, "configure")
  /\ DamageIf(p, TRUE)
  /\ UNCHANGED <<lock, marker, resolv, entered>>

\* Mutant: one setting too many.
MutConfigure(p) ==
  /\ pc[p] = "configure"
  /\ netns[Name(p)] # "absent"
  /\ config' = [config EXCEPT ![Name(p)] = IF @ = step[p] THEN @ + 1 ELSE @]
  /\ IF lock = p /\ step[p] < Settings
       THEN step' = [step EXCEPT ![p] = @ + 1] /\ UNCHANGED <<pc, job>>
       ELSE Continue(p, "etc_clean")
  /\ DamageIf(p, config' # config)
  /\ UNCHANGED <<lock, marker, netns, resolv, entered>>

\* `ip netns exec` of one setting: the loopback, then the four sysctls.
Configure(p) ==
  /\ pc[p] = "configure"
  /\ netns[Name(p)] # "absent"
  /\ config' = [config EXCEPT ![Name(p)] = IF @ = step[p] THEN @ + 1 ELSE @]
  /\ IF lock = p /\ step[p] + 1 < Settings
       THEN step' = [step EXCEPT ![p] = @ + 1] /\ UNCHANGED <<pc, job>>
       ELSE Continue(p, "etc_clean")
  /\ DamageIf(p, config' # config)
  /\ UNCHANGED <<lock, marker, netns, resolv, entered>>

EtcClean(p) ==
  /\ pc[p] = "etc_clean"
  /\ resolv' = [resolv EXCEPT ![Name(p)] = FALSE]
  /\ Continue(p, "resolv_install")
  /\ DamageIf(p, resolv' # resolv)
  /\ UNCHANGED <<lock, marker, netns, config, entered>>

ResolvInstall(p) ==
  /\ pc[p] = "resolv_install"
  /\ resolv' = [resolv EXCEPT ![Name(p)] = TRUE]
  /\ Continue(p, "register")
  /\ DamageIf(p, resolv' # resolv)
  /\ UNCHANGED <<lock, marker, netns, config, entered>>

\* A create that leaves the name in order undoes earlier damage.
Register(p) ==
  /\ pc[p] = "register"
  /\ marker' = [marker EXCEPT ![Name(p)] = TRUE]
  /\ Continue(p, "done")
  /\ IF lock = p /\ netns[Name(p)] = "npte" /\ config[Name(p)] = Settings /\ resolv[Name(p)]
       THEN damaged' = damaged \ {Name(p)}
       ELSE DamageIf(p, marker' # marker)
  /\ UNCHANGED <<lock, kernel, entered>>

-----------------------------------------------------------------------------
(* netns destroy                                                           *)

EtcRemove(p) ==
  /\ pc[p] = "etc_remove"
  /\ resolv' = [resolv EXCEPT ![Name(p)] = FALSE]
  /\ Continue(p, "netns_del")
  /\ DamageIf(p, resolv' # resolv)
  /\ UNCHANGED <<lock, marker, netns, config, entered>>

NetnsDel(p) ==
  /\ pc[p] = "netns_del"
  /\ netns[Name(p)] # "absent"
  /\ netns'  = [netns  EXCEPT ![Name(p)] = "absent"]
  /\ config' = [config EXCEPT ![Name(p)] = 0]
  /\ Continue(p, "unregister")
  /\ DamageIf(p, TRUE)
  /\ UNCHANGED <<lock, marker, resolv, entered>>

Unregister(p) ==
  /\ pc[p] = "unregister"
  /\ marker' = [marker EXCEPT ![Name(p)] = FALSE]
  /\ Continue(p, "done")
  /\ IF lock = p /\ netns[Name(p)] # "npte"
       THEN damaged' = damaged \ {Name(p)}
       ELSE DamageIf(p, marker' # marker)
  /\ UNCHANGED <<lock, kernel, entered>>

-----------------------------------------------------------------------------
(* netns run                                                               *)

\* Mutant: the lock is held while the user's command runs.
MutLeave(p) ==
  /\ pc[p] = "leave"
  /\ Goto(p, "exec")
  /\ UNCHANGED <<lock, marker, kernel, entered, damaged>>

\* The lock is released before the namespace is entered, since the command
\* run inside it may be a server that never ends.
Leave(p) ==
  /\ pc[p] = "leave"
  /\ lock' = NoProc
  /\ Goto(p, "exec")
  /\ UNCHANGED <<marker, kernel, entered, damaged>>

Exec(p) ==
  /\ pc[p] = "exec"
  /\ netns[Name(p)] # "absent"
  /\ entered' = [entered EXCEPT ![p] = View(Name(p))]
  /\ Goto(p, "inside")
  /\ UNCHANGED <<lock, marker, kernel, damaged>>

\* `ip netns exec` does not find the namespace, or cannot be run.
ExecFails(p) ==
  /\ pc[p] = "exec"
  /\ netns[Name(p)] = "absent" \/ "fail" \in Disturbances
  /\ Quit(p)
  /\ UNCHANGED <<lock, marker, kernel, entered, damaged>>

CommandEnds(p) ==
  /\ pc[p] = "inside"
  /\ Quit(p)
  /\ entered' = [entered EXCEPT ![p] = "nothing"]
  /\ UNCHANGED <<lock, marker, kernel, damaged>>

-----------------------------------------------------------------------------
(* Failures, crashes, other programs and the operator.                     *)

\* The kernel refuses a command: the name is taken, or there is none.
Refused(p) == \/ pc[p] = "netns_add" /\ netns[Name(p)] # "absent"
              \/ pc[p] \in {"configure", "netns_del"} /\ netns[Name(p)] = "absent"

\* Mutant: the exit status of `ip netns del` is ignored (MustRunTolerant).
MutCommandFails(p) ==
  /\ pc[p] \in Commands
  /\ Refused(p) \/ "fail" \in Disturbances
  /\ Continue(p, IF pc[p] = "netns_del" THEN "unregister" ELSE "abort")
  /\ damaged' = IF lock = p /\ Dirty(p) /\ pc[p] # "netns_del"
                  THEN damaged \cup {Name(p)} ELSE damaged
  /\ UNCHANGED <<lock, marker, kernel, entered>>

\* A failed MustRun exits through the deferred unlock.
CommandFails(p) ==
  /\ pc[p] \in Commands
  /\ Refused(p) \/ "fail" \in Disturbances
  /\ Continue(p, "abort")
  /\ damaged' = IF lock = p /\ Dirty(p) THEN damaged \cup {Name(p)} ELSE damaged
  /\ UNCHANGED <<lock, marker, kernel, entered>>

\* npte is killed while it holds the lock: the kernel drops the lock, and the
\* command that was running, if any, dies as well or goes on by itself.
Crash(p) ==
  /\ "crash" \in Disturbances
  /\ lock = p
  /\ lock' = NoProc
  /\ \/ Quit(p)
     \/ pc[p] \in Commands /\ UNCHANGED <<pc, job, step>>
  /\ damaged' = IF Dirty(p) THEN damaged \cup {Name(p)} ELSE damaged
  /\ UNCHANGED <<marker, kernel, entered>>

\* Other programs add namespaces, and delete the ones that they added.
ForeignAdd(n) ==
  /\ "foreign" \in Disturbances
  /\ netns[n] = "absent"
  /\ netns'  = [netns  EXCEPT ![n] = "foreign"]
  /\ config' = [config EXCEPT ![n] = 0]
  /\ UNCHANGED <<lock, marker, resolv, pc, job, step, entered, damaged>>

ForeignDel(n) ==
  /\ "foreign" \in Disturbances
  /\ netns[n] = "foreign"
  /\ netns'  = [netns  EXCEPT ![n] = "absent"]
  /\ config' = [config EXCEPT ![n] = 0]
  /\ UNCHANGED <<lock, marker, resolv, pc, job, step, entered, damaged>>

\* The recovery that the registry's documentation leaves to the operator, who
\* acts when npte is not running: `sudo rm` of an orphan marker, `sudo ip
\* netns del` of an orphan namespace.
OperatorRecovers(n) ==
  /\ "operator" \in Disturbances
  /\ lock = NoProc /\ \A p \in Procs : ~Orphan(p)
  /\ n \in damaged
  /\ \/ marker[n] /\ netns[n] = "absent" /\ UNCHANGED <<netns, config>>
     \/ /\ ~marker[n] /\ netns[n] = "npte"
        /\ netns'  = [netns  EXCEPT ![n] = "absent"]
        /\ config' = [config EXCEPT ![n] = 0]
  /\ marker'  = [marker EXCEPT ![n] = FALSE]
  /\ damaged' = damaged \ {n}
  /\ UNCHANGED <<lock, resolv, pc, job, step, entered>>

-----------------------------------------------------------------------------
CreateStep(p)  == \/ Modprobe(p) \/ NetnsAdd(p) \/ Configure(p)
                  \/ EtcClean(p) \/ ResolvInstall(p) \/ Register(p)
DestroyStep(p) == EtcRemove(p) \/ NetnsDel(p) \/ Unregister(p)
RunStep(p)     == Leave(p) \/ Exec(p) \/ ExecFails(p)

\* What a process does by itself once it is invoked.
Progress(p) == \/ Lock(p) \/ LockFails(p) \/ RequireManaged(p) \/ Read(p) \/ Unlock(p)
               \/ CreateStep(p) \/ DestroyStep(p) \/ RunStep(p) \/ CommandFails(p)

Environment(n) == ForeignAdd(n) \/ ForeignDel(n) \/ OperatorRecovers(n)

Next == \/ \E p \in Procs : Invoke(p) \/ Progress(p) \/ CommandEnds(p) \/ Crash(p)
        \/ \E n \in Names : Environment(n)

Spec == Init /\ [][Next]_vars

\* The scheduler runs every process and the external commands terminate; the
\* user's command inside a namespace need not, so CommandEnds is not fair.
\* Somebody blocked on a free lock gets it, though no one process must.
FairSpec == /\ Spec
            /\ \A p \in Procs : WF_vars(pc[p] # "lock" /\ Progress(p))
            /\ WF_vars(\E p \in Procs : Lock(p))

-----------------------------------------------------------------------------
(* Properties.                                                             *)

TypeOK ==
  /\ lock    \in Procs \cup {NoProc}
  /\ marker  \in [Names -> BOOLEAN]
  /\ netns   \in [Names -> {"absent", "npte", "foreign"}]
  /\ config  \in [Names -> 0..Settings]
  /\ resolv  \in [Names -> BOOLEAN]
  /\ pc      \in [Procs -> Labels]
  /\ job     \in [Procs -> Jobs]
  /\ step    \in [Procs -> 0..(Settings - 1)]
  /\ entered \in [Procs -> {"nothing", "ready", "partial", "damaged", "foreign"}]
  /\ damaged \subseteq Names

\* When nobody holds the lock, a marker stands for a namespace that npte made
\* and configured in full, and no marker means no namespace of npte's: a create
\* or a destroy is all or nothing for whoever takes the lock next (registry.go:
\* "kernel op then marker op is observable as atomic"), except on a name where
\* one was interrupted.
RegistryAgreement ==
  lock = NoProc => \A n \in Names \ damaged : Ready(n) \/ Gone(n)

\* From RequireManaged to its unlock, a verb that found the marker has a
\* namespace that stays there, configured in full: no other create or destroy
\* runs meanwhile (addroute.go, netem/apply.go and the rest rely on it).
HolderSeesReady ==
  \A p \in Procs : pc[p] \in {"use", "leave"} /\ Name(p) \notin damaged => Ready(Name(p))

\* An exit status of 0 tells the truth, also on a name that earlier failures
\* had left half done: after `netns create` the namespace is managed and
\* configured in full, after `netns destroy` npte has neither a marker nor a
\* namespace.  (An orphan of a killed npte may undo a verb under its hands,
\* so this is about systems where npte is not killed.)
ExitZeroMeansDone ==
  \A p \in Procs : "crash" \notin Disturbances /\ pc[p] = "done" =>
     /\ Verb(p) = "create"  => Ready(Name(p))
     /\ Verb(p) = "destroy" => Gone(Name(p))

\* npte deletes no namespace that somebody else made under a name of theirs,
\* nor its /etc/netns files, whatever verbs are invoked on that name.  (A name
\* on which a create or a destroy was interrupted has no such protection:
\* registry.go says so where it explains why there is no `gc` verb.)
ForeignSpared ==
  [][\A n \in Names : netns[n] = "foreign" /\ n \notin damaged \cup damaged' =>
        /\ netns'[n] # "foreign" => UNCHANGED <<pc, lock>>
        /\ resolv'[n] = resolv[n]]_vars

\* `netns run` enters a namespace that is not configured in full only while
\* another npte, holding the lock, creates or destroys it.
RunSeesWorkInProgress ==
  [][\A p \in Procs : entered[p] = "nothing" /\ entered'[p] = "partial" =>
        \E q \in Procs : /\ lock = q /\ Name(q) = Name(p)
                         /\ Verb(q) \in {"create", "destroy"}]_vars

\* The lock never stays with one process: every path out of a verb, failures
\* included, unlocks, and `netns run` does not hold it while the user's command
\* (which may never end) is inside the namespace.
LockIsReleased == \A p \in Procs : (lock = p) ~> (lock # p)

\* run.go: a destroy between the check and the exec "cannot redirect us into a
\* namespace npte does not own".
RunNeverRedirected == \A p \in Procs : pc[p] = "inside" => entered[p] # "foreign"

\* How another npte process sees a name.  A create or a destroy at work hides
\* behind its lock; a name in disorder without one would be "torn", which
\* AbstractRegistry does not know.
AtWork(n) == \E p \in Procs : lock = p /\ Dirty(p) /\ Name(p) = n

Life == [n \in Names |->
          IF n \in damaged THEN "broken"
          ELSE IF ~Ready(n) /\ ~Gone(n) /\ ~AtWork(n) THEN "torn"
          ELSE IF marker[n] THEN "managed"
          ELSE IF netns[n] = "foreign" THEN "foreign" ELSE "free"]

InUse == {n \in Names : \E p \in Procs : lock = p /\ pc[p] \in {"use", "leave"} /\ Name(p) = n}

Abstract == INSTANCE AbstractRegistry WITH life <- Life, inUse <- InUse

\* The verbs, with all their commands, crashes and orphans, implement the
\* one-step life cycle of AbstractRegistry (registry.go: "kernel op then marker
\* op is observable as atomic to other npte processes").
AbstractSpec == Abstract!Spec
=============================================================================
