---------------------------- MODULE NetemShaping ----------------------------
(***************************************************************************)
(* The shaping of the lab's access link.  `npte netem clear` and `npte     *)
(* netem apply` change the qdiscs of one interface of the namespace router *)
(* under the global lock; `npte lab netem`, the shape_* tools of the MCP   *)
(* server and the Python library run several of them one after another,    *)
(* each taking the lock for itself, so that two shapers interleave.        *)
(*                                                                         *)
(* A command may fail, an npte may be killed (by the timeout of an MCP     *)
(* call, for one) while its tc lives on, and the lab may go and come back. *)
(***************************************************************************)
EXTENDS Naturals, Sequences, FiniteSets

CONSTANTS
  Shapers,      \* processes that shape links
  PlainShapes,  \* link shapes that are all in netem
  ChildShapes,  \* link shapes with a child qdisc, which takes a second command
  Profiles,     \* pairs of shapes, downlink and uplink, that `lab netem` knows
  NoKnobs,      \* an input that `netem apply` rejects before it takes the lock
  BadChild,     \* an input that it rejects under the lock
  Directions,   \* interfaces that are shaped one at a time
  Tools,        \* what shapers use: "netem", "lab", "mcp", "python"
  Disturbances, \* what may go wrong: "fail", "crash", "lab"
  MaxLate,      \* bound on the tc commands that outlive their npte at a time
  NoShaper,     \* nobody holds the lock
  NoShape       \* no qdisc

Shapes == PlainShapes \cup ChildShapes
Inputs == Shapes \cup {NoKnobs, BadChild}

ASSUME ShapesAssumption == /\ PlainShapes \cap ChildShapes = {}
                           /\ NoKnobs \notin Shapes /\ BadChild \notin Shapes
                           /\ NoKnobs # BadChild
ASSUME ProfilesAssumption == Profiles \subseteq Shapes \X Shapes
ASSUME NullAssumption == NoShaper \notin Shapers /\ NoShape \notin Inputs
ASSUME DirectionsAssumption == Directions \subseteq {"if_client", "if_server"}
ASSUME ToolsAssumption == Tools \subseteq {"netem", "lab", "mcp", "python"}
ASSUME MaxLateAssumption == MaxLate \in Nat
ASSUME DisturbancesAssumption == Disturbances \subseteq {"fail", "crash", "lab"}

VARIABLES
  lock,     \* holder of the global lock, or NoShaper
  lab,      \* is there a lab?
  tree,     \* the qdiscs of each interface
  pc,       \* where each shaper is
  job, at,  \* what it does, and at which of its steps it is
  code,     \* the exit code that the npte of that step will have
  failed,   \* did one of its steps fail?
  late,     \* tc commands that have outlived their npte
  changed,  \* history: has the npte of that step changed a qdisc?
  torn,     \* history: interfaces on which an apply was interrupted, or that
            \* a late command changed
  meddled,  \* history: interfaces that a late command changed since the lock was
            \* taken
  alone     \* history: shapers that nobody and nothing has interfered with

work == <<pc, job, at, code, failed>>
hist == <<changed, torn, meddled, alone>>
vars == <<lock, lab, tree, work, late, hist>>

-----------------------------------------------------------------------------
(* Jobs: the steps that each tool composes.                                *)

Ifaces == {"if_client", "if_server"}

Steps == [op : {"clear", "apply"}, iface : Ifaces, shape : Inputs \cup {NoShape}]

Clear(i)    == [op |-> "clear", iface |-> i, shape |-> NoShape]
Apply(i, s) == [op |-> "apply", iface |-> i, shape |-> s]

\* A strict tool stops at the first step that fails.
Job(tool, steps) == [tool |-> tool, strict |-> tool # "mcp", steps |-> steps]

NoJob == Job("none", <<>>)

Clears == <<Clear("if_client"), Clear("if_server")>>

LabNetem(down, up) == Clears \o <<Apply("if_client", down), Apply("if_server", up)>>

Reshape(i, s) == <<Clear(i), Apply(i, s)>>

Lone(step) == Job("netem", <<step>>)

Jobs ==
  {j \in    {Lone(Clear(i)) : i \in Directions}
       \cup {Lone(Apply(i, s)) : i \in Directions, s \in Inputs}
       \cup {Job("lab",    Clears)}
       \cup {Job("lab",    LabNetem(prof[1], prof[2])) : prof \in Profiles}
       \cup {Job("mcp",    Clears)}
       \cup {Job("mcp",    Reshape(i, s)) : i \in Directions, s \in Inputs}
       \cup {Job("python", <<Clear(i)>>) : i \in Directions}
       \cup {Job("python", Reshape(i, s)) : i \in Directions, s \in Inputs \ {NoKnobs, BadChild}}
     : j.tool \in Tools}

Step(p)  == job[p].steps[at[p]]
Iface(p) == Step(p).iface
Shape(p) == Step(p).shape

-----------------------------------------------------------------------------
(* The qdiscs of an interface.                                             *)

Bare     == [root |-> NoShape, child |-> NoShape]
Whole(s) == [root |-> s, child |-> IF s \in ChildShapes THEN s ELSE NoShape]

\* What the kernel accepts: `add root` where there is none, `add parent 1:`
\* where there is a root without a child.
Accepts(op, i) ==
  /\ lab
  /\ CASE op = "root"  -> tree[i].root = NoShape
       [] op = "child" -> tree[i].root # NoShape /\ tree[i].child = NoShape
       [] op = "del"   -> tree[i].root # NoShape

\* What each command makes of the qdiscs, once accepted.
After(op, s, t) == CASE op = "root"  -> [t EXCEPT !.root = s]
                     [] op = "child" -> [t EXCEPT !.child = s]
                     [] op = "del"   -> Bare

Init ==
  /\ lock    = NoShaper
  /\ lab     = TRUE
  /\ tree    = [i \in Ifaces |-> Bare]
  /\ pc      = [p \in Shapers |-> "idle"]
  /\ job     = [p \in Shapers |-> NoJob]
  /\ at      = [p \in Shapers |-> 1]
  /\ code    = [p \in Shapers |-> "none"]
  /\ failed  = [p \in Shapers |-> FALSE]
  /\ late    = {}
  /\ changed = [p \in Shapers |-> FALSE]
  /\ torn    = {}
  /\ meddled = {}
  /\ alone   = [p \in Shapers |-> FALSE]

-----------------------------------------------------------------------------
(* A shaper runs one npte per step.                                        *)

Goto(p, label) == pc' = [pc EXCEPT ![p] = label]

\* The npte of this step makes for its deferred unlock.
Exit(p, c) == Goto(p, "leave") /\ code' = [code EXCEPT ![p] = c]

\* Mutant: the end of the job is overlooked.
MutProceed(p, c) ==
  /\ failed' = [failed EXCEPT ![p] = @ \/ c # "ok"]
  /\ IF c # "ok" /\ job[p].strict
       THEN Goto(p, "done") /\ UNCHANGED at
       ELSE Goto(p, "call") /\ at' = [at EXCEPT ![p] = @ + 1]
  /\ code'    = [code EXCEPT ![p] = "none"]
  /\ changed' = [changed EXCEPT ![p] = FALSE]
  /\ UNCHANGED job

\* It has exited with code c: on with the next step, or the job is done.
Proceed(p, c) ==
  /\ failed' = [failed EXCEPT ![p] = @ \/ c # "ok"]
  /\ IF at[p] = Len(job[p].steps) \/ (c # "ok" /\ job[p].strict)
       THEN Goto(p, "done") /\ UNCHANGED at
       ELSE Goto(p, "call") /\ at' = [at EXCEPT ![p] = @ + 1]
  /\ code'    = [code EXCEPT ![p] = "none"]
  /\ changed' = [changed EXCEPT ![p] = FALSE]
  /\ UNCHANGED job

Begin(p) ==
  /\ pc[p] = "idle"
  /\ Goto(p, "call")
  /\ \E j \in Jobs : job' = [job EXCEPT ![p] = j]
  /\ alone' = [q \in Shapers |-> /\ q = p /\ late = {}
                                 /\ \A r \in Shapers \ {p} : pc[r] = "idle"]
  /\ UNCHANGED <<lock, lab, tree, at, code, failed, late, changed, torn, meddled>>

\* Flags are validated before the lock is taken.
Reject(p) ==
  /\ pc[p] = "call"
  /\ Shape(p) = NoKnobs
  /\ Proceed(p, "rejected")
  /\ UNCHANGED <<lock, lab, tree, late, torn, meddled, alone>>

\* Mutant: nobody waits for the lock.
MutLock(p) ==
  /\ pc[p] = "call"
  /\ Shape(p) # NoKnobs
  /\ lock' = p
  /\ Goto(p, "check")
  /\ meddled' = {}
  /\ UNCHANGED <<lab, tree, job, at, code, failed, late, changed, torn, alone>>

Lock(p) ==
  /\ pc[p] = "call"
  /\ Shape(p) # NoKnobs
  /\ lock = NoShaper
  /\ lock' = p
  /\ Goto(p, "check")
  /\ meddled' = {}
  /\ UNCHANGED <<lab, tree, job, at, code, failed, late, changed, torn, alone>>

\* Mutant: the root qdisc is installed before the child's kind is looked at.
MutCheck(p) ==
  /\ pc[p] = "check"
  /\ IF ~lab THEN Exit(p, "rejected")
     ELSE IF Shape(p) = BadChild THEN Exit(p, "rejected")
     ELSE Goto(p, IF Step(p).op = "clear" THEN "del" ELSE "root") /\ UNCHANGED code
  /\ IF Shape(p) = BadChild /\ Accepts("root", Iface(p))
       THEN /\ tree' = [tree EXCEPT ![Iface(p)].root = BadChild]
            /\ changed' = [changed EXCEPT ![p] = TRUE]
       ELSE UNCHANGED <<tree, changed>>
  /\ UNCHANGED <<lock, lab, job, at, failed, late, torn, meddled, alone>>

\* RequireManaged; then `apply` validates the child, before any command.
Check(p) ==
  /\ pc[p] = "check"
  /\ IF ~lab \/ Shape(p) = BadChild
       THEN Exit(p, "rejected")
       ELSE Goto(p, IF Step(p).op = "clear" THEN "del" ELSE "root") /\ UNCHANGED code
  /\ UNCHANGED <<lock, lab, tree, job, at, failed, late, hist>>

\* The command at pc[p] runs.
Change(p) ==
  /\ Accepts(pc[p], Iface(p))
  /\ tree' = [tree EXCEPT ![Iface(p)] = After(pc[p], Shape(p), @)]
  /\ changed' = [changed EXCEPT ![p] = TRUE]
  /\ UNCHANGED <<lock, lab, job, at, failed, late, meddled, alone>>

\* Mutant: `tc qdisc replace`, which does without the clear.
MutAddRoot(p) ==
  /\ pc[p] = "root" /\ lab
  /\ tree' = [tree EXCEPT ![Iface(p)] = After("root", Shape(p), Bare)]
  /\ changed' = [changed EXCEPT ![p] = TRUE]
  /\ IF Shape(p) \in ChildShapes THEN Goto(p, "child") /\ UNCHANGED code ELSE Exit(p, "ok")
  /\ UNCHANGED <<lock, lab, job, at, failed, late, torn, meddled, alone>>

AddRoot(p) ==
  /\ pc[p] = "root"
  /\ Change(p)
  /\ IF Shape(p) \in ChildShapes THEN Goto(p, "child") /\ UNCHANGED code ELSE Exit(p, "ok")
  /\ UNCHANGED torn

AddChild(p) ==
  /\ pc[p] = "child"
  /\ Change(p)
  /\ Exit(p, "ok")
  /\ UNCHANGED torn

\* Mutant: the failure of a command does not stop `apply`.
MutAddFails(p) ==
  /\ pc[p] \in {"root", "child"}
  /\ ~Accepts(pc[p], Iface(p)) \/ "fail" \in Disturbances
  /\ Exit(p, "ok")
  /\ UNCHANGED torn
  /\ alone' = [alone EXCEPT ![p] = @ /\ ~Accepts(pc[p], Iface(p))]
  /\ UNCHANGED <<lock, lab, tree, job, at, failed, late, changed, meddled>>

\* The kernel refuses the command, or it fails for a reason of its own (the
\* module of the child qdisc is missing): what was done so far stays.
AddFails(p) ==
  /\ pc[p] \in {"root", "child"}
  /\ ~Accepts(pc[p], Iface(p)) \/ "fail" \in Disturbances
  /\ Exit(p, "failed")
  /\ torn'  = IF pc[p] = "child" THEN torn \cup {Iface(p)} ELSE torn
  /\ alone' = [alone EXCEPT ![p] = @ /\ ~Accepts(pc[p], Iface(p))]
  /\ UNCHANGED <<lock, lab, tree, job, at, failed, late, changed, meddled>>

\* Mutant: only the child qdisc is deleted, if there is one.
MutDelRoot(p) ==
  /\ pc[p] = "del"
  /\ Accepts("del", Iface(p))
  /\ tree' = [tree EXCEPT ![Iface(p)] = IF @.child = NoShape THEN Bare ELSE [@ EXCEPT !.child = NoShape]]
  /\ changed' = [changed EXCEPT ![p] = TRUE]
  /\ Exit(p, "ok")
  /\ torn' = torn \ {Iface(p)}
  /\ UNCHANGED <<lock, lab, job, at, failed, late, meddled, alone>>

\* Deleting the root deletes the child as well.
DelRoot(p) ==
  /\ pc[p] = "del"
  /\ Change(p)
  /\ Exit(p, "ok")
  /\ torn' = torn \ {Iface(p)}

\* Whatever goes wrong with the deletion is tolerated.
DelFails(p) ==
  /\ pc[p] = "del"
  /\ ~Accepts("del", Iface(p)) \/ "fail" \in Disturbances
  /\ Exit(p, "ok")
  /\ alone' = [alone EXCEPT ![p] = @ /\ ~Accepts("del", Iface(p))]
  /\ UNCHANGED <<lock, lab, tree, job, at, failed, late, changed, torn, meddled>>

Leave(p) ==
  /\ pc[p] = "leave"
  /\ lock' = NoShaper
  /\ Proceed(p, code[p])
  /\ UNCHANGED <<lab, tree, late, torn, meddled, alone>>

Finish(p) ==
  /\ pc[p] = "done"
  /\ Goto(p, "idle")
  /\ job'     = [job EXCEPT ![p] = NoJob]
  /\ at'      = [at EXCEPT ![p] = 1]
  /\ failed'  = [failed EXCEPT ![p] = FALSE]
  /\ alone'   = [alone EXCEPT ![p] = FALSE]
  /\ UNCHANGED <<lock, lab, tree, code, late, changed, torn, meddled>>

-----------------------------------------------------------------------------
(* What goes wrong.                                                        *)

Nobody == [q \in Shapers |-> FALSE]

\* The npte of this step is killed, which lets go of its lock; the tc that it
\* was running dies with it or goes on by itself.
Kill(p) ==
  /\ "crash" \in Disturbances
  /\ pc[p] \notin {"idle", "done"}
  /\ lock' = IF lock = p THEN NoShaper ELSE lock
  /\ Proceed(p, "killed")
  /\ \/ UNCHANGED late
     \/ /\ pc[p] \in {"root", "child", "del"} /\ Cardinality(late) < MaxLate
        /\ late' = late \cup {[op |-> pc[p], iface |-> Iface(p), shape |-> Shape(p)]}
  /\ torn'  = IF pc[p] = "child" THEN torn \cup {Iface(p)} ELSE torn
  /\ alone' = Nobody
  /\ UNCHANGED <<lab, tree, meddled>>

\* The process that composes the steps is killed: the npte of this step goes
\* on by itself.
Abandon(p) ==
  /\ "crash" \in Disturbances
  /\ pc[p] \notin {"idle", "done"} /\ Len(job[p].steps) > 1
  /\ job'    = [job EXCEPT ![p] = Lone(Step(p))]
  /\ at'     = [at EXCEPT ![p] = 1]
  /\ failed' = [failed EXCEPT ![p] = FALSE]
  /\ alone'  = Nobody
  /\ UNCHANGED <<lock, lab, tree, pc, code, late, changed, torn, meddled>>

\* The MCP server gives up on a step (terminated=false) whose npte neither the
\* timeout nor the signals have ended: p runs that step to its end by itself, and
\* the rest of the job goes on beside it as q.
Outlive(p, q) ==
  /\ "crash" \in Disturbances
  /\ pc[p] \notin {"idle", "done"} /\ job[p].tool = "mcp" /\ at[p] < Len(job[p].steps)
  /\ pc[q] = "idle"
  /\ pc'     = [pc EXCEPT ![q] = "call"]
  /\ job'    = [job EXCEPT ![p] = Lone(Step(p)), ![q] = job[p]]
  /\ at'     = [at EXCEPT ![p] = 1, ![q] = at[p] + 1]
  /\ failed' = [failed EXCEPT ![p] = FALSE, ![q] = TRUE]
  /\ alone'  = Nobody
  /\ UNCHANGED <<lock, lab, tree, code, late, changed, torn, meddled>>

\* A late command runs to its end, or dies.
LateRuns(c) ==
  /\ c \in late
  /\ late' = late \ {c}
  /\ \/ UNCHANGED <<tree, torn, meddled>>
     \/ /\ Accepts(c.op, c.iface)
        /\ tree'    = [tree EXCEPT ![c.iface] = After(c.op, c.shape, @)]
        /\ torn'    = torn \cup {c.iface}
        /\ meddled' = meddled \cup {c.iface}
  /\ UNCHANGED <<lock, lab, work, changed, alone>>

\* `lab destroy` and `lab create`, as far as the router goes (each under the
\* lock): the qdiscs go with the namespace.
LabGoes ==
  /\ "lab" \in Disturbances
  /\ lock = NoShaper
  /\ lab' = FALSE
  /\ tree' = [i \in Ifaces |-> Bare]
  /\ torn' = {}
  /\ alone' = Nobody
  /\ UNCHANGED <<lock, work, late, changed, meddled>>

LabComes ==
  /\ "lab" \in Disturbances
  /\ lock = NoShaper
  /\ lab' = TRUE
  /\ alone' = Nobody
  /\ UNCHANGED <<lock, tree, work, late, changed, torn, meddled>>

-----------------------------------------------------------------------------
NetemApply(p) == AddRoot(p) \/ AddChild(p) \/ AddFails(p)
NetemClear(p) == DelRoot(p) \/ DelFails(p)
Compose(p)    == Begin(p) \/ Finish(p)

Next == \/ \E p \in Shapers : \/ Compose(p) \/ Reject(p) \/ Lock(p) \/ Check(p)
                              \/ NetemApply(p) \/ NetemClear(p) \/ Leave(p)
                              \/ Kill(p) \/ Abandon(p)
        \/ \E p, q \in Shapers : Outlive(p, q)
        \/ \E c \in late : LateRuns(c)
        \/ LabGoes \/ LabComes

Spec == Init /\ [][Next]_vars

-----------------------------------------------------------------------------
(* Properties.                                                             *)

Locked == {"check", "root", "child", "del", "leave"}
Labels == Locked \cup {"idle", "call", "done"}
Codes  == {"none", "ok", "failed", "rejected"}

Trees    == [root : Shapes \cup {NoShape}, child : ChildShapes \cup {NoShape}]
LateCmds == [op : {"root", "child", "del"}, iface : Ifaces, shape : Shapes \cup {NoShape}]

AnyJob    == Jobs \cup {Lone(step) : step \in Steps} \cup {NoJob}
InsideJob == \A p \in Shapers : pc[p] = "idle" \/ at[p] <= Len(job[p].steps)

TypeOK ==
  /\ lock    \in Shapers \cup {NoShaper}
  /\ lab     \in BOOLEAN
  /\ tree    \in [Ifaces -> Trees]
  /\ pc      \in [Shapers -> Labels]
  /\ job     \in [Shapers -> AnyJob]
  /\ at      \in [Shapers -> 1..4]
  /\ InsideJob
  /\ code    \in [Shapers -> Codes]
  /\ failed  \in [Shapers -> BOOLEAN]
  /\ late    \subseteq LateCmds
  /\ changed \in [Shapers -> BOOLEAN]
  /\ torn    \subseteq Ifaces
  /\ meddled \subseteq Ifaces
  /\ alone   \in [Shapers -> BOOLEAN]

\* Whenever nobody holds the lock, an interface has no qdisc at all or the whole
\* tree of one shape, never the root of one and the child of another, unless an
\* apply was interrupted on it or a command outlived its npte there.
TreesAreWhole ==
  lock = NoShaper => \A i \in Ifaces \ torn :
                        tree[i] = Bare \/ \E s \in Shapes : tree[i] = Whole(s)

\* An apply that exits with 0 has installed the whole of what it was asked for,
\* whatever it found: on an interface that an earlier failure, kill or late command
\* left half shaped it does not succeed.  Only a late command that changes the
\* interface while the apply holds the lock can come between.
ExitZeroIsWhole ==
  \A p \in Shapers :
     pc[p] = "leave" /\ code[p] = "ok" /\ Step(p).op = "apply" /\ Iface(p) \notin meddled =>
        tree[Iface(p)] = Whole(Shape(p))

\* The shape of an interface, for whoever waits for the lock: while an apply is at
\* its second command there is none yet.
Shaped(i) ==
  IF i \in torn \/ \E p \in Shapers : lock = p /\ pc[p] = "child" /\ Iface(p) = i
    THEN NoShape ELSE tree[i].root

Link == INSTANCE AbstractLink WITH shape <- [i \in Ifaces |-> Shaped(i)]

\* Whatever shapers and late commands do to each other, an interface has one shape
\* or none, never goes from one to another without a clear between them, and a
\* half that an interrupted apply left never becomes a whole.
AbstractShaping == Link!Spec

\* apply.go: commands are run only when "we have validated all input so that we
\* do not leave the system in a partial state": an npte that rejects its input
\* has changed nothing.
RejectedChangesNothing ==
  \A p \in Shapers : code[p] = "rejected" => ~changed[p]

Targets(p)   == {job[p].steps[k].iface : k \in 1..Len(job[p].steps)}
Wanted(p, i) ==
  LET applies == {k \in 1..Len(job[p].steps) : job[p].steps[k] \in {Apply(i, s) : s \in Inputs}}
  IN  IF applies = {} THEN NoShape ELSE job[p].steps[CHOOSE k \in applies : TRUE].shape

\* A job whose input is valid and that clears before it applies.
Careful(p) == /\ job[p].steps[1].op = "clear"
              /\ \A k \in 1..Len(job[p].steps) : job[p].steps[k].shape \in Shapes \cup {NoShape}

\* A shaper that nobody interferes with gets what it asked for, whatever it finds
\* on the links: other shapes, half a tree, what late commands left ("re-running
\* with a different profile Just Works", lab/netem.go).
SoleShaperSucceeds ==
  \A p \in Shapers : pc[p] = "done" /\ alone[p] /\ lab /\ Careful(p) =>
     /\ ~failed[p]
     /\ \A i \in Targets(p) : tree[i] = Whole(Wanted(p, i))

\* The shape tools of the MCP server are "always safe to call": with valid input
\* each of their steps succeeds (checked where the lab stays up and no command
\* fails by itself).
AlwaysSafeToCall ==
  \A p \in Shapers : pc[p] = "done" /\ job[p].tool = "mcp" /\ Careful(p) => ~failed[p]
=============================================================================
