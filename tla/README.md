# Verification of npte

`npte` builds network test environments on a Linux host: network namespaces
that it creates and owns, the links between them, a fixed three-node lab,
traffic shaping on the lab's access links, and uplinks to the internet. It is a
command-line program; an MCP server (`npte mcp serve`) and a Python library
drive the same commands for agents and scripts. Everything it does to the host
is done by running external commands (`ip`, `tc`, `iptables`, ...) one after
another, so that what can go wrong lies between the commands: other npte
processes, other programs, failures with no rollback, and processes that die.

This directory holds TLA+ models of the parts where that matters, TLC
configurations that check them on small instances, and proofs checked by TLAPS.
`PROJECT.json` lists the runs, the mutants that show that each property can
fail, the source lines of each definition, the hazards and the findings.

## 1. Inventory

| Part (source) | State | Operations | Model |
|---|---|---|---|
| Registry and namespace verbs (`internal/registry`, `internal/cli/netns/{create,destroy,run,list,show}.go`) | the lock file, marker files under `/run/npte/netns`, the kernel's namespaces, `/etc/netns` | `create`, `destroy`, `run`, `list`, `show`, and the lock and the marker check that other verbs share | `NetnsRegistry`, `AbstractRegistry` |
| MCP session manager (`internal/cli/mcp/{session,serve,netns}.go`) | the table of tracked children, one `sessionProc` with a `done` channel per child, per-child files | tool handlers that start, wait for and signal children, one reaper goroutine per child, the sweep at shutdown | `McpSession` |
| Link shaping (`internal/cli/netem`, `internal/cli/lab/netem.go`, `internal/cli/mcp/netem.go`, `python/npte/lab.py`) | the qdiscs of the router's interfaces | `netem apply` and `netem clear`, and what composes them | `NetemShaping` |
| Wiring (`internal/cli/netns/{connect,assignaddr,addroute}.go`), lab (`internal/cli/lab/{create,destroy}.go`), gateway (`internal/cli/gateway`) | veth pairs, addresses, routes, the host's firewall | `connect`, `assign-addr`, `add-route`, `lab create` and `destroy`, `gateway create` and `destroy` | `HostNetwork` |
| Subprocess runner (`internal/subprocess`) | processes, pipes and goroutines of a pipeline | `Pipeline`; `Run`, `RunTolerant`, `PipeTo` | `Pipeline`; the others are steps of the models above |
| Argument validation (`internal/validate`), and what is made of the arguments (`netem/apply.go`, `gateway/create.go`) | none | validators, the command line of `tc`, derived addresses and names | `Arguments` |
| Python package (`python/npte/{executor,lab,sweep}.py`) | running processes and their files | run and start `sudo npte`, kill and wait, sweep a grid of shapes | `SweepGrid`; its shaping jobs are in `NetemShaping` as well |
| Containers, doctor, sudoers, gencerts, tutorial, tool wrappers | none of npte's | straight-line commands and text | not modelled |

How the parts interact:

- `lab create`, `lab destroy` and `lab netem` run other npte commands as
  processes, one after another, and stop at the first that fails. Each takes and
  lets go of the global lock by itself.
- The MCP server runs every tool as one or several npte processes through the
  session manager, and signals those that exceed a timeout. Calls run
  concurrently.
- The Python library runs `sudo npte` the same way, one process at a time.
- The namespace, wiring and shaping verbs share the lock and the markers. The
  gateway commands use neither.

What is hard here: interleavings of independent processes under a lock that
covers one command and not a composition of them; a killed npte whose external
command lives on; no rollback anywhere; a name that is checked under the lock
and used after it; concurrent goroutines around one child process, with
timeouts that race the end of the process; an unlocked read-modify-write of the
host's firewall. `PROJECT.json` lists these under "hazards", each at its line.

What makes each part correct, in a sentence:

- *registry*: whoever holds the lock finds every name either managed and
  configured in full or not npte's at all, and npte leaves alone what others made;
- *session manager*: every answer about a child is true, the sweep misses no child
  but those that come after it, every call is answered, the server stops;
- *shaping*: a link has one whole shape or none, and exit codes tell the truth;
- *host network*: an exit code of 0 means that packets get through, or that
  nothing is left on the host, and nobody takes down what is not theirs;
- *pipeline*: no command takes a part of its input for the whole, no error is
  lost, the pipeline returns and leaves nothing running;
- *grid*: a result was measured on the links and with the server that it is
  attributed to, every server is accounted for, every run ends;
- *arguments*: what a validator takes, the next program understands as it was meant.

## 2. Modules

| Module | What it is |
|---|---|
| `NetnsRegistry` | processes that run the namespace verbs command by command |
| `AbstractRegistry` | the life cycle of a name that the registry promises; `NetnsRegistry` implements it (`AbstractSpec`) |
| `McpSession` | handlers, children, reapers, the table, and the shutdown sweep |
| `NetemShaping` | shapers that compose `netem clear` and `netem apply` |
| `AbstractLink` | what these promise of an interface: one shape or none; `NetemShaping` implements it (`AbstractShaping`) |
| `HostNetwork` | lab, wiring and gateway commands on the kernel's links, routes and rules |
| `Pipeline` | the commands of a pipeline, the pipes and goroutines between them, and `subprocess.Pipeline` itself |
| `AbstractPipeline` | what it promises: one channel behind each command, one true result; `Pipeline` implements it (`AbstractPiping`) |
| `SweepGrid` | a script that enters labs and runs a grid in them: servers, shaping, clients, cleanup |
| `Arguments` | `netem apply` from its flags to what `tc` reads; `gateway create` from its arguments to addresses and names |
| `NetnsRegistryProofs`, `McpSessionProofs`, `NetemShapingProofs`, `HostNetworkProofs`, `PipelineProofs`, `SweepGridProofs`, `ArgumentsProofs` | theorems about these, and their proofs |
| `MC...` | the instances that TLC checks |

Each module is parameterised by its processes, names and bounds, and by a set of
`Disturbances` (or a bound on faults) that says what may go wrong, so that one
specification serves the runs with and without crashes. Mutants (`Mut...`)
stand beside the definition that they change; no specification uses them.

### 2.1 NetnsRegistry

A process is one npte invocation at a time. `pc` is the command it runs next,
`job` its verb and name. One action stands for one external command or one
marker operation, in the order of `create.go` and `destroy.go`: `Modprobe`,
`NetnsAdd`, `Configure` (the settings of a new namespace, one by one),
`EtcClean`, `ResolvInstall`, `Register`; `EtcRemove`, `NetnsDel`, `Unregister`.
`Lock`, `RequireManaged` and `Unlock` are the registry's; `Read` stands for
every verb that reads or uses a namespace under the lock (`show`, `connect`,
`netem apply`, ...), for which only its reliance on the namespace matters here. `netns run`
checks under the lock (`RequireManaged`), lets go of it (`Leave`) and enters
by name (`Exec`), as `run.go` does.

`CommandFails` is a refusal by the kernel, or a failure with a reason of its own:
npte panics, and the deferred unlock runs on the way out (`abort`). `Crash` is a
kill: the lock drops at once and the command that npte was running may live on as an
*orphan* (a process at a command without the lock), whose effect comes later.
`ForeignAdd` and `ForeignDel` are other programs' `ip netns` commands, and
`OperatorRecovers` is the recovery that the registry's package comment
describes. `damaged` is a history variable: the names on which a create or a
destroy was interrupted. The code promises nothing about those until a later
verb or the operator puts them right, and the properties say so.

### 2.2 McpSession

`proc` are the fields of a `sessionProc` and the kernel's view of its child;
`table` is the map behind the mutex (its critical sections are single steps);
`pc` and `call` are the handlers. `Prepare`, `Fork` and `Insert` are the three
stretches of `startProc` (files are created; the child is started; it is
inserted under the mutex and its reaper started), which is where a shutdown can
come in between. `SelectDone`, `SelectExpired`, `Park`, `TimerFires` and `Reap`
are `WaitSessionProc`; when `done` is closed and the context has expired as
well, Go's `select` takes either, and so does the model. `Interrupt` and
`Terminate` are the escalation of `runProc`. The reaper's four steps are in the
order of the code, since that order is what publishes the exit code. The write of
`exitcode.txt` may fail, in the reaper and in `startProc`; the code ignores that and
closes `done` all the same, and the file stays empty (`BarrierPublishes` says so). `Sweep...` is
`Cleanup`. `Drains` says whether the SDK waits for the calls in flight
before `server.Run` returns; the code relies on nothing, so the safety run takes
`FALSE`. Then a call may insert its child after the sweep, which is the race that the TODO at the
insert describes: `SweepMissesOnlyLate` says that such a child (`Late`) is the only one that
the sweep can miss, that the sweep has sent SIGTERM to every other one that runs, and
that there is no such child where calls are drained.

### 2.3 NetemShaping

A shaper has a `job`: the sequence of npte invocations that `lab netem`, a shape
tool or the Python library composes, or a lone one. It is at step `at`, and its npte
at `pc`: outside (`call`), under the lock and before the check, at a `tc`
command (`root`, `child`, `del`), or at its deferred unlock (`leave`).
`Proceed` is the end of that npte: a strict composer (`lab netem`, Python) stops
at a failure, the MCP tools go on. `tree` holds a root and a child qdisc per
interface; a *shape* is a value, and the shapes in `ChildShapes` need two commands.
`Kill` is the death of one npte, at a timeout for instance, with its `tc` dying
or going on late (`LateRuns`); `Abandon` is the death of the composer while its
npte goes on; `LabGoes` and `LabComes` take the router away and bring it back.
The MCP server's own waiting is the matter of `McpSession`. Here a timeout is a
`Kill`, since npte does not catch the signals, or an `Outlive`, when npte has not ended
by the end of the grace period either: the shape tool goes on with its next step, and the
step that it gave up on goes on beside it, with the lock if it had it.

Two history variables say where a late command has been. `torn` holds the interfaces on which an
apply was interrupted or a late command acted, until a clear; `TreesAreWhole` is
about the others. `meddled` holds those that a late command has changed since the
lock was taken. `ExitZeroIsWhole` needs no more than that they are exempt: an apply that
starts on a half-shaped interface is refused by `tc` and does not exit with 0.

`AbstractLink` is the promise: an interface has a shape or none, a shape is installed
in one step and only where there is none, and where a command was interrupted
the link is *torn* until a clear. `Shaped` maps a tree to its shape.

### 2.4 HostNetwork

The kernel is data: `net` holds namespaces, veth pairs, addresses, routes and
rules, `Accepts` says which command succeeds, and `After` what it makes of `net`.
The verbs are programs over these commands (`Connect`, `GatewayCreate`, ...),
in the order of the code, and the lab is a sequence of invocations
(`LabCreate`, `LabDestroy`). `Run` and `RunFails` execute the next command of
the current invocation. Locked invocations check `needs` against the markers
under the lock (`Lock`); the gateway commands enter without (`Enter`).

Interfaces have their names, since names are where things clash: `if-<x>` in a
place is `<<place, x>>`, connect's pair is on the host until both ends have
moved, and every gateway's inner end is `if-host` there. The firewall's tables
are one set of tagged rules, saved and restored in one step each (the real
pipeline may restore one table while it saves the next, which only narrows the
window); a rule that is there twice is there once. Creating and destroying a
namespace takes two commands here, with the lock and the failures that go with
them; `NetnsRegistry` has the rest. `spoiled` is a history variable: the jobs
that somebody else's deletion (or sweep) overlapped, and those begun while such a job was still at
work; about those the exit code promises nothing.

### 2.5 Pipeline

`proc` and `eof` are the commands, which are external: each reads, writes, fails
or succeeds as it likes, but succeeds before the end of its input only if it is
`Hasty`. Between two commands there are a pipe of the system, the goroutine that
`os/exec` puts behind the first (`out`), the `io.Pipe`, the goroutine before the
second (`in`) and another pipe of the system: data are counted by the five
cursors `wrote`, `taken`, `passed`, `fed`, `got`. `Start`, `StartFails`, `Kill`,
`Killed` and `AbortReturns` are the loop that starts the stages and its way out;
`WaitReturns`, `CloseOut` and `CloseIn` are the three steps of the goroutine that
waits for a stage, whose order matters.

`AbstractPipeline` has none of this: a stage is new, runs and ends, and a channel that
holds two system pipes and the two pieces in the copiers' hands joins it to the next.
A stage sees the end of what it receives when the sender has ended and all has come
through, or, early, when the pipeline is given up. `Return` says nil only when all
commands succeeded and nothing was left unread by one that wants it all; it says an
error only when a command failed or could not start, or when data were left unread. `torn` is
`TornDown`, the other variables are the model's own.

### 2.6 SweepGrid

`pc` is where the script is: outside a lab, in it, or in `NpteGrid.run`
(`start`, `cell`, `shape`, `client`, `measure`, and the `finally` clause `kill`,
`wait`). `Raise` is an exception on its way to that clause. The servers of every run are kept apart, so that those
of an earlier run may still hold their ports; what a client measures is noted in
`measure`: with whose server, with another client beside it, on which wrong
links. `link` is an `AbstractLink`, one step per npte command; `ClearIgnored` is
the clear that fails and exits with 0. A client that times out may live on, since
nobody can kill what is behind `sudo` (`orphans`); `hung` remembers the runs in which
this happened, and `unwaited` those in which a wait for a server was given up. They are
two excuses: after the first a later run in the same lab may have another client beside its own,
after the second it may measure with a server that is not its own (`MeasuredByItsOwn`), and only the
second excuses a missing exit code (`ServersAccountedFor`). Servers that ignore SIGINT, and others that
shape the same links (`Meddle`), are part of the environment. Sudo relays SIGINT, as a comment in
`executor.py` says that it was found to do.

### 2.7 Arguments

A value is a sequence of *kinds* of words, so that a regular expression of
`validate/netem.go` is a finite set of sequences, written with the operators that
the expressions are written with (`Opt`, `Times`, `**`). `tc` is modelled in
another form, as a reader that goes word by word and takes an optional number
if the next word looks like one, since it is the agreement of the two that is in
question. A name is its length and the classes of its characters. Addresses are
numbers below `2^Width`, and the one after the last is no address, as in `net/netip`.

## 3. What the runs check

| Run | Instance | Question |
|---|---|---|
| `registry_failures` | 2 processes, 1 name, 5 settings; failures, other programs, the operator | does exit 0 tell the truth (`ExitZeroMeansDone`), is the lock always let go (`LockIsReleased`), what can `netns run` enter (`RunSeesWorkInProgress`)? |
| `registry_crashes` | 3 processes, 1 name, 2 settings; crashes as well | do markers and namespaces agree (`RegistryAgreement`), can a lock holder rely on its check (`HolderSeesReady`), are others' namespaces spared (`ForeignSpared`), is it the one-step life cycle (`AbstractSpec`)? |
| `mcp_safety` | 3 calls, 1 child, 3 exit codes, count up to 2; calls not drained | what `done` publishes, with writes that fail (`BarrierPublishes`), true answers (`ReportIsTrue`), one-shot reaping (`ReapIsOneShot`), survivors (`SurvivorStaysValid`), signals (`GivesUpAfterSignals`), what the sweep can miss (`SweepMissesOnlyLate`) |
| `mcp_liveness` | 1 call at a time, 2 children that may ignore signals; fairness | calls return, ended children are reaped, the server stops, a clean exit leaves no child |
| `netem_shaping` | 2 shapers, a plain and a child shape, 1 late command; failures, kills, steps that outlive their timeout, a lab that goes and comes | whole trees, true exit codes, rejections without effect, a lone shaper succeeds, `AbstractLink` is implemented (`AbstractShaping`) |
| `host_network` | 2 processes, the lab and two gateways, 4 jobs, 1 fault | `LabUp`, `GatewayUp`, `CleanedUp`, `StaysUp` |
| `pipeline` | 3 stages, the second hasty, up to 2 pieces each, pipes that hold 1; fairness | is an end of file the end (`EofIsTheEnd`), does it return and leave nothing (`ReturnsClean`), is it one channel behind each command, with no nil for a part and no error for nothing (`AbstractPiping`, of which `NilIsWhole` is a consequence)? |
| `sweep_grid` | 2 servers, 2 cells (one direction each), 2 runs, 2 labs; failing commands, dying servers, meddlers; fairness | is every result of the links and the server that it claims (`MeasuredAsAsked`, `MeasuredByItsOwn`), are servers accounted for (`ServersAccountedFor`), does a run end (`RunEnds`)? |
| `arguments` | every value some validator takes, and those one word longer or shorter, up to 3 flags; every subnet of a 4-bit space, names around the limits | does `tc` read what was given (`KnobsReadBack`), do subnets and names fit (`GatewayArgumentsFit`)? |

Three runs end in a violation, each of one sentence that the repository says of
itself:

| Run | The sentence | What happens |
|---|---|---|
| `run_redirected` | `run.go`: it cannot lead into a namespace npte does not own | a destroy, and another program's `ip netns add` of that name |
| `shape_concurrent` | the shape tools are always safe to call | two concurrent calls: clear, clear, apply, and the second apply is refused |
| `child_rejected` | `netem/apply.go`: all input is validated before the first command, so that no partial state is left | `--cake-bandwidth "10mbit 1000"` passes `NetemRate`, but is one word to `tc`: the root is added, the child refused |

Some smaller disagreements of text and code show in the models and have no run of
their own: a destroy and a create between check and exec put `netns run` into a
namespace that is still being configured (`RunSeesWorkInProgress` says when);
`wait` may answer that a process is still running when it ended just before, or
before a call with an expired context; `exitcode.txt` exists, empty, from before
the process starts, so that the loop in the server's instructions (`cat exitcode.txt ||
echo running`) never lists a command as running; the gateway commands take no lock, whatever `registry.go` says of all npte invocations.

**Bounds and why they are enough.** The registry's verbs act on one name (connect
reads two), so one name shows every interference between verbs; three processes give
an orphan, a lock holder and a third that comes between. Configuration steps differ
in nothing but their place, so two of them (before and after) suffice for
crashes, and all five are there in the other run. Handlers interact only
through one child's record and the table, so three handlers on one child are an owner,
a rival and a latecomer; two children in the liveness run let one hang while
another is served. Two shapers are enough to break what two commands under a lock
protect; the third party is the late command. In `HostNetwork` four jobs are a lab
or two namespaces, a gateway for one of them, and two more to get in its way; larger
instances (five jobs without faults; no bound on the jobs, over twenty million
states searched) showed nothing else. A pipeline of three has a first, a middle and
a last stage, and two pieces and pipes of one fill every pipe and leave something to
write. The two cells need both directions and leave each direction once without a shape
after one with; two runs and two labs let a run meet what an earlier one left, in the
same lab and in another. Three flags are enough for a flag with a neighbour
on either side; four bits of address have prefixes of every kind around `/30`
(there `/2`) and the end of the address space. `MaxCount`, `MaxLate`, `MaxJobs`, `MaxFaults`, `MaxUnits`, `MaxLabs`,
`MaxRuns` and `MaxFlags` are the only bounds that are not the code's own.

**Deadlock** is checked in the registry and shaping runs, where some process can
always act. It is off for `McpSession`, where the server exits, and for
`HostNetwork`, where no job is begun beyond `MaxJobs`, and for `Pipeline`, `SweepGrid`
and `Arguments`, which end (that the first two end properly is `ReturnsClean` and `RunEnds`).

**Fairness.** `NetnsRegistry!FairSpec` has weak fairness on every step of a running
npte, and none on invocations, crashes or the end of a user's command:
`LockIsReleased` says that no npte waits for that. Its external commands are
taken to end. `McpSession!FairSpec` has weak fairness on the server's own goroutines and
timers (the Go scheduler and runtime) and none on children: a child may never end,
signalled or not. `CallsReturn` and `ServerStops` thus rest on the timeouts in the
code alone. `Pipeline!FairSpec` has it on the goroutines and on each command as a whole: a
command that can go on does, as in any pipeline; one that would wait for ever for
something else is not the pipeline's to end. `SweepGrid!FairSpec` has it on the script, whose waits
have timeouts, and none on servers and orphans.

## 4. What is proved

For all values of the constants: any number of processes, names, settings,
handlers and children, and any set of disturbances. The assumptions are the
named `ASSUME`s of the modules, which say no more than that the bounds are numbers
and the null values are not processes.

`NetnsRegistryProofs`: `TypeCorrect`, `Agreement`, `HolderReliesOnReady`,
`ForeignIsSpared`, `RunSees`, `ExitZero`, and `Refinement`: the verbs implement
`AbstractRegistry`. None of these is inductive: that the registry agrees when
the lock is free says nothing of the moments in which it is held. `IInv` adds
`LockInv` (who is at a locked label holds the lock, except orphans, which
are at commands), `JobInv` (labels fit verbs), `WorkInv` (how far the
namespace of the holder has come at each label) and `SettledInv` (a name that
is not damaged is in order, or the lock holder is in the middle of it). Each
action keeps each part, by a lemma per part (`TypeStep`, ..., `SettledStep`). The
argument about crashes is that an orphan can only touch a name that is
damaged. `ExitZero` needs an invariant of its own, for systems without crashes.
The refinement goes through lemmas on what a step does to the view of one name
(`OneMove`, `NoMove`).

`McpSessionProofs`: `TypeCorrect`, `Barrier`, `Reports`, `OneShot`,
`SurvivorsStay`, `SignalsFirst`, `Tracked`, `CleanExit`. `IInv` adds `ProcInv`
(how far the reaper has come, or `startProc` in its place when the command
cannot be started), `FreshInv` (a process that is being started is known to one
handler and nobody else), `CallInv` (what a handler at each label has got),
`SignalInv` (which signals an escalation has sent) and `DrainInv` (the sweep starts
after the last call, if calls are drained). `Barrier` speaks of `done` and the stored code
without a condition, and of the file as far as its write succeeded; `Tracked` is `SweepMissesOnlyLate`. Since handlers take many small steps, what each does is
first stated as an effect (`ReapEffect`, `SendAdds`, ...), and the invariants are
proved from the effects.

`NetemShapingProofs`: `TypeCorrect`, `WholeTrees`, `WholeApplies`, `RejectsInTime`,
`SoleShaper`, and `LinksHaveOneShape`: the shaping commands implement `AbstractLink`.
That a tree is whole when the lock is free says nothing of the moments in which it is
not, so `IInv` adds `StepsInv` (where a shaper is in its job), `LockInv` (who
is at a command holds the lock), `LabelInv` (what each label says of the step
and its outcome), `LateInv` (a late command is one of a valid apply, or a deletion), `TreeInv` (a
link that is not torn is bare or whole, or the holder is between its two commands; and whoever is
between them finds the root that it has installed, torn or not, if no late command has meddled),
and for `SoleShaper` `AloneInv` and `AchievedInv` (what a shaper that nobody interfered
with has got done so far).

`HostNetworkProofs`: `TypeCorrect`, `LabComesUp`, `GatewayComesUp`, `CleansUp`,
`KeepsWorking`. First each command is shown to be `Sound`: it does what it is for, keeps the
network in order (`NetInv`: pairs are disjoint, what is configured exists, addresses
are those that npte assigns, and a route goes by an interface with an address in its
subnet), and spares what it does not touch. `KeepsWorking` needs little more. The two
theorems about exit codes need `WorkInv`: everything that creators have carried out
still shows, the pairs that they work on are where they have left them,
and no two have made one gateway's interface, *as long as one of them is unspoiled*. It cannot be said of each
process by itself, since the pair that a gateway command moves by the name `host` is its
own only because the other gateway's creator moves its own in time, and that one is not spoiled either:
a deletion spoils every other job at once, and jobs that begin later. `PlaceInv` and
`LockInv` say where processes are and that lab jobs exclude each other step by step; `CleanInv`
says how far an unspoiled destroy has come.

`PipelineProofs`: `TypeCorrect`, `NoShortInput`, `NoLostError`, and `NoLeftovers`, the
safety half of `ReturnsClean`. `IInv` adds `CursorsInv` (what is read was written, and
no pipe holds more than it can), `StartedInv` and `WaitedInv` (which stages the loop has
started and waited for), `CopiedInv` and `ClosedInv` (a copier is over, and an end is
closed, only for a reason: all is through, an end is gone, or the pipeline is torn down),
`EndsInv` (what an end of file tells) and `ErrorsInv` (where an error is on
its way to the caller). `OneChannelEach` is the refinement of `AbstractPipeline`
(`AbstractPiping`), and needs two invariants more (`Causes`): `DrainedInv`, nothing comes after an end of
file, torn down or not, and `CauseInv`, whatever made a Wait return an error is still to be seen
when `Pipeline` returns. The second is the half that `NilIsWhole` leaves open: an
error is never told for nothing, as it would be if the reader's end of the `io.Pipe` were closed
before the stage is over.
Each action is a step of one stage (`StartRefines`, `WorkRefines`, `ExitRefines`), the return
(`AbortRefines`, `ReturnRefines`), or a stutter.

`SweepGridProofs`: `OnTheRightLinks`, `WithItsOwnServer`, `AllAccountedFor`. `IInv` has the types,
`LinkInv` (the links have what the current cell asks for once its shaping is done, unless somebody
meddled or a clear was ignored), `FutureInv` (what is yet to be started has left nothing behind),
`ServerInv` (where each server of the run is, at each label), `ResultsInv` (how many results there
are) and `OwnInv` (who can hold a port).

`ArgumentsProofs`: `AddressesFit` for every width of an address, and `ReadsBack` for every set of values,
any number of flags included. The first needs that a prefix of at least four addresses ends within the
address space, and so how powers of two grow (`Powers`), which follows without induction from the
library's count of the subsets of an interval: those of `1..n+1` are those of `1..n`, once with `n+1` and
once without. The second has three parts. *A reader and its validator*: for each flag, what the regular
expression accepts is what the reader of `tc` takes, no word less and no word more, whatever other flag
follows (`LimitTaken`, `RateTaken`, `LossTaken`, `DelayTaken`, `SlotTaken`). `ChainFits` does
the nested optional parts of an expression one at a time, and `NumbersRead` says where the run of
numbers ends; it needs that no keyword begins like a number (`StopsAreNoNumbers`). The one exception,
a delay with a distribution but without a jitter, is refused as a whole and never half read (`DelayTaken`).
*The line*: `Lines` is what the given flags amount to from each flag on, and `Appended` says that
a flag that is added comes after those that are there. *The steps*: `ValuesInv` (the values are
accepted ones), `BuildInv` (until `tc` starts, the line is `Lines[1]`, and nothing has been given to a flag
whose turn is to come) and `ReadInv` (`tc` has read the flags before some flag, as they were given, and has the
line from that flag on before it). `KnobsReadBack` alone is not inductive, as it says nothing of the
line that is yet to be read.

**Only model-checked**: the liveness properties (`LockIsReleased`, `CallsReturn`,
`EndedIsReaped`, `ServerStops`, `RunEnds`, and that a pipeline returns, in `ReturnsClean`), since
fairness and `ENABLED` are out of the prover's reach.

## 5. What is not modelled, and why

- `--dry-run` prints and changes nothing. Help texts, logging and formatting.
- The contents of files other than the exit code, and of messages.
- In `NetemShaping`: a `tc del` that fails by itself is tolerated by the code and
  so by the model, whatever the reason (the code's TODO says so).
- In `HostNetwork`: duplicated rules, other programs' rules (the help text says
  what the sweep does to them), a gateway whose subnet changes, crashes (a fault leaves
  the same state behind), processes that keep a deleted namespace alive, and a
  namespace named "host", which the code has a TODO about.
- In `Pipeline`: a cancelled context (nobody cancels it), processes that a command
  leaves behind with its stdout open (for these `Wait` would wait, too), and the stdin and stdout of the
  pipeline as a whole.
- In `SweepGrid`: a Ctrl-C in the script, a `lab create` or `lab destroy` that fails (see
  `HostNetwork`), a shaping command that hangs (it has no timeout), and the shape that an
  interrupted `lab netem` of somebody else leaves, which is a `Meddle`.
- In `Arguments`: the range of numbers (percentages above 100, which the validators take and
  `tc` refuses, as the code's TODO admits, so that `KnobsReadBack` says nothing of them), white space around words, IPv6 beyond its being refused, user names,
  environment variables and suites.
- The reuse of process identifiers by the kernel (the Go runtime guards it).
- Containers, doctor, sudoers, gencerts, tutorial, tool wrappers: straight-line
  commands or text with no state of npte's own.

## 6. Plan

Modelled: the registry first, because everything else rests on it, then the
session manager, shaping, the host network, the pipeline over which the
gateway's sweep runs, the grid, and the arguments. What is left:

- An abstract gateway that is up or down, implemented by `HostNetwork` where nobody overlaps.
