----------------------------- MODULE HostNetwork -----------------------------
(***************************************************************************)
(* The network that npte builds on a host: the three-node lab (`npte lab   *)
(* create` and `destroy`, which run other npte commands one after another) *)
(* and the uplinks of `npte gateway create` and `destroy`.                 *)
(*                                                                         *)
(* The netns commands hold the global lock and insist on a managed         *)
(* namespace; the gateway commands do neither, so that their steps, and    *)
(* the unlocked read-modify-write of the host's firewall, come between the *)
(* steps of everybody else.  How a namespace becomes managed is the matter *)
(* of NetnsRegistry, and takes two steps here.                             *)
(*                                                                         *)
(* The interface if-<x> in a place is the pair <<place, x>>; an address is *)
(* a pair of a subnet and a host number.                                   *)
(***************************************************************************)
EXTENDS Naturals, Sequences, FiniteSets

CONSTANTS
  Procs,     \* who runs jobs
  Gateways,  \* namespaces of the lab that `npte gateway` is used on
  Tools,     \* what is used: "lab", "netns", "gateway"
  MaxJobs,   \* bound on the jobs that are begun
  MaxFaults, \* bound on the commands that fail by themselves
  Host,      \* the network namespace of the host
  NoProc     \* nobody holds the lock

Names  == {"client", "router", "server"}
Places == Names \cup {Host}

ASSUME GatewaysAssumption == Gateways \subseteq Names
ASSUME ToolsAssumption    == Tools \subseteq {"lab", "netns", "gateway"}
ASSUME BoundsAssumption   == MaxJobs \in Nat /\ MaxFaults \in Nat
ASSUME NullAssumption     == NoProc \notin Procs /\ Host \notin Names

VARIABLES
  lock,     \* holder of the global lock, or NoProc
  net,      \* the network, and the markers of the namespaces in it
  pc,       \* where each process is
  job, at,  \* its job, and at which npte invocation of it it is
  step,     \* the next command of that invocation
  code,     \* the exit code of that invocation, and in the end of the job
  begun,    \* how many jobs have begun, and how many commands have failed by
  faults,   \* themselves, for the bounds
  saved,    \* what iptables-save printed for it
  spoiled   \* history: jobs whose work somebody else had a hand in, and those
            \* begun while such a job was on

vars == <<lock, net, pc, job, at, step, code, begun, faults, saved, spoiled>>

-----------------------------------------------------------------------------
(* Commands.                                                               *)

LinkAdd(d, e)    == [cmd |-> "link_add", devs |-> {d, e}]
LinkMove(d, n)   == [cmd |-> "link_move", dev |-> d, to |-> n]
LinkUp(x, d)     == [cmd |-> "link_up", end |-> <<x, d>>]
LinkDel(d)       == [cmd |-> "link_del", dev |-> d]
AddrAdd(x, d, a) == [cmd |-> "addr_add", end |-> <<x, d>>, addr |-> a]
RouteAdd(n, a)   == [cmd |-> "route_add", name |-> n, via |-> a]
NetnsAdd(n)      == [cmd |-> "netns_add", name |-> n]
NetnsDel(n)      == [cmd |-> "netns_del", name |-> n]
Register(n)      == [cmd |-> "register", name |-> n]
Unregister(n)    == [cmd |-> "unregister", name |-> n]
Forward          == [cmd |-> "forward"]
RuleAdd(n, k)    == [cmd |-> "rule_add", name |-> n, rule |-> <<n, k>>]
SnatAdd(n)       == [cmd |-> "snat_add", name |-> n]
Save             == [cmd |-> "save"]
Restore(n)       == [cmd |-> "restore", name |-> n]

Ends == UNION net.veths

\* The interfaces of n by which it could reach the address via.
Outlets(n, via) == {e \in net.up : e[1] = n /\ \E x \in net.addrs : x[1] = e /\ x[2][1] = via[1]}

\* What ip(8), iptables(8) and the rest accept.
Accepts(c) ==
  CASE c.cmd = "link_add"  -> Cardinality(c.devs) = 2 /\ \A d \in c.devs : <<Host, d>> \notin Ends
    [] c.cmd = "link_move" -> /\ <<Host, c.dev>> \in Ends /\ <<c.to, c.dev>> \notin Ends
                              /\ c.to \in net.spaces
    [] c.cmd = "link_up"   -> c.end \in Ends
    [] c.cmd = "link_del"  -> <<Host, c.dev>> \in Ends
    [] c.cmd = "addr_add"  -> c.end \in Ends /\ <<c.end, c.addr>> \notin net.addrs
    [] c.cmd = "route_add" -> /\ Outlets(c.name, c.via) # {}
                              /\ \A x \in net.routes : x[1][1] # c.name
    [] c.cmd = "netns_add" -> c.name \notin net.spaces
    [] c.cmd \in {"netns_del", "snat_add"} -> c.name \in net.spaces
    [] c.cmd \in {"register", "unregister", "forward", "rule_add", "save", "restore"} -> TRUE

\* Pairs go, with the addresses and routes of their ends.
Without(pairs) ==
  LET dead == UNION pairs
  IN  [net EXCEPT !.veths  = @ \ pairs, !.up = @ \ dead,
                  !.addrs  = {x \in @ : x[1] \notin dead},
                  !.routes = {x \in @ : x[1] \notin dead}]

PairsAt(e) == {k \in net.veths : e \in k}

\* An interface that moves to another namespace loses its configuration.
Moved(d, n) ==
  [net EXCEPT !.veths  = (@ \ PairsAt(<<Host, d>>))
                           \cup {(k \ {<<Host, d>>}) \cup {<<n, d>>} : k \in PairsAt(<<Host, d>>)},
              !.up     = @ \ {<<Host, d>>},
              !.addrs  = {x \in @ : x[1] # <<Host, d>>},
              !.routes = {x \in @ : x[1] # <<Host, d>>}]

\* Mutant: the pattern of grep matches the rules of every gateway.
MutSwept(rules, n) == {}

\* What grep lets through of the rules that were saved.
Swept(rules, n) == {r \in rules : r[1] # n}

\* What each command makes of the network, once accepted.
After(c, sv) ==
  CASE c.cmd = "link_add"   -> [net EXCEPT !.veths = @ \cup {{<<Host, d>> : d \in c.devs}}]
    [] c.cmd = "link_move"  -> Moved(c.dev, c.to)
    [] c.cmd = "link_up"    -> [net EXCEPT !.up = @ \cup {c.end}]
    [] c.cmd = "link_del"   -> Without(PairsAt(<<Host, c.dev>>))
    [] c.cmd = "addr_add"   -> [net EXCEPT !.addrs = @ \cup {<<c.end, c.addr>>}]
    [] c.cmd = "route_add"  -> LET e == CHOOSE e \in Outlets(c.name, c.via) : TRUE
                               IN  [net EXCEPT !.routes = @ \cup {<<e, c.via>>}]
    [] c.cmd = "netns_add"  -> [net EXCEPT !.spaces = @ \cup {c.name}]
    [] c.cmd = "netns_del"  -> [Without({k \in net.veths : \E e \in k : e[1] = c.name})
                                  EXCEPT !.spaces = @ \ {c.name}, !.snat = @ \ {c.name}]
    [] c.cmd = "register"   -> [net EXCEPT !.managed = @ \cup {c.name}]
    [] c.cmd = "unregister" -> [net EXCEPT !.managed = @ \ {c.name}]
    [] c.cmd = "forward"    -> [net EXCEPT !.forward = TRUE]
    [] c.cmd = "rule_add"   -> [net EXCEPT !.rules = @ \cup {c.rule}]
    [] c.cmd = "snat_add"   -> [net EXCEPT !.snat = @ \cup {c.name}]
    [] c.cmd = "save"       -> net
    [] c.cmd = "restore"    -> [net EXCEPT !.rules = Swept(sv, c.name)]

-----------------------------------------------------------------------------
(* Invocations of npte: the namespaces that must be managed, and the       *)
(* commands.  The gateway commands take no lock and check no marker.       *)

Netns(needs, prog) == [locked |-> TRUE, needs |-> needs, prog |-> prog]
Unlocked(prog)     == [locked |-> FALSE, needs |-> {}, prog |-> prog]

NetnsCreate(n)  == Netns({}, <<NetnsAdd(n), Register(n)>>)
NetnsDestroy(n) == Netns({n}, <<NetnsDel(n), Unregister(n)>>)

\* Mutant: the right end is not brought up.
MutConnect(l, r) ==
  Netns({l, r}, <<LinkAdd(r, l), LinkMove(r, l), LinkMove(l, r), LinkUp(l, r)>>)

Connect(l, r) ==
  Netns({l, r}, <<LinkAdd(r, l), LinkMove(r, l), LinkMove(l, r), LinkUp(l, r), LinkUp(r, l)>>)

AssignAddr(n, d, a) == Netns({n}, <<AddrAdd(n, d, a)>>)

AddRoute(n, via) == Netns({n}, <<RouteAdd(n, via)>>)

Kinds == {"masquerade", "forward_from", "forward_to"}

GatewayCreate(n) ==
  Unlocked(<<LinkAdd(n, "host"), LinkMove("host", n),
             AddrAdd(Host, n, <<n, 1>>), AddrAdd(n, "host", <<n, 2>>),
             LinkUp(Host, n), LinkUp(n, "host"), RouteAdd(n, <<n, 1>>), Forward,
             RuleAdd(n, "masquerade"), RuleAdd(n, "forward_from"), RuleAdd(n, "forward_to"),
             SnatAdd(n)>>)

\* Mutant: the veth is left to `netns destroy`.
MutGatewayDestroy(n) == Unlocked(<<Save, Restore(n)>>)

GatewayDestroy(n) == Unlocked(<<Save, Restore(n), LinkDel(n)>>)

LabCreate ==
  <<NetnsCreate("client"), NetnsCreate("router"), NetnsCreate("server"),
    Connect("client", "router"), Connect("server", "router"),
    AssignAddr("client", "router", <<"net3", 2>>), AssignAddr("router", "client", <<"net3", 1>>),
    AssignAddr("server", "router", <<"net2", 2>>), AssignAddr("router", "server", <<"net2", 1>>),
    AddRoute("client", <<"net3", 1>>), AddRoute("server", <<"net2", 1>>)>>

LabDestroy == <<NetnsDestroy("client"), NetnsDestroy("server"), NetnsDestroy("router")>>

Jobs == {j \in [tool : {"lab"}, does : {"create", "destroy"}, name : {"router"}]
                 \cup [tool : {"netns", "gateway"}, does : {"create", "destroy"}, name : Gateways]
           : j.tool \in Tools}

NoJob == [tool |-> "none", does |-> "nothing", name |-> "router"]

Invocations(j) ==
  CASE j.tool = "lab"     -> IF j.does = "create" THEN LabCreate ELSE LabDestroy
    [] j.tool = "netns"   -> <<IF j.does = "create" THEN NetnsCreate(j.name) ELSE NetnsDestroy(j.name)>>
    [] j.tool = "gateway" -> <<IF j.does = "create" THEN GatewayCreate(j.name) ELSE GatewayDestroy(j.name)>>
    [] j.tool = "none"    -> <<>>

Invocation(p) == Invocations(job[p])[at[p]]
Command(p)    == Invocation(p).prog[step[p]]

\* Somebody else runs c, which may undo what the job j is after.
Spoils(c, j) ==
  \/ c.cmd \in {"netns_del", "link_del", "restore"}
  \/ c.cmd \in {"link_add", "rule_add"} /\ j.does = "destroy"

-----------------------------------------------------------------------------
Init ==
  /\ lock    = NoProc
  /\ net = [spaces |-> {}, managed |-> {}, veths |-> {}, up |-> {}, addrs |-> {},
            routes |-> {}, forward |-> FALSE, rules |-> {}, snat |-> {}]
  /\ pc      = [p \in Procs |-> "idle"]
  /\ job     = [p \in Procs |-> NoJob]
  /\ at      = [p \in Procs |-> 1]
  /\ step    = [p \in Procs |-> 1]
  /\ code    = [p \in Procs |-> "ok"]
  /\ begun   = 0 /\ faults = 0
  /\ saved   = [p \in Procs |-> {}]
  /\ spoiled = {}

Goto(p, label) == pc' = [pc EXCEPT ![p] = label]

Begin(p) ==
  /\ pc[p] = "idle" /\ begun < MaxJobs
  /\ begun' = begun + 1
  /\ Goto(p, "enter")
  /\ \E j \in Jobs : job' = [job EXCEPT ![p] = j]
  /\ spoiled' = IF spoiled = {} THEN {} ELSE spoiled \cup {p}
  /\ UNCHANGED <<lock, net, at, step, code, faults, saved>>

\* The gateway commands go straight to work.
Enter(p) ==
  /\ pc[p] = "enter"
  /\ ~Invocation(p).locked
  /\ Goto(p, "run")
  /\ UNCHANGED <<lock, net, job, at, step, code, saved, spoiled, begun, faults>>

\* The others wait for the lock; RequireManaged under it.
Lock(p) ==
  /\ pc[p] = "enter"
  /\ Invocation(p).locked
  /\ lock = NoProc
  /\ lock' = p
  /\ IF Invocation(p).needs \subseteq net.managed
       THEN Goto(p, "run") /\ UNCHANGED code
       ELSE Goto(p, "leave") /\ code' = [code EXCEPT ![p] = "rejected"]
  /\ UNCHANGED <<net, job, at, step, saved, spoiled, begun, faults>>

Advance(p) ==
  IF step[p] = Len(Invocation(p).prog)
    THEN Goto(p, "leave") /\ UNCHANGED step
    ELSE step' = [step EXCEPT ![p] = @ + 1] /\ UNCHANGED pc

Run(p) ==
  /\ pc[p] = "run"
  /\ Accepts(Command(p))
  /\ net'   = After(Command(p), saved[p])
  /\ saved' = [saved EXCEPT ![p] = IF Command(p).cmd = "save" THEN net.rules ELSE {}]
  /\ spoiled' = spoiled \cup {q \in Procs \ {p} : pc[q] # "idle" /\ Spoils(Command(p), job[q])}
  /\ Advance(p)
  /\ UNCHANGED <<lock, job, at, code, begun, faults>>

\* A command is refused, or fails by itself.
Refused(p) == \/ ~Accepts(Command(p)) /\ UNCHANGED faults
              \/ faults < MaxFaults /\ faults' = faults + 1

\* Mutant: a failing command does not stop the invocation.
MutRunFails(p) ==
  /\ pc[p] = "run"
  /\ Refused(p)
  /\ Advance(p) /\ UNCHANGED code
  /\ saved' = [saved EXCEPT ![p] = {}]
  /\ UNCHANGED <<lock, net, job, at, spoiled, begun>>

\* A command that fails ends the invocation; what was done so far stays.  Only
\* the deletion of the gateway's interface is allowed to fail.
RunFails(p) ==
  /\ pc[p] = "run"
  /\ Refused(p)
  /\ IF Command(p).cmd = "link_del"
       THEN Advance(p) /\ UNCHANGED code
       ELSE /\ Goto(p, "leave") /\ UNCHANGED step
            /\ code' = [code EXCEPT ![p] = "failed"]
  /\ saved' = [saved EXCEPT ![p] = {}]
  /\ UNCHANGED <<lock, net, job, at, spoiled, begun>>

\* Mutant: the end of the job is overlooked.
MutLeave(p) ==
  /\ pc[p] = "leave"
  /\ lock' = IF lock = p THEN NoProc ELSE lock
  /\ step' = [step EXCEPT ![p] = 1]
  /\ IF code[p] # "ok"
       THEN Goto(p, "done") /\ UNCHANGED at
       ELSE Goto(p, "enter") /\ at' = [at EXCEPT ![p] = @ + 1]
  /\ UNCHANGED <<net, job, code, saved, spoiled, begun, faults>>

\* The invocation exits; `npte lab` stops at the first that fails.
Leave(p) ==
  /\ pc[p] = "leave"
  /\ lock' = IF lock = p THEN NoProc ELSE lock
  /\ step' = [step EXCEPT ![p] = 1]
  /\ IF at[p] = Len(Invocations(job[p])) \/ code[p] # "ok"
       THEN Goto(p, "done") /\ UNCHANGED at
       ELSE Goto(p, "enter") /\ at' = [at EXCEPT ![p] = @ + 1]
  /\ UNCHANGED <<net, job, code, saved, spoiled, begun, faults>>

Finish(p) ==
  /\ pc[p] = "done"
  /\ Goto(p, "idle")
  /\ job'     = [job EXCEPT ![p] = NoJob]
  /\ at'      = [at EXCEPT ![p] = 1]
  /\ code'    = [code EXCEPT ![p] = "ok"]
  /\ spoiled' = spoiled \ {p}
  /\ UNCHANGED <<lock, net, step, saved, begun, faults>>

Next == \E p \in Procs : \/ Begin(p) \/ Enter(p) \/ Lock(p)
                         \/ Run(p) \/ RunFails(p) \/ Leave(p) \/ Finish(p)

Spec == Init /\ [][Next]_vars

-----------------------------------------------------------------------------
(* Properties.                                                             *)

Nets  == {"net2", "net3"} \cup Names
Devs  == Names \cup {"host"}
Links == Places \X Devs
Addrs == Nets \X {1, 2}

TypeOK ==
  /\ lock \in Procs \cup {NoProc}
  /\ net.spaces \subseteq Names /\ net.managed \subseteq Names /\ net.snat \subseteq Names
  /\ \A k \in net.veths : k \subseteq Links /\ Cardinality(k) = 2
  /\ \A k, m \in net.veths : k # m => k \cap m = {}
  /\ net.up \subseteq Ends
  /\ \A x \in net.addrs \cup net.routes : x[1] \in Ends /\ x[2] \in Addrs
  /\ \A e \in Ends : e[1] \in net.spaces \cup {Host}
  /\ net.forward \in BOOLEAN
  /\ net.rules \subseteq Names \X Kinds
  /\ pc   \in [Procs -> {"idle", "enter", "run", "leave", "done"}]
  /\ job  \in [Procs -> Jobs \cup {NoJob}]
  /\ at   \in [Procs -> 1..Len(LabCreate)]
  /\ step \in [Procs -> Nat \ {0}]
  /\ \A p \in Procs : pc[p] # "idle" => at[p] <= Len(Invocations(job[p]))
  /\ \A p \in Procs : pc[p] = "run" => step[p] <= Len(Invocation(p).prog)
  /\ code \in [Procs -> {"ok", "failed", "rejected"}]
  /\ begun \in 0..MaxJobs /\ faults \in 0..MaxFaults
  /\ \A p \in Procs : saved[p] \subseteq Names \X Kinds
  /\ spoiled \subseteq Procs

\* n has a default route via a, and what it sends to the address a on a link of
\* its own arrives in m.
DefaultVia(n, a) == \E x \in net.routes : x[1][1] = n /\ x[2] = a

Delivers(n, a, m) ==
  \E k \in net.veths : \E e, f \in k :
     /\ k \subseteq net.up /\ e[1] = n /\ f[1] = m /\ <<f, a>> \in net.addrs
     /\ \E x \in net.addrs : x[1] = e /\ x[2][1] = a[1]

LeafWired(n, link) ==
  /\ DefaultVia(n, <<link, 1>>)
  /\ Delivers(n, <<link, 1>>, "router") /\ Delivers("router", <<link, 2>>, n)

LabWired == LeafWired("client", "net3") /\ LeafWired("server", "net2")

RulesOf(n) == {n} \X Kinds

GatewayWired(n) ==
  /\ DefaultVia(n, <<n, 1>>)
  /\ Delivers(n, <<n, 1>>, Host) /\ Delivers(Host, <<n, 2>>, n)
  /\ net.forward /\ RulesOf(n) \subseteq net.rules /\ n \in net.snat

Done(p, tool, does) ==
  pc[p] = "done" /\ code[p] = "ok" /\ job[p].tool = tool /\ job[p].does = does

\* When `npte lab create` exits with 0, client and server reach each other by way
\* of the router and back, whatever uplinks come and go at the same time, unless
\* somebody took something down meanwhile.
LabUp == \A p \in Procs \ spoiled : Done(p, "lab", "create") => LabWired

\* When `npte gateway create` exits with 0, the namespace reaches the host and the
\* host's firewall lets it through, also when the names of other links or of
\* another gateway stood in the way, unless somebody took something down or swept
\* the firewall meanwhile.
GatewayUp ==
  \A p \in Procs \ spoiled : Done(p, "gateway", "create") => GatewayWired(job[p].name)

\* When `npte gateway destroy` exits with 0, no rule of the gateway and no
\* interface of that name is left on the host, whatever a failed or interrupted
\* create had left there, unless somebody was at work on the host meanwhile (or,
\* for the interface, the tolerated deletion failed by itself).
CleanedUp ==
  \A p \in Procs \ spoiled : Done(p, "gateway", "destroy") =>
     /\ RulesOf(job[p].name) \cap net.rules = {}
     /\ faults > 0 \/ <<Host, job[p].name>> \notin Ends

Running(p, cmd) == pc[p] = "run" /\ Command(p).cmd = cmd

LabStays ==
  LabWired => LabWired' \/ \E p \in Procs : lock = p /\ Running(p, "netns_del")

GatewayStays(n) ==
  GatewayWired(n) =>
    \/ GatewayWired(n)'
    \/ \E p \in Procs :
         \/ Running(p, "netns_del") /\ Command(p).name = n
         \/ Running(p, "link_del") /\ Command(p).dev = n
         \/ Running(p, "link_move") /\ p \in spoiled
         \/ /\ Running(p, "restore")
            /\ Command(p).name = n \/ ~(RulesOf(n) \subseteq saved[p])

\* What works goes on working: the lab until a `netns destroy` of one of its own
\* namespaces, which the gateway commands, taking no lock, never do to it; a
\* gateway until a destroy of its namespace or of itself, a sweep on behalf of
\* another that had read the firewall before the gateway was complete, or a job
\* that takes its interface for one of its own, which somebody else deleted.
StaysUp == [][LabStays /\ \A n \in Gateways : GatewayStays(n)]_vars

=============================================================================
