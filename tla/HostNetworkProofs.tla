-------------------------- MODULE HostNetworkProofs --------------------------
(***************************************************************************)
(* Theorems about HostNetwork, for any number of processes, any gateways   *)
(* and tools, and any number of jobs and faults.                           *)
(***************************************************************************)
EXTENDS HostNetwork, FiniteSetTheorems, TLAPS

-----------------------------------------------------------------------------
(* The network.                                                            *)

ANet == [spaces : SUBSET Names, managed : SUBSET Names, veths : SUBSET (SUBSET Links),
         up : SUBSET Links, addrs : SUBSET (Links \X Addrs), routes : SUBSET (Links \X Addrs),
         forward : BOOLEAN, rules : SUBSET (Names \X Kinds), snat : SUBSET Names]

\* The addresses that npte gives to interfaces.
Assigned ==
  {<<<<Host, n>>, <<n, 1>>>> : n \in Names} \cup {<<<<n, "host">>, <<n, 2>>>> : n \in Names}
    \cup {<<<<"client", "router">>, <<"net3", 2>>>>, <<<<"router", "client">>, <<"net3", 1>>>>,
          <<<<"server", "router">>, <<"net2", 2>>>>, <<<<"router", "server">>, <<"net2", 1>>>>}

\* Pairs are pairs, and no interface is in two of them.
PairsInv == /\ \A k \in net.veths : \E e, f \in Links : e # f /\ k = {e, f}
            /\ \A k, m \in net.veths : k # m => k \cap m = {}

\* What is configured exists, and is where there is a place for it.
EndsInv == /\ net.up \subseteq Ends
           /\ \A x \in net.addrs \cup net.routes : x[1] \in Ends
           /\ \A e \in Ends : e[1] \in net.spaces \cup {Host}

\* A route goes by an interface with an address in the subnet of its gateway.
AddrsInv == /\ net.addrs \subseteq Assigned
            /\ \A x \in net.routes : \E y \in net.addrs : y[1] = x[1] /\ y[2][1] = x[2][1]

NetInv == net \in ANet /\ PairsInv /\ EndsInv /\ AddrsInv

\* The commands that npte runs.
Good(c) ==
  \/ \E d, e \in Devs : c = LinkAdd(d, e)
  \/ \E d \in Devs, n \in Names : c = LinkMove(d, n)
  \/ \E x \in Places, d \in Devs : c = LinkUp(x, d)
  \/ \E d \in Names : c = LinkDel(d)
  \/ \E a \in Assigned : c = AddrAdd(a[1][1], a[1][2], a[2])
  \/ \E n \in Names, a \in Addrs : c = RouteAdd(n, a)
  \/ \E n \in Names : c \in {NetnsAdd(n), NetnsDel(n), Register(n), Unregister(n),
                             SnatAdd(n), Restore(n)}
  \/ \E n \in Names, k \in Kinds : c = RuleAdd(n, k)
  \/ c \in {Forward, Save}

\* A set of two, as Cardinality has it.
LEMMA TwoElements ==
  ASSUME NEW a, NEW b
  PROVE  /\ a # b => Cardinality({a, b}) = 2
         /\ Cardinality({a, b}) = 2 => a # b
<1>1. /\ IsFiniteSet({a}) /\ Cardinality({a}) = 1
      /\ IsFiniteSet({b}) /\ Cardinality({b}) = 1
  BY FS_Singleton
<1>2. {a, b} = {b} \cup {a} /\ (a = b => {a, b} = {a})
  OBVIOUS
<1>3. a # b => Cardinality({a, b}) = 2
  BY <1>1, <1>2, FS_AddElement
<1>4. QED
  BY <1>1, <1>2, <1>3

\* The ends when a pair is added.
LEMMA OnePairMore ==
  ASSUME NEW S, NEW a, NEW b
  PROVE  UNION (S \cup {{a, b}}) = (UNION S) \cup {a, b}
<1>1. ASSUME NEW x, x \in UNION (S \cup {{a, b}}) PROVE x \in (UNION S) \cup {a, b}
  BY <1>1
<1>2. ASSUME NEW x, x \in (UNION S) \cup {a, b} PROVE x \in UNION (S \cup {{a, b}})
  BY <1>2
<1>3. QED
  BY <1>1, <1>2

\* What each command asks for.
LEMMA AcceptsIs ==
  /\ \A d, e : Accepts(LinkAdd(d, e)) <=>
        Cardinality({d, e}) = 2 /\ \A x \in {d, e} : <<Host, x>> \notin Ends
  /\ \A d, n : Accepts(LinkMove(d, n)) <=>
        <<Host, d>> \in Ends /\ <<n, d>> \notin Ends /\ n \in net.spaces
  /\ \A x, d : Accepts(LinkUp(x, d)) <=> <<x, d>> \in Ends
  /\ \A d : Accepts(LinkDel(d)) <=> <<Host, d>> \in Ends
  /\ \A x, d, a : Accepts(AddrAdd(x, d, a)) =>
        <<x, d>> \in Ends /\ <<<<x, d>>, a>> \notin net.addrs
  /\ \A n, a : Accepts(RouteAdd(n, a)) => Outlets(n, a) # {}
BY DEF Accepts, LinkAdd, LinkMove, LinkUp, LinkDel, AddrAdd, RouteAdd

\* What is left without some pairs.
LEMMA WithoutIs ==
  ASSUME NetInv, NEW pairs \in SUBSET net.veths, NEW w, w = Without(pairs)
  PROVE  /\ w \in ANet
         /\ w.veths = net.veths \ pairs
         /\ UNION w.veths = Ends \ UNION pairs
         /\ w.up = net.up \ UNION pairs
         /\ w.addrs  = {x \in net.addrs  : x[1] \notin UNION pairs}
         /\ w.routes = {x \in net.routes : x[1] \notin UNION pairs}
         /\ w.spaces = net.spaces /\ w.managed = net.managed /\ w.forward = net.forward
         /\ w.rules = net.rules /\ w.snat = net.snat
<1>1. net \in ANet
  BY DEF NetInv
<1>2. /\ w.veths = net.veths \ pairs
      /\ w.up = net.up \ UNION pairs
      /\ w.addrs  = {x \in net.addrs  : x[1] \notin UNION pairs}
      /\ w.routes = {x \in net.routes : x[1] \notin UNION pairs}
      /\ w.spaces = net.spaces /\ w.managed = net.managed /\ w.forward = net.forward
      /\ w.rules = net.rules /\ w.snat = net.snat
  BY <1>1 DEF Without, ANet
<1>3. w \in ANet
  <2>1. PICK v1, v2, v3, v4 : w = [net EXCEPT !.veths = v1, !.up = v2, !.addrs = v3, !.routes = v4]
    BY DEF Without
  <2>2. /\ v1 = w.veths /\ v2 = w.up /\ v3 = w.addrs /\ v4 = w.routes
    BY <1>1, <2>1 DEF ANet
  <2>3. QED
    BY <1>1, <1>2, <2>1, <2>2 DEF ANet
<1>4. UNION w.veths = Ends \ UNION pairs
  BY <1>2 DEF NetInv, PairsInv, Ends
<1>5. QED
  BY <1>2, <1>3, <1>4

\* Where there is a pair with d on the host, it moves as one.
LEMMA MovedIs ==
  ASSUME NetInv, NEW d \in Devs, NEW n \in Names, <<Host, d>> \in Ends, <<n, d>> \notin Ends,
         NEW w, w = Moved(d, n)
  PROVE  \E k \in net.veths, e \in Links :
           /\ k = {<<Host, d>>, e} /\ e # <<Host, d>> /\ e # <<n, d>>
           /\ w \in ANet
           /\ w.veths = (net.veths \ {k}) \cup {{<<n, d>>, e}}
           /\ UNION w.veths = (Ends \ {<<Host, d>>}) \cup {<<n, d>>}
           /\ w.up = net.up \ {<<Host, d>>}
           /\ w.addrs  = {x \in net.addrs  : x[1] # <<Host, d>>}
           /\ w.routes = {x \in net.routes : x[1] # <<Host, d>>}
           /\ w.spaces = net.spaces /\ w.managed = net.managed /\ w.forward = net.forward
           /\ w.rules = net.rules /\ w.snat = net.snat
<1> DEFINE h == <<Host, d>>  m == <<n, d>>
<1>1. net \in ANet /\ h \in Links /\ m \in Links /\ h # m
  BY NullAssumption DEF NetInv, Links, Places
<1>2. PICK k \in net.veths : h \in k
  BY DEF Ends
<1>3. PICK e \in Links : k = {h, e} /\ e # h
  BY <1>2 DEF NetInv, PairsInv
<1>4. e # m /\ e \in Ends
  BY <1>2, <1>3 DEF Ends
<1>5. PairsAt(h) = {k}
  BY <1>2 DEF PairsAt, NetInv, PairsInv
<1>6. (k \ {h}) \cup {m} = {m, e}
  BY <1>3
<1>7. {(q \ {h}) \cup {m} : q \in PairsAt(h)} = {{m, e}}
  BY <1>5, <1>6
<1>8. w = [net EXCEPT !.veths  = (@ \ {k}) \cup {{m, e}}, !.up = @ \ {h},
                      !.addrs  = {x \in @ : x[1] # h}, !.routes = {x \in @ : x[1] # h}]
  BY <1>5, <1>7 DEF Moved
<1>9. /\ w.veths = (net.veths \ {k}) \cup {{m, e}}
      /\ w.up = net.up \ {h}
      /\ w.addrs  = {x \in net.addrs  : x[1] # h}
      /\ w.routes = {x \in net.routes : x[1] # h}
      /\ w.spaces = net.spaces /\ w.managed = net.managed /\ w.forward = net.forward
      /\ w.rules = net.rules /\ w.snat = net.snat
  BY <1>1, <1>8 DEF ANet
<1>10. w \in ANet
  <2>0. PICK v1, v2, v3, v4 : /\ v1 = (net.veths \ {k}) \cup {{m, e}} /\ v2 = net.up \ {h}
                             /\ v3 = {x \in net.addrs : x[1] # h}
                             /\ v4 = {x \in net.routes : x[1] # h}
    OBVIOUS
  <2>1. w = [net EXCEPT !.veths = v1, !.up = v2, !.addrs = v3, !.routes = v4]
    BY <1>8, <2>0
  <2>2. /\ v1 = w.veths /\ v2 = w.up /\ v3 = w.addrs /\ v4 = w.routes
    BY <1>1, <2>1 DEF ANet
  <2>3. v1 \in SUBSET (SUBSET Links)
    BY <1>1, <1>9, <2>2 DEF ANet
  <2>4. QED
    BY <1>1, <1>9, <2>1, <2>2, <2>3 DEF ANet
<1>11. UNION w.veths = (Ends \ {h}) \cup {m}
  <2> HIDE DEF h, m
  <2>1. UNION (net.veths \ {k}) = Ends \ k
    BY DEF NetInv, PairsInv, Ends
  <2>2. ASSUME NEW x
        PROVE  x \in UNION w.veths <=> x \in UNION (net.veths \ {k}) \/ x = m \/ x = e
    <3>1. UNION w.veths = (UNION (net.veths \ {k})) \cup {m, e}
      BY <1>9, OnePairMore
    <3>2. QED
      BY <3>1
  <2>3. ASSUME NEW x
        PROVE  x \in UNION w.veths <=> x \in (Ends \ {h}) \cup {m}
    BY <1>3, <1>4, <2>1, <2>2
  <2>4. QED
    BY <2>3
<1>12. QED
  BY <1>1, <1>2, <1>3, <1>4, <1>9, <1>10, <1>11

\* Where the pairs stay as they are, so do their properties.
LEMMA SamePairs ==
  ASSUME NetInv, net'.veths = net.veths, net' \in ANet, net.spaces \subseteq net'.spaces,
         net'.up \subseteq net.up \cup Ends,
         \A x \in net'.addrs : x \in net.addrs \/ (x[1] \in Ends /\ x \in Assigned),
         net.addrs \subseteq net'.addrs,
         \A x \in net'.routes : \/ x \in net.routes
                                \/ /\ x[1] \in Ends
                                   /\ \E y \in net.addrs : y[1] = x[1] /\ y[2][1] = x[2][1]
  PROVE  NetInv' /\ Ends' = Ends
<1>1. Ends' = Ends
  BY DEF Ends
<1>2. PairsInv'
  BY DEF NetInv, PairsInv
<1>3. EndsInv'
  BY <1>1 DEF NetInv, EndsInv
<1>4. AddrsInv'
  BY DEF NetInv, AddrsInv
<1>5. QED
  BY <1>1, <1>2, <1>3, <1>4 DEF NetInv

-----------------------------------------------------------------------------
(* What a command does to the network, and what it leaves alone.           *)

\* What c is for, but for the pairs.
Effect(c) ==
  /\ c.cmd = "link_up"   => c.end \in net.up
  /\ c.cmd = "addr_add"  => <<c.end, c.addr>> \in net.addrs
  /\ c.cmd = "route_add" => DefaultVia(c.name, c.via)
  /\ c.cmd = "forward"   => net.forward
  /\ c.cmd = "rule_add"  => c.rule \in net.rules
  /\ c.cmd = "snat_add"  => c.name \in net.snat

\* The interface e keeps what it has.
Stays(e) ==
  /\ e \in net.up => e \in net'.up
  /\ \A a : <<e, a>> \in net.addrs  => <<e, a>> \in net'.addrs
  /\ \A a : <<e, a>> \in net.routes => <<e, a>> \in net'.routes

\* Interfaces are touched by who moves or deletes them.
Touches(c, k) == \/ c.cmd \in {"link_move", "link_del"} /\ <<Host, c.dev>> \in k
                 \/ c.cmd = "netns_del" /\ \E e \in k : e[1] = c.name

Spares(c) ==
  /\ \A e \in Links : \/ c.cmd \in {"link_del", "netns_del"}
                      \/ c.cmd = "link_move" /\ e = <<Host, c.dev>>
                      \/ Stays(e)
  /\ \A k \in net.veths : Touches(c, k) \/ (k \in net'.veths /\ \A e \in k : Stays(e))

\* The tables of the host, and the interfaces that are left there.
Tables(c, sv) ==
  /\ net.forward => net'.forward
  /\ c.cmd = "restore" \/ net.rules \subseteq net'.rules
  /\ c.cmd \in {"restore", "rule_add"} \/ net'.rules = net.rules
  /\ c.cmd = "restore" => net'.rules = Swept(sv, c.name)
  /\ \A n \in net.snat : n \in net'.snat \/ (c.cmd = "netns_del" /\ c.name = n)
  /\ \A d : <<Host, d>> \in Ends' => <<Host, d>> \in Ends \/ c.cmd = "link_add"
  /\ c.cmd = "link_del" => <<Host, c.dev>> \notin Ends'

\* The pair that a move leaves behind.
Moves(c) ==
  c.cmd = "link_move" =>
    \A f \in Links : {<<Host, c.dev>>, f} \in net.veths /\ f # <<Host, c.dev>> =>
      {<<c.to, c.dev>>, f} \in net'.veths

Sound(c, sv) == NetInv' /\ Spares(c) /\ Tables(c, sv) /\ Moves(c) /\ Effect(c)'

\* A new pair is between interfaces of the host that were not there (`ip link add`).
LEMMA LinkAddSound ==
  ASSUME NetInv, NEW d \in Devs, NEW e \in Devs, NEW sv,
         Accepts(LinkAdd(d, e)), net' = After(LinkAdd(d, e), sv)
  PROVE  /\ Sound(LinkAdd(d, e), sv) /\ {<<Host, d>>, <<Host, e>>} \in net'.veths
         /\ <<Host, d>> \notin Ends /\ <<Host, e>> \notin Ends /\ d # e
<1> DEFINE f == <<Host, d>>  g == <<Host, e>>  c == LinkAdd(d, e)
<1>1. d # e /\ f \notin Ends /\ g \notin Ends
  BY AcceptsIs, TwoElements
<1>2. {<<Host, x>> : x \in {d, e}} = {f, g}
  OBVIOUS
<1>3. f # g /\ f \in Links /\ g \in Links /\ f[1] = Host /\ g[1] = Host
  BY <1>1 DEF Links, Places
<1>4. net' = [net EXCEPT !.veths = net.veths \cup {{f, g}}]
  <2>1. net' = [net EXCEPT !.veths = net.veths \cup {{<<Host, x>> : x \in {d, e}}}]
    BY DEF After, LinkAdd
  <2>2. QED
    BY <1>2, <2>1
<1>5. c.cmd = "link_add"
  BY DEF LinkAdd
<1> HIDE DEF f, g, c
<1>6. net.veths \cup {{f, g}} \in SUBSET (SUBSET Links)
  BY <1>3 DEF NetInv, ANet
<1>7. /\ net'.veths = net.veths \cup {{f, g}} /\ net' \in ANet
      /\ UNCHANGED <<net.spaces, net.managed, net.up, net.addrs, net.routes, net.forward,
                     net.rules, net.snat>>
  <2>1. PICK v \in SUBSET (SUBSET Links) : v = net.veths \cup {{f, g}}
    BY <1>6
  <2>2. net' = [net EXCEPT !.veths = v]
    BY <1>4, <2>1
  <2>3. QED
    BY <2>1, <2>2 DEF NetInv, ANet
<1>8. Ends' = Ends \cup {f, g}
  BY <1>7, OnePairMore DEF Ends
<1>9. PairsInv'
  <2>1. \A k \in net.veths : k \cap {f, g} = {}
    BY <1>1 DEF Ends, f, g
  <2>2. QED
    BY <1>3, <1>7, <2>1 DEF NetInv, PairsInv
<1>10. EndsInv' /\ AddrsInv'
  BY <1>3, <1>7, <1>8 DEF NetInv, EndsInv, AddrsInv
<1>11. Sound(c, sv)
  BY <1>5, <1>7, <1>9, <1>10 DEF NetInv, Sound, Spares, Stays, Tables, Moves, Effect
<1>12. QED
  BY <1>1, <1>7, <1>11 DEF c, f, g

\* A pair moves as one and keeps its other end (`ip link set ... netns`).
LEMMA LinkMoveSound ==
  ASSUME NetInv, NEW d \in Devs, NEW n \in Names, NEW sv,
         Accepts(LinkMove(d, n)), net' = After(LinkMove(d, n), sv)
  PROVE  Sound(LinkMove(d, n), sv)
<1> DEFINE f == <<Host, d>>  g == <<n, d>>  c == LinkMove(d, n)
<1>1. f \in Ends /\ g \notin Ends /\ n \in net.spaces
  BY AcceptsIs
<1>2. PICK k \in net.veths, e \in Links :
           /\ k = {f, e} /\ e # f /\ e # g
           /\ net' \in ANet
           /\ net'.veths = (net.veths \ {k}) \cup {{g, e}}
           /\ Ends' = (Ends \ {f}) \cup {g}
           /\ net'.up = net.up \ {f}
           /\ net'.addrs  = {x \in net.addrs  : x[1] # f}
           /\ net'.routes = {x \in net.routes : x[1] # f}
           /\ net'.spaces = net.spaces /\ net'.managed = net.managed
           /\ net'.forward = net.forward /\ net'.rules = net.rules /\ net'.snat = net.snat
  <2>1. PICK w : w = net'
    OBVIOUS
  <2>2. w = Moved(d, n)
    BY <2>1 DEF After, LinkMove
  <2>3. QED
    BY <1>1, <2>1, <2>2, MovedIs DEF Ends
<1>3. /\ c.cmd = "link_move" /\ c.dev = d /\ c.to = n /\ f \in Links /\ g \in Links
      /\ f # g /\ f[1] = Host /\ g[1] = n /\ \A x : g = <<Host, x>> => FALSE
  BY NullAssumption DEF LinkMove, Links, Places
<1>4. f = <<Host, c.dev>> /\ g = <<c.to, c.dev>>
  BY <1>3
<1> HIDE DEF f, g, c
<1>5. PairsInv'
  <2>1. \A m \in net.veths : g \notin m
    BY <1>1 DEF Ends
  <2>2. \A m \in net.veths : m # k => e \notin m
    BY <1>2 DEF NetInv, PairsInv
  <2>3. \A m \in net.veths : m # k => m \cap {g, e} = {}
    BY <2>1, <2>2
  <2>4. QED
    BY <1>2, <1>3, <2>3 DEF NetInv, PairsInv
<1>6. EndsInv' /\ AddrsInv'
  BY <1>1, <1>2, <1>3 DEF NetInv, EndsInv, AddrsInv
<1>7. Spares(c)
  <2>1. \A x : x # f => Stays(x)
    BY <1>2 DEF Stays
  <2>2. \A m \in net.veths : m = k \/ (m \in net'.veths /\ f \notin m)
    BY <1>2 DEF NetInv, PairsInv
  <2>3. QED
    BY <1>2, <1>3, <1>4, <2>1, <2>2 DEF Spares, Touches
<1>8. Tables(c, sv)
  BY <1>2, <1>3 DEF Tables
<1>9. Moves(c)
  <2>1. ASSUME NEW x \in Links, {f, x} \in net.veths, x # f PROVE {g, x} \in net'.veths
    <3>1. x = e
      BY <1>2, <2>1 DEF NetInv, PairsInv
    <3>2. QED
      BY <1>2, <3>1
  <2>2. QED
    BY <1>4, <2>1 DEF Moves
<1>10. QED
  BY <1>2, <1>3, <1>5, <1>6, <1>7, <1>8, <1>9 DEF c, NetInv, Sound, Effect

\* `ip link set ... up` makes an end go up.
LEMMA LinkUpSound ==
  ASSUME NetInv, NEW x \in Places, NEW d \in Devs, NEW sv,
         Accepts(LinkUp(x, d)), net' = After(LinkUp(x, d), sv)
  PROVE  Sound(LinkUp(x, d), sv)
<1> DEFINE e == <<x, d>>  c == LinkUp(x, d)
<1>1. e \in Ends /\ e \in Links
  BY AcceptsIs DEF Links
<1>2. net' = [net EXCEPT !.up = net.up \cup {e}]
  BY DEF After, LinkUp
<1>3. c.cmd = "link_up" /\ c.end = e
  BY DEF LinkUp
<1> HIDE DEF e, c
<1>4. /\ net'.up = net.up \cup {e} /\ net' \in ANet /\ net'.veths = net.veths
      /\ net'.addrs = net.addrs /\ net'.routes = net.routes /\ net'.spaces = net.spaces
      /\ net'.forward = net.forward /\ net'.rules = net.rules /\ net'.snat = net.snat
  BY <1>1, <1>2 DEF NetInv, ANet
<1>5. NetInv' /\ Ends' = Ends
  BY <1>1, <1>4, SamePairs
<1>6. QED
  BY <1>3, <1>4, <1>5 DEF c, Sound, Spares, Stays, Tables, Moves, Effect

\* `ip addr add` gives an address that npte assigns to that interface.
LEMMA AddrAddSound ==
  ASSUME NetInv, NEW x \in Assigned, NEW sv,
         Accepts(AddrAdd(x[1][1], x[1][2], x[2])),
         net' = After(AddrAdd(x[1][1], x[1][2], x[2]), sv)
  PROVE  Sound(AddrAdd(x[1][1], x[1][2], x[2]), sv)
<1> DEFINE c == AddrAdd(x[1][1], x[1][2], x[2])
<1>1. /\ x = <<x[1], x[2]>> /\ x[1] = <<x[1][1], x[1][2]>>
      /\ x[1] \in Links /\ x[2] \in Addrs
  BY DEF Assigned, Links, Addrs, Places, Names, Devs, Nets
<1>2. x[1] \in Ends
  BY <1>1, AcceptsIs
<1>3. net' = [net EXCEPT !.addrs = net.addrs \cup {x}]
  BY <1>1 DEF After, AddrAdd
<1>4. c.cmd = "addr_add" /\ <<c.end, c.addr>> = x
  BY <1>1 DEF AddrAdd
<1> HIDE DEF c
<1>5. x \in Links \X Addrs
  BY <1>1
<1>6. /\ net'.addrs = net.addrs \cup {x} /\ net' \in ANet /\ net'.veths = net.veths
      /\ net'.up = net.up /\ net'.routes = net.routes /\ net'.spaces = net.spaces
      /\ net'.forward = net.forward /\ net'.rules = net.rules /\ net'.snat = net.snat
  BY <1>3, <1>5 DEF NetInv, ANet
<1>7. NetInv' /\ Ends' = Ends
  BY <1>2, <1>6, SamePairs DEF NetInv
<1>8. QED
  BY <1>4, <1>6, <1>7 DEF c, Sound, Spares, Stays, Tables, Moves, Effect

\* `ip route add default via` takes an interface in the subnet of the gateway.
LEMMA RouteAddSound ==
  ASSUME NetInv, NEW n \in Names, NEW a \in Addrs, NEW sv,
         Accepts(RouteAdd(n, a)), net' = After(RouteAdd(n, a), sv)
  PROVE  Sound(RouteAdd(n, a), sv)
<1> DEFINE c == RouteAdd(n, a)
<1>1. PICK e \in Outlets(n, a) : net' = [net EXCEPT !.routes = net.routes \cup {<<e, a>>}]
  <2>1. PICK e : e = CHOOSE o \in Outlets(n, a) : TRUE
    OBVIOUS
  <2>2. e \in Outlets(n, a)
    BY <2>1, AcceptsIs
  <2>3. net' = [net EXCEPT !.routes = net.routes \cup {<<e, a>>}]
    BY <2>1 DEF After, RouteAdd
  <2>4. QED
    BY <2>2, <2>3
<1>2. /\ e \in net.up /\ e \in Ends /\ e \in Links /\ e[1] = n
      /\ \E y \in net.addrs : y[1] = e /\ y[2][1] = a[1]
  BY DEF Outlets, NetInv, EndsInv, ANet
<1>3. c.cmd = "route_add" /\ c.name = n /\ c.via = a
  BY DEF RouteAdd
<1> HIDE DEF c
<1>4. /\ net'.routes = net.routes \cup {<<e, a>>} /\ net' \in ANet /\ net'.veths = net.veths
      /\ net'.up = net.up /\ net'.addrs = net.addrs /\ net'.spaces = net.spaces
      /\ net'.forward = net.forward /\ net'.rules = net.rules /\ net'.snat = net.snat
  BY <1>1, <1>2 DEF NetInv, ANet
<1>5. NetInv' /\ Ends' = Ends
  BY <1>2, <1>4, SamePairs
<1>6. DefaultVia(n, a)'
  <2>1. <<e, a>> \in net'.routes /\ <<e, a>>[1] = e /\ <<e, a>>[2] = a
    BY <1>4
  <2>2. \E x \in net'.routes : x[1][1] = n /\ x[2] = a
    BY <1>2, <2>1
  <2>3. QED
    BY <2>2 DEF DefaultVia
<1>7. Effect(c)'
  BY <1>3, <1>6 DEF c, Effect, RouteAdd
<1>8. QED
  BY <1>3, <1>4, <1>5, <1>7 DEF c, Sound, Spares, Stays, Tables, Moves

\* `ip link del` takes the pair away with all that its ends have.
LEMMA LinkDelSound ==
  ASSUME NetInv, NEW d \in Names, NEW sv, net' = After(LinkDel(d), sv)
  PROVE  Sound(LinkDel(d), sv)
<1> DEFINE f == <<Host, d>>  c == LinkDel(d)  pairs == PairsAt(f)
<1>1. pairs \in SUBSET net.veths /\ f \in Links
  BY DEF PairsAt, Links, Places, Devs
<1>2. net' = Without(pairs)
  BY DEF After, LinkDel
<1>3. c.cmd = "link_del" /\ f = <<Host, c.dev>>
  BY DEF LinkDel
<1>4. \A k \in net.veths : k \in pairs <=> f \in k
  BY DEF PairsAt
<1> HIDE DEF f, c, pairs
<1>5. /\ net' \in ANet
      /\ net'.veths = net.veths \ pairs
      /\ Ends' = Ends \ UNION pairs
      /\ net'.up = net.up \ UNION pairs
      /\ net'.addrs  = {x \in net.addrs  : x[1] \notin UNION pairs}
      /\ net'.routes = {x \in net.routes : x[1] \notin UNION pairs}
      /\ net'.spaces = net.spaces /\ net'.managed = net.managed
      /\ net'.forward = net.forward /\ net'.rules = net.rules /\ net'.snat = net.snat
  <2>1. PICK w : w = net'
    OBVIOUS
  <2>2. w = Without(pairs)
    BY <1>2, <2>1
  <2>3. QED
    BY <1>1, <2>1, <2>2, WithoutIs DEF Ends
<1>6. PairsInv' /\ EndsInv' /\ AddrsInv'
  BY <1>5 DEF NetInv, PairsInv, EndsInv, AddrsInv
<1>7. Spares(c)
  <2>1. ASSUME NEW k \in net.veths, ~Touches(c, k)
        PROVE  k \in net'.veths /\ \A e \in k : Stays(e)
    <3>1. k \notin pairs
      BY <1>3, <1>4, <2>1 DEF Touches
    <3>2. \A e \in k : e \notin UNION pairs
      BY <1>1, <3>1 DEF NetInv, PairsInv
    <3>3. QED
      BY <1>5, <3>1, <3>2 DEF Stays
  <2>2. QED
    BY <1>3, <2>1 DEF Spares
<1>8. f \notin Ends'
  BY <1>4, <1>5 DEF Ends
<1>9. QED
  BY <1>3, <1>5, <1>6, <1>7, <1>8 DEF c, NetInv, Sound, Tables, Moves, Effect

\* `ip netns del` takes away the pairs that have an end in there.
LEMMA NetnsDelSound ==
  ASSUME NetInv, NEW n \in Names, NEW sv, net' = After(NetnsDel(n), sv)
  PROVE  Sound(NetnsDel(n), sv)
<1> DEFINE c == NetnsDel(n)  pairs == {k \in net.veths : \E e \in k : e[1] = n}
<1>1. pairs \in SUBSET net.veths
  OBVIOUS
<1>2. net' = [Without(pairs) EXCEPT !.spaces = @ \ {n}, !.snat = @ \ {n}]
  BY DEF After, NetnsDel
<1>3. c.cmd = "netns_del" /\ c.name = n
  BY DEF NetnsDel
<1>4. \A k \in net.veths : k \in pairs <=> \E e \in k : e[1] = n
  OBVIOUS
<1> HIDE DEF c, pairs
<1>5. /\ net' \in ANet
      /\ net'.veths = net.veths \ pairs
      /\ Ends' = Ends \ UNION pairs
      /\ net'.up = net.up \ UNION pairs
      /\ net'.addrs  = {x \in net.addrs  : x[1] \notin UNION pairs}
      /\ net'.routes = {x \in net.routes : x[1] \notin UNION pairs}
      /\ net'.spaces = net.spaces \ {n} /\ net'.snat = net.snat \ {n}
      /\ net'.forward = net.forward /\ net'.rules = net.rules
  <2>1. PICK w : w = Without(pairs)
    OBVIOUS
  <2>2. /\ w \in ANet
        /\ w.veths = net.veths \ pairs
        /\ UNION w.veths = Ends \ UNION pairs
        /\ w.up = net.up \ UNION pairs
        /\ w.addrs  = {x \in net.addrs  : x[1] \notin UNION pairs}
        /\ w.routes = {x \in net.routes : x[1] \notin UNION pairs}
        /\ w.spaces = net.spaces /\ w.managed = net.managed /\ w.forward = net.forward
        /\ w.rules = net.rules /\ w.snat = net.snat
    BY <1>1, <2>1, WithoutIs
  <2>3. net' = [w EXCEPT !.spaces = @ \ {n}, !.snat = @ \ {n}]
    BY <1>2, <2>1
  <2>4. /\ net' \in ANet /\ net'.veths = w.veths /\ net'.up = w.up /\ net'.addrs = w.addrs
        /\ net'.routes = w.routes /\ net'.spaces = w.spaces \ {n} /\ net'.snat = w.snat \ {n}
        /\ net'.forward = w.forward /\ net'.rules = w.rules
    <3>1. PICK s \in SUBSET Names, q \in SUBSET Names : s = w.spaces \ {n} /\ q = w.snat \ {n}
      BY <2>2 DEF ANet
    <3>2. net' = [w EXCEPT !.spaces = s, !.snat = q]
      BY <2>3, <3>1
    <3>3. w \in ANet
      BY <2>2
    <3>4. net' \in ANet
      BY <3>2, <3>3 DEF ANet
    <3>5. /\ net'.veths = w.veths /\ net'.up = w.up /\ net'.addrs = w.addrs
          /\ net'.routes = w.routes /\ net'.spaces = s /\ net'.snat = q
          /\ net'.forward = w.forward /\ net'.rules = w.rules
      BY <3>2, <3>3 DEF ANet
    <3>6. QED
      BY <3>1, <3>4, <3>5
  <2>5. QED
    BY <2>2, <2>4 DEF Ends
<1>6. \A e \in Ends' : e[1] # n
  BY <1>4, <1>5 DEF Ends
<1>7. PairsInv' /\ EndsInv' /\ AddrsInv'
  BY <1>5, <1>6 DEF NetInv, PairsInv, EndsInv, AddrsInv
<1>8. Spares(c)
  <2>1. ASSUME NEW k \in net.veths, ~Touches(c, k)
        PROVE  k \in net'.veths /\ \A e \in k : Stays(e)
    <3>1. k \notin pairs
      BY <1>3, <1>4, <2>1 DEF Touches
    <3>2. \A e \in k : e \notin UNION pairs
      BY <1>1, <3>1 DEF NetInv, PairsInv
    <3>3. QED
      BY <1>5, <3>1, <3>2 DEF Stays
  <2>2. QED
    BY <1>3, <2>1 DEF Spares
<1>9. QED
  BY <1>3, <1>5, <1>7, <1>8 DEF c, NetInv, Sound, Tables, Moves, Effect

\* What touches no interface.
LEMMA TableSound ==
  ASSUME NetInv, NEW n \in Names, NEW k \in Kinds, NEW sv \in SUBSET (Names \X Kinds),
         NEW c \in {NetnsAdd(n), Register(n), Unregister(n), SnatAdd(n), Restore(n),
                    RuleAdd(n, k), Forward, Save},
         net' = After(c, sv)
  PROVE  Sound(c, sv)
<1> USE DEF Swept
<1> DEFINE Same == /\ net' \in ANet /\ net'.veths = net.veths /\ net'.up = net.up
                   /\ net'.addrs = net.addrs /\ net'.routes = net.routes
                   /\ net.spaces \subseteq net'.spaces
           Table == /\ c.cmd \notin {"link_up", "addr_add", "route_add", "link_del", "link_move",
                                     "link_add", "netns_del"}
                    /\ net.forward => net'.forward
                    /\ c.cmd = "restore" \/ net.rules \subseteq net'.rules
                    /\ c.cmd \in {"restore", "rule_add"} \/ net'.rules = net.rules
                    /\ c.cmd = "restore" => net'.rules = Swept(sv, c.name)
                    /\ net.snat \subseteq net'.snat
                    /\ c.cmd = "forward"   => net'.forward
                    /\ c.cmd = "rule_add"  => c.rule \in net'.rules
                    /\ c.cmd = "snat_add"  => c.name \in net'.snat
<1>0. net \in ANet
  BY DEF NetInv
<1>1. ASSUME c = NetnsAdd(n) PROVE Same /\ Table
  <2>1. net' = [net EXCEPT !.spaces = @ \cup {n}]
    BY <1>1 DEF After, NetnsAdd
  <2>2. QED
    BY <1>0, <1>1, <2>1 DEF ANet, NetnsAdd
<1>2. ASSUME c = Register(n) PROVE Same /\ Table
  <2>1. net' = [net EXCEPT !.managed = @ \cup {n}]
    BY <1>2 DEF After, Register
  <2>2. QED
    BY <1>0, <1>2, <2>1 DEF ANet, Register
<1>3. ASSUME c = Unregister(n) PROVE Same /\ Table
  <2>1. net' = [net EXCEPT !.managed = @ \ {n}]
    BY <1>3 DEF After, Unregister
  <2>2. QED
    BY <1>0, <1>3, <2>1 DEF ANet, Unregister
<1>4. ASSUME c = SnatAdd(n) PROVE Same /\ Table
  <2>1. net' = [net EXCEPT !.snat = @ \cup {n}]
    BY <1>4 DEF After, SnatAdd
  <2>2. QED
    BY <1>0, <1>4, <2>1 DEF ANet, SnatAdd
<1>5. ASSUME c = Restore(n) PROVE Same /\ Table
  <2>1. net' = [net EXCEPT !.rules = Swept(sv, n)]
    BY <1>5 DEF After, Restore
  <2>2. QED
    BY <1>0, <1>5, <2>1 DEF ANet, Restore
<1>6. ASSUME c = RuleAdd(n, k) PROVE Same /\ Table
  <2>1. net' = [net EXCEPT !.rules = @ \cup {<<n, k>>}]
    BY <1>6 DEF After, RuleAdd
  <2>2. QED
    BY <1>0, <1>6, <2>1 DEF ANet, RuleAdd
<1>7. ASSUME c = Forward PROVE Same /\ Table
  <2>1. net' = [net EXCEPT !.forward = TRUE]
    BY <1>7 DEF After, Forward
  <2>2. QED
    BY <1>0, <1>7, <2>1 DEF ANet, Forward
<1>8. ASSUME c = Save PROVE Same /\ Table
  <2>1. net' = net
    BY <1>8 DEF After, Save
  <2>2. QED
    BY <1>0, <1>8, <2>1 DEF Save
<1>9. Same /\ Table
  BY <1>1, <1>2, <1>3, <1>4, <1>5, <1>6, <1>7, <1>8
<1>10. NetInv' /\ Ends' = Ends
  BY <1>9, SamePairs
<1>11. QED
  BY <1>9, <1>10 DEF Sound, Spares, Stays, Tables, Moves, Effect

\* Every command does what it should, and no more.
LEMMA CommandSound ==
  ASSUME NetInv, NEW c, Good(c), NEW sv \in SUBSET (Names \X Kinds), Accepts(c),
         net' = After(c, sv)
  PROVE  Sound(c, sv)
<1>1. ASSUME NEW d \in Devs, NEW e \in Devs, c = LinkAdd(d, e) PROVE Sound(c, sv)
  BY <1>1, LinkAddSound
<1>2. ASSUME NEW d \in Devs, NEW n \in Names, c = LinkMove(d, n) PROVE Sound(c, sv)
  BY <1>2, LinkMoveSound
<1>3. ASSUME NEW x \in Places, NEW d \in Devs, c = LinkUp(x, d) PROVE Sound(c, sv)
  BY <1>3, LinkUpSound
<1>4. ASSUME NEW d \in Names, c = LinkDel(d) PROVE Sound(c, sv)
  BY <1>4, LinkDelSound
<1>5. ASSUME NEW a \in Assigned, c = AddrAdd(a[1][1], a[1][2], a[2]) PROVE Sound(c, sv)
  BY <1>5, AddrAddSound
<1>6. ASSUME NEW n \in Names, NEW a \in Addrs, c = RouteAdd(n, a) PROVE Sound(c, sv)
  BY <1>6, RouteAddSound
<1>7. ASSUME NEW n \in Names, c = NetnsDel(n) PROVE Sound(c, sv)
  BY <1>7, NetnsDelSound
<1>8. ASSUME NEW n \in Names, NEW k \in Kinds,
             c \in {NetnsAdd(n), Register(n), Unregister(n), SnatAdd(n), Restore(n),
                    RuleAdd(n, k), Forward, Save}
      PROVE  Sound(c, sv)
  BY <1>8, TableSound
<1>9. "client" \in Names /\ "forward_to" \in Kinds
  BY DEF Names, Kinds
<1>10. QED
  BY <1>1, <1>2, <1>3, <1>4, <1>5, <1>6, <1>7, <1>8, <1>9 DEF Good

-----------------------------------------------------------------------------
(* The programs.                                                           *)

Leaves  == {"client", "server"}
Slot(l) == IF l = "client" THEN 4 ELSE 5

LabJob(j)     == j.tool = "lab" /\ j.does = "create"
GatewayJob(j) == j.tool = "gateway" /\ j.does = "create"

\* The invocations of `npte lab create`,
LEMMA LabCreateIs ==
  /\ Len(LabCreate) = 11
  /\ LabCreate[1] = NetnsCreate("client") /\ LabCreate[2] = NetnsCreate("router")
  /\ LabCreate[3] = NetnsCreate("server")
  /\ LabCreate[4] = Connect("client", "router") /\ LabCreate[5] = Connect("server", "router")
  /\ LabCreate[6] = AssignAddr("client", "router", <<"net3", 2>>)
  /\ LabCreate[7] = AssignAddr("router", "client", <<"net3", 1>>)
  /\ LabCreate[8] = AssignAddr("server", "router", <<"net2", 2>>)
  /\ LabCreate[9] = AssignAddr("router", "server", <<"net2", 1>>)
  /\ LabCreate[10] = AddRoute("client", <<"net3", 1>>)
  /\ LabCreate[11] = AddRoute("server", <<"net2", 1>>)
BY DEF LabCreate

\* and of `npte lab destroy`.
LEMMA LabDestroyIs ==
  /\ Len(LabDestroy) = 3
  /\ LabDestroy[1] = NetnsDestroy("client") /\ LabDestroy[2] = NetnsDestroy("server")
  /\ LabDestroy[3] = NetnsDestroy("router")
BY DEF LabDestroy

\* The jobs that there are.
LEMMA JobIs ==
  ASSUME NEW j \in Jobs
  PROVE  /\ j.tool \in {"lab", "netns", "gateway"} /\ j.does \in {"create", "destroy"}
         /\ j.name \in Names
BY GatewaysAssumption DEF Jobs, Names

\* What each of them invokes.
LEMMA InvocationsAre ==
  ASSUME NEW j \in Jobs
  PROVE  /\ LabJob(j) => Invocations(j) = LabCreate
         /\ j.tool = "lab" /\ j.does = "destroy" => Invocations(j) = LabDestroy
         /\ j.tool = "netns" /\ j.does = "create"  => Invocations(j) = <<NetnsCreate(j.name)>>
         /\ j.tool = "netns" /\ j.does = "destroy" => Invocations(j) = <<NetnsDestroy(j.name)>>
         /\ GatewayJob(j) => Invocations(j) = <<GatewayCreate(j.name)>>
         /\ j.tool = "gateway" /\ j.does = "destroy" => Invocations(j) = <<GatewayDestroy(j.name)>>
BY JobIs DEF Invocations, LabJob, GatewayJob

\* The invocations that there are.
LEMMA InvocationIs ==
  ASSUME NEW j \in Jobs, NEW i \in 1..Len(Invocations(j)), NEW v, v = Invocations(j)[i]
  PROVE  \/ /\ j.does = "create" /\ j.tool # "gateway" /\ i \notin {4, 5}
            /\ \E n \in Names : v = NetnsCreate(n)
         \/ /\ j.does = "destroy" /\ j.tool # "gateway"
            /\ \E n \in Names : v = NetnsDestroy(n)
         \/ LabJob(j) /\ \E l \in Leaves : i = Slot(l) /\ v = Connect(l, "router")
         \/ /\ LabJob(j) /\ i \notin {4, 5}
            /\ \E a \in Assigned : a[1][1] \in Names /\ v = AssignAddr(a[1][1], a[1][2], a[2])
         \/ /\ LabJob(j) /\ i \notin {4, 5}
            /\ \E n \in Names, a \in Addrs : v = AddRoute(n, a)
         \/ GatewayJob(j) /\ i = 1 /\ v = GatewayCreate(j.name)
         \/ j.tool = "gateway" /\ j.does = "destroy" /\ i = 1 /\ v = GatewayDestroy(j.name)
<1>1. CASE LabJob(j)
  <2>1. i \in 1..11 /\ v = LabCreate[i]
    BY <1>1, InvocationsAre, LabCreateIs
  <2>2. CASE i \in 1..3
    <3>1. \E n \in Names : v = NetnsCreate(n)
      BY <2>1, <2>2, LabCreateIs DEF Names
    <3>2. QED
      BY <1>1, <2>2, <3>1 DEF LabJob
  <2>3. CASE i \in 4..5
    <3>1. \E l \in Leaves : i = Slot(l) /\ v = Connect(l, "router")
      BY <2>1, <2>3, LabCreateIs DEF Leaves, Slot
    <3>2. QED
      BY <1>1, <3>1
  <2>4. CASE i \in 6..9
    <3>1. ASSUME NEW n \in Names, NEW m \in Names, NEW b, <<<<n, m>>, b>> \in Assigned,
                 v = AssignAddr(n, m, b)
          PROVE  \E a \in Assigned : a[1][1] \in Names /\ v = AssignAddr(a[1][1], a[1][2], a[2])
      BY <3>1
    <3>2. /\ <<<<"client", "router">>, <<"net3", 2>>>> \in Assigned
          /\ <<<<"router", "client">>, <<"net3", 1>>>> \in Assigned
          /\ <<<<"server", "router">>, <<"net2", 2>>>> \in Assigned
          /\ <<<<"router", "server">>, <<"net2", 1>>>> \in Assigned
          /\ "client" \in Names /\ "router" \in Names /\ "server" \in Names
      BY DEF Assigned, Names
    <3>3. i = 6 \/ i = 7 \/ i = 8 \/ i = 9
      BY <2>4
    <3>4. \E a \in Assigned : a[1][1] \in Names /\ v = AssignAddr(a[1][1], a[1][2], a[2])
      BY <2>1, <3>1, <3>2, <3>3, LabCreateIs
    <3>5. QED
      BY <1>1, <2>4, <3>4
  <2>5. CASE i \in 10..11
    <3>1. <<"net3", 1>> \in Addrs /\ <<"net2", 1>> \in Addrs
      BY DEF Addrs, Nets
    <3>2. \E n \in Names, a \in Addrs : v = AddRoute(n, a)
      BY <2>1, <2>5, <3>1, LabCreateIs DEF Names
    <3>3. QED
      BY <1>1, <2>5, <3>2
  <2>6. QED
    BY <2>1, <2>2, <2>3, <2>4, <2>5
<1>2. CASE j.tool = "lab" /\ j.does = "destroy"
  <2>1. i \in 1..3 /\ v = LabDestroy[i]
    BY <1>2, InvocationsAre, LabDestroyIs
  <2>2. \E n \in Names : v = NetnsDestroy(n)
    BY <2>1, LabDestroyIs DEF Names
  <2>3. QED
    BY <1>2, <2>2
<1>3. CASE j.tool = "netns"
  BY <1>3, InvocationsAre, JobIs
<1>4. CASE j.tool = "gateway"
  BY <1>4, InvocationsAre, JobIs DEF GatewayJob
<1>5. QED
  BY <1>1, <1>2, <1>3, <1>4, JobIs DEF LabJob

\* Their commands.
LEMMA ProgramsAre ==
  /\ \A n : /\ Len(NetnsCreate(n).prog) = 2 /\ NetnsCreate(n).locked
            /\ NetnsCreate(n).prog[1] = NetnsAdd(n) /\ NetnsCreate(n).prog[2] = Register(n)
  /\ \A n : /\ Len(NetnsDestroy(n).prog) = 2 /\ NetnsDestroy(n).locked
            /\ NetnsDestroy(n).prog[1] = NetnsDel(n) /\ NetnsDestroy(n).prog[2] = Unregister(n)
  /\ \A n, d, a : /\ Len(AssignAddr(n, d, a).prog) = 1 /\ AssignAddr(n, d, a).locked
                  /\ AssignAddr(n, d, a).prog[1] = AddrAdd(n, d, a)
  /\ \A n, a : /\ Len(AddRoute(n, a).prog) = 1 /\ AddRoute(n, a).locked
               /\ AddRoute(n, a).prog[1] = RouteAdd(n, a)
BY DEF NetnsCreate, NetnsDestroy, AssignAddr, AddRoute, Netns

\* The commands of `npte netns connect`,
LEMMA ConnectIs ==
  ASSUME NEW l, NEW r
  PROVE  /\ Connect(l, r).locked /\ Len(Connect(l, r).prog) = 5
         /\ Connect(l, r).prog[1] = LinkAdd(r, l)
         /\ Connect(l, r).prog[2] = LinkMove(r, l)
         /\ Connect(l, r).prog[3] = LinkMove(l, r)
         /\ Connect(l, r).prog[4] = LinkUp(l, r)
         /\ Connect(l, r).prog[5] = LinkUp(r, l)
BY DEF Connect, Netns

\* of `npte gateway create`,
LEMMA GatewayCreateIs ==
  ASSUME NEW n
  PROVE  /\ ~GatewayCreate(n).locked /\ Len(GatewayCreate(n).prog) = 12
         /\ GatewayCreate(n).prog[1] = LinkAdd(n, "host")
         /\ GatewayCreate(n).prog[2] = LinkMove("host", n)
         /\ GatewayCreate(n).prog[3] = AddrAdd(Host, n, <<n, 1>>)
         /\ GatewayCreate(n).prog[4] = AddrAdd(n, "host", <<n, 2>>)
         /\ GatewayCreate(n).prog[5] = LinkUp(Host, n)
         /\ GatewayCreate(n).prog[6] = LinkUp(n, "host")
         /\ GatewayCreate(n).prog[7] = RouteAdd(n, <<n, 1>>)
         /\ GatewayCreate(n).prog[8] = Forward
         /\ GatewayCreate(n).prog[9] = RuleAdd(n, "masquerade")
         /\ GatewayCreate(n).prog[10] = RuleAdd(n, "forward_from")
         /\ GatewayCreate(n).prog[11] = RuleAdd(n, "forward_to")
         /\ GatewayCreate(n).prog[12] = SnatAdd(n)
BY DEF GatewayCreate, Unlocked

\* and of `npte gateway destroy`.
LEMMA GatewayDestroyIs ==
  ASSUME NEW n
  PROVE  /\ ~GatewayDestroy(n).locked /\ Len(GatewayDestroy(n).prog) = 3
         /\ GatewayDestroy(n).prog[1] = Save /\ GatewayDestroy(n).prog[2] = Restore(n)
         /\ GatewayDestroy(n).prog[3] = LinkDel(n)
BY DEF GatewayDestroy, Unlocked

\* What is known of a command, the k-th of the i-th invocation of a job.
Fits(j, i, k, c) ==
  /\ c.cmd \in {"link_add", "link_move"} =>
       \/ LabJob(j) /\ \E l \in Leaves : i = Slot(l) /\
            \/ k = 1 /\ c = LinkAdd("router", l)
            \/ k = 2 /\ c = LinkMove("router", l)
            \/ k = 3 /\ c = LinkMove(l, "router")
       \/ GatewayJob(j) /\ i = 1 /\
            \/ k = 1 /\ c = LinkAdd(j.name, "host")
            \/ k = 2 /\ c = LinkMove("host", j.name)
  /\ c.cmd \in {"netns_del", "link_del", "restore"} => j.does = "destroy"
  /\ c.cmd \in {"link_del", "restore"} => j.tool = "gateway"
  /\ c.cmd = "netns_del" => j.tool # "gateway"
  /\ c.cmd \in {"link_up", "addr_add"} =>
       \/ LabJob(j) /\ c.end[1] \in Names
       \/ GatewayJob(j) /\ c.end \in {<<Host, j.name>>, <<j.name, "host">>}
  /\ c.cmd = "route_add" => c.name \in Names

\* Every command of every job is known in this way.
LEMMA CommandIs ==
  ASSUME NEW j \in Jobs, NEW i \in 1..Len(Invocations(j)), NEW v, v = Invocations(j)[i],
         NEW k \in 1..Len(v.prog), NEW c, c = v.prog[k]
  PROVE  Good(c) /\ Fits(j, i, k, c)
<1> USE JobIs
<1>1. ASSUME NEW n \in Names, v = NetnsCreate(n), j.does = "create" PROVE Good(c) /\ Fits(j, i, k, c)
  <2>1. c = NetnsAdd(n) \/ c = Register(n)
    BY <1>1, ProgramsAre
  <2>2. QED
    BY <2>1 DEF Good, Fits, NetnsAdd, Register
<1>2. ASSUME NEW n \in Names, v = NetnsDestroy(n), j.does = "destroy", j.tool # "gateway"
      PROVE  Good(c) /\ Fits(j, i, k, c)
  <2>1. c = NetnsDel(n) \/ c = Unregister(n)
    BY <1>2, ProgramsAre
  <2>2. QED
    BY <1>2, <2>1 DEF Good, Fits, NetnsDel, Unregister
<1>3. ASSUME NEW l \in Leaves, i = Slot(l), v = Connect(l, "router"), LabJob(j)
      PROVE  Good(c) /\ Fits(j, i, k, c)
  <2>1. k = 1 \/ k = 2 \/ k = 3 \/ k = 4 \/ k = 5
    BY <1>3, ConnectIs
  <2>2. l \in Names /\ l \in Devs /\ "router" \in Names /\ "router" \in Devs
    BY DEF Leaves, Names, Devs
  <2>3. CASE k = 1
    <3>1. c = LinkAdd("router", l)
      BY <1>3, <2>3, ConnectIs
    <3>2. Good(c)
      BY <2>2, <3>1 DEF Good
    <3>3. c.cmd = "link_add"
      BY <3>1 DEF LinkAdd
    <3>4. QED
      BY <1>3, <2>3, <3>1, <3>2, <3>3 DEF Fits
  <2>4. CASE k = 2
    <3>1. c = LinkMove("router", l)
      BY <1>3, <2>4, ConnectIs
    <3>2. Good(c)
      BY <2>2, <3>1 DEF Good
    <3>3. c.cmd = "link_move"
      BY <3>1 DEF LinkMove
    <3>4. QED
      BY <1>3, <2>4, <3>1, <3>2, <3>3 DEF Fits
  <2>5. CASE k = 3
    <3>1. c = LinkMove(l, "router")
      BY <1>3, <2>5, ConnectIs
    <3>2. Good(c)
      BY <2>2, <3>1 DEF Good
    <3>3. c.cmd = "link_move"
      BY <3>1 DEF LinkMove
    <3>4. QED
      BY <1>3, <2>5, <3>1, <3>2, <3>3 DEF Fits
  <2>6. CASE k \in {4, 5}
    <3>1. c = LinkUp(l, "router") \/ c = LinkUp("router", l)
      BY <1>3, <2>6, ConnectIs
    <3>2. Good(c)
      BY <2>2, <3>1 DEF Good, Places
    <3>3. c.cmd = "link_up" /\ c.end[1] \in Names
      BY <2>2, <3>1 DEF LinkUp
    <3>4. QED
      BY <1>3, <3>2, <3>3 DEF Fits
  <2>7. QED
    BY <2>1, <2>3, <2>4, <2>5, <2>6
<1>4. ASSUME NEW a \in Assigned, a[1][1] \in Names, v = AssignAddr(a[1][1], a[1][2], a[2]),
             LabJob(j)
      PROVE  Good(c) /\ Fits(j, i, k, c)
  <2>1. c = AddrAdd(a[1][1], a[1][2], a[2])
    BY <1>4, ProgramsAre
  <2>2. Good(c)
    BY <2>1 DEF Good
  <2>3. c.cmd = "addr_add" /\ c.end[1] \in Names
    BY <1>4, <2>1 DEF AddrAdd
  <2>4. QED
    BY <1>4, <2>2, <2>3 DEF Fits
<1>5. ASSUME NEW n \in Names, NEW a \in Addrs, v = AddRoute(n, a) PROVE Good(c) /\ Fits(j, i, k, c)
  <2>1. c = RouteAdd(n, a)
    BY <1>5, ProgramsAre
  <2>2. Good(c)
    BY <2>1 DEF Good
  <2>3. c.cmd = "route_add" /\ c.name \in Names
    BY <2>1 DEF RouteAdd
  <2>4. QED
    BY <2>2, <2>3 DEF Fits
<1>6. ASSUME GatewayJob(j), i = 1, v = GatewayCreate(j.name) PROVE Good(c) /\ Fits(j, i, k, c)
  <2> DEFINE n == j.name
  <2>1. n \in Names /\ n \in Devs /\ "host" \in Devs /\ n \in Places /\ Host \in Places
    BY JobIs DEF Devs, Places
  <2>2. k \in 1..12
    <3>1. PICK m : m = j.name
      OBVIOUS
    <3>2. Len(GatewayCreate(m).prog) = 12
      BY GatewayCreateIs
    <3>3. QED
      BY <1>6, <3>1, <3>2
  <2>3. CASE k = 1
    <3>0. c = LinkAdd(n, "host")
      BY <1>6, <2>3, GatewayCreateIs
    <3>1. c = LinkAdd(n, "host") /\ c.cmd = "link_add"
      BY <3>0 DEF LinkAdd
    <3>2. Good(c)
      BY <2>1, <3>1 DEF Good
    <3>3. QED
      BY <1>6, <2>3, <3>1, <3>2 DEF Fits
  <2>4. CASE k = 2
    <3>0. c = LinkMove("host", n)
      BY <1>6, <2>4, GatewayCreateIs
    <3>1. c = LinkMove("host", n) /\ c.cmd = "link_move"
      BY <3>0 DEF LinkMove
    <3>2. Good(c)
      BY <2>1, <3>1 DEF Good
    <3>3. QED
      BY <1>6, <2>4, <3>1, <3>2 DEF Fits
  <2>5. CASE k \in {3, 4}
    <3>1. PICK a \in {<<<<Host, n>>, <<n, 1>>>>, <<<<n, "host">>, <<n, 2>>>>} :
            c = AddrAdd(a[1][1], a[1][2], a[2])
      <4>1. c = AddrAdd(Host, n, <<n, 1>>) \/ c = AddrAdd(n, "host", <<n, 2>>)
        BY <1>6, <2>5, GatewayCreateIs
      <4>2. QED
        BY <4>1
    <3>2. a \in Assigned /\ <<a[1][1], a[1][2]>> = a[1]
      BY <2>1 DEF Assigned
    <3>3. Good(c)
      BY <3>1, <3>2 DEF Good
    <3>4. c.cmd = "addr_add" /\ c.end = a[1]
      BY <3>1, <3>2 DEF AddrAdd
    <3>5. QED
      BY <1>6, <3>1, <3>3, <3>4 DEF Fits
  <2>6. CASE k \in {5, 6}
    <3>1. c = LinkUp(Host, n) \/ c = LinkUp(n, "host")
      BY <1>6, <2>6, GatewayCreateIs
    <3>2. Good(c)
      BY <2>1, <3>1 DEF Good
    <3>3. c.cmd = "link_up" /\ c.end \in {<<Host, n>>, <<n, "host">>}
      BY <3>1 DEF LinkUp
    <3>4. QED
      BY <1>6, <3>2, <3>3 DEF Fits
  <2>7. CASE k = 7
    <3>1. <<n, 1>> \in Addrs
      BY <2>1 DEF Addrs, Nets
    <3>2. c = RouteAdd(n, <<n, 1>>)
      BY <1>6, <2>7, GatewayCreateIs
    <3>3. Good(c)
      BY <2>1, <3>1, <3>2 DEF Good
    <3>4. QED
      BY <2>1, <3>2, <3>3 DEF Fits, RouteAdd
  <2>8. CASE k \in 8..12
    <3>1. k = 8 \/ k = 9 \/ k = 10 \/ k = 11 \/ k = 12
      BY <2>8
    <3>2. \/ c = Forward \/ c = SnatAdd(n)
          \/ c = RuleAdd(n, "masquerade") \/ c = RuleAdd(n, "forward_from")
          \/ c = RuleAdd(n, "forward_to")
      BY <1>6, <3>1, GatewayCreateIs
    <3>3. Good(c)
      BY <2>1, <3>2 DEF Good, Kinds
    <3>4. \A r : RuleAdd(n, r).cmd = "rule_add"
      BY DEF RuleAdd
    <3>5. c.cmd \in {"forward", "rule_add", "snat_add"}
      BY <3>2, <3>4 DEF Forward, SnatAdd
    <3>6. QED
      BY <3>3, <3>5 DEF Fits
  <2>9. QED
    BY <2>2, <2>3, <2>4, <2>5, <2>6, <2>7, <2>8
<1>7. ASSUME j.tool = "gateway", j.does = "destroy", v = GatewayDestroy(j.name)
      PROVE  Good(c) /\ Fits(j, i, k, c)
  <2>1. c = Save \/ c = Restore(j.name) \/ c = LinkDel(j.name)
    BY <1>7, GatewayDestroyIs
  <2>2. j.name \in Names
    BY JobIs
  <2>3. Good(c)
    BY <2>1, <2>2 DEF Good
  <2>4. c.cmd \in {"save", "restore", "link_del"}
    BY <2>1 DEF Save, Restore, LinkDel
  <2>5. QED
    BY <1>7, <2>3, <2>4 DEF Fits
<1>8. QED
  BY <1>1, <1>2, <1>3, <1>4, <1>5, <1>6, <1>7, InvocationIs

\* Who takes the lock, and how many commands there are.
LEMMA LengthIs ==
  ASSUME NEW j \in Jobs
  PROVE  /\ Len(Invocations(j)) \in 1..11
         /\ \A i \in 1..Len(Invocations(j)) :
              /\ Len(Invocations(j)[i].prog) \in Nat \ {0}
              /\ Invocations(j)[i].locked <=> j.tool # "gateway"
<1>1. Len(Invocations(j)) \in 1..11
  BY JobIs, InvocationsAre, LabCreateIs, LabDestroyIs DEF LabJob, GatewayJob
<1>2. ASSUME NEW i \in 1..Len(Invocations(j)), NEW v, v = Invocations(j)[i]
      PROVE  Len(v.prog) \in Nat \ {0} /\ (v.locked <=> j.tool # "gateway")
  <2>1. ASSUME j.tool # "gateway" PROVE Len(v.prog) \in Nat \ {0} /\ v.locked
    <3>1. \/ \E n \in Names : v = NetnsCreate(n) \/ v = NetnsDestroy(n)
          \/ \E l \in Leaves : v = Connect(l, "router")
          \/ \E x, d, a : v = AssignAddr(x, d, a)
          \/ \E n, a : v = AddRoute(n, a)
      BY <1>2, <2>1, InvocationIs DEF GatewayJob
    <3>2. QED
      BY <3>1, ProgramsAre, ConnectIs
  <2>2. ASSUME j.tool = "gateway" PROVE Len(v.prog) \in Nat \ {0} /\ ~v.locked
    <3>1. v = GatewayCreate(j.name) \/ v = GatewayDestroy(j.name)
      BY <1>2, <2>2, InvocationIs DEF LabJob
    <3>2. PICK n : n = j.name
      OBVIOUS
    <3>3. v = GatewayCreate(n) \/ v = GatewayDestroy(n)
      BY <3>1, <3>2
    <3>4. /\ Len(GatewayCreate(n).prog) = 12 /\ ~GatewayCreate(n).locked
          /\ Len(GatewayDestroy(n).prog) = 3 /\ ~GatewayDestroy(n).locked
      BY GatewayCreateIs, GatewayDestroyIs
    <3>5. QED
      BY <3>3, <3>4
  <2>3. QED
    BY <2>1, <2>2
<1>3. QED
  BY <1>1, <1>2

-----------------------------------------------------------------------------
(* The processes.                                                          *)

ProcTypes ==
  /\ lock  \in Procs \cup {NoProc}
  /\ pc    \in [Procs -> {"idle", "enter", "run", "leave", "done"}]
  /\ job   \in [Procs -> Jobs \cup {NoJob}]
  /\ at    \in [Procs -> 1..11]
  /\ step  \in [Procs -> Nat \ {0}]
  /\ code  \in [Procs -> {"ok", "failed", "rejected"}]
  /\ begun \in 0..MaxJobs /\ faults \in 0..MaxFaults
  /\ saved \in [Procs -> SUBSET (Names \X Kinds)]
  /\ spoiled \subseteq Procs

\* Where a process can be in its job.
PlaceInv ==
  \A p \in Procs :
    /\ pc[p] = "idle" <=> job[p] = NoJob
    /\ pc[p] = "idle" => at[p] = 1
    /\ pc[p] \in {"idle", "enter", "done"} => step[p] = 1
    /\ pc[p] \in {"idle", "enter", "run"}  => code[p] = "ok"
    /\ pc[p] # "idle" => at[p] <= Len(Invocations(job[p]))
    /\ pc[p] = "run"  => step[p] <= Len(Invocation(p).prog)
    /\ pc[p] = "done" => code[p] # "ok" \/ at[p] = Len(Invocations(job[p]))

\* Who is in the middle of an invocation that takes the lock holds it.
LockInv == \A p \in Procs : lock = p <=> pc[p] \in {"run", "leave"} /\ job[p].tool # "gateway"

\* Who is idle has none of the jobs.
LEMMA NoJobIs == NoJob \notin Jobs /\ ~LabJob(NoJob) /\ ~GatewayJob(NoJob) /\ NoJob.tool = "none"
<1>1. NoJob.tool = "none"
  BY DEF NoJob
<1>2. QED
  BY <1>1, JobIs DEF LabJob, GatewayJob

\* A process that is not idle has a job.
LEMMA WorkingIs ==
  ASSUME ProcTypes, PlaceInv, NEW p \in Procs, pc[p] # "idle"
  PROVE  /\ job[p] \in Jobs /\ at[p] \in 1..Len(Invocations(job[p]))
         /\ Invocation(p) = Invocations(job[p])[at[p]]
         /\ Len(Invocation(p).prog) \in Nat \ {0}
         /\ Invocation(p).locked <=> job[p].tool # "gateway"
<1>1. job[p] \in Jobs
  BY DEF ProcTypes, PlaceInv
<1>2. PICK j \in Jobs : j = job[p]
  BY <1>1
<1>3. at[p] \in 1..Len(Invocations(j))
  <2>1. at[p] <= Len(Invocations(job[p])) /\ at[p] \in 1..11
    BY DEF ProcTypes, PlaceInv
  <2>2. Len(Invocations(j)) \in 1..11
    BY LengthIs
  <2>3. QED
    BY <1>2, <2>1, <2>2
<1>4. /\ Len(Invocations(j)[at[p]].prog) \in Nat \ {0}
      /\ Invocations(j)[at[p]].locked <=> j.tool # "gateway"
  BY <1>3, LengthIs
<1>5. QED
  BY <1>2, <1>3, <1>4 DEF Invocation

\* One that is at a command runs one that its job has at this place.
LEMMA RunningIs ==
  ASSUME ProcTypes, PlaceInv, NEW p \in Procs, pc[p] = "run"
  PROVE  /\ step[p] \in 1..Len(Invocation(p).prog)
         /\ Good(Command(p)) /\ Fits(job[p], at[p], step[p], Command(p))
<1>1. /\ job[p] \in Jobs /\ at[p] \in 1..Len(Invocations(job[p]))
      /\ Len(Invocation(p).prog) \in Nat
  BY WorkingIs
<1>2. step[p] \in 1..Len(Invocation(p).prog)
  BY <1>1 DEF ProcTypes, PlaceInv
<1>3. PICK j, i, v, k, c : /\ j = job[p] /\ i = at[p] /\ v = Invocations(j)[i] /\ k = step[p]
                           /\ c = v.prog[k]
  OBVIOUS
<1>4. v = Invocation(p) /\ c = Command(p)
  BY <1>3 DEF Invocation, Command
<1>5. Good(c) /\ Fits(j, i, k, c)
  BY <1>1, <1>2, <1>3, <1>4, CommandIs
<1>6. QED
  BY <1>2, <1>3, <1>4, <1>5

\* The network keeps its order.
LEMMA NetStep ==
  ASSUME ProcTypes, PlaceInv, NetInv, [Next]_vars
  PROVE  NetInv'
<1>1. ASSUME UNCHANGED net PROVE NetInv'
  BY <1>1 DEF NetInv, PairsInv, EndsInv, AddrsInv, Ends
<1>2. ASSUME NEW p \in Procs, Run(p) PROVE NetInv'
  <2>1. /\ pc[p] = "run" /\ Accepts(Command(p)) /\ net' = After(Command(p), saved[p])
        /\ saved[p] \in SUBSET (Names \X Kinds)
    BY <1>2 DEF Run, ProcTypes
  <2>2. PICK c : c = Command(p)
    OBVIOUS
  <2>3. Sound(c, saved[p])
    BY <2>1, <2>2, RunningIs, CommandSound
  <2>4. QED
    BY <2>3 DEF Sound
<1>3. QED
  BY <1>1, <1>2 DEF Next, vars, Begin, Enter, Lock, RunFails, Leave, Finish

\* What is known of one process.
PlaceOf(q) ==
  /\ pc[q] = "idle" <=> job[q] = NoJob
  /\ pc[q] = "idle" => at[q] = 1
  /\ pc[q] \in {"idle", "enter", "done"} => step[q] = 1
  /\ pc[q] \in {"idle", "enter", "run"}  => code[q] = "ok"
  /\ pc[q] # "idle" => at[q] <= Len(Invocations(job[q]))
  /\ pc[q] = "run"  => step[q] <= Len(Invocation(q).prog)
  /\ pc[q] = "done" => code[q] # "ok" \/ at[q] = Len(Invocations(job[q]))

Same(q) == /\ pc'[q] = pc[q] /\ job'[q] = job[q] /\ at'[q] = at[q] /\ step'[q] = step[q]
           /\ code'[q] = code[q]

\* A process that takes no step stays where it can be.
LEMMA OthersStay ==
  ASSUME PlaceInv, NEW q \in Procs, Same(q)
  PROVE  PlaceOf(q)'
BY DEF PlaceInv, PlaceOf, Same, Invocation

\* The processes stay where they can be, and the lock with its holder.
LEMMA ProcStep ==
  ASSUME ProcTypes, PlaceInv, LockInv, NetInv, [Next]_vars
  PROVE  ProcTypes' /\ PlaceInv' /\ LockInv'
<1> DEFINE Moved1(p) == \A q \in Procs : q # p => Same(q)
           Goal == ProcTypes' /\ PlaceInv' /\ LockInv'
<1>0. ASSUME NEW p \in Procs, Moved1(p), PlaceOf(p)' PROVE PlaceInv'
  <2>1. \A q \in Procs : PlaceOf(q)'
    BY <1>0, OthersStay
  <2>2. QED
    BY <2>1 DEF PlaceInv, PlaceOf
<1>1. ASSUME NEW p \in Procs, Begin(p) PROVE Goal
  <2>1. PICK j \in Jobs : job' = [job EXCEPT ![p] = j]
    BY <1>1 DEF Begin
  <2>2. ProcTypes' /\ Moved1(p)
    BY <1>1, <2>1, BoundsAssumption DEF Begin, Goto, ProcTypes, Same
  <2>3. PlaceOf(p)'
    <3>1. /\ pc[p] = "idle" /\ pc'[p] = "enter" /\ job'[p] = j /\ at'[p] = at[p]
          /\ step'[p] = step[p] /\ code'[p] = code[p]
      BY <1>1, <2>1 DEF Begin, Goto, ProcTypes
    <3>2. Len(Invocations(j)) \in 1..11
      BY LengthIs
    <3>3. at[p] = 1 /\ step[p] = 1 /\ code[p] = "ok" /\ j # NoJob
      BY <3>1, NoJobIs DEF PlaceInv
    <3>4. at'[p] <= Len(Invocations(job'[p]))
      <4>1. PICK n \in 1..11 : n = Len(Invocations(j))
        BY <3>2
      <4>2. at'[p] <= n /\ job'[p] = j
        BY <3>1, <3>3
      <4>3. QED
        BY <4>1, <4>2
    <3>5. QED
      BY <3>1, <3>3, <3>4 DEF PlaceOf
  <2>4. LockInv'
    BY <1>1, <2>1, <2>2 DEF LockInv, Begin, Goto, ProcTypes, Same
  <2>5. QED
    BY <1>0, <2>2, <2>3, <2>4
<1>2. ASSUME NEW p \in Procs, Enter(p) PROVE Goal
  <2>1. ProcTypes' /\ Moved1(p)
    BY <1>2 DEF Enter, Goto, ProcTypes, Same
  <2>2. /\ pc[p] = "enter" /\ pc'[p] = "run" /\ job'[p] = job[p] /\ at'[p] = at[p]
        /\ step'[p] = step[p] /\ code'[p] = code[p] /\ lock' = lock /\ ~Invocation(p).locked
    BY <1>2 DEF Enter, Goto, ProcTypes
  <2>3. Len(Invocation(p).prog) \in Nat \ {0} /\ (Invocation(p).locked <=> job[p].tool # "gateway")
    BY <2>2, WorkingIs
  <2>4. PlaceOf(p)'
    BY <2>2, <2>3 DEF PlaceOf, PlaceInv, Invocation
  <2>5. LockInv'
    BY <2>1, <2>2, <2>3 DEF LockInv, Same
  <2>6. QED
    BY <1>0, <2>1, <2>4, <2>5
<1>3. ASSUME NEW p \in Procs, Lock(p) PROVE Goal
  <2>1. /\ pc[p] = "enter" /\ job' = job /\ at' = at /\ step' = step /\ lock = NoProc /\ lock' = p
        /\ Invocation(p).locked
        /\ \/ pc' = [pc EXCEPT ![p] = "run"] /\ code' = code
           \/ pc' = [pc EXCEPT ![p] = "leave"] /\ code' = [code EXCEPT ![p] = "rejected"]
    BY <1>3 DEF Lock, Goto
  <2>2. ProcTypes' /\ Moved1(p)
    BY <1>3, <2>1 DEF Lock, ProcTypes, Same
  <2>3. /\ pc'[p] \in {"run", "leave"} /\ (pc'[p] = "run" => code'[p] = code[p])
        /\ job'[p] = job[p] /\ at'[p] = at[p] /\ step'[p] = step[p]
    BY <2>1 DEF ProcTypes
  <2>4. Len(Invocation(p).prog) \in Nat \ {0} /\ job[p].tool # "gateway"
    BY <2>1, WorkingIs
  <2>5. PlaceOf(p)'
    BY <2>1, <2>3, <2>4 DEF PlaceOf, PlaceInv, Invocation
  <2>6. LockInv'
    BY <2>1, <2>2, <2>3, <2>4, NullAssumption DEF LockInv, Same
  <2>7. QED
    BY <1>0, <2>2, <2>5, <2>6
<1>4. ASSUME NEW p \in Procs, pc[p] = "run", Advance(p), UNCHANGED <<lock, job, at, code>>
      PROVE  /\ pc' \in [Procs -> {"idle", "enter", "run", "leave", "done"}]
             /\ step' \in [Procs -> Nat \ {0}]
             /\ PlaceInv' /\ LockInv'
  <2>1. /\ Len(Invocation(p).prog) \in Nat \ {0} /\ step[p] \in 1..Len(Invocation(p).prog)
        /\ Invocation(p)' = Invocation(p)
    BY <1>4, WorkingIs, RunningIs DEF Invocation
  <2>2. /\ pc' \in [Procs -> {"idle", "enter", "run", "leave", "done"}]
        /\ step' \in [Procs -> Nat \ {0}]
        /\ Moved1(p) /\ pc'[p] \in {"run", "leave"}
        /\ pc'[p] = "run" => step'[p] = step[p] + 1 /\ step[p] # Len(Invocation(p).prog)
    <3>1. CASE step[p] = Len(Invocation(p).prog)
      <4>1. pc' = [pc EXCEPT ![p] = "leave"] /\ step' = step
        BY <1>4, <3>1 DEF Advance, Goto
      <4>2. QED
        BY <1>4, <4>1 DEF ProcTypes, Same
    <3>2. CASE step[p] # Len(Invocation(p).prog)
      <4>1. pc' = pc /\ step' = [step EXCEPT ![p] = @ + 1]
        BY <1>4, <3>2 DEF Advance
      <4>2. step[p] + 1 \in Nat \ {0}
        BY <2>1
      <4>3. QED
        BY <1>4, <3>2, <4>1, <4>2 DEF ProcTypes, Same
    <3>3. QED
      BY <3>1, <3>2
  <2>3. PlaceOf(p)'
    BY <1>4, <2>1, <2>2 DEF PlaceOf, PlaceInv
  <2>4. LockInv'
    BY <1>4, <2>2 DEF LockInv, Same
  <2>5. QED
    BY <1>0, <2>2, <2>3, <2>4
<1>5. ASSUME NEW p \in Procs, Run(p) PROVE Goal
  <2>1. net.rules \in SUBSET (Names \X Kinds)
    BY DEF NetInv, ANet
  <2>2. /\ pc[p] = "run" /\ Advance(p) /\ UNCHANGED <<lock, job, at, code, begun, faults>>
        /\ saved' \in [Procs -> SUBSET (Names \X Kinds)] /\ spoiled' \subseteq Procs
    BY <1>5, <2>1 DEF Run, ProcTypes
  <2>3. QED
    BY <1>4, <2>2 DEF ProcTypes
<1>6. ASSUME NEW p \in Procs, RunFails(p) PROVE Goal
  <2>1. /\ pc[p] = "run" /\ UNCHANGED <<lock, job, at, begun, spoiled>> /\ faults' \in 0..MaxFaults
        /\ saved' \in [Procs -> SUBSET (Names \X Kinds)]
    BY <1>6, BoundsAssumption DEF RunFails, Refused, ProcTypes
  <2>2. CASE Advance(p) /\ UNCHANGED code
    BY <1>4, <2>1, <2>2 DEF ProcTypes
  <2>3. CASE pc' = [pc EXCEPT ![p] = "leave"] /\ step' = step /\ code' = [code EXCEPT ![p] = "failed"]
    <3>1. ProcTypes' /\ Moved1(p)
      BY <2>1, <2>3 DEF ProcTypes, Same
    <3>2. pc'[p] = "leave" /\ code'[p] = "failed" /\ job'[p] = job[p] /\ at'[p] = at[p]
      BY <2>1, <2>3 DEF ProcTypes
    <3>3. PlaceOf(p)'
      BY <2>1, <3>2 DEF PlaceOf, PlaceInv
    <3>4. LockInv'
      BY <2>1, <3>1, <3>2 DEF LockInv, Same
    <3>5. QED
      BY <1>0, <3>1, <3>3, <3>4
  <2>4. QED
    BY <1>6, <2>2, <2>3 DEF RunFails, Goto
<1>7. ASSUME NEW p \in Procs, Leave(p) PROVE Goal
  <2>1. /\ pc[p] = "leave" /\ job' = job /\ code' = code /\ step' = [step EXCEPT ![p] = 1]
        /\ lock' = IF lock = p THEN NoProc ELSE lock
        /\ \/ /\ at[p] = Len(Invocations(job[p])) \/ code[p] # "ok"
              /\ pc' = [pc EXCEPT ![p] = "done"] /\ at' = at
           \/ /\ ~(at[p] = Len(Invocations(job[p])) \/ code[p] # "ok")
              /\ pc' = [pc EXCEPT ![p] = "enter"] /\ at' = [at EXCEPT ![p] = @ + 1]
    BY <1>7 DEF Leave, Goto
  <2>2. at[p] \in 1..Len(Invocations(job[p])) /\ Len(Invocations(job[p])) \in 1..11
    BY <2>1, WorkingIs, LengthIs
  <2>3. ProcTypes' /\ Moved1(p)
    <3>1. lock' \in Procs \cup {NoProc} /\ step' \in [Procs -> Nat \ {0}]
      BY <2>1 DEF ProcTypes
    <3>2. CASE pc' = [pc EXCEPT ![p] = "done"] /\ at' = at
      BY <1>7, <2>1, <3>1, <3>2 DEF Leave, ProcTypes, Same
    <3>3. CASE /\ at[p] # Len(Invocations(job[p]))
               /\ pc' = [pc EXCEPT ![p] = "enter"] /\ at' = [at EXCEPT ![p] = @ + 1]
      <4>1. at[p] + 1 \in 1..11
        <5>1. PICK n \in 1..11 : n = Len(Invocations(job[p]))
          BY <2>2
        <5>2. at[p] \in 1..n /\ at[p] # n
          BY <2>2, <3>3, <5>1
        <5>3. QED
          BY <5>2
      <4>2. at' \in [Procs -> 1..11] /\ pc' \in [Procs -> {"idle", "enter", "run", "leave", "done"}]
        BY <3>3, <4>1 DEF ProcTypes
      <4>3. Moved1(p)
        BY <2>1, <3>3 DEF ProcTypes, Same
      <4>4. QED
        BY <1>7, <2>1, <3>1, <4>2, <4>3 DEF Leave, ProcTypes
    <3>4. QED
      BY <2>1, <3>2, <3>3
  <2>4. /\ job'[p] = job[p] /\ code'[p] = code[p] /\ step'[p] = 1
        /\ \/ at'[p] = at[p] /\ pc'[p] = "done" /\ (at[p] = Len(Invocations(job[p])) \/ code[p] # "ok")
           \/ /\ at'[p] = at[p] + 1 /\ pc'[p] = "enter" /\ at[p] # Len(Invocations(job[p]))
              /\ code[p] = "ok"
    BY <2>1 DEF ProcTypes
  <2>5. PlaceOf(p)'
    BY <2>1, <2>2, <2>4 DEF PlaceOf, PlaceInv
  <2>6. LockInv'
    BY <2>1, <2>3, <2>4, NullAssumption DEF LockInv, Same, ProcTypes
  <2>7. QED
    BY <1>0, <2>3, <2>5, <2>6
<1>8. ASSUME NEW p \in Procs, Finish(p) PROVE Goal
  <2>1. ProcTypes' /\ Moved1(p)
    BY <1>8 DEF Finish, Goto, ProcTypes, Same
  <2>2. /\ pc[p] = "done" /\ pc'[p] = "idle" /\ job'[p] = NoJob /\ at'[p] = 1 /\ code'[p] = "ok"
        /\ step'[p] = step[p] /\ lock' = lock
    BY <1>8 DEF Finish, Goto, ProcTypes
  <2>3. PlaceOf(p)'
    BY <2>2 DEF PlaceOf, PlaceInv
  <2>4. LockInv'
    BY <2>1, <2>2 DEF LockInv, Same
  <2>5. QED
    BY <1>0, <2>1, <2>3, <2>4
<1>9. ASSUME UNCHANGED vars PROVE Goal
  BY <1>9 DEF vars, ProcTypes, PlaceInv, LockInv, Invocation
<1>10. QED
  BY <1>1, <1>2, <1>3, <1>5, <1>6, <1>7, <1>8, <1>9 DEF Next

-----------------------------------------------------------------------------
(* The work of the processes.                                              *)

\* p has carried out the k-th command of the i-th invocation of its job.
Past(p, i, k) ==
  /\ code[p] = "ok"
  /\ at[p] > i \/ (at[p] = i /\ (step[p] > k \/ pc[p] \in {"leave", "done"}))

\* What it has carried out still shows,
EffectsInv(p) ==
  LabJob(job[p]) \/ GatewayJob(job[p]) =>
  \A i \in 1..Len(Invocations(job[p])) : \A k \in 1..Len(Invocations(job[p])[i].prog) :
    Past(p, i, k) => Effect(Invocations(job[p])[i].prog[k])

\* and the pairs that it works on are where it has left them.
ConnectInv(p) ==
  LabJob(job[p]) => \A l \in Leaves :
    /\ Past(p, Slot(l), 1) =>
         \/ Past(p, Slot(l), 2)
         \/ {<<Host, "router">>, <<Host, l>>} \in net.veths
    /\ Past(p, Slot(l), 2) =>
         \/ Past(p, Slot(l), 3)
         \/ {<<l, "router">>, <<Host, l>>} \in net.veths
    /\ Past(p, Slot(l), 3) => {<<l, "router">>, <<"router", l>>} \in net.veths

UplinkInv(p) ==
  GatewayJob(job[p]) =>
    /\ Past(p, 1, 1) =>
         \/ Past(p, 1, 2)
         \/ {<<Host, job[p].name>>, <<Host, "host">>} \in net.veths
    /\ Past(p, 1, 2) => {<<Host, job[p].name>>, <<job[p].name, "host">>} \in net.veths

\* No two of them have made the interface of one gateway.
SoleInv ==
  \A p, q \in Procs :
    /\ p # q /\ GatewayJob(job[p]) /\ GatewayJob(job[q])
    /\ Past(p, 1, 1) /\ Past(q, 1, 1)
    => job[p].name # job[q].name

AllWork == SoleInv /\ \A p \in Procs : EffectsInv(p) /\ ConnectInv(p) /\ UplinkInv(p)

\* All this holds as long as one creator has not been spoiled: what spoils another's
\* work would have spoiled its work, too.
WorkInv == \A p \in Procs \ spoiled : LabJob(job[p]) \/ GatewayJob(job[p]) => AllWork

\* How far an unspoiled `gateway destroy` has come.
CleanInv ==
  \A p \in Procs \ spoiled :
    job[p].tool = "gateway" /\ job[p].does = "destroy" =>
      /\ Past(p, 1, 2) => RulesOf(job[p].name) \cap net.rules = {}
      /\ Past(p, 1, 3) => faults > 0 \/ <<Host, job[p].name>> \notin Ends

IInv == ProcTypes /\ PlaceInv /\ LockInv /\ NetInv /\ WorkInv /\ CleanInv

\* What stays past, and what becomes so.
Keeps(p) ==
  \A i, k \in Nat \ {0} : /\ Past(p, i, k)' => Past(p, i, k)
                          /\ Past(p, i, k) /\ code'[p] = "ok" => Past(p, i, k)'

Fresh(p) == \A i, k \in Nat \ {0} : ~Past(p, i, k)'

\* Where the network stays as it is, the work does.
LEMMA QuietStep ==
  ASSUME AllWork, UNCHANGED net, ProcTypes,
         \A q \in Procs : \/ job'[q] = job[q] /\ Keeps(q)
                          \/ Fresh(q)
                          \/ ~LabJob(job'[q]) /\ ~GatewayJob(job'[q])
  PROVE  AllWork'
<1>1. /\ \A l \in Leaves : Slot(l) \in Nat \ {0}
      /\ \A n \in Nat : 1..n \subseteq Nat \ {0}
  BY DEF Slot
<1>2. \A q \in Procs, i, k \in Nat \ {0} : Past(q, i, k)' => code'[q] = "ok"
  BY DEF Past
<1>3. SoleInv'
  BY DEF AllWork, SoleInv, Keeps, Fresh
<1>4. ASSUME NEW q \in Procs PROVE ConnectInv(q)' /\ UplinkInv(q)'
  <2>1. CASE job'[q] = job[q] /\ Keeps(q)
    <3>1. ASSUME NEW i \in Nat \ {0}
          PROVE  /\ Past(q, i, 1)' => Past(q, i, 1) /\ (Past(q, i, 2) => Past(q, i, 2)')
                 /\ Past(q, i, 2)' => Past(q, i, 2) /\ (Past(q, i, 3) => Past(q, i, 3)')
                 /\ Past(q, i, 3)' => Past(q, i, 3)
      BY <1>2, <2>1 DEF Keeps
    <3>2. ConnectInv(q)'
      <4>1. SUFFICES ASSUME LabJob(job[q]), NEW l \in Leaves, NEW i \in Nat \ {0}, i = Slot(l)
                     PROVE  /\ Past(q, i, 1)' =>
                                 \/ Past(q, i, 2)'
                                 \/ {<<Host, "router">>, <<Host, l>>} \in net.veths
                            /\ Past(q, i, 2)' =>
                                 \/ Past(q, i, 3)'
                                 \/ {<<l, "router">>, <<Host, l>>} \in net.veths
                            /\ Past(q, i, 3)' => {<<l, "router">>, <<"router", l>>} \in net.veths
        BY <1>1, <2>1 DEF ConnectInv
      <4>2. /\ Past(q, i, 1) =>
                 \/ Past(q, i, 2)
                 \/ {<<Host, "router">>, <<Host, l>>} \in net.veths
            /\ Past(q, i, 2) =>
                 \/ Past(q, i, 3)
                 \/ {<<l, "router">>, <<Host, l>>} \in net.veths
            /\ Past(q, i, 3) => {<<l, "router">>, <<"router", l>>} \in net.veths
        BY <4>1 DEF AllWork, ConnectInv
      <4>3. QED
        BY <3>1, <4>2
    <3>3. UplinkInv(q)'
      <4>1. SUFFICES ASSUME GatewayJob(job[q])
                     PROVE  /\ Past(q, 1, 1)' =>
                                 \/ Past(q, 1, 2)'
                                 \/ {<<Host, job[q].name>>, <<Host, "host">>} \in net.veths
                            /\ Past(q, 1, 2)' =>
                                 {<<Host, job[q].name>>, <<job[q].name, "host">>} \in net.veths
        BY <2>1 DEF UplinkInv
      <4>2. /\ Past(q, 1, 1) =>
                 \/ Past(q, 1, 2)
                 \/ {<<Host, job[q].name>>, <<Host, "host">>} \in net.veths
            /\ Past(q, 1, 2) => {<<Host, job[q].name>>, <<job[q].name, "host">>} \in net.veths
        BY <4>1 DEF AllWork, UplinkInv
      <4>3. QED
        BY <3>1, <4>2
    <3>4. QED
      BY <3>2, <3>3
  <2>2. CASE Fresh(q)
    BY <1>1, <2>2 DEF ConnectInv, UplinkInv, Fresh
  <2>3. CASE ~LabJob(job'[q]) /\ ~GatewayJob(job'[q])
    BY <2>3 DEF ConnectInv, UplinkInv
  <2>4. QED
    BY <2>1, <2>2, <2>3
<1>5. ASSUME NEW q \in Procs PROVE EffectsInv(q)'
  <2>1. \A c : Effect(c) => Effect(c)'
    BY DEF Effect, DefaultVia
  <2>2. CASE Fresh(q)
    BY <2>2 DEF EffectsInv, Fresh
  <2>3. CASE job'[q] = job[q] /\ Keeps(q)
    BY <2>1, <2>3 DEF AllWork, EffectsInv, Keeps
  <2>4. CASE ~LabJob(job'[q]) /\ ~GatewayJob(job'[q])
    BY <2>4 DEF EffectsInv
  <2>5. QED
    BY <2>2, <2>3, <2>4
<1>6. QED
  BY <1>3, <1>4, <1>5 DEF AllWork

\* A command is past once it has been carried out, and the others stay as they were.
LEMMA AdvancePast ==
  ASSUME ProcTypes, PlaceInv, NEW p \in Procs, pc[p] = "run", Advance(p),
         UNCHANGED <<job, at, code>>
  PROVE  /\ \A i, k \in Nat : i = at[p] /\ k = step[p] => Past(p, i, k)' /\ ~Past(p, i, k)
         /\ \A i, k \in Nat : Past(p, i, k) => Past(p, i, k)'
         /\ \A i, k \in Nat : Past(p, i, k)' /\ ~Past(p, i, k) =>
              i = at[p] /\ (k <= Len(Invocation(p).prog) => k = step[p])
<1>1. /\ code[p] = "ok" /\ code'[p] = "ok" /\ at'[p] = at[p] /\ at[p] \in Nat /\ step[p] \in Nat
      /\ Len(Invocation(p).prog) \in Nat
  <2>1. code[p] = "ok"
    BY DEF PlaceInv
  <2>2. at[p] \in Nat /\ step[p] \in Nat
    BY DEF ProcTypes
  <2>3. QED
    BY <2>1, <2>2, WorkingIs
<1>2. \/ step[p] = Len(Invocation(p).prog) /\ pc'[p] = "leave" /\ step'[p] = step[p]
      \/ pc'[p] = "run" /\ step'[p] = step[p] + 1
  <2>1. CASE step[p] = Len(Invocation(p).prog)
    <3>1. pc' = [pc EXCEPT ![p] = "leave"] /\ step' = step
      BY <2>1 DEF Advance, Goto
    <3>2. QED
      BY <2>1, <3>1 DEF ProcTypes
  <2>2. CASE step[p] # Len(Invocation(p).prog)
    <3>1. pc' = pc /\ step' = [step EXCEPT ![p] = @ + 1]
      BY <2>2 DEF Advance
    <3>2. QED
      BY <3>1 DEF ProcTypes
  <2>3. QED
    BY <2>1, <2>2
<1>3. PICK n \in Nat, m \in Nat : n = Len(Invocation(p).prog) /\ m = step[p]
  BY <1>1
<1>4. /\ \A k : Past(p, at[p], k) <=> m > k
      /\ \A i, k : i # at[p] => (Past(p, i, k) <=> at[p] > i)
      /\ \A i, k : i # at[p] => (Past(p, i, k)' <=> at[p] > i)
  BY <1>1, <1>2, <1>3 DEF Past
<1>5. \/ m = n /\ \A k : Past(p, at[p], k)'
      \/ \A k : Past(p, at[p], k)' <=> m + 1 > k
  BY <1>1, <1>2, <1>3 DEF Past
<1>6. Past(p, at[p], m)' /\ ~Past(p, at[p], m)
  BY <1>3, <1>4, <1>5
<1>7. \A k \in Nat : Past(p, at[p], k) => Past(p, at[p], k)'
  BY <1>3, <1>4, <1>5
<1>8. \A k \in Nat : Past(p, at[p], k)' /\ ~Past(p, at[p], k) /\ k <= n => k = m
  BY <1>3, <1>4, <1>5
<1>9. ASSUME NEW i \in Nat, NEW k \in Nat
      PROVE  /\ Past(p, i, k) => Past(p, i, k)'
             /\ Past(p, i, k)' /\ ~Past(p, i, k) => i = at[p] /\ (k <= n => k = m)
             /\ i = at[p] /\ k = m => Past(p, i, k)' /\ ~Past(p, i, k)
  <2>1. CASE i = at[p]
    <3>1. PICK x : x = at[p]
      OBVIOUS
    <3>2. at'[p] = x
      BY <1>1, <3>1
    <3>3. /\ Past(p, at[p], k) => Past(p, at[p], k)'
          /\ Past(p, at[p], k)' /\ ~Past(p, at[p], k) /\ k <= n => k = m
      BY <1>7, <1>8
    <3>4. (Past(p, at[p], k)' <=> Past(p, i, k)') /\ (Past(p, at[p], k) <=> Past(p, i, k))
      BY <1>1, <2>1 DEF Past
    <3>5. QED
      BY <1>6, <2>1, <3>3, <3>4
  <2>2. CASE i # at[p]
    BY <1>4, <2>2
  <2>3. QED
    BY <2>1, <2>2
<1>10. QED
  BY <1>3, <1>9

\* What is past was past before.
LEMMA PastBefore ==
  ASSUME ProcTypes, NEW q \in Procs, NEW i \in Nat, NEW k \in Nat, NEW m \in Nat, m <= k,
         Past(q, i, k)
  PROVE  Past(q, i, m)
<1>1. at[q] \in Nat /\ step[q] \in Nat
  BY DEF ProcTypes
<1>2. QED
  BY <1>1 DEF Past

\* Who is between two commands of an invocation is at work on it.
LEMMA BetweenIs ==
  ASSUME ProcTypes, PlaceInv, NEW p \in Procs, NEW i \in Nat, NEW k \in Nat, k >= 1,
         Past(p, i, k), ~Past(p, i, k + 1)
  PROVE  pc[p] = "run" /\ at[p] = i /\ step[p] = k + 1
<1>1. at[p] \in Nat /\ step[p] \in Nat
  BY DEF ProcTypes
<1>2. at[p] = i /\ step[p] = k + 1 /\ pc[p] \notin {"leave", "done"}
  BY <1>1 DEF Past
<1>3. step[p] # 1 /\ pc[p] \in {"idle", "enter", "run", "leave", "done"}
  BY <1>2 DEF ProcTypes
<1>4. QED
  BY <1>2, <1>3 DEF PlaceInv

\* A gateway job is one invocation.
LEMMA GatewayAt ==
  ASSUME ProcTypes, PlaceInv, NEW p \in Procs, job[p].tool = "gateway"
  PROVE  /\ job[p] \in Jobs /\ job[p].name \in Names /\ at[p] = 1
         /\ Len(Invocations(job[p])) = 1
         /\ GatewayJob(job[p]) => Invocation(p) = GatewayCreate(job[p].name)
         /\ job[p].does = "destroy" => Invocation(p) = GatewayDestroy(job[p].name)
<1>1. job[p] \in Jobs /\ pc[p] # "idle"
  BY NoJobIs DEF ProcTypes, PlaceInv
<1>2. PICK j \in Jobs : j = job[p]
  BY <1>1
<1>3. /\ j.name \in Names
      /\ \/ GatewayJob(j) /\ Invocations(j) = <<GatewayCreate(j.name)>>
         \/ j.does = "destroy" /\ Invocations(j) = <<GatewayDestroy(j.name)>>
  BY <1>2, JobIs, InvocationsAre DEF GatewayJob
<1>4. Len(Invocations(j)) = 1
  BY <1>3
<1>5. at[p] = 1
  <2>1. at[p] <= Len(Invocations(job[p])) /\ at[p] \in 1..11
    BY <1>1 DEF ProcTypes, PlaceInv
  <2>2. at[p] <= 1
    BY <1>2, <1>4, <2>1
  <2>3. QED
    BY <2>1, <2>2
<1>6. QED
  BY <1>2, <1>3, <1>4, <1>5 DEF Invocation, GatewayJob

\* Who moves an interface is a creator between two steps of its own.
LEMMA MoveIs ==
  ASSUME ProcTypes, PlaceInv, NEW p \in Procs, pc[p] = "run", Command(p).cmd = "link_move"
  PROVE  \/ /\ LabJob(job[p])
            /\ \E l \in Leaves :
                 /\ at[p] = Slot(l)
                 /\ \/ Command(p) = LinkMove("router", l) /\ Past(p, Slot(l), 1) /\ ~Past(p, Slot(l), 2)
                    \/ Command(p) = LinkMove(l, "router") /\ Past(p, Slot(l), 2) /\ ~Past(p, Slot(l), 3)
         \/ /\ GatewayJob(job[p]) /\ Command(p) = LinkMove("host", job[p].name)
            /\ Past(p, 1, 1) /\ ~Past(p, 1, 2)
<1>1. PICK c, i, k, j : c = Command(p) /\ i = at[p] /\ k = step[p] /\ j = job[p]
  OBVIOUS
<1>2. Fits(j, i, k, c) /\ c.cmd = "link_move"
  BY <1>1, RunningIs
<1>3. \A d, e : LinkAdd(d, e).cmd = "link_add"
  BY DEF LinkAdd
<1>4. \/ LabJob(j) /\ \E l \in Leaves : i = Slot(l) /\
            \/ k = 2 /\ c = LinkMove("router", l)
            \/ k = 3 /\ c = LinkMove(l, "router")
      \/ GatewayJob(j) /\ i = 1 /\ k = 2 /\ c = LinkMove("host", j.name)
  BY <1>2, <1>3 DEF Fits
<1>5. code[p] = "ok" /\ at[p] \in Nat /\ step[p] \in Nat
  <2>1. code[p] = "ok"
    BY DEF PlaceInv
  <2>2. QED
    BY <2>1 DEF ProcTypes
<1>6. ASSUME NEW n \in Nat
      PROVE  Past(p, at[p], n) <=> step[p] > n
  BY <1>5 DEF Past
<1>7. QED
  BY <1>1, <1>4, <1>5, <1>6

\* The pair that it moves is its own.
LEMMA OwnPair ==
  ASSUME ProcTypes, PlaceInv, AllWork, NEW p \in Procs, pc[p] = "run", NEW c, c = Command(p),
         c.cmd = "link_move"
  PROVE  \/ /\ LabJob(job[p])
            /\ \E l \in Leaves, f \in Links :
                 /\ {<<Host, c.dev>>, f} \in net.veths /\ f # <<Host, c.dev>>
                 /\ c.dev \in Names /\ f[2] \in Names
                 /\ at[p] = Slot(l)
                 /\ \/ /\ c.dev = "router" /\ c.to = l /\ f = <<Host, l>>
                       /\ Past(p, Slot(l), 1) /\ ~Past(p, Slot(l), 2)
                    \/ /\ c.dev = l /\ c.to = "router" /\ f = <<l, "router">>
                       /\ Past(p, Slot(l), 2) /\ ~Past(p, Slot(l), 3)
         \/ /\ GatewayJob(job[p]) /\ c.dev = "host" /\ c.to = job[p].name
            /\ {<<Host, job[p].name>>, <<Host, "host">>} \in net.veths
            /\ Past(p, 1, 1) /\ ~Past(p, 1, 2)
<1>1. CASE GatewayJob(job[p])
  <2>1. ~LabJob(job[p])
    BY <1>1 DEF GatewayJob, LabJob
  <2>2. c = LinkMove("host", job[p].name) /\ Past(p, 1, 1) /\ ~Past(p, 1, 2)
    BY <2>1, MoveIs
  <2>3. {<<Host, job[p].name>>, <<Host, "host">>} \in net.veths
    BY <1>1, <2>2 DEF AllWork, UplinkInv
  <2>4. QED
    BY <1>1, <2>2, <2>3 DEF LinkMove
<1>2. CASE LabJob(job[p])
  <2>1. ~GatewayJob(job[p])
    BY <1>2 DEF GatewayJob, LabJob
  <2>2. PICK l \in Leaves :
          /\ at[p] = Slot(l)
          /\ \/ c = LinkMove("router", l) /\ Past(p, Slot(l), 1) /\ ~Past(p, Slot(l), 2)
             \/ c = LinkMove(l, "router") /\ Past(p, Slot(l), 2) /\ ~Past(p, Slot(l), 3)
    BY <2>1, MoveIs
  <2>3. /\ l # "router" /\ l # Host /\ l \in Names /\ "router" \in Names
        /\ <<Host, l>> \in Links /\ <<l, "router">> \in Links
    BY NullAssumption DEF Leaves, Links, Places, Devs, Names
  <2>4. CASE c = LinkMove("router", l) /\ Past(p, Slot(l), 1) /\ ~Past(p, Slot(l), 2)
    <3>1. c.dev = "router" /\ c.to = l
      BY <2>4 DEF LinkMove
    <3>2. {<<Host, "router">>, <<Host, l>>} \in net.veths
      BY <1>2, <2>4 DEF AllWork, ConnectInv
    <3>3. QED
      BY <1>2, <2>2, <2>3, <2>4, <3>1, <3>2
  <2>5. CASE c = LinkMove(l, "router") /\ Past(p, Slot(l), 2) /\ ~Past(p, Slot(l), 3)
    <3>1. c.dev = l /\ c.to = "router"
      BY <2>5 DEF LinkMove
    <3>2. {<<Host, l>>, <<l, "router">>} \in net.veths
      <4>1. {<<l, "router">>, <<Host, l>>} \in net.veths
        BY <1>2, <2>5 DEF AllWork, ConnectInv
      <4>2. {<<l, "router">>, <<Host, l>>} = {<<Host, l>>, <<l, "router">>}
        OBVIOUS
      <4>3. QED
        BY <4>1, <4>2
    <3>3. QED
      BY <1>2, <2>2, <2>3, <2>5, <3>1, <3>2
  <2>6. QED
    BY <2>2, <2>4, <2>5
<1>3. QED
  BY <1>1, <1>2, MoveIs

\* A pair that nobody touches stays.
LEMMA PairStays ==
  ASSUME NEW c, Spares(c), c.cmd \notin {"link_del", "netns_del"}, NEW k \in net.veths,
         c.cmd = "link_move" => <<Host, c.dev>> \notin k
  PROVE  k \in net'.veths
BY DEF Spares, Touches

\* What another command is for stays, unless c deletes, sweeps, or moves its interface.
LEMMA EffectStays ==
  ASSUME NetInv, NEW c, NEW sv, Spares(c), Tables(c, sv),
         c.cmd \notin {"link_del", "netns_del", "restore"},
         NEW b, Effect(b),
         b.cmd \in {"link_up", "addr_add"} /\ c.cmd = "link_move" => b.end # <<Host, c.dev>>,
         b.cmd = "route_add" => b.name \in Names
  PROVE  Effect(b)'
<1>1. \A e \in Links : Stays(e) \/ (c.cmd = "link_move" /\ e = <<Host, c.dev>>)
  BY DEF Spares
<1>2. /\ net.up \subseteq Links /\ net.addrs \subseteq Links \X Addrs
      /\ net.routes \subseteq Links \X Addrs
  BY DEF NetInv, ANet
<1>3. ASSUME b.cmd = "link_up" PROVE b.end \in net'.up
  BY <1>1, <1>2, <1>3 DEF Effect, Stays
<1>4. ASSUME b.cmd = "addr_add" PROVE <<b.end, b.addr>> \in net'.addrs
  BY <1>1, <1>2, <1>4 DEF Effect, Stays
<1>5. ASSUME b.cmd = "route_add" PROVE DefaultVia(b.name, b.via)'
  <2>1. PICK x \in net.routes : x[1][1] = b.name /\ x[2] = b.via
    BY <1>5 DEF Effect, DefaultVia
  <2>2. x = <<x[1], x[2]>> /\ x[1] \in Links /\ x[1] # <<Host, c.dev>>
    BY <1>2, <1>5, <2>1, NullAssumption
  <2>3. x \in net'.routes
    BY <1>1, <2>2 DEF Stays
  <2>4. QED
    BY <2>1, <2>3 DEF DefaultVia
<1>6. /\ b.cmd = "forward"  => net'.forward
      /\ b.cmd = "rule_add" => b.rule \in net'.rules
      /\ b.cmd = "snat_add" => b.name \in net'.snat
  BY DEF Effect, Tables
<1>7. QED
  BY <1>3, <1>4, <1>5, <1>6 DEF Effect

\* The pair of an uplink.
LEMMA UplinkIs ==
  ASSUME AllWork, NEW q \in Procs, GatewayJob(job[q]), Past(q, 1, 1)
  PROVE  \E e : /\ {<<Host, job[q].name>>, e} \in net.veths
                /\ e = <<Host, "host">> \/ (Past(q, 1, 2) /\ e = <<job[q].name, "host">>)
BY DEF AllWork, UplinkInv

\* Nobody moves an interface of somebody else.
LEMMA NotTheirs ==
  ASSUME ProcTypes, PlaceInv, NetInv, AllWork, NEW p \in Procs, pc[p] = "run",
         NEW c, c = Command(p), c.cmd = "link_move",
         NEW q \in Procs, GatewayJob(job[q]), Past(q, 1, 1)
  PROVE  c.dev # job[q].name /\ (q # p /\ ~Past(q, 1, 2) => c.dev # "host")
<1> DEFINE n == job[q].name
<1>1. n \in Names /\ "host" \notin Names
  BY GatewayAt DEF GatewayJob, Names
<1>2. PICK e : /\ {<<Host, n>>, e} \in net.veths
               /\ e = <<Host, "host">> \/ (Past(q, 1, 2) /\ e = <<n, "host">>)
  BY UplinkIs
<1>3. \A k, m \in net.veths : k # m => k \cap m = {}
  BY DEF NetInv, PairsInv
<1> HIDE DEF n
<1>4. ASSUME NEW f, {<<Host, c.dev>>, f} \in net.veths, c.dev \in Names, f[2] \in Names
      PROVE  c.dev # n
  <2>1. e \notin {<<Host, c.dev>>, f}
    BY <1>1, <1>2, <1>4
  <2>2. {<<Host, n>>, e} \cap {<<Host, c.dev>>, f} = {}
    BY <1>2, <1>3, <1>4, <2>1
  <2>3. QED
    BY <2>2
<1>5. CASE LabJob(job[p])
  <2>1. PICK f \in Links : {<<Host, c.dev>>, f} \in net.veths /\ c.dev \in Names /\ f[2] \in Names
    BY <1>5, OwnPair DEF LabJob, GatewayJob
  <2>2. QED
    BY <1>1, <1>4, <2>1 DEF n
<1>6. CASE GatewayJob(job[p])
  <2>1. /\ c.dev = "host" /\ {<<Host, job[p].name>>, <<Host, "host">>} \in net.veths
        /\ Past(p, 1, 1)
    BY <1>6, OwnPair DEF LabJob, GatewayJob
  <2>2. ASSUME q # p, ~Past(q, 1, 2) PROVE FALSE
    <3>1. e = <<Host, "host">>
      BY <1>2, <2>2
    <3>2. {<<Host, n>>, e} = {<<Host, job[p].name>>, <<Host, "host">>}
      BY <1>2, <1>3, <2>1, <3>1
    <3>3. job[p].name \in Names
      BY <1>6, GatewayAt DEF GatewayJob
    <3>4. n = job[p].name
      <4>1. <<Host, n>> \in {<<Host, job[p].name>>, <<Host, "host">>}
        BY <3>2
      <4>2. <<Host, n>> # <<Host, "host">>
        BY <1>1
      <4>3. QED
        BY <4>1, <4>2
    <3>5. QED
      BY <1>6, <2>1, <2>2, <3>4 DEF AllWork, SoleInv, n
  <2>3. QED
    BY <1>1, <2>1, <2>2 DEF n
<1>7. QED
  BY <1>5, <1>6, MoveIs

\* What a step at a command does, to its process and to the others.
LEMMA RunIs ==
  ASSUME ProcTypes, PlaceInv, NetInv, NEW p \in Procs, Run(p), NEW c, c = Command(p)
  PROVE  /\ Accepts(c) /\ net' = After(c, saved[p]) /\ Sound(c, saved[p])
         /\ job' = job /\ at' = at /\ code' = code
         /\ \A q \in Procs : q # p => \A i, k : Past(q, i, k)' <=> Past(q, i, k)
         /\ \A i, k \in Nat : i = at[p] /\ k = step[p] => Past(p, i, k)' /\ ~Past(p, i, k)
         /\ \A i, k \in Nat : Past(p, i, k) => Past(p, i, k)'
         /\ \A i, k \in Nat : Past(p, i, k)' /\ ~Past(p, i, k) =>
              i = at[p] /\ (k <= Len(Invocation(p).prog) => k = step[p])
<1>1. /\ pc[p] = "run" /\ Accepts(c) /\ net' = After(c, saved[p]) /\ Advance(p)
      /\ job' = job /\ at' = at /\ code' = code /\ saved[p] \in SUBSET (Names \X Kinds)
  BY DEF Run, ProcTypes
<1>2. Sound(c, saved[p])
  BY <1>1, RunningIs, CommandSound
<1>3. \A q \in Procs : q # p => pc'[q] = pc[q] /\ step'[q] = step[q]
  BY <1>1 DEF Advance, Goto, ProcTypes
<1>4. \A q \in Procs : q # p => \A i, k : Past(q, i, k)' <=> Past(q, i, k)
  BY <1>1, <1>3 DEF Past
<1>5. QED
  BY <1>1, <1>2, <1>4, AdvancePast

\* What has been carried out goes on showing when a creator adds to it.
LEMMA EffectsStep ==
  ASSUME ProcTypes, PlaceInv, NetInv, AllWork, NEW p \in Procs, Run(p), NEW c, c = Command(p),
         c.cmd \notin {"link_del", "netns_del", "restore"}, NEW q \in Procs
  PROVE  EffectsInv(q)'
<1>1. PICK j : j = job[q] /\ j = job'[q]
  BY RunIs
<1>2. pc[p] = "run" /\ Sound(c, saved[p])
  BY RunIs DEF Run
<1>3. ASSUME LabJob(j) \/ GatewayJob(j), NEW i \in 1..Len(Invocations(j)),
             NEW k \in 1..Len(Invocations(j)[i].prog), Past(q, i, k)',
             NEW b, b = Invocations(j)[i].prog[k]
      PROVE  Effect(b)'
  <2>1. j \in Jobs
    BY <1>1, <1>3, NoJobIs DEF ProcTypes
  <2>2. /\ i \in Nat /\ k \in Nat /\ k >= 1
        /\ Len(Invocations(j)[i].prog) \in Nat
    BY <1>3, <2>1, LengthIs
  <2>3. Fits(j, i, k, b)
    BY <1>3, <2>1, CommandIs
  <2>4. CASE Past(q, i, k)
    <3>1. Effect(b)
      BY <1>1, <1>3, <2>4 DEF AllWork, EffectsInv
    <3>2. b.cmd = "route_add" => b.name \in Names
      BY <2>3 DEF Fits
    <3>3. ASSUME b.cmd \in {"link_up", "addr_add"}, c.cmd = "link_move" PROVE b.end # <<Host, c.dev>>
      <4>1. CASE LabJob(j)
        <5>1. b.end[1] \in Names
          BY <2>3, <3>3, <4>1 DEF Fits, LabJob, GatewayJob
        <5>2. QED
          BY <5>1, NullAssumption
      <4>2. CASE GatewayJob(j)
        <5>1. /\ b.end \in {<<Host, j.name>>, <<j.name, "host">>} /\ j.name \in Names
          BY <2>1, <2>3, <3>3, <4>2, JobIs DEF Fits, LabJob, GatewayJob
        <5>2. i = 1
          <6>1. Len(Invocations(j)) = 1
            BY <1>1, <4>2, GatewayAt DEF GatewayJob
          <6>2. QED
            BY <1>3, <6>1
        <5>3. Past(q, 1, 1)
          BY <2>2, <2>4, <5>2, PastBefore
        <5>4. c.dev # j.name
          BY <1>1, <1>2, <3>3, <4>2, <5>3, NotTheirs
        <5>5. QED
          BY <5>1, <5>4, NullAssumption
      <4>3. QED
        BY <1>3, <4>1, <4>2
    <3>4. QED
      BY <1>2, <3>1, <3>2, <3>3, EffectStays DEF Sound
  <2>5. CASE ~Past(q, i, k)
    <3>1. q = p
      BY <1>3, <2>5, RunIs
    <3>2. i = at[p] /\ (k <= Len(Invocation(p).prog) => k = step[p])
      BY <1>3, <2>2, <2>5, <3>1, RunIs
    <3>3. Invocation(p) = Invocations(j)[i]
      BY <1>1, <3>1, <3>2 DEF Invocation
    <3>4. b = c
      BY <1>3, <2>2, <3>2, <3>3 DEF Command
    <3>5. QED
      BY <1>2, <3>4 DEF Sound
  <2>6. QED
    BY <2>4, <2>5
<1>4. QED
  BY <1>1, <1>3 DEF EffectsInv

\* So do the pairs of the uplinks,
LEMMA UplinkStep ==
  ASSUME ProcTypes, PlaceInv, NetInv, AllWork, NEW p \in Procs, Run(p), NEW c, c = Command(p),
         c.cmd \notin {"link_del", "netns_del", "restore"}, NEW q \in Procs
  PROVE  UplinkInv(q)'
<1>1. PICK j : j = job[q] /\ j = job'[q]
  BY RunIs
<1>2. pc[p] = "run" /\ Sound(c, saved[p]) /\ Spares(c)
  BY RunIs DEF Run, Sound
<1>3. SUFFICES ASSUME GatewayJob(j)
               PROVE  /\ Past(q, 1, 1)' =>
                           \/ Past(q, 1, 2)'
                           \/ {<<Host, j.name>>, <<Host, "host">>} \in net'.veths
                      /\ Past(q, 1, 2)' =>
                           {<<Host, j.name>>, <<j.name, "host">>} \in net'.veths
  BY <1>1 DEF UplinkInv
<1>4. /\ Past(q, 1, 1) =>
           \/ Past(q, 1, 2)
           \/ {<<Host, j.name>>, <<Host, "host">>} \in net.veths
      /\ Past(q, 1, 2) => {<<Host, j.name>>, <<j.name, "host">>} \in net.veths
  BY <1>1, <1>3 DEF AllWork, UplinkInv
<1>5. j.name \in Names /\ at[q] = 1 /\ Invocation(q) = GatewayCreate(j.name)
  BY <1>1, <1>3, GatewayAt DEF GatewayJob
<1>6. Past(q, 1, 2) => Past(q, 1, 1)
  BY PastBefore
<1>7. ASSUME Past(q, 1, 2) PROVE {<<Host, j.name>>, <<j.name, "host">>} \in net'.veths
  <2>1. c.cmd = "link_move" => c.dev # j.name
    BY <1>1, <1>2, <1>3, <1>6, <1>7, NotTheirs
  <2>2. c.cmd = "link_move" => <<Host, c.dev>> \notin {<<Host, j.name>>, <<j.name, "host">>}
    BY <1>5, <2>1, NullAssumption
  <2>3. QED
    BY <1>2, <1>4, <1>7, <2>2, PairStays
<1>8. CASE q # p
  <2>1. \A i, k : Past(q, i, k)' <=> Past(q, i, k)
    BY <1>8, RunIs
  <2>2. ASSUME Past(q, 1, 1), ~Past(q, 1, 2)
        PROVE  {<<Host, j.name>>, <<Host, "host">>} \in net'.veths
    <3>1. c.cmd = "link_move" => c.dev # j.name /\ c.dev # "host"
      BY <1>1, <1>2, <1>3, <1>8, <2>2, NotTheirs
    <3>2. c.cmd = "link_move" => <<Host, c.dev>> \notin {<<Host, j.name>>, <<Host, "host">>}
      BY <3>1
    <3>3. QED
      BY <1>2, <1>4, <2>2, <3>2, PairStays
  <2>3. QED
    BY <1>7, <2>1, <2>2
<1>9. CASE q = p
  <2>1. c = GatewayCreate(j.name).prog[step[p]] /\ step[p] \in 1..12
    <3>1. PICK n : n = j.name
      OBVIOUS
    <3>2. Len(GatewayCreate(n).prog) = 12
      BY GatewayCreateIs
    <3>3. step[p] \in 1..Len(Invocation(p).prog)
      BY <1>2, RunningIs
    <3>4. Invocation(p) = GatewayCreate(n)
      BY <1>5, <1>9, <3>1
    <3>5. QED
      BY <3>1, <3>2, <3>3, <3>4 DEF Command
  <2>2. /\ Past(p, 1, step[p]) = FALSE
        /\ \A k \in 1..12 : Past(p, 1, k) <=> k < step[p]
        /\ \A k \in 1..12 : Past(p, 1, k)' => k <= step[p]
    <3>1. code[p] = "ok" /\ pc[p] = "run" /\ at[p] = 1 /\ step[p] \in Nat
      BY <1>2, <1>5, <1>9, <2>1 DEF PlaceInv
    <3>2. \A k \in 1..12 : Past(p, 1, k) <=> k < step[p]
      BY <3>1 DEF Past
    <3>3. PICK n : n = j.name
      OBVIOUS
    <3>4. Len(Invocation(p).prog) = 12
      BY <1>5, <1>9, <3>3, GatewayCreateIs
    <3>5. \A k \in 1..12 : Past(p, 1, k)' => k <= step[p]
      <4>1. ASSUME NEW k \in 1..12, Past(p, 1, k)', ~Past(p, 1, k) PROVE k = step[p]
        <5>1. \A m \in Nat : Past(p, 1, m)' /\ ~Past(p, 1, m) =>
                (m <= Len(Invocation(p).prog) => m = step[p])
          BY RunIs
        <5>2. k <= Len(Invocation(p).prog) /\ k \in Nat
          BY <3>4
        <5>3. QED
          BY <4>1, <5>1, <5>2
      <4>2. QED
        BY <3>1, <3>2, <4>1
    <3>6. QED
      BY <2>1, <3>1, <3>2, <3>5
  <2>3. CASE step[p] = 1
    <3>1. c = LinkAdd(j.name, "host")
      BY <2>1, <2>3, GatewayCreateIs
    <3>2. PICK n \in Names : n = j.name
      BY <1>5
    <3>3. Accepts(LinkAdd(n, "host")) /\ net' = After(LinkAdd(n, "host"), saved[p])
      BY <3>1, <3>2, RunIs
    <3>4. {<<Host, n>>, <<Host, "host">>} \in net'.veths
      BY <3>3, LinkAddSound DEF Devs
    <3>5. ~Past(p, 1, 2)'
      BY <2>2, <2>3
    <3>6. QED
      BY <1>9, <3>2, <3>4, <3>5
  <2>4. CASE step[p] = 2
    <3>1. c = LinkMove("host", j.name)
      BY <2>1, <2>4, GatewayCreateIs
    <3>2. {<<Host, j.name>>, <<Host, "host">>} \in net.veths
      BY <1>4, <1>9, <2>2, <2>4
    <3>3. c.cmd = "link_move" /\ c.dev = "host" /\ c.to = j.name
      BY <3>1 DEF LinkMove
    <3>4. <<Host, j.name>> \in Links /\ <<Host, j.name>> # <<Host, "host">>
      BY <1>5 DEF Links, Places, Devs, Names
    <3>5. {<<Host, "host">>, <<Host, j.name>>} \in net.veths
      <4>1. {<<Host, "host">>, <<Host, j.name>>} = {<<Host, j.name>>, <<Host, "host">>}
        OBVIOUS
      <4>2. QED
        BY <3>2, <4>1
    <3>6. {<<j.name, "host">>, <<Host, j.name>>} \in net'.veths
      BY <1>2, <3>3, <3>4, <3>5 DEF Sound, Moves
    <3>7. {<<j.name, "host">>, <<Host, j.name>>} = {<<Host, j.name>>, <<j.name, "host">>}
      OBVIOUS
    <3>8. Past(p, 1, 2)'
      BY <1>5, <1>9, <2>4, RunIs
    <3>9. QED
      BY <1>9, <3>6, <3>7, <3>8
  <2>5. CASE step[p] \in 3..12
    <3>1. Past(p, 1, 2)
      BY <2>2, <2>5
    <3>2. Past(p, 1, 2)'
      BY <3>1, RunIs
    <3>3. QED
      BY <1>7, <1>9, <3>1, <3>2
  <2>6. QED
    BY <2>1, <2>3, <2>4, <2>5
<1>10. QED
  BY <1>8, <1>9

\* the pairs of the lab,
LEMMA ConnectStep ==
  ASSUME ProcTypes, PlaceInv, LockInv, NetInv, AllWork, NEW p \in Procs, Run(p),
         NEW c, c = Command(p),
         c.cmd \notin {"link_del", "netns_del", "restore"}, NEW q \in Procs
  PROVE  ConnectInv(q)'
<1>1. PICK j : j = job[q] /\ j = job'[q]
  BY RunIs
<1>2. pc[p] = "run" /\ Sound(c, saved[p]) /\ Spares(c)
  BY RunIs DEF Run, Sound
<1>3. SUFFICES ASSUME LabJob(j), NEW l \in Leaves, NEW i \in {4, 5}, i = Slot(l)
               PROVE  /\ Past(q, i, 1)' =>
                           \/ Past(q, i, 2)'
                           \/ {<<Host, "router">>, <<Host, l>>} \in net'.veths
                      /\ Past(q, i, 2)' =>
                           \/ Past(q, i, 3)'
                           \/ {<<l, "router">>, <<Host, l>>} \in net'.veths
                      /\ Past(q, i, 3)' => {<<l, "router">>, <<"router", l>>} \in net'.veths
  BY <1>1 DEF ConnectInv, Slot
<1>4. /\ Past(q, i, 1) =>
           \/ Past(q, i, 2)
           \/ {<<Host, "router">>, <<Host, l>>} \in net.veths
      /\ Past(q, i, 2) =>
           \/ Past(q, i, 3)
           \/ {<<l, "router">>, <<Host, l>>} \in net.veths
      /\ Past(q, i, 3) => {<<l, "router">>, <<"router", l>>} \in net.veths
  BY <1>1, <1>3 DEF AllWork, ConnectInv
<1>5. l \in Names /\ l # "host" /\ l # "router" /\ l # Host /\ "router" # Host /\ l \in Devs
  BY NullAssumption DEF Leaves, Names, Devs
<1>6. ASSUME Past(q, i, 3) PROVE {<<l, "router">>, <<"router", l>>} \in net'.veths
  <2>1. \A d : <<Host, d>> \notin {<<l, "router">>, <<"router", l>>}
    BY <1>5
  <2>2. QED
    BY <1>2, <1>4, <1>6, <2>1, PairStays
<1>7. CASE q # p
  <2>1. \A k : Past(q, i, k)' <=> Past(q, i, k)
    BY <1>7, RunIs
  <2>2. ASSUME pc[q] = "run", c.cmd = "link_move" PROVE c.dev = "host"
    <3>1. lock = q
      BY <1>1, <1>3, <2>2 DEF LockInv, LabJob
    <3>2. ~LabJob(job[p])
      BY <1>2, <1>7, <3>1 DEF LockInv, LabJob
    <3>3. QED
      BY <1>2, <2>2, <3>2, OwnPair
  <2>3. ASSUME Past(q, i, 1), ~Past(q, i, 2)
        PROVE  {<<Host, "router">>, <<Host, l>>} \in net'.veths
    <3>1. pc[q] = "run"
      BY <2>3, BetweenIs
    <3>2. c.cmd = "link_move" => <<Host, c.dev>> \notin {<<Host, "router">>, <<Host, l>>}
      BY <1>5, <2>2, <3>1
    <3>3. QED
      BY <1>2, <1>4, <2>3, <3>2, PairStays
  <2>4. ASSUME Past(q, i, 2), ~Past(q, i, 3)
        PROVE  {<<l, "router">>, <<Host, l>>} \in net'.veths
    <3>1. pc[q] = "run"
      BY <2>4, BetweenIs
    <3>2. c.cmd = "link_move" => <<Host, c.dev>> \notin {<<l, "router">>, <<Host, l>>}
      BY <1>5, <2>2, <3>1
    <3>3. QED
      BY <1>2, <1>4, <2>4, <3>2, PairStays
  <2>5. QED
    BY <1>6, <2>1, <2>3, <2>4
<1>8. CASE q = p /\ at[p] # i
  <2>1. \A k \in Nat : Past(p, i, k)' => Past(p, i, k)
    BY <1>8, RunIs
  <2>2. \A k \in Nat : Past(p, i, k) => Past(p, i, k)'
    BY RunIs
  <2>3. \A k : Past(p, i, k) => Past(p, i, 3)
    BY <1>8 DEF Past
  <2>4. /\ Past(p, i, 1)' => Past(p, i, 3) /\ Past(p, i, 3)'
        /\ Past(p, i, 2)' => Past(p, i, 3) /\ Past(p, i, 3)'
        /\ Past(p, i, 3)' => Past(p, i, 3)
    BY <2>1, <2>2, <2>3
  <2>5. CASE Past(p, i, 3)
    <3>1. {<<l, "router">>, <<"router", l>>} \in net'.veths /\ Past(p, i, 3)'
      BY <1>6, <1>8, <2>2, <2>5
    <3>2. Past(p, i, 2)'
      <4>1. Past(p, i, 2)
        BY <2>5, <1>3, PastBefore
      <4>2. QED
        BY <2>2, <4>1
    <3>3. QED
      BY <1>8, <3>1, <3>2
  <2>6. QED
    BY <1>8, <2>4, <2>5
<1>9. CASE q = p /\ at[p] = i
  <2>1. Invocation(p) = Connect(l, "router")
    <3>1. Invocations(j) = LabCreate
      BY <1>1, <1>3, NoJobIs, InvocationsAre DEF ProcTypes
    <3>2. LabCreate[i] = Connect(l, "router")
      BY <1>3, LabCreateIs DEF Leaves, Slot
    <3>3. QED
      BY <1>1, <1>9, <3>1, <3>2 DEF Invocation
  <2>2. c = Connect(l, "router").prog[step[p]] /\ step[p] \in 1..5
    <3>1. step[p] \in 1..Len(Invocation(p).prog)
      BY <1>2, RunningIs
    <3>2. QED
      BY <2>1, <3>1, ConnectIs DEF Command
  <2>3. /\ \A k \in 1..5 : Past(p, i, k) <=> k < step[p]
        /\ \A k \in 1..5 : Past(p, i, k)' => k <= step[p]
    <3>1. code[p] = "ok" /\ pc[p] = "run" /\ at[p] = i /\ step[p] \in Nat
      BY <1>2, <1>9, <2>2 DEF PlaceInv
    <3>2. \A k \in 1..5 : Past(p, i, k) <=> k < step[p]
      BY <3>1 DEF Past
    <3>3. Len(Invocation(p).prog) = 5
      BY <2>1, ConnectIs
    <3>4. \A k \in 1..5 : Past(p, i, k)' => k <= step[p]
      <4>1. ASSUME NEW k \in 1..5, Past(p, i, k)', ~Past(p, i, k) PROVE k = step[p]
        <5>1. \A m \in Nat : Past(p, i, m)' /\ ~Past(p, i, m) =>
                (m <= Len(Invocation(p).prog) => m = step[p])
          BY RunIs
        <5>2. k <= Len(Invocation(p).prog) /\ k \in Nat
          BY <3>3
        <5>3. QED
          BY <4>1, <5>1, <5>2
      <4>2. QED
        BY <3>1, <3>2, <4>1
    <3>5. QED
      BY <3>2, <3>4
  <2>4. CASE step[p] = 1
    <3>1. c = LinkAdd("router", l)
      BY <2>2, <2>4, ConnectIs
    <3>2. "router" \in Devs
      BY DEF Devs, Names
    <3>3. Accepts(LinkAdd("router", l)) /\ net' = After(LinkAdd("router", l), saved[p])
      BY <3>1, RunIs
    <3>4. {<<Host, "router">>, <<Host, l>>} \in net'.veths
      BY <1>5, <3>2, <3>3, LinkAddSound
    <3>5. ~Past(p, i, 2)' /\ ~Past(p, i, 3)'
      BY <2>3, <2>4
    <3>6. QED
      BY <1>9, <3>4, <3>5
  <2>5. CASE step[p] = 2
    <3>1. c = LinkMove("router", l)
      BY <2>2, <2>5, ConnectIs
    <3>2. {<<Host, "router">>, <<Host, l>>} \in net.veths
      BY <1>4, <1>9, <2>3, <2>5
    <3>3. c.cmd = "link_move" /\ c.dev = "router" /\ c.to = l
      BY <3>1 DEF LinkMove
    <3>4. <<Host, l>> \in Links /\ <<Host, l>> # <<Host, "router">>
      BY <1>5 DEF Links, Places
    <3>5. {<<l, "router">>, <<Host, l>>} \in net'.veths
      BY <1>2, <3>2, <3>3, <3>4 DEF Sound, Moves
    <3>6. Past(p, i, 2)' /\ ~Past(p, i, 3)'
      BY <1>9, <2>3, <2>5, RunIs
    <3>7. QED
      BY <1>9, <3>5, <3>6
  <2>6. CASE step[p] = 3
    <3>1. c = LinkMove(l, "router")
      BY <2>2, <2>6, ConnectIs
    <3>2. {<<l, "router">>, <<Host, l>>} \in net.veths
      BY <1>4, <1>9, <2>3, <2>6
    <3>3. c.cmd = "link_move" /\ c.dev = l /\ c.to = "router"
      BY <3>1 DEF LinkMove
    <3>4. <<l, "router">> \in Links /\ <<l, "router">> # <<Host, l>>
      BY <1>5 DEF Links, Places, Devs, Names
    <3>5. {<<Host, l>>, <<l, "router">>} \in net.veths
      <4>1. {<<Host, l>>, <<l, "router">>} = {<<l, "router">>, <<Host, l>>}
        OBVIOUS
      <4>2. QED
        BY <3>2, <4>1
    <3>6. {<<"router", l>>, <<l, "router">>} \in net'.veths
      BY <1>2, <3>3, <3>4, <3>5 DEF Sound, Moves
    <3>7. {<<"router", l>>, <<l, "router">>} = {<<l, "router">>, <<"router", l>>}
      OBVIOUS
    <3>8. Past(p, i, 2)' /\ Past(p, i, 3)'
      <4>1. Past(p, i, 2)
        BY <2>3, <2>6
      <4>2. QED
        BY <1>9, <2>6, <4>1, RunIs
    <3>9. QED
      BY <1>9, <3>6, <3>7, <3>8
  <2>7. CASE step[p] \in {4, 5}
    <3>1. Past(p, i, 2) /\ Past(p, i, 3)
      BY <2>3, <2>7
    <3>2. Past(p, i, 2)' /\ Past(p, i, 3)'
      BY <3>1, RunIs
    <3>3. QED
      BY <1>6, <1>9, <3>1, <3>2
  <2>8. QED
    BY <2>2, <2>4, <2>5, <2>6, <2>7
<1>10. QED
  BY <1>7, <1>8, <1>9

\* and there are no two makers of one gateway's interface.
LEMMA SoleStep ==
  ASSUME ProcTypes, PlaceInv, NetInv, AllWork, NEW p \in Procs, Run(p), NEW c, c = Command(p)
  PROVE  SoleInv'
<1>1. pc[p] = "run" /\ job' = job
  BY RunIs DEF Run
<1>2. ASSUME NEW r \in Procs, r # p, GatewayJob(job[p]), GatewayJob(job[r]),
             Past(p, 1, 1)', Past(r, 1, 1)
      PROVE  job[p].name # job[r].name
  <2>1. CASE Past(p, 1, 1)
    BY <1>2, <2>1 DEF AllWork, SoleInv
  <2>2. CASE ~Past(p, 1, 1)
    <3>1. PICK n \in Names : n = job[p].name /\ Invocation(p) = GatewayCreate(n)
      BY <1>2, GatewayAt DEF GatewayJob
    <3>2. step[p] = 1
      <4>1. /\ Past(p, 1, 1)' /\ ~Past(p, 1, 1) =>
                (1 <= Len(Invocation(p).prog) => 1 = step[p])
        BY RunIs
      <4>2. Len(Invocation(p).prog) = 12
        BY <3>1, GatewayCreateIs
      <4>3. QED
        BY <1>2, <2>2, <4>1, <4>2
    <3>3. c = LinkAdd(n, "host")
      BY <3>1, <3>2, GatewayCreateIs DEF Command
    <3>4. Accepts(LinkAdd(n, "host"))
      BY <3>3, RunIs
    <3>5. <<Host, n>> \notin Ends
      BY <3>4, AcceptsIs
    <3>6. <<Host, job[r].name>> \in Ends
      BY <1>2, UplinkIs DEF Ends
    <3>7. QED
      BY <3>1, <3>5, <3>6
  <2>3. QED
    BY <2>1, <2>2
<1>3. \A r \in Procs : r # p => (Past(r, 1, 1)' <=> Past(r, 1, 1))
  BY RunIs
<1>4. \A q, r \in Procs : /\ q # r /\ GatewayJob(job[q]) /\ GatewayJob(job[r])
                          /\ Past(q, 1, 1)' /\ Past(r, 1, 1)'
                         => job[q].name # job[r].name
  BY <1>2, <1>3 DEF AllWork, SoleInv
<1>5. QED
  BY <1>1, <1>4 DEF SoleInv

\* A step that carries out no command: what is past stays so, and a job that begins
\* has done nothing.
Quiet ==
  /\ UNCHANGED net /\ faults' >= faults
  /\ \A q \in Procs : (job'[q] = job[q] /\ Keeps(q)) \/ Fresh(q)
  /\ \A q \in Procs : q \notin spoiled' /\ job'[q] # NoJob =>
       \/ q \notin spoiled /\ job'[q] = job[q]
       \/ spoiled = {} /\ job[q] = NoJob

\* The deletion of a gateway's interface that fails.
Tolerated(p) == RunFails(p) /\ Command(p).cmd = "link_del"

\* For a process that takes no step, the same commands are past.
LEMMA SameKeeps ==
  ASSUME NEW q \in Procs, Same(q)
  PROVE  job'[q] = job[q] /\ Keeps(q)
BY DEF Same, Keeps, Past

\* Every step carries out a command, tolerates that a deletion failed, or is quiet.
LEMMA QuietIs ==
  ASSUME ProcTypes, PlaceInv, [Next]_vars
  PROVE  (\E p \in Procs : Run(p) \/ Tolerated(p)) \/ Quiet
<1>0. faults \in Nat
  BY BoundsAssumption DEF ProcTypes
<1>1. ASSUME NEW p \in Procs, Begin(p) PROVE Quiet
  <2>1. PICK j : job' = [job EXCEPT ![p] = j]
    BY <1>1 DEF Begin
  <2>2. \A q \in Procs : q # p => Same(q)
    BY <1>1, <2>1 DEF Begin, Goto, ProcTypes, Same
  <2>3. /\ at'[p] = 1 /\ step'[p] = 1 /\ pc'[p] = "enter" /\ pc[p] = "idle" /\ job[p] = NoJob
    BY <1>1 DEF Begin, Goto, ProcTypes, PlaceInv
  <2>4. Fresh(p)
    BY <2>3 DEF Fresh, Past
  <2>5. UNCHANGED net /\ faults' = faults /\ spoiled \subseteq spoiled'
        /\ (p \notin spoiled' => spoiled = {})
    BY <1>1 DEF Begin
  <2>6. QED
    BY <1>0, <2>2, <2>3, <2>4, <2>5, SameKeeps DEF Quiet
<1>2. ASSUME NEW p \in Procs, UNCHANGED <<net, job, spoiled>>, faults' >= faults,
             \A q \in Procs : q # p => Same(q), Keeps(p)
      PROVE  Quiet
  BY <1>2, SameKeeps DEF Quiet
<1>3. ASSUME NEW p \in Procs, Enter(p) PROVE Quiet
  <2>1. \A q \in Procs : q # p => Same(q)
    BY <1>3 DEF Enter, Goto, ProcTypes, Same
  <2>2. /\ pc'[p] = "run" /\ pc[p] = "enter" /\ at'[p] = at[p] /\ step'[p] = step[p]
        /\ code'[p] = code[p]
    BY <1>3 DEF Enter, Goto, ProcTypes
  <2>3. Keeps(p)
    BY <2>2 DEF Keeps, Past
  <2>4. QED
    BY <1>0, <1>2, <1>3, <2>1, <2>3 DEF Enter
<1>4. ASSUME NEW p \in Procs, Lock(p) PROVE Quiet
  <2>1. /\ pc[p] = "enter" /\ job' = job /\ at' = at /\ step' = step
        /\ \/ pc' = [pc EXCEPT ![p] = "run"] /\ code' = code
           \/ pc' = [pc EXCEPT ![p] = "leave"] /\ code' = [code EXCEPT ![p] = "rejected"]
    BY <1>4 DEF Lock, Goto
  <2>2. \A q \in Procs : q # p => Same(q)
    BY <2>1 DEF ProcTypes, Same
  <2>3. /\ at'[p] = at[p] /\ step'[p] = step[p]
        /\ \/ pc'[p] = "run" /\ code'[p] = code[p]
           \/ code'[p] = "rejected"
    BY <2>1 DEF ProcTypes
  <2>4. Keeps(p)
    BY <2>1, <2>3 DEF Keeps, Past
  <2>5. QED
    BY <1>0, <1>2, <1>4, <2>2, <2>4 DEF Lock
<1>5. ASSUME NEW p \in Procs, RunFails(p), ~Tolerated(p) PROVE Quiet
  <2>1. /\ UNCHANGED <<net, job, spoiled, at>> /\ faults' >= faults /\ pc' = [pc EXCEPT ![p] = "leave"]
        /\ step' = step /\ code' = [code EXCEPT ![p] = "failed"]
    BY <1>0, <1>5 DEF RunFails, Tolerated, Refused, Goto
  <2>2. \A q \in Procs : q # p => Same(q)
    BY <2>1 DEF ProcTypes, Same
  <2>3. code'[p] = "failed"
    BY <2>1 DEF ProcTypes
  <2>4. Keeps(p)
    BY <2>3 DEF Keeps, Past
  <2>5. QED
    BY <1>2, <2>1, <2>2, <2>4
<1>6. ASSUME NEW p \in Procs, Leave(p) PROVE Quiet
  <2>1. /\ pc[p] = "leave" /\ job' = job /\ code' = code /\ step' = [step EXCEPT ![p] = 1]
        /\ \/ pc' = [pc EXCEPT ![p] = "done"] /\ at' = at
           \/ pc' = [pc EXCEPT ![p] = "enter"] /\ at' = [at EXCEPT ![p] = @ + 1]
    BY <1>6 DEF Leave, Goto
  <2>2. \A q \in Procs : q # p => Same(q)
    BY <2>1 DEF ProcTypes, Same
  <2>3. /\ step'[p] = 1 /\ code'[p] = code[p] /\ at[p] \in Nat /\ step[p] \in Nat
        /\ \/ pc'[p] = "done" /\ at'[p] = at[p]
           \/ pc'[p] = "enter" /\ at'[p] = at[p] + 1
    BY <2>1 DEF ProcTypes
  <2>4. Keeps(p)
    BY <2>1, <2>3 DEF Keeps, Past
  <2>5. QED
    BY <1>0, <1>2, <1>6, <2>2, <2>4 DEF Leave
<1>7. ASSUME NEW p \in Procs, Finish(p) PROVE Quiet
  <2>1. \A q \in Procs : q # p => Same(q)
    BY <1>7 DEF Finish, Goto, ProcTypes, Same
  <2>2. at'[p] = 1 /\ step'[p] = 1 /\ pc'[p] = "idle" /\ job'[p] = NoJob
    BY <1>7 DEF Finish, Goto, ProcTypes, PlaceInv
  <2>3. Fresh(p)
    BY <2>2 DEF Fresh, Past
  <2>4. UNCHANGED net /\ faults' = faults /\ spoiled' = spoiled \ {p}
    BY <1>7 DEF Finish
  <2>5. QED
    BY <1>0, <2>1, <2>2, <2>3, <2>4, SameKeeps DEF Quiet, Same
<1>8. ASSUME UNCHANGED vars PROVE Quiet
  <2>1. \A q \in Procs : Same(q)
    BY <1>8 DEF vars, Same
  <2>2. QED
    BY <1>0, <1>8, <2>1, SameKeeps DEF Quiet, vars
<1>9. QED
  BY <1>1, <1>3, <1>4, <1>5, <1>6, <1>7, <1>8 DEF Next

\* Where nobody creates anything there is no work to undo.
LEMMA NoWork ==
  ASSUME \A q \in Procs : ~LabJob(job[q]) /\ ~GatewayJob(job[q])
  PROVE  AllWork
BY DEF AllWork, SoleInv, EffectsInv, ConnectInv, UplinkInv

\* A job that was not spoiled is at work, and what others run does not spoil it.
LEMMA UnspoiledIs ==
  ASSUME ProcTypes, PlaceInv, NEW p \in Procs, Run(p), NEW c, c = Command(p),
         NEW r \in Procs, r \notin spoiled', job'[r] # NoJob
  PROVE  r \notin spoiled /\ (r # p => ~Spoils(c, job[r]))
BY DEF Run, PlaceInv

\* The work of the creators is preserved, as long as one of them is unspoiled.
LEMMA WorkStep ==
  ASSUME ProcTypes, PlaceInv, LockInv, NetInv, WorkInv, [Next]_vars
  PROVE  WorkInv'
<1>1. SUFFICES ASSUME NEW r \in Procs, r \notin spoiled', LabJob(job'[r]) \/ GatewayJob(job'[r])
               PROVE  AllWork'
  BY DEF WorkInv
<1>2. job'[r] # NoJob
  BY <1>1, NoJobIs
<1>3. ASSUME NEW p \in Procs, Run(p) PROVE AllWork'
  <2>1. PICK c : c = Command(p)
    OBVIOUS
  <2>2. job'[r] = job[r] /\ r \notin spoiled /\ (r # p => ~Spoils(c, job[r]))
    BY <1>1, <1>2, <1>3, <2>1, UnspoiledIs DEF Run
  <2>3. AllWork
    BY <1>1, <2>2 DEF WorkInv
  <2>4. c.cmd \notin {"link_del", "netns_del", "restore"}
    <3>1. CASE r = p
      <4>1. Fits(job[p], at[p], step[p], c)
        BY <1>3, <2>1, RunningIs DEF Run
      <4>2. job[p].does = "create"
        BY <1>1, <2>2, <3>1 DEF LabJob, GatewayJob
      <4>3. QED
        BY <4>1, <4>2 DEF Fits
    <3>2. CASE r # p
      BY <2>2, <3>2 DEF Spoils
    <3>3. QED
      BY <3>1, <3>2
  <2>5. \A q \in Procs : EffectsInv(q)' /\ ConnectInv(q)' /\ UplinkInv(q)'
    BY <1>3, <2>1, <2>3, <2>4, EffectsStep, ConnectStep, UplinkStep
  <2>6. SoleInv'
    BY <1>3, <2>1, <2>3, SoleStep
  <2>7. QED
    BY <2>5, <2>6 DEF AllWork
<1>4. ASSUME NEW p \in Procs, Tolerated(p) PROVE AllWork'
  <2>1. pc[p] = "run" /\ UNCHANGED <<net, job, at, spoiled>> /\ Command(p).cmd = "link_del"
    BY <1>4 DEF Tolerated, RunFails
  <2>2. job[p].does = "destroy"
    BY <2>1, RunningIs DEF Fits
  <2>3. Advance(p) /\ UNCHANGED code
    BY <1>4, <2>1 DEF Tolerated, RunFails
  <2>4. \A q \in Procs : q # p => Same(q)
    BY <2>1, <2>3 DEF Same, Advance, Goto, ProcTypes
  <2>5. AllWork
    BY <1>1, <2>1 DEF WorkInv
  <2>6. \A q \in Procs : \/ job'[q] = job[q] /\ Keeps(q)
                         \/ Fresh(q)
                         \/ ~LabJob(job'[q]) /\ ~GatewayJob(job'[q])
    <3>1. ~LabJob(job'[p]) /\ ~GatewayJob(job'[p])
      BY <2>1, <2>2 DEF LabJob, GatewayJob
    <3>2. \A q \in Procs : q # p => job'[q] = job[q] /\ Keeps(q)
      BY <2>4, SameKeeps
    <3>3. ASSUME NEW q \in Procs
          PROVE  (job'[q] = job[q] /\ Keeps(q)) \/ (~LabJob(job'[q]) /\ ~GatewayJob(job'[q]))
      <4>1. CASE q = p
        BY <3>1, <4>1
      <4>2. CASE q # p
        BY <3>2, <4>2
      <4>3. QED
        BY <4>1, <4>2
    <3>4. QED
      BY <3>3
  <2>7. QED
    BY <2>1, <2>5, <2>6, QuietStep
<1>5. ASSUME Quiet PROVE AllWork'
  <2>1. AllWork
    <3>1. CASE r \notin spoiled /\ job'[r] = job[r]
      BY <1>1, <3>1 DEF WorkInv
    <3>2. CASE spoiled = {}
      BY <3>2, NoWork DEF WorkInv
    <3>3. QED
      BY <1>1, <1>2, <1>5, <3>1, <3>2 DEF Quiet
  <2>2. QED
    BY <1>5, <2>1, QuietStep DEF Quiet
<1>6. QED
  BY <1>3, <1>4, <1>5, QuietIs

\* What an unspoiled destroy has removed stays away.
LEMMA CleanStep ==
  ASSUME ProcTypes, PlaceInv, NetInv, CleanInv, [Next]_vars, ProcTypes'
  PROVE  CleanInv'
<1>1. SUFFICES ASSUME NEW r \in Procs, r \notin spoiled', NEW j, j = job'[r],
                      j.tool = "gateway", j.does = "destroy"
               PROVE  /\ Past(r, 1, 2)' => RulesOf(j.name) \cap net'.rules = {}
                      /\ Past(r, 1, 3)' => faults' > 0 \/ <<Host, j.name>> \notin Ends'
  BY DEF CleanInv, RulesOf
<1>2. j # NoJob
  BY <1>1, NoJobIs
<1>3. ASSUME r \notin spoiled, job[r] = j
      PROVE  /\ Past(r, 1, 2) => RulesOf(j.name) \cap net.rules = {}
             /\ Past(r, 1, 3) => faults > 0 \/ <<Host, j.name>> \notin Ends
             /\ at[r] = 1 /\ Invocation(r) = GatewayDestroy(j.name) /\ Len(Invocation(r).prog) = 3
  <2>1. at[r] = 1 /\ Invocation(r) = GatewayDestroy(j.name)
    BY <1>1, <1>3, GatewayAt
  <2>2. PICK n : n = j.name
    OBVIOUS
  <2>3. Len(Invocation(r).prog) = 3
    BY <2>1, <2>2, GatewayDestroyIs
  <2>4. QED
    BY <1>1, <1>3, <2>1, <2>3 DEF CleanInv
<1>4. ASSUME NEW p \in Procs, Run(p)
      PROVE  /\ Past(r, 1, 2)' => RulesOf(j.name) \cap net'.rules = {}
             /\ Past(r, 1, 3)' => faults' > 0 \/ <<Host, j.name>> \notin Ends'
  <2>1. PICK c, sv : c = Command(p) /\ sv = saved[p]
    OBVIOUS
  <2>2. /\ job[r] = j /\ faults' = faults /\ pc[p] = "run"
        /\ r \notin spoiled /\ (r # p => ~Spoils(c, j))
    <3>1. job' = job /\ faults' = faults /\ pc[p] = "run"
      BY <1>4 DEF Run
    <3>2. QED
      BY <1>1, <1>2, <1>4, <2>1, <3>1, UnspoiledIs
  <2>3. Tables(c, sv)
    BY <1>4, <2>1, RunIs DEF Sound
  <2>4. CASE r # p
    <3>1. c.cmd \notin {"netns_del", "link_del", "restore", "link_add", "rule_add"}
      BY <1>1, <2>2, <2>4 DEF Spoils
    <3>2. net'.rules = net.rules /\ \A d : <<Host, d>> \in Ends' => <<Host, d>> \in Ends
      BY <2>3, <3>1 DEF Tables
    <3>3. \A i, k : Past(r, i, k)' <=> Past(r, i, k)
      BY <1>4, <2>4, RunIs
    <3>4. QED
      BY <1>3, <2>2, <3>2, <3>3
  <2>5. CASE r = p
    <3>1. /\ at[p] = 1 /\ Invocation(p) = GatewayDestroy(j.name) /\ Len(Invocation(p).prog) = 3
          /\ step[p] \in 1..3 /\ c = GatewayDestroy(j.name).prog[step[p]]
      <4>1. at[p] = 1 /\ Invocation(p) = GatewayDestroy(j.name) /\ Len(Invocation(p).prog) = 3
        BY <1>3, <2>2, <2>5
      <4>2. step[p] \in 1..Len(Invocation(p).prog)
        BY <2>2, RunningIs
      <4>3. QED
        BY <2>1, <4>1, <4>2 DEF Command
    <3>2. \A k \in 1..3 : Past(p, 1, k)' /\ ~Past(p, 1, k) => k = step[p]
      <4>1. ASSUME NEW k \in 1..3, Past(p, 1, k)', ~Past(p, 1, k) PROVE k = step[p]
        <5>1. \A m \in Nat : Past(p, 1, m)' /\ ~Past(p, 1, m) =>
                (m <= Len(Invocation(p).prog) => m = step[p])
          BY <1>4, RunIs
        <5>2. k <= Len(Invocation(p).prog) /\ k \in Nat
          BY <3>1
        <5>3. QED
          BY <4>1, <5>1, <5>2
      <4>2. QED
        BY <4>1
    <3>3. \A k \in 1..3 : Past(p, 1, k) <=> k < step[p]
      <4>1. code[p] = "ok" /\ at[p] = 1
        BY <2>2, <3>1 DEF PlaceInv
      <4>2. QED
        BY <2>2, <3>1, <4>1 DEF Past
    <3>4. CASE step[p] = 1
      BY <2>5, <3>2, <3>3, <3>4
    <3>5. CASE step[p] = 2
      <4>1. c = Restore(j.name)
        BY <3>1, <3>5, GatewayDestroyIs
      <4>2. c.cmd = "restore" /\ c.name = j.name
        BY <4>1 DEF Restore
      <4>3. net'.rules = Swept(sv, j.name)
        BY <2>3, <4>2 DEF Tables
      <4>4. RulesOf(j.name) \cap net'.rules = {}
        BY <4>3 DEF Swept, RulesOf
      <4>5. ~Past(p, 1, 3)'
        BY <3>2, <3>3, <3>5
      <4>6. QED
        BY <2>5, <4>4, <4>5
    <3>6. CASE step[p] = 3
      <4>1. c = LinkDel(j.name)
        BY <3>1, <3>6, GatewayDestroyIs
      <4>2. c.cmd = "link_del" /\ c.dev = j.name
        BY <4>1 DEF LinkDel
      <4>3. net'.rules = net.rules /\ <<Host, j.name>> \notin Ends'
        BY <2>3, <4>2 DEF Tables
      <4>4. Past(p, 1, 2)
        BY <3>3, <3>6
      <4>5. QED
        BY <1>3, <2>2, <2>5, <4>3, <4>4
    <3>7. QED
      BY <3>1, <3>4, <3>5, <3>6
  <2>6. QED
    BY <2>4, <2>5
<1>5. ASSUME NEW p \in Procs, Tolerated(p)
      PROVE  /\ Past(r, 1, 2)' => RulesOf(j.name) \cap net'.rules = {}
             /\ Past(r, 1, 3)' => faults' > 0 \/ <<Host, j.name>> \notin Ends'
  <2>1. /\ pc[p] = "run" /\ UNCHANGED <<net, job, at, code, spoiled>> /\ Advance(p)
        /\ Command(p).cmd = "link_del"
        /\ \/ ~Accepts(Command(p)) /\ faults' = faults
           \/ faults' = faults + 1
    BY <1>5 DEF Tolerated, RunFails, Refused
  <2>2. job[r] = j /\ r \notin spoiled /\ Ends' = Ends /\ faults \in Nat
    BY <1>1, <2>1, BoundsAssumption DEF Ends, ProcTypes
  <2>3. CASE r # p
    <3>1. \A i, k : Past(r, i, k)' <=> Past(r, i, k)
      BY <2>1, <2>3 DEF Past, Advance, Goto, ProcTypes
    <3>2. faults' >= faults
      BY <2>1, <2>2
    <3>3. QED
      BY <1>3, <2>1, <2>2, <3>1, <3>2
  <2>4. CASE r = p
    <3>1. /\ at[p] = 1 /\ Invocation(p) = GatewayDestroy(j.name) /\ Len(Invocation(p).prog) = 3
      BY <1>3, <2>2, <2>4
    <3>2. step[p] = 3 /\ Command(p) = LinkDel(j.name)
      <4>1. step[p] \in 1..3
        BY <2>1, <3>1, RunningIs
      <4>2. PICK n : n = j.name
        OBVIOUS
      <4>3. /\ GatewayDestroy(n).prog[1].cmd = "save" /\ GatewayDestroy(n).prog[2].cmd = "restore"
            /\ GatewayDestroy(n).prog[3] = LinkDel(n)
        <5>1. Save.cmd = "save" /\ Restore(n).cmd = "restore"
          BY DEF Save, Restore
        <5>2. QED
          BY <5>1, GatewayDestroyIs
      <4>4. Command(p) = GatewayDestroy(n).prog[step[p]]
        BY <3>1, <4>2 DEF Command
      <4>5. QED
        BY <2>1, <4>1, <4>2, <4>3, <4>4
    <3>3. faults' > 0 \/ <<Host, j.name>> \notin Ends
      <4>1. Accepts(LinkDel(j.name)) <=> <<Host, j.name>> \in Ends
        BY AcceptsIs
      <4>2. QED
        BY <2>1, <2>2, <3>2, <4>1
    <3>4. Past(p, 1, 2)
      BY <2>1, <3>1, <3>2 DEF Past, PlaceInv
    <3>5. QED
      BY <1>3, <2>1, <2>2, <2>4, <3>3, <3>4
  <2>5. QED
    BY <2>3, <2>4
<1>6. ASSUME Quiet
      PROVE  /\ Past(r, 1, 2)' => RulesOf(j.name) \cap net'.rules = {}
             /\ Past(r, 1, 3)' => faults' > 0 \/ <<Host, j.name>> \notin Ends'
  <2>1. net' = net /\ faults' >= faults /\ faults \in Nat /\ faults' \in Nat
    BY <1>6, BoundsAssumption DEF Quiet, ProcTypes
  <2>2. CASE Fresh(r)
    BY <2>2 DEF Fresh
  <2>3. CASE job'[r] = job[r] /\ Keeps(r)
    <3>1. r \notin spoiled
      BY <1>1, <1>2, <1>6, <2>3 DEF Quiet
    <3>2. (Past(r, 1, 2)' => Past(r, 1, 2)) /\ (Past(r, 1, 3)' => Past(r, 1, 3))
      BY <2>3 DEF Keeps
    <3>3. Ends' = Ends
      BY <2>1 DEF Ends
    <3>4. QED
      BY <1>1, <1>3, <2>1, <2>3, <3>1, <3>2, <3>3
  <2>4. QED
    BY <1>6, <2>2, <2>3 DEF Quiet
<1>7. QED
  BY <1>4, <1>5, <1>6, QuietIs

-----------------------------------------------------------------------------
(* The theorems.                                                           *)

\* What holds in every reachable state of the host.
THEOREM Invariance == Spec => []IInv
<1>1. ASSUME Init PROVE IInv
  <2>1. \A q \in Procs : /\ pc[q] = "idle" /\ job[q] = NoJob /\ at[q] = 1 /\ step[q] = 1
                         /\ code[q] = "ok"
    BY <1>1 DEF Init
  <2>2. ProcTypes
    BY <1>1, BoundsAssumption DEF Init, ProcTypes
  <2>3. PlaceInv
    BY <2>1 DEF PlaceInv
  <2>4. LockInv
    BY <1>1, <2>1, NullAssumption DEF Init, LockInv
  <2>5. NetInv
    BY <1>1 DEF Init, NetInv, ANet, PairsInv, EndsInv, AddrsInv, Ends
  <2>6. WorkInv /\ CleanInv
    BY <2>1, NoJobIs DEF WorkInv, CleanInv
  <2>7. QED
    BY <2>2, <2>3, <2>4, <2>5, <2>6 DEF IInv
<1>2. ASSUME IInv, [Next]_vars PROVE IInv'
  <2>1. ProcTypes' /\ PlaceInv' /\ LockInv'
    BY <1>2, ProcStep DEF IInv
  <2>2. NetInv'
    BY <1>2, NetStep DEF IInv
  <2>3. WorkInv'
    BY <1>2, WorkStep DEF IInv
  <2>4. CleanInv'
    BY <1>2, <2>1, CleanStep DEF IInv
  <2>5. QED
    BY <2>1, <2>2, <2>3, <2>4 DEF IInv
<1>3. QED
  BY <1>1, <1>2, PTL DEF Spec

\* The network and the processes are in order.
THEOREM TypeCorrect == Spec => []TypeOK
<1>1. ASSUME IInv PROVE TypeOK
  <2>1. ProcTypes /\ PlaceInv /\ NetInv
    BY <1>1 DEF IInv
  <2>2. \A k \in net.veths : k \subseteq Links /\ Cardinality(k) = 2
    <3>1. ASSUME NEW k \in net.veths PROVE k \subseteq Links /\ Cardinality(k) = 2
      <4>1. PICK e \in Links, f \in Links : e # f /\ k = {e, f}
        BY <2>1 DEF NetInv, PairsInv
      <4>2. Cardinality({e, f}) = 2
        BY <4>1, TwoElements
      <4>3. QED
        BY <4>1, <4>2
    <3>2. QED
      BY <3>1
  <2>3. at \in [Procs -> 1..Len(LabCreate)]
    BY <2>1, LabCreateIs DEF ProcTypes
  <2>4. /\ net.spaces \subseteq Names /\ net.managed \subseteq Names /\ net.snat \subseteq Names
        /\ net.forward \in BOOLEAN /\ net.rules \subseteq Names \X Kinds
        /\ \A x \in net.addrs \cup net.routes : x[2] \in Addrs
    BY <2>1 DEF NetInv, ANet
  <2>5. /\ net.up \subseteq Ends
        /\ \A x \in net.addrs \cup net.routes : x[1] \in Ends
        /\ \A e \in Ends : e[1] \in net.spaces \cup {Host}
        /\ \A k, m \in net.veths : k # m => k \cap m = {}
    BY <2>1 DEF NetInv, EndsInv, PairsInv
  <2>6. /\ \A p \in Procs : pc[p] # "idle" => at[p] <= Len(Invocations(job[p]))
        /\ \A p \in Procs : pc[p] = "run" => step[p] <= Len(Invocation(p).prog)
    BY <2>1 DEF PlaceInv
  <2>7. QED
    BY <2>1, <2>2, <2>3, <2>4, <2>5, <2>6 DEF TypeOK, ProcTypes
<1>2. QED
  BY <1>1, Invariance, PTL

\* The lab is there when its creation says so, whoever else is at work.
THEOREM LabComesUp == Spec => []LabUp
<1>1. ASSUME IInv, NEW p \in Procs, p \notin spoiled, Done(p, "lab", "create") PROVE LabWired
  <2>1. /\ ProcTypes /\ PlaceInv /\ WorkInv /\ pc[p] = "done" /\ code[p] = "ok" /\ LabJob(job[p])
    BY <1>1 DEF IInv, Done, LabJob
  <2>2. Invocations(job[p]) = LabCreate /\ at[p] = 11
    <3>1. job[p] \in Jobs
      BY <2>1, WorkingIs
    <3>2. PICK j \in Jobs : j = job[p]
      BY <3>1
    <3>3. Invocations(j) = LabCreate
      BY <2>1, <3>2, InvocationsAre
    <3>4. QED
      BY <2>1, <3>2, <3>3, LabCreateIs DEF PlaceInv
  <2>3. EffectsInv(p) /\ ConnectInv(p)
    BY <1>1, <2>1 DEF WorkInv, AllWork
  <2>4. \A i \in 1..11, k \in Nat : Past(p, i, k)
    BY <2>1, <2>2 DEF Past
  <2>5. ASSUME NEW i \in 1..11, NEW k \in 1..Len(LabCreate[i].prog) PROVE Effect(LabCreate[i].prog[k])
    <3>1. i \in 1..Len(LabCreate)
      BY LabCreateIs
    <3>2. Past(p, i, k)
      BY <2>4
    <3>3. QED
      BY <2>1, <2>2, <2>3, <3>1, <3>2 DEF EffectsInv
  <2>6. ASSUME NEW i \in {4, 5}, NEW l \in Leaves, i = Slot(l)
        PROVE  /\ <<l, "router">> \in net.up /\ <<"router", l>> \in net.up
               /\ {<<l, "router">>, <<"router", l>>} \in net.veths
    <3>1. LabCreate[i] = Connect(l, "router")
      BY <2>6, LabCreateIs DEF Slot, Leaves
    <3>2. Effect(LinkUp(l, "router")) /\ Effect(LinkUp("router", l))
      <4>1. Effect(LabCreate[i].prog[4]) /\ Effect(LabCreate[i].prog[5])
        <5>1. Len(LabCreate[i].prog) = 5 /\ i \in 1..11
          BY <3>1, ConnectIs
        <5>2. 4 \in 1..Len(LabCreate[i].prog) /\ 5 \in 1..Len(LabCreate[i].prog)
          BY <5>1
        <5>3. QED
          BY <2>5, <5>1, <5>2
      <4>2. QED
        BY <3>1, <4>1, ConnectIs
    <3>3. {<<l, "router">>, <<"router", l>>} \in net.veths
      <4>1. Past(p, i, 3)
        BY <2>4
      <4>2. QED
        BY <2>1, <2>3, <2>6, <4>1 DEF ConnectInv
    <3>4. QED
      BY <3>2, <3>3 DEF Effect, LinkUp
  <2>7. ASSUME NEW i \in 6..9, NEW n, NEW d, NEW a, LabCreate[i] = AssignAddr(n, d, a)
        PROVE  <<<<n, d>>, a>> \in net.addrs
    <3>1. Effect(AddrAdd(n, d, a))
      <4>1. Effect(LabCreate[i].prog[1])
        <5>1. Len(LabCreate[i].prog) = 1 /\ i \in 1..11
          BY <2>7, ProgramsAre
        <5>2. 1 \in 1..Len(LabCreate[i].prog)
          BY <5>1
        <5>3. QED
          BY <2>5, <5>1, <5>2
      <4>2. QED
        BY <2>7, <4>1, ProgramsAre
    <3>2. QED
      BY <3>1 DEF Effect, AddrAdd
  <2>8. ASSUME NEW i \in 10..11, NEW n, NEW a, LabCreate[i] = AddRoute(n, a)
        PROVE  DefaultVia(n, a)
    <3>1. Effect(RouteAdd(n, a))
      <4>1. Effect(LabCreate[i].prog[1])
        <5>1. Len(LabCreate[i].prog) = 1 /\ i \in 1..11
          BY <2>8, ProgramsAre
        <5>2. 1 \in 1..Len(LabCreate[i].prog)
          BY <5>1
        <5>3. QED
          BY <2>5, <5>1, <5>2
      <4>2. QED
        BY <2>8, <4>1, ProgramsAre
    <3>2. QED
      BY <3>1 DEF Effect, RouteAdd
  <2>9. ASSUME NEW l \in Leaves, NEW link, DefaultVia(l, <<link, 1>>),
               <<l, "router">> \in net.up, <<"router", l>> \in net.up,
               {<<l, "router">>, <<"router", l>>} \in net.veths,
               <<<<l, "router">>, <<link, 2>>>> \in net.addrs,
               <<<<"router", l>>, <<link, 1>>>> \in net.addrs
        PROVE  LeafWired(l, link)
    <3>1. Delivers(l, <<link, 1>>, "router")
      BY <2>9 DEF Delivers
    <3>2. Delivers("router", <<link, 2>>, l)
      BY <2>9 DEF Delivers
    <3>3. QED
      BY <2>9, <3>1, <3>2 DEF LeafWired
  <2>10. LeafWired("client", "net3")
    <3>1. "client" \in Leaves /\ Slot("client") = 4
      BY DEF Leaves, Slot
    <3>2. DefaultVia("client", <<"net3", 1>>)
      BY <2>8, LabCreateIs
    <3>3. /\ <<<<"client", "router">>, <<"net3", 2>>>> \in net.addrs
          /\ <<<<"router", "client">>, <<"net3", 1>>>> \in net.addrs
      BY <2>7, LabCreateIs
    <3>4. /\ <<"client", "router">> \in net.up /\ <<"router", "client">> \in net.up
          /\ {<<"client", "router">>, <<"router", "client">>} \in net.veths
      BY <2>6, <3>1
    <3>5. QED
      BY <2>9, <3>1, <3>2, <3>3, <3>4
  <2>11. LeafWired("server", "net2")
    <3>1. "server" \in Leaves /\ Slot("server") = 5
      BY DEF Leaves, Slot
    <3>2. DefaultVia("server", <<"net2", 1>>)
      BY <2>8, LabCreateIs
    <3>3. /\ <<<<"server", "router">>, <<"net2", 2>>>> \in net.addrs
          /\ <<<<"router", "server">>, <<"net2", 1>>>> \in net.addrs
      BY <2>7, LabCreateIs
    <3>4. /\ <<"server", "router">> \in net.up /\ <<"router", "server">> \in net.up
          /\ {<<"server", "router">>, <<"router", "server">>} \in net.veths
      BY <2>6, <3>1
    <3>5. QED
      BY <2>9, <3>1, <3>2, <3>3, <3>4
  <2>12. QED
    BY <2>10, <2>11 DEF LabWired
<1>2. IInv => LabUp
  BY <1>1 DEF LabUp
<1>3. QED
  BY <1>2, Invariance, PTL

\* So is an uplink.
THEOREM GatewayComesUp == Spec => []GatewayUp
<1>1. ASSUME IInv, NEW p \in Procs, p \notin spoiled, Done(p, "gateway", "create")
      PROVE  GatewayWired(job[p].name)
  <2>1. /\ ProcTypes /\ PlaceInv /\ WorkInv /\ pc[p] = "done" /\ code[p] = "ok"
        /\ GatewayJob(job[p])
    BY <1>1 DEF IInv, Done, GatewayJob
  <2>2. PICK n \in Names : /\ n = job[p].name /\ at[p] = 1 /\ Invocation(p) = GatewayCreate(n)
                           /\ Len(Invocations(job[p])) = 1
    BY <2>1, GatewayAt DEF GatewayJob
  <2>3. EffectsInv(p) /\ UplinkInv(p)
    BY <1>1, <2>1 DEF WorkInv, AllWork
  <2>4. \A k : Past(p, 1, k)
    BY <2>1, <2>2 DEF Past
  <2>5. ASSUME NEW k \in 1..12 PROVE Effect(GatewayCreate(n).prog[k])
    <3>1. Invocations(job[p])[1] = GatewayCreate(n) /\ Len(GatewayCreate(n).prog) = 12
      BY <2>2, GatewayCreateIs DEF Invocation
    <3>2. 1 \in 1..Len(Invocations(job[p]))
      BY <2>2
    <3>3. k \in 1..Len(Invocations(job[p])[1].prog)
      BY <3>1
    <3>4. QED
      BY <2>1, <2>3, <2>4, <3>1, <3>2, <3>3 DEF EffectsInv
  <2>6. /\ Effect(AddrAdd(Host, n, <<n, 1>>)) /\ Effect(AddrAdd(n, "host", <<n, 2>>))
        /\ Effect(LinkUp(Host, n)) /\ Effect(LinkUp(n, "host")) /\ Effect(RouteAdd(n, <<n, 1>>))
        /\ Effect(Forward) /\ Effect(RuleAdd(n, "masquerade")) /\ Effect(RuleAdd(n, "forward_from"))
        /\ Effect(RuleAdd(n, "forward_to")) /\ Effect(SnatAdd(n))
    BY <2>5, GatewayCreateIs
  <2>7. /\ <<<<Host, n>>, <<n, 1>>>> \in net.addrs /\ <<<<n, "host">>, <<n, 2>>>> \in net.addrs
    BY <2>6 DEF Effect, AddrAdd
  <2>8. <<Host, n>> \in net.up /\ <<n, "host">> \in net.up
    BY <2>6 DEF Effect, LinkUp
  <2>9. DefaultVia(n, <<n, 1>>)
    BY <2>6 DEF Effect, RouteAdd
  <2>10. net.forward /\ n \in net.snat
    BY <2>6 DEF Effect, Forward, SnatAdd
  <2>11. RulesOf(n) \subseteq net.rules
    <3>1. \A k \in Kinds : <<n, k>> \in net.rules
      BY <2>6 DEF Effect, RuleAdd, Kinds
    <3>2. QED
      BY <3>1 DEF RulesOf
  <2>12. {<<Host, n>>, <<n, "host">>} \in net.veths
    BY <2>1, <2>2, <2>3, <2>4 DEF UplinkInv
  <2>13. Delivers(n, <<n, 1>>, Host) /\ Delivers(Host, <<n, 2>>, n)
    BY <2>7, <2>8, <2>12 DEF Delivers
  <2>14. QED
    BY <2>2, <2>9, <2>10, <2>11, <2>13 DEF GatewayWired
<1>2. IInv => GatewayUp
  BY <1>1 DEF GatewayUp
<1>3. QED
  BY <1>2, Invariance, PTL

\* And gone when its destruction says so.
THEOREM CleansUp == Spec => []CleanedUp
<1>1. ASSUME IInv PROVE CleanedUp
  <2>1. ASSUME NEW p \in Procs, p \notin spoiled, Done(p, "gateway", "destroy")
        PROVE  /\ RulesOf(job[p].name) \cap net.rules = {}
               /\ faults > 0 \/ <<Host, job[p].name>> \notin Ends
    <3>1. at[p] = 1
      BY <1>1, <2>1, GatewayAt DEF IInv, Done
    <3>2. Past(p, 1, 2) /\ Past(p, 1, 3)
      BY <2>1, <3>1 DEF Done, Past
    <3>3. QED
      BY <1>1, <2>1, <3>2 DEF IInv, CleanInv, Done
  <2>2. QED
    BY <2>1 DEF CleanedUp
<1>2. QED
  BY <1>1, Invariance, PTL

\* The parts of a leaf of the lab, and of an uplink.
LeafParts(l, link) ==
  /\ {<<l, "router">>, <<"router", l>>} \in net.veths
  /\ <<l, "router">> \in net.up /\ <<"router", l>> \in net.up
  /\ <<<<l, "router">>, <<link, 2>>>> \in net.addrs
  /\ <<<<"router", l>>, <<link, 1>>>> \in net.addrs
  /\ <<<<l, "router">>, <<link, 1>>>> \in net.routes

UplinkParts(n) ==
  /\ {<<Host, n>>, <<n, "host">>} \in net.veths
  /\ <<Host, n>> \in net.up /\ <<n, "host">> \in net.up
  /\ <<<<Host, n>>, <<n, 1>>>> \in net.addrs
  /\ <<<<n, "host">>, <<n, 2>>>> \in net.addrs
  /\ <<<<n, "host">>, <<n, 1>>>> \in net.routes

\* A leaf that works is made of these parts,
LEMMA LeafIs ==
  ASSUME NetInv, NEW l, NEW link, <<l, link>> \in {<<"client", "net3">>, <<"server", "net2">>},
         LeafWired(l, link)
  PROVE  LeafParts(l, link)
<1>1. /\ net.addrs \subseteq Assigned /\ net.routes \subseteq Links \X Addrs
      /\ \A x \in net.routes : \E y \in net.addrs : y[1] = x[1] /\ y[2][1] = x[2][1]
  BY DEF NetInv, AddrsInv, ANet
<1>2. \/ l = "client" /\ link = "net3"
      \/ l = "server" /\ link = "net2"
  OBVIOUS
<1>3. ASSUME NEW x \in Assigned, x[2][1] = link
      PROVE  x \in {<<<<l, "router">>, <<link, 2>>>>, <<<<"router", l>>, <<link, 1>>>>}
  BY <1>2, <1>3 DEF Assigned, Names
<1>4. l # "router"
  BY <1>2
<1>5. <<<<l, "router">>, <<link, 1>>>> \in net.routes
  <2>1. PICK x \in net.routes : x[1][1] = l /\ x[2] = <<link, 1>>
    BY DEF LeafWired, DefaultVia
  <2>2. PICK y \in net.addrs : y[1] = x[1] /\ y[2][1] = link
    BY <1>1, <2>1
  <2>3. y \in {<<<<l, "router">>, <<link, 2>>>>, <<<<"router", l>>, <<link, 1>>>>}
    BY <1>1, <1>3, <2>2
  <2>4. x[1] = <<l, "router">>
    BY <1>4, <2>1, <2>2, <2>3
  <2>5. x = <<x[1], x[2]>>
    BY <1>1
  <2>6. QED
    BY <2>1, <2>4, <2>5
<1>6. PICK k, e, f :
         /\ k \in net.veths /\ e \in k /\ f \in k
         /\ k \subseteq net.up /\ e[1] = l /\ f[1] = "router" /\ <<f, <<link, 1>>>> \in net.addrs
         /\ \E x \in net.addrs : x[1] = e /\ x[2][1] = link
  BY DEF LeafWired, Delivers
<1>7. f = <<"router", l>> /\ <<<<"router", l>>, <<link, 1>>>> \in net.addrs
  <2>1. <<f, <<link, 1>>>> \in Assigned /\ <<f, <<link, 1>>>>[2][1] = link
    BY <1>1, <1>6
  <2>2. <<f, <<link, 1>>>> \in {<<<<l, "router">>, <<link, 2>>>>, <<<<"router", l>>, <<link, 1>>>>}
    BY <1>3, <2>1
  <2>3. QED
    BY <1>6, <2>2
<1>8. e = <<l, "router">> /\ <<<<l, "router">>, <<link, 2>>>> \in net.addrs
  <2>1. PICK x \in net.addrs : x[1] = e /\ x[2][1] = link
    BY <1>6
  <2>2. x \in {<<<<l, "router">>, <<link, 2>>>>, <<<<"router", l>>, <<link, 1>>>>}
    BY <1>1, <1>3, <2>1
  <2>3. QED
    BY <1>4, <1>6, <2>1, <2>2
<1>9. k = {e, f}
  <2>1. PICK a, b : k = {a, b}
    BY <1>6 DEF NetInv, PairsInv
  <2>2. e # f
    BY <1>4, <1>7, <1>8
  <2>3. QED
    BY <1>6, <2>1, <2>2
<1>10. QED
  BY <1>5, <1>6, <1>7, <1>8, <1>9 DEF LeafParts

\* and the other way round.
LEMMA LeafOf ==
  ASSUME NEW l, NEW link, LeafParts(l, link)'
  PROVE  LeafWired(l, link)'
<1>1. DefaultVia(l, <<link, 1>>)'
  BY DEF LeafParts, DefaultVia
<1>2. Delivers(l, <<link, 1>>, "router")'
  BY DEF LeafParts, Delivers
<1>3. Delivers("router", <<link, 2>>, l)'
  BY DEF LeafParts, Delivers
<1>4. QED
  BY <1>1, <1>2, <1>3 DEF LeafWired

\* The same of an uplink.
LEMMA UplinkPartsAre ==
  ASSUME NetInv, NEW n \in Names, GatewayWired(n)
  PROVE  UplinkParts(n)
<1>1. /\ net.addrs \subseteq Assigned /\ net.routes \subseteq Links \X Addrs
      /\ \A x \in net.routes : \E y \in net.addrs : y[1] = x[1] /\ y[2][1] = x[2][1]
  BY DEF NetInv, AddrsInv, ANet
<1>2. ASSUME NEW x \in Assigned, x[2][1] = n
      PROVE  x \in {<<<<Host, n>>, <<n, 1>>>>, <<<<n, "host">>, <<n, 2>>>>}
  BY <1>2 DEF Assigned, Names
<1>3. n # Host
  BY NullAssumption
<1>4. <<<<n, "host">>, <<n, 1>>>> \in net.routes
  <2>1. PICK x \in net.routes : x[1][1] = n /\ x[2] = <<n, 1>>
    BY DEF GatewayWired, DefaultVia
  <2>2. PICK y \in net.addrs : y[1] = x[1] /\ y[2][1] = n
    BY <1>1, <2>1
  <2>3. y \in {<<<<Host, n>>, <<n, 1>>>>, <<<<n, "host">>, <<n, 2>>>>}
    BY <1>1, <1>2, <2>2
  <2>4. x[1] = <<n, "host">>
    BY <1>3, <2>1, <2>2, <2>3
  <2>5. x = <<x[1], x[2]>>
    BY <1>1
  <2>6. QED
    BY <2>1, <2>4, <2>5
<1>5. PICK k, e, f :
         /\ k \in net.veths /\ e \in k /\ f \in k
         /\ k \subseteq net.up /\ e[1] = n /\ f[1] = Host /\ <<f, <<n, 1>>>> \in net.addrs
         /\ \E x \in net.addrs : x[1] = e /\ x[2][1] = n
  BY DEF GatewayWired, Delivers
<1>6. f = <<Host, n>> /\ <<<<Host, n>>, <<n, 1>>>> \in net.addrs
  <2>1. <<f, <<n, 1>>>> \in Assigned /\ <<f, <<n, 1>>>>[2][1] = n
    BY <1>1, <1>5
  <2>2. <<f, <<n, 1>>>> \in {<<<<Host, n>>, <<n, 1>>>>, <<<<n, "host">>, <<n, 2>>>>}
    BY <1>2, <2>1
  <2>3. QED
    BY <1>5, <2>2
<1>7. e = <<n, "host">> /\ <<<<n, "host">>, <<n, 2>>>> \in net.addrs
  <2>1. PICK x \in net.addrs : x[1] = e /\ x[2][1] = n
    BY <1>5
  <2>2. x \in {<<<<Host, n>>, <<n, 1>>>>, <<<<n, "host">>, <<n, 2>>>>}
    BY <1>1, <1>2, <2>1
  <2>3. QED
    BY <1>3, <1>5, <2>1, <2>2
<1>8. k = {f, e}
  <2>1. PICK a, b : k = {a, b}
    BY <1>5 DEF NetInv, PairsInv
  <2>2. e # f
    BY <1>3, <1>6, <1>7
  <2>3. QED
    BY <1>5, <2>1, <2>2
<1>9. QED
  BY <1>4, <1>5, <1>6, <1>7, <1>8 DEF UplinkParts

\* and again the other way round.
LEMMA UplinkOf ==
  ASSUME NEW n, UplinkParts(n)'
  PROVE  /\ DefaultVia(n, <<n, 1>>)'
         /\ Delivers(n, <<n, 1>>, Host)' /\ Delivers(Host, <<n, 2>>, n)'
<1>1. DefaultVia(n, <<n, 1>>)'
  BY DEF UplinkParts, DefaultVia
<1>2. Delivers(n, <<n, 1>>, Host)'
  BY DEF UplinkParts, Delivers
<1>3. Delivers(Host, <<n, 2>>, n)'
  BY DEF UplinkParts, Delivers
<1>4. QED
  BY <1>1, <1>2, <1>3

\* What a command spares keeps its parts.
LEMMA LeafStays ==
  ASSUME NEW c, Spares(c), NEW l \in Names, NEW link, LeafParts(l, link), c.cmd # "netns_del"
  PROVE  LeafParts(l, link)'
<1> DEFINE k == {<<l, "router">>, <<"router", l>>}
<1>1. k \in net.veths /\ \A d : <<Host, d>> \notin k
  BY NullAssumption DEF LeafParts, Names
<1>2. ~Touches(c, k)
  BY <1>1 DEF Touches
<1>3. k \in net'.veths /\ \A e \in k : Stays(e)
  BY <1>1, <1>2 DEF Spares
<1>4. Stays(<<l, "router">>) /\ Stays(<<"router", l>>)
  BY <1>3
<1>5. QED
  BY <1>3, <1>4 DEF LeafParts, Stays

\* An uplink keeps its parts unless its interface is deleted or moved.
LEMMA UplinkStays ==
  ASSUME NEW c, Spares(c), NEW n \in Names, UplinkParts(n), c.cmd = "netns_del" => c.name \in Names
  PROVE  \/ UplinkParts(n)'
         \/ c.cmd = "netns_del" /\ c.name = n
         \/ c.cmd \in {"link_del", "link_move"} /\ c.dev = n
<1> DEFINE k == {<<Host, n>>, <<n, "host">>}
<1>1. CASE Touches(c, k)
  BY <1>1, NullAssumption DEF Touches
<1>2. CASE ~Touches(c, k)
  <2>1. k \in net'.veths /\ \A e \in k : Stays(e)
    BY <1>2 DEF UplinkParts, Spares
  <2>2. Stays(<<Host, n>>) /\ Stays(<<n, "host">>)
    BY <2>1
  <2>3. QED
    BY <2>1, <2>2 DEF UplinkParts, Stays
<1>3. QED
  BY <1>1, <1>2

\* Whoever moves the interface of an uplink that works was spoiled before.
LEMMA MovedBySpoiled ==
  ASSUME IInv, NEW n \in Names, UplinkParts(n), NEW p \in Procs, pc[p] = "run",
         NEW c, c = Command(p), c.cmd = "link_move", c.dev = n
  PROVE  p \in spoiled
<1>1. SUFFICES ASSUME p \notin spoiled PROVE FALSE
  OBVIOUS
<1>2. ProcTypes /\ PlaceInv /\ NetInv /\ WorkInv
  BY DEF IInv
<1>3. LabJob(job[p]) \/ GatewayJob(job[p])
  BY <1>2, MoveIs
<1>4. AllWork
  BY <1>1, <1>2, <1>3 DEF WorkInv
<1>5. "host" \notin Names
  BY DEF Names
<1>6. PICK f \in Links : {<<Host, n>>, f} \in net.veths /\ f[2] \in Names
  BY <1>2, <1>4, <1>5, OwnPair
<1>7. {<<Host, n>>, f} = {<<Host, n>>, <<n, "host">>}
  BY <1>2, <1>6 DEF UplinkParts, NetInv, PairsInv
<1>8. <<n, "host">> # <<Host, n>> /\ <<n, "host">> # f
  BY <1>5, <1>6, NullAssumption
<1>9. QED
  BY <1>7, <1>8

\* What works goes on working.
THEOREM KeepsWorking == Spec => StaysUp
<1> DEFINE A == LabStays /\ \A n \in Gateways : GatewayStays(n)
<1>1. ASSUME IInv, NEW p \in Procs, Run(p) PROVE A
  <2>1. PICK c, sv : c = Command(p) /\ sv = saved[p]
    OBVIOUS
  <2>2. ProcTypes /\ PlaceInv /\ LockInv /\ NetInv /\ pc[p] = "run"
    BY <1>1 DEF IInv, Run
  <2>3. Spares(c) /\ Tables(c, sv) /\ Good(c) /\ Fits(job[p], at[p], step[p], c)
    BY <1>1, <2>1, <2>2, RunIs, RunningIs DEF Sound
  <2>4. ASSUME LabWired PROVE LabWired' \/ \E q \in Procs : lock = q /\ Running(q, "netns_del")
    <3>1. CASE c.cmd = "netns_del"
      <4>1. lock = p
        BY <2>2, <2>3, <3>1 DEF Fits, LockInv
      <4>2. QED
        BY <2>1, <2>2, <3>1, <4>1 DEF Running
    <3>2. CASE c.cmd # "netns_del"
      <4>1. LeafParts("client", "net3") /\ LeafParts("server", "net2")
        BY <2>2, <2>4, LeafIs DEF LabWired
      <4>2. LeafParts("client", "net3")' /\ LeafParts("server", "net2")'
        BY <2>3, <3>2, <4>1, LeafStays DEF Names
      <4>3. QED
        BY <4>2, LeafOf DEF LabWired
    <3>3. QED
      BY <3>1, <3>2
  <2>5. ASSUME NEW n \in Gateways PROVE GatewayStays(n)
    <3>1. SUFFICES ASSUME GatewayWired(n),
                          ~(c.cmd = "netns_del" /\ c.name = n), ~(c.cmd = "link_del" /\ c.dev = n),
                          ~(c.cmd = "link_move" /\ p \in spoiled),
                          ~(c.cmd = "restore" /\ (c.name = n \/ ~(RulesOf(n) \subseteq sv)))
                   PROVE  GatewayWired(n)'
      BY <2>1, <2>2 DEF GatewayStays, Running
    <3>2. n \in Names /\ UplinkParts(n)
      BY <2>2, <3>1, GatewaysAssumption, UplinkPartsAre
    <3>3. c.cmd = "link_move" => c.dev # n
      BY <1>1, <2>1, <2>2, <3>1, <3>2, MovedBySpoiled
    <3>4. c.cmd = "netns_del" => c.name \in Names
      BY <2>3 DEF Good, LinkAdd, LinkMove, LinkUp, LinkDel, AddrAdd, RouteAdd, NetnsAdd, NetnsDel,
                  Register, Unregister, SnatAdd, Restore, RuleAdd, Forward, Save
    <3>5. UplinkParts(n)'
      BY <2>3, <3>1, <3>2, <3>3, <3>4, UplinkStays
    <3>6. net'.forward /\ n \in net'.snat
      BY <2>3, <3>1 DEF Tables, GatewayWired
    <3>7. RulesOf(n) \subseteq net'.rules
      <4>1. CASE c.cmd = "restore"
        <5>1. c.name # n /\ RulesOf(n) \subseteq sv /\ net'.rules = Swept(sv, c.name)
          BY <2>3, <3>1, <4>1 DEF Tables
        <5>2. QED
          BY <5>1 DEF Swept, RulesOf
      <4>2. CASE c.cmd # "restore"
        BY <2>3, <3>1, <4>2 DEF Tables, GatewayWired
      <4>3. QED
        BY <4>1, <4>2
    <3>8. QED
      BY <3>5, <3>6, <3>7, UplinkOf DEF GatewayWired, RulesOf
  <2>6. QED
    BY <2>4, <2>5 DEF LabStays
<1>2. ASSUME net' = net PROVE A
  <2>0. /\ \A n, a : DefaultVia(n, a) => DefaultVia(n, a)'
        /\ \A n, a, m : Delivers(n, a, m) => Delivers(n, a, m)'
    BY <1>2 DEF DefaultVia, Delivers
  <2>1. LabWired => LabWired'
    BY <2>0 DEF LabWired, LeafWired
  <2>2. \A n \in Gateways : GatewayWired(n) => GatewayWired(n)'
    BY <1>2, <2>0 DEF GatewayWired, RulesOf
  <2>3. QED
    BY <2>1, <2>2 DEF LabStays, GatewayStays
<1>3. ASSUME IInv, [Next]_vars PROVE [A]_vars
  <2>1. CASE \E p \in Procs : Run(p)
    BY <1>1, <1>3, <2>1
  <2>2. CASE ~\E p \in Procs : Run(p)
    <3>1. net' = net
      BY <1>3, <2>2 DEF Next, vars, Begin, Enter, Lock, RunFails, Leave, Finish
    <3>2. QED
      BY <1>2, <3>1
  <2>3. QED
    BY <2>1, <2>2
<1>4. QED
  BY <1>3, Invariance, PTL DEF Spec, StaysUp
=============================================================================
