----------------------------- MODULE Arguments -----------------------------
(***************************************************************************)
(* From the arguments that npte is given to those that it gives to others: *)
(*                                                                         *)
(*   netem apply     validates its flags, takes their values apart, and    *)
(*                   puts the words into the command line of tc, which     *)
(*                   reads the line word by word in its own way;           *)
(*   gateway create  derives two addresses and two interface names from a  *)
(*                   subnet and the name of a namespace.                   *)
(*                                                                         *)
(* A value is a sequence of words, and a word is its kind: "time" stands   *)
(* for 10ms, "bitrate" for 1mbit, "neg" for -10, and so on.  A name is its *)
(* length, the class of its first character and the classes of the others. *)
(* An address has Width bits.                                              *)
(***************************************************************************)
EXTENDS Naturals, Sequences, FiniteSets, FiniteSetsExt

CONSTANTS
  Values,    \* what a flag may be given
  Names,     \* what a namespace may be called,
  ExtIfaces, \* and the external interface
  Width,     \* bits of an IPv4 address
  MaxFlags   \* bound on the flags of one invocation

ASSUME WidthAssumption == Width \in Nat /\ Width >= 2
ASSUME MaxFlagsAssumption == MaxFlags \in Nat

VARIABLES
  pc,       \* where the invocation is: "idle", "flags", "child", "root", "second",
            \* then "done", "failed" or "refused"
  at,       \* the flag that is next
  given,    \* the values of the flags, <<>> for none
  child,    \* --child, "" for none
  args,     \* netemArgs: of them, what tc has yet to read
  heard,    \* the values that tc has read
  tree,     \* the qdiscs that there are: "none", "root", "both"
  gateway   \* what gateway create has derived, or why it has not

vars == <<pc, at, given, child, args, heard, tree, gateway>>

-----------------------------------------------------------------------------
(* Languages, as sets of sequences of words.                               *)

One(A)       == [1..1 -> A]
Times(A, n)  == UNION {[1..i -> A] : i \in 1..n}
Opt(L)       == L \cup {<<>>}
L ** M       == {x \o y : x \in L, y \in M}
Word(w)      == One({w})

atomTime    == {"time"}
atomPct     == {"pct"}
atomNum     == {"num"}
atomSNum    == {"num", "neg"}
atomRate    == {"bitrate"}
atomProbPct == {"num", "decimal", "pct"}
atomDist    == {"dist"}

Tokens == {"time", "pct", "num", "neg", "decimal", "bitrate", "dist", "distribution", "random",
           "state", "gemodel", "packets", "bytes", "limit"}

netemDelayRe ==
  One(atomTime) ** Opt(One(atomTime) ** Opt(One(atomPct)))
                ** Opt(Word("distribution") ** One(atomDist))

\* Mutant: one percentage too many.
MutNetemLossRe ==
  (Opt(Word("random")) ** Times(atomPct, 3))
    \cup (Word("state") ** Times(atomPct, 5)) \cup (Word("gemodel") ** Times(atomProbPct, 4))

netemLossRe ==
  (Opt(Word("random")) ** Times(atomPct, 2))
    \cup (Word("state") ** Times(atomPct, 5)) \cup (Word("gemodel") ** Times(atomProbPct, 4))

netemLimitRe == One(atomNum)

netemRateRe ==
  One(atomRate) ** Opt(One(atomSNum) ** Opt(One(atomNum) ** Opt(One(atomSNum))))

netemSlotRe ==
  (Times(atomTime, 2) \cup (Word("distribution") ** One(atomDist) ** [1..2 -> atomTime]))
    ** Opt(Word("packets") ** One(atomNum)) ** Opt(Word("bytes") ** One(atomNum))

-----------------------------------------------------------------------------
(* How tc reads what follows a keyword.  The number of words that it takes,*)
(* or 0 if it gives up.  An optional number is there if the next word      *)
(* begins like one.                                                        *)

Numeral == {"time", "pct", "num", "decimal", "bitrate"}
Signed  == Numeral \cup {"neg"}

WordAt(s, i) == IF i \in DOMAIN s THEN s[i] ELSE "end"
From(s, i)   == SubSeq(s, i, Len(s))

\* At least one number, and at most one for each of kinds.
TcNumbers(s, kinds, like) ==
  LET n == Max({m \in 0..Len(kinds) : \A i \in 1..m : WordAt(s, i) \in like})
  IN  IF \A i \in 1..n : s[i] \in kinds[i] THEN n ELSE 0

After(n, more) == IF n = 0 \/ more = 0 THEN 0 ELSE n + more

TcDelay(s) ==
  LET n == TcNumbers(s, <<atomTime, atomTime, atomPct>>, Numeral) IN
  IF n > 0 /\ WordAt(s, n + 1) = "distribution"
    THEN IF n > 1 /\ WordAt(s, n + 2) \in atomDist THEN n + 2 ELSE 0
    ELSE n

TcLoss(s) ==
  CASE WordAt(s, 1) = "state"   -> After(1, TcNumbers(From(s, 2), [i \in 1..5 |-> atomPct], Numeral))
    [] WordAt(s, 1) = "gemodel" -> After(1, TcNumbers(From(s, 2), [i \in 1..4 |-> atomProbPct], Numeral))
    [] WordAt(s, 1) = "random"  -> After(1, TcNumbers(From(s, 2), <<atomPct, atomPct>>, Numeral))
    [] OTHER                    -> TcNumbers(s, <<atomPct, atomPct>>, Numeral)

TcSlot(s) ==
  LET first == IF WordAt(s, 1) # "distribution" THEN TcNumbers(s, <<atomTime, atomTime>>, Numeral)
               ELSE IF /\ WordAt(s, 2) \in atomDist
                       /\ {WordAt(s, 3), WordAt(s, 4)} \subseteq atomTime THEN 4 ELSE 0
      Has(i, w) == WordAt(s, i) = w /\ WordAt(s, i + 1) \in atomNum
      second == IF Has(first + 1, "packets") THEN first + 2 ELSE first
  IN  IF first = 0 THEN 0 ELSE IF Has(second + 1, "bytes") THEN second + 2 ELSE second

TcTakes(key, s) ==
  CASE key = "delay" -> TcDelay(s)
    [] key = "loss"  -> TcLoss(s)
    [] key = "limit" -> TcNumbers(s, <<atomNum>>, Numeral)
    [] key = "rate"  -> TcNumbers(s, <<atomRate, atomSNum, atomNum, atomSNum>>, Signed)
    [] key = "slot"  -> TcSlot(s)

-----------------------------------------------------------------------------
(* netem apply.                                                            *)

Flags == <<"delay", "loss", "limit", "rate", "slot">>
Keys  == {Flags[i] : i \in DOMAIN Flags} \cup {"cake-bandwidth"}

Validates(key) ==
  CASE key = "delay" -> netemDelayRe
    [] key = "loss"  -> netemLossRe
    [] key = "limit" -> netemLimitRe
    [] key = "slot"  -> netemSlotRe
    [] OTHER         -> netemRateRe

NoValues == [k \in Keys |-> <<>>]
NumFlags == Cardinality({k \in Keys : given[k] # <<>>}) + (IF child = "" THEN 0 ELSE 1)

Init ==
  /\ pc = "idle" /\ at = 1
  /\ given = NoValues /\ heard = NoValues
  /\ child = "" /\ args = <<>> /\ tree = "none"
  /\ gateway = [status |-> "none"]

Apply ==
  /\ pc = "idle" /\ gateway.status = "none"
  /\ child' \in {"", "cake", "sfq"}
  /\ pc' = "flags"
  /\ UNCHANGED <<at, given, args, heard, tree, gateway>>

Refuse == pc' = "refused"

NoFlag ==
  /\ pc = "flags" /\ at <= Len(Flags)
  /\ at' = at + 1
  /\ UNCHANGED <<pc, given, child, args, heard, tree, gateway>>

Flag ==
  /\ pc = "flags" /\ at <= Len(Flags) /\ NumFlags < MaxFlags
  /\ \E v \in Values :
       /\ v \in Validates(Flags[at])
       /\ given' = [given EXCEPT ![Flags[at]] = v]
       /\ args'  = args \o <<Flags[at]>> \o v
  /\ at' = at + 1
  /\ UNCHANGED <<pc, child, heard, tree, gateway>>

BadFlag ==
  /\ pc = "flags" /\ at <= Len(Flags) /\ NumFlags < MaxFlags
  /\ \E v \in Values : v \notin Validates(Flags[at])
  /\ Refuse
  /\ UNCHANGED <<at, given, child, args, heard, tree, gateway>>

\* At least one of the flags; what follows is under the lock.
FlagsRead ==
  /\ pc = "flags" /\ at > Len(Flags)
  /\ IF args = <<>> /\ child = "" THEN Refuse ELSE pc' = "child"
  /\ UNCHANGED <<at, given, child, args, heard, tree, gateway>>

\* ChildQdiscKind, and the bandwidth, which stays one word for tc.
Child ==
  /\ pc = "child"
  /\ CASE child = ""     -> pc' = "root" /\ UNCHANGED given
       [] child = "cake" ->
            \/ pc' = "root" /\ UNCHANGED given
            \/ /\ NumFlags < MaxFlags
               /\ \E v \in Values :
                    /\ v \in Validates("cake-bandwidth")
                    /\ given' = [given EXCEPT !["cake-bandwidth"] = v]
               /\ pc' = "root"
            \/ /\ \E v \in Values : v \notin Validates("cake-bandwidth")
               /\ Refuse /\ UNCHANGED given
       [] OTHER          -> Refuse /\ UNCHANGED given
  /\ UNCHANGED <<at, child, args, heard, tree, gateway>>

\* tc reads the next keyword of the root's command, and its values.
TcReads ==
  /\ pc = "root" /\ args # <<>>
  /\ LET key == Head(args)
         n   == IF key \in Keys THEN TcTakes(key, Tail(args)) ELSE 0
     IN  IF n = 0 THEN pc' = "failed" /\ UNCHANGED <<heard, args>>
         ELSE /\ heard' = [heard EXCEPT ![key] = SubSeq(args, 2, n + 1)]
              /\ args'  = From(args, n + 2)
              /\ UNCHANGED pc
  /\ UNCHANGED <<at, given, child, tree, gateway>>

TcAddsRoot ==
  /\ pc = "root" /\ args = <<>>
  /\ tree' = "root"
  /\ pc'   = IF child = "" THEN "done" ELSE "second"
  /\ UNCHANGED <<at, given, child, args, heard, gateway>>

\* The command of the child qdisc: a bandwidth is one rate.
TcAddsChild ==
  /\ pc = "second"
  /\ IF given["cake-bandwidth"] \in Opt(One(atomRate))
       THEN tree' = "both" /\ pc' = "done"
       ELSE pc' = "failed" /\ UNCHANGED tree
  /\ UNCHANGED <<at, given, child, args, heard, gateway>>

-----------------------------------------------------------------------------
(* gateway create.                                                         *)

Alnum == {"lower", "digit"}

NetnsName(n) == n.len \in 1..12 /\ n.first = "lower" /\ n.others \subseteq Alnum

IfaceName(n) ==
  /\ n.len \in 1..15
  /\ ~(n.len <= 2 /\ n.first = "dot" /\ n.others \subseteq {"dot"})
  /\ n.first # "hyphen"
  /\ "forbidden" \notin {n.first} \cup n.others

\* "if-" and a name.
IfaceTo(n) == [len |-> n.len + 3, first |-> "lower",
               others |-> {"lower", "hyphen", n.first} \cup n.others]

\* The addresses of the prefix of a; the one after the last is none.
Size(plen)        == 2^(Width - plen)
Masked(a, plen)   == a - (a % Size(plen))
Beyond            == 2^Width
NextAddr(a)       == IF a = Beyond THEN Beyond ELSE a + 1
Prefix(a, plen)   == Masked(a, plen)..(Masked(a, plen) + Size(plen) - 1)

\* Mutant: only the first of the two addresses is looked at.
MutRoom(a, plen) ==
  LET hostAddr == NextAddr(Masked(a, plen))
  IN  hostAddr \in Prefix(a, plen) /\ hostAddr # NextAddr(hostAddr)

Room(a, plen) ==
  LET hostAddr == NextAddr(Masked(a, plen))
      nsAddr   == NextAddr(hostAddr)
  IN  {hostAddr, nsAddr} \subseteq Prefix(a, plen) /\ hostAddr # nsAddr

GatewayCreate ==
  /\ pc = "idle" /\ gateway.status = "none"
  /\ \E ns \in Names, ext \in ExtIfaces, a \in 0..(2^Width - 1), plen \in 0..Width, is4 \in BOOLEAN :
       gateway' = IF NetnsName(ns) /\ IfaceName(ext) /\ is4 /\ Room(a, plen)
                  THEN [status |-> "accepted", addr |-> a, plen |-> plen, iface |-> IfaceTo(ns),
                        host |-> NextAddr(Masked(a, plen)),
                        peer |-> NextAddr(NextAddr(Masked(a, plen)))]
                  ELSE [status |-> "refused", plen |-> plen, is4 |-> is4,
                        names |-> NetnsName(ns) /\ IfaceName(ext)]
  /\ UNCHANGED <<pc, at, given, child, args, heard, tree>>

Finished == pc \in {"done", "failed", "refused"} \/ gateway.status # "none"

Next == \/ Apply \/ NoFlag \/ Flag \/ BadFlag \/ FlagsRead \/ Child
        \/ TcReads \/ TcAddsRoot \/ TcAddsChild \/ GatewayCreate

Spec == Init /\ [][Next]_vars

-----------------------------------------------------------------------------
(* Properties.                                                             *)

\* When tc has read the root's command line, it has understood each flag as it was
\* given: no word of a value has been taken for another flag's, nor left out, in any
\* combination of the flags.  It gives up only on a distribution without a jitter, which
\* netem.go's TODO admits; the TODO's other corner, a percentage above 100, is a matter
\* of numbers, which are not looked at here: a word is what kind of word it is.
KnobsReadBack ==
  /\ tree # "none" => \A i \in DOMAIN Flags : heard[Flags[i]] = given[Flags[i]]
  /\ (pc = "failed" /\ tree = "none") => given["delay"] \in One(atomTime) ** Word("distribution") ** One(atomDist)

\* gateway create takes a subnet exactly if it is an IPv4 one with room for four
\* addresses; then the two that it hands out are different and lie in the prefix as
\* it was given, between its network and its broadcast address, and the name of the
\* interface is one that the kernel takes, so that npte does not panic on it.
GatewayArgumentsFit ==
  /\ gateway.status = "accepted" =>
       LET net == Masked(gateway.addr, gateway.plen)
       IN  /\ gateway.host # gateway.peer
           /\ {gateway.host, gateway.peer} \subseteq (net + 1)..(net + Size(gateway.plen) - 2)
           /\ IfaceName(gateway.iface)
  /\ gateway.status = "refused" => \/ gateway.plen > Width - 2 \/ ~gateway.is4 \/ ~gateway.names

\* "We defer execution of all commands to when we have validated all input so that
\* we do not leave the system in a partial state" (netem/apply.go:149).  Nothing
\* fails here but for what the arguments say.
InputLeavesNothingPartial == pc = "failed" => tree = "none"
=============================================================================
