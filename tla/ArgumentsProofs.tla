--------------------------- MODULE ArgumentsProofs ---------------------------
(***************************************************************************)
(* Theorems about Arguments, for any values that the flags may be given,   *)
(* any names, any width of an address and any number of flags: what        *)
(* gateway create derives fits, and tc reads what netem apply was given.   *)
(***************************************************************************)
EXTENDS Arguments, FiniteSetTheorems, SequenceTheorems, TLAPS

-----------------------------------------------------------------------------
(* The addresses and the names of gateway create.                         *)

\* Powers of two, by counting the subsets of an interval: half of those of 1..n+1 have n+1.
LEMMA Powers ==
  /\ 2^0 = 1
  /\ \A n \in Nat : 2^n \in Nat \ {0} /\ 2^(n + 1) = 2 * 2^n
<1>1. ASSUME NEW n \in Nat PROVE IsFiniteSet(SUBSET (1..n)) /\ Cardinality(SUBSET (1..n)) = 2^n
  <2>1. IsFiniteSet(1..n) /\ Cardinality(1..n) = n
    BY FS_Interval
  <2>2. QED
    BY <2>1, FS_SUBSET
<1>2. SUBSET (1..0) = {{}}
  OBVIOUS
<1>3. 2^0 = 1
  BY <1>1, <1>2, FS_Singleton
<1>4. ASSUME NEW n \in Nat PROVE 2^n \in Nat \ {0} /\ 2^(n + 1) = 2 * 2^n
  <2> DEFINE Old == SUBSET (1..n)
             New == {X \cup {n + 1} : X \in Old}
             f   == [X \in Old |-> X \cup {n + 1}]
  <2>1. f \in Bijection(Old, New)
    <3>1. ASSUME NEW X \in Old, NEW Y \in Old, f[X] = f[Y] PROVE X = Y
      BY <3>1
    <3>2. f \in [Old -> New] /\ \A Y \in New : \E X \in Old : f[X] = Y
      OBVIOUS
    <3> HIDE DEF f, Old, New
    <3>3. QED
      BY <3>1, <3>2 DEF Bijection, Injection, Surjection, IsInjective
  <2>2. IsFiniteSet(New) /\ Cardinality(New) = Cardinality(Old)
    BY <1>1, <2>1, FS_Bijection DEF ExistsBijection
  <2>3. SUBSET (1..(n + 1)) = Old \cup New
    <3>1. ASSUME NEW X \in SUBSET (1..(n + 1)), n + 1 \in X PROVE X \in New
      <4>1. X \ {n + 1} \in Old /\ X = (X \ {n + 1}) \cup {n + 1}
        BY <3>1
      <4>2. QED
        BY <4>1
    <3>2. ASSUME NEW X \in SUBSET (1..(n + 1)), n + 1 \notin X PROVE X \in Old
      BY <3>2
    <3>3. (1..n) \cup {n + 1} \subseteq 1..(n + 1)
      OBVIOUS
    <3>4. Old \subseteq SUBSET (1..(n + 1)) /\ New \subseteq SUBSET (1..(n + 1))
      BY <3>3
    <3> HIDE DEF Old, New
    <3>5. QED
      BY <3>1, <3>2, <3>4
  <2>4. Old \cap New = {}
    OBVIOUS
  <2>5. Cardinality(Old) \in Nat
    BY <1>1, FS_CardinalityType
  <2>6. Cardinality(Old) = 2^n /\ Cardinality(Old \cup New) = 2^(n + 1)
    <3>1. Cardinality(SUBSET (1..(n + 1))) = 2^(n + 1)
      BY <1>1
    <3>2. Cardinality(Old) = 2^n
      BY <1>1
    <3> HIDE DEF Old, New
    <3>3. QED
      BY <2>3, <3>1, <3>2
  <2>7. Cardinality(Old \cup New) = Cardinality(Old) + Cardinality(New)
    <3>1. IsFiniteSet(Old)
      BY <1>1
    <3> HIDE DEF Old, New
    <3>2. Cardinality(Old \cup New) = Cardinality(Old) + Cardinality(New) - Cardinality(Old \cap New)
      BY <2>2, <3>1, FS_Union
    <3>3. Cardinality(Old \cap New) = 0
      BY <2>4, FS_EmptySet
    <3>4. QED
      BY <2>2, <2>5, <3>2, <3>3
  <2>8. {} \in Old
    OBVIOUS
  <2>9. Cardinality(Old) # 0
    BY <1>1, <2>8, FS_EmptySet
  <2> HIDE DEF Old, New
  <2>10. QED
    BY <2>2, <2>5, <2>6, <2>7, <2>9
<1>5. QED
  BY <1>3, <1>4

\* A prefix of at least four addresses has room for the two after its first, and only such a
\* prefix has; the mask of an address is an address.
LEMMA Subnets ==
  ASSUME NEW a \in 0..(2^Width - 1), NEW plen \in 0..Width
  PROVE  /\ Masked(a, plen) \in Nat
         /\ Room(a, plen) <=> plen <= Width - 2
         /\ Room(a, plen) => /\ NextAddr(Masked(a, plen)) = Masked(a, plen) + 1
                             /\ NextAddr(NextAddr(Masked(a, plen))) = Masked(a, plen) + 2
                             /\ Size(plen) >= 4
<1> USE WidthAssumption
<1> DEFINE size == Size(plen)
           net  == Masked(a, plen)
<1>1. size \in Nat \ {0} /\ Beyond \in Nat /\ a \in Nat /\ a < Beyond
  BY Powers DEF Size, Beyond
<1>2. PICK q \in Nat : net = size * q
  <2>1. a = size * (a \div size) + (a % size)
    BY <1>1, SMT
  <2>2. a \div size \in Nat /\ size * (a \div size) \in Nat /\ a % size \in Nat
    BY <1>1, SMT
  <2>3. net = a - (a % size)
    BY DEF Masked
  <2> HIDE DEF net, size
  <2>4. net = size * (a \div size)
    BY <2>1, <2>2, <2>3, <1>1
  <2>5. QED
    BY <2>2, <2>4
<1>3. net \in Nat /\ net < Beyond
  <2>1. a % size \in Nat /\ net = a - (a % size)
    BY <1>1, SMT DEF Masked
  <2>2. net \in Nat
    BY <1>1, <1>2, SMT
  <2> HIDE DEF net, size
  <2>3. QED
    BY <2>1, <2>2, <1>1
<1>4. CASE plen <= Width - 2
  <2>1. PICK m \in Nat \ {0} : size = 4 * m
    <3>1. PICK k \in Nat : Width - plen = k + 1 + 1
      BY <1>4
    <3>2. 2^(k + 1 + 1) = 4 * 2^k /\ 2^k \in Nat \ {0}
      BY <3>1, Powers
    <3>3. QED
      BY <3>1, <3>2 DEF Size
  <2>2. PICK M \in Nat : Beyond = 4 * M
    <3>1. PICK k \in Nat : Width = k + 1 + 1
      BY <1>4
    <3>2. 2^(k + 1 + 1) = 4 * 2^k /\ 2^k \in Nat \ {0}
      BY <3>1, Powers
    <3>3. QED
      BY <3>1, <3>2 DEF Beyond
  <2>3. PICK z \in Nat : net = 4 * z
    <3>1. m * q \in Nat /\ size * q = 4 * (m * q)
      BY <2>1, SMT
    <3>2. QED
      BY <1>2, <3>1
  <2>4. NextAddr(net) = net + 1 /\ NextAddr(net + 1) = net + 2
    BY <1>3, <2>2, <2>3 DEF NextAddr
  <2>5. {net + 1, net + 2} \subseteq net..(net + size - 1) /\ size >= 4
    BY <1>3, <2>1
  <2>6. Room(a, plen)
    BY <2>4, <2>5, <1>3 DEF Room, Prefix
  <2>7. QED
    BY <1>3, <1>4, <2>4, <2>5, <2>6
<1>5. CASE plen > Width - 2
  <2>1. size \in {1, 2}
    <3>1. 2^0 = 1 /\ 2^(0 + 1) = 2
      BY Powers
    <3>2. Width - plen \in {0, 0 + 1}
      BY <1>5
    <3>3. QED
      BY <3>1, <3>2 DEF Size
  <2>2. NextAddr(net) = net + 1
    BY <1>3 DEF NextAddr
  <2>3. net + 2 \notin net..(net + size - 1)
    BY <1>3, <2>1
  <2>4. ~Room(a, plen)
    BY <1>1, <1>3, <2>2, <2>3 DEF Room, Prefix, NextAddr
  <2>5. QED
    BY <1>3, <1>5, <2>4
<1>6. QED
  BY <1>4, <1>5

\* "if-" and the name of a namespace is a name that the kernel takes for an interface.
LEMMA UplinkNames ==
  ASSUME NEW n, NetnsName(n)
  PROVE  IfaceName(IfaceTo(n))
BY DEF NetnsName, IfaceName, IfaceTo, Alnum

\* gateway create takes exactly the subnets with room for four addresses, whatever the width of
\* an address, and what it derives of them fits: the two addresses are hosts of the prefix.
THEOREM AddressesFit == Spec => []GatewayArgumentsFit
<1>1. Init => GatewayArgumentsFit
  <2>1. ASSUME Init PROVE gateway.status = "none"
    <3>1. gateway = [status |-> "none"]
      BY <2>1, Zenon DEF Init
    <3>2. QED
      BY <3>1
  <2>2. QED
    BY <2>1 DEF GatewayArgumentsFit
<1>2. GatewayArgumentsFit /\ [Next]_vars => GatewayArgumentsFit'
  <2> SUFFICES ASSUME GatewayArgumentsFit, [Next]_vars PROVE GatewayArgumentsFit'
    OBVIOUS
  <2>1. CASE GatewayCreate
    <3>1. PICK ns \in Names, ext \in ExtIfaces, a \in 0..(2^Width - 1), plen \in 0..Width,
               is4 \in BOOLEAN :
             gateway' = IF NetnsName(ns) /\ IfaceName(ext) /\ is4 /\ Room(a, plen)
                  THEN [status |-> "accepted", addr |-> a, plen |-> plen, iface |-> IfaceTo(ns),
                        host |-> NextAddr(Masked(a, plen)),
                        peer |-> NextAddr(NextAddr(Masked(a, plen)))]
                  ELSE [status |-> "refused", plen |-> plen, is4 |-> is4,
                        names |-> NetnsName(ns) /\ IfaceName(ext)]
      BY <2>1 DEF GatewayCreate
    <3>2. CASE NetnsName(ns) /\ IfaceName(ext) /\ is4 /\ Room(a, plen)
      <4>1. /\ gateway'.status = "accepted" /\ gateway'.addr = a /\ gateway'.plen = plen
            /\ gateway'.iface = IfaceTo(ns)
            /\ gateway'.host = NextAddr(Masked(a, plen))
            /\ gateway'.peer = NextAddr(NextAddr(Masked(a, plen)))
        BY <3>1, <3>2
      <4>2. IfaceName(IfaceTo(ns))
        BY <3>2, UplinkNames
      <4>3. /\ Masked(a, plen) \in Nat /\ Size(plen) >= 4 /\ Size(plen) \in Nat
            /\ gateway'.host = Masked(a, plen) + 1 /\ gateway'.peer = Masked(a, plen) + 2
        BY <3>2, <4>1, Subnets, Powers, WidthAssumption DEF Size
      <4>4. QED
        BY <4>1, <4>2, <4>3 DEF GatewayArgumentsFit
    <3>3. CASE ~(NetnsName(ns) /\ IfaceName(ext) /\ is4 /\ Room(a, plen))
      <4>1. /\ gateway'.status = "refused" /\ gateway'.plen = plen /\ gateway'.is4 = is4
            /\ gateway'.names = (NetnsName(ns) /\ IfaceName(ext))
        BY <3>1, <3>3
      <4>2. plen <= Width - 2 => Room(a, plen)
        BY Subnets
      <4>3. plen > Width - 2 \/ ~is4 \/ ~(NetnsName(ns) /\ IfaceName(ext))
        BY <3>3, <4>2, WidthAssumption
      <4>4. QED
        BY <4>1, <4>3 DEF GatewayArgumentsFit
    <3>4. QED
      BY <3>2, <3>3
  <2>2. CASE UNCHANGED gateway
    BY <2>2 DEF GatewayArgumentsFit
  <2>3. QED
    BY <2>1, <2>2 DEF Next, vars, Apply, NoFlag, Flag, BadFlag, FlagsRead, Child, TcReads,
       TcAddsRoot, TcAddsChild
<1>3. QED
  BY <1>1, <1>2, PTL DEF Spec

-----------------------------------------------------------------------------
(* The values of the flags, and the readers of tc: each takes what the     *)
(* validator accepts, all of it and no word more, if a keyword follows.    *)

\* The words that can stand in the command line, and what can stand after the value of a flag:
\* the keyword of another flag, or the end of the line.
Words == Tokens \cup Keys
Stops == {Flags[i] : i \in DOMAIN Flags} \cup {"end"}

\* The line w begins with v, and no word that could belong to v follows it.
Followed(w, v) ==
  /\ w \in Seq(Words) /\ v \in Seq(Words)
  /\ \A i \in 1..Len(v) : WordAt(w, i) = v[i]
  /\ WordAt(w, Len(v) + 1) \in Stops

\* The keywords, one by one.
LEMMA FlagWords == Stops = {"delay", "loss", "limit", "rate", "slot", "end"}
BY DEF Stops, Flags

\* A value followed by a keyword is followed.
LEMMA Joined ==
  ASSUME NEW v \in Seq(Words), NEW s \in Seq(Words), WordAt(s, 1) \in Stops
  PROVE  Followed(v \o s, v)
<1>1. /\ v \o s \in Seq(Words) /\ Len(v \o s) = Len(v) + Len(s)
      /\ DOMAIN (v \o s) = 1..(Len(v) + Len(s)) /\ DOMAIN s = 1..Len(s)
      /\ Len(v) \in Nat /\ Len(s) \in Nat
  BY ConcatProperties, LenProperties
<1>2. \A i \in 1..Len(v) : WordAt(v \o s, i) = v[i]
  BY <1>1, ConcatProperties DEF WordAt
<1>3. WordAt(v \o s, Len(v) + 1) = WordAt(s, 1)
  <2>1. CASE Len(s) = 0
    BY <1>1, <2>1 DEF WordAt
  <2>2. CASE Len(s) > 0
    <3>1. (v \o s)[Len(v) + 1] = s[1]
      BY <1>1, <2>2, ConcatProperties
    <3>2. QED
      BY <1>1, <2>2, <3>1 DEF WordAt
  <2>3. QED
    BY <1>1, <2>1, <2>2
<1>4. QED
  BY <1>1, <1>2, <1>3 DEF Followed

\* The greatest of an interval.
LEMMA MaxOf == ASSUME NEW m \in Nat PROVE Max(0..m) = m
<1>1. \A x \in 0..m : (\A y \in 0..m : x >= y) => x = m
  BY SMT
<1>2. m \in 0..m /\ \A y \in 0..m : m >= y
  OBVIOUS
<1>3. QED
  BY <1>1, <1>2 DEF Max

\* What TcNumbers returns, if the run of numbers at the head of the line has m of them.
LEMMA Numbers ==
  ASSUME NEW w, NEW kinds, NEW like, NEW m \in Nat, Len(kinds) \in Nat, m <= Len(kinds),
         \A i \in 1..m : WordAt(w, i) \in like,
         m < Len(kinds) => WordAt(w, m + 1) \notin like
  PROVE  TcNumbers(w, kinds, like) = IF \A i \in 1..m : w[i] \in kinds[i] THEN m ELSE 0
<1> DEFINE N == {k \in 0..Len(kinds) : \A i \in 1..k : WordAt(w, i) \in like}
<1>1. N = 0..m
  <2>1. ASSUME NEW k \in 0..m PROVE k \in N
    OBVIOUS
  <2>2. ASSUME NEW k \in N, k > m PROVE FALSE
    <3>1. m + 1 \in 1..k /\ m < Len(kinds)
      BY <2>2
    <3>2. QED
      BY <3>1
  <2>3. QED
    BY <2>1, <2>2
<1>2. Max(N) = m
  BY <1>1, MaxOf
<1>3. QED
  BY <1>2 DEF TcNumbers

\* What a sequence that is put together of two looks like.
LEMMA Concat ==
  ASSUME NEW x \in Seq(Words), NEW y \in Seq(Words)
  PROVE  /\ x \o y \in Seq(Words) /\ Len(x \o y) = Len(x) + Len(y)
         /\ \A i \in 1..Len(x) : (x \o y)[i] = x[i]
         /\ \A i \in 1..Len(y) : (x \o y)[Len(x) + i] = y[i]
BY ConcatProperties, LenProperties

\* Three sequences put together.
LEMMA Assoc ==
  ASSUME NEW x \in Seq(Words), NEW y \in Seq(Words), NEW z \in Seq(Words)
  PROVE  (x \o y) \o z = x \o (y \o z)
BY ConcatAssociative

\* A function of an interval is a sequence.
LEMMA FunctionIsSeq ==
  ASSUME NEW n \in Nat, NEW S, NEW x \in [1..n -> S]
  PROVE  x \in Seq(S) /\ Len(x) = n
OBVIOUS

\* The words of v are of the kinds that stand after the k-th.
Fits(v, kinds, k) ==
  /\ v \in Seq(Words) /\ Len(v) \in 1..(Len(kinds) - k)
  /\ \A i \in 1..Len(v) : v[i] \in kinds[k + i]

\* One word of a kind.
LEMMA OneFits ==
  ASSUME NEW A, A \subseteq Words, NEW v \in One(A)
  PROVE  v \in Seq(Words) /\ Len(v) = 1 /\ v[1] \in A
<1>1. v \in [1..1 -> Words] /\ v[1] \in A
  BY DEF One
<1>2. QED
  BY <1>1

\* One word or more of one kind.
LEMMA TimesFits ==
  ASSUME NEW n \in Nat, NEW A, A \subseteq Words, NEW kinds, Len(kinds) = n,
         \A i \in 1..n : kinds[i] = A
  PROVE  \A v \in Times(A, n) : Fits(v, kinds, 0)
<1> SUFFICES ASSUME NEW v \in Times(A, n) PROVE Fits(v, kinds, 0)
  OBVIOUS
<1>1. PICK i \in 1..n : v \in [1..i -> A]
  BY DEF Times
<1>2. v \in [1..i -> Words]
  BY <1>1
<1>3. v \in Seq(Words) /\ Len(v) = i
  BY <1>2
<1>4. QED
  BY <1>1, <1>3 DEF Fits

\* A word that others may follow: the optional parts of a value, one inside the other.
LEMMA ChainFits ==
  ASSUME NEW kinds, NEW k \in Nat, Len(kinds) \in Nat, k < Len(kinds), kinds[k + 1] \subseteq Words,
         NEW L, \A y \in L : Fits(y, kinds, k + 1)
  PROVE  \A v \in One(kinds[k + 1]) ** Opt(L) :
            Fits(v, kinds, k) /\ (Len(v) = 1 => v \in One(kinds[k + 1]))
<1> DEFINE A == kinds[k + 1]
<1> SUFFICES ASSUME NEW v \in One(A) ** Opt(L)
             PROVE  Fits(v, kinds, k) /\ (Len(v) = 1 => v \in One(A))
  OBVIOUS
<1>1. PICK x \in One(A), y \in Opt(L) : v = x \o y
  BY DEF **
<1>2. x \in Seq(Words) /\ Len(x) = 1 /\ x[1] \in A
  BY OneFits
<1>3. CASE y = <<>>
  <2>1. v = x
    BY <1>1, <1>2, <1>3, ConcatEmptySeq
  <2>2. v \in Seq(Words) /\ Len(v) = 1 /\ v[1] \in kinds[k + 1] /\ 1 \in 1..(Len(kinds) - k)
    BY <1>2, <2>1
  <2>3. QED
    BY <2>1, <2>2 DEF Fits
<1>4. CASE y \in L
  <2>1. /\ y \in Seq(Words) /\ Len(y) \in 1..(Len(kinds) - (k + 1))
        /\ \A i \in 1..Len(y) : y[i] \in kinds[(k + 1) + i]
    BY <1>4 DEF Fits
  <2>2. v \in Seq(Words) /\ Len(v) = 1 + Len(y) /\ v[1] = x[1] /\ \A i \in 1..Len(y) : v[1 + i] = y[i]
    <3>1. x \in Seq(Words)
      BY <1>2
    <3>2. /\ x \o y \in Seq(Words) /\ Len(x \o y) = Len(x) + Len(y)
          /\ \A i \in 1..Len(x) : (x \o y)[i] = x[i]
          /\ \A i \in 1..Len(y) : (x \o y)[Len(x) + i] = y[i]
      BY <2>1, <3>1, Concat
    <3>3. QED
      BY <1>1, <1>2, <3>2
  <2>3. ASSUME NEW i \in 1..Len(v) PROVE v[i] \in kinds[k + i]
    <3>1. CASE i = 1
      BY <1>2, <2>2, <3>1
    <3>2. CASE i > 1
      <4>1. i - 1 \in 1..Len(y) /\ i = 1 + (i - 1) /\ (k + 1) + (i - 1) = k + i
        BY <2>1, <2>2, <3>2
      <4>2. v[i] = y[i - 1] /\ y[i - 1] \in kinds[(k + 1) + (i - 1)]
        BY <2>1, <2>2, <4>1
      <4>3. QED
        BY <4>1, <4>2
    <3>3. QED
      BY <3>1, <3>2, <2>1, <2>2
  <2>4. QED
    BY <2>1, <2>2, <2>3 DEF Fits
<1>5. QED
  BY <1>3, <1>4 DEF Opt

\* The end of a line is no word.
LEMMA EndIsNoWord == "end" \notin Words
BY DEF Words, Tokens, Keys, Flags

\* TcNumbers takes all the numbers of a value and stops at what follows it.
LEMMA NumbersRead ==
  ASSUME NEW w, NEW v, NEW kinds, NEW like, Fits(v, kinds, 0), Len(kinds) \in Nat,
         \A i \in 1..Len(kinds) : kinds[i] \subseteq like,
         \A i \in 1..Len(v) : WordAt(w, i) = v[i],
         WordAt(w, Len(v) + 1) \notin like
  PROVE  TcNumbers(w, kinds, like) = Len(v)
<1>1. Len(v) \in Nat /\ Len(v) <= Len(kinds)
  BY DEF Fits
<1>2. ASSUME NEW i \in 1..Len(v) PROVE WordAt(w, i) \in like /\ w[i] \in kinds[i]
  <2>1. v[i] \in kinds[i] /\ v[i] \in like /\ v[i] \in Words
    BY <1>1, ElementOfSeq DEF Fits
  <2>2. w[i] = v[i]
    BY <2>1, EndIsNoWord DEF WordAt
  <2>3. QED
    BY <2>1, <2>2
<1>3. TcNumbers(w, kinds, like) = IF \A i \in 1..Len(v) : w[i] \in kinds[i] THEN Len(v) ELSE 0
  BY <1>1, <1>2, Numbers
<1>4. QED
  BY <1>2, <1>3

\* All of the words of the grammars are words.
LEMMA Atoms ==
  /\ atomTime \subseteq Words /\ atomPct \subseteq Words /\ atomNum \subseteq Words
  /\ atomSNum \subseteq Words /\ atomRate \subseteq Words /\ atomProbPct \subseteq Words
  /\ atomDist \subseteq Words
  /\ {"distribution", "random", "state", "gemodel", "packets", "bytes"} \subseteq Words
  /\ Keys \subseteq Words
BY DEF Words, Tokens, atomTime, atomPct, atomNum, atomSNum, atomRate, atomProbPct, atomDist

\* No keyword begins like a number, not even like a negative one.
LEMMA StopsAreNoNumbers == Stops \cap Signed = {} /\ Stops \cap Numeral = {} /\ Numeral \subseteq Signed
BY FlagWords DEF Signed, Numeral

\* Read as a whole.
Takes(key, v) ==
  v \in Seq(Words) /\ Len(v) > 0 /\ \A w : Followed(w, v) => TcTakes(key, w) = Len(v)

\* tc takes every limit that netemLimitRe accepts, whatever flag follows.
LEMMA LimitTaken == \A v \in netemLimitRe : Takes("limit", v)
<1> SUFFICES ASSUME NEW v \in netemLimitRe PROVE Takes("limit", v)
  OBVIOUS
<1> DEFINE kinds == <<atomNum>>
<1>1. v \in Seq(Words) /\ Len(v) = 1 /\ v[1] \in atomNum
  BY OneFits, Atoms DEF netemLimitRe
<1>2. Len(kinds) = 1 /\ kinds[1] = atomNum
  OBVIOUS
<1>3. Fits(v, kinds, 0)
  BY <1>1, <1>2 DEF Fits
<1>4. \A i \in 1..Len(kinds) : kinds[i] \subseteq Numeral
  BY <1>2 DEF Numeral, atomNum
<1>5. ASSUME NEW w, Followed(w, v) PROVE TcTakes("limit", w) = Len(v)
  <2>1. WordAt(w, Len(v) + 1) \notin Numeral /\ \A i \in 1..Len(v) : WordAt(w, i) = v[i]
    BY <1>5, StopsAreNoNumbers DEF Followed
  <2> HIDE DEF kinds
  <2>2. TcNumbers(w, kinds, Numeral) = Len(v)
    BY <1>2, <1>3, <1>4, <2>1, NumbersRead
  <2>3. QED
    BY <2>2 DEF TcTakes, kinds
<1>6. QED
  BY <1>1, <1>5 DEF Takes

\* tc takes every rate that netemRateRe accepts, the signs of its overheads included.
LEMMA RateTaken == \A v \in netemRateRe : Takes("rate", v)
<1> DEFINE kinds == <<atomRate, atomSNum, atomNum, atomSNum>>
           L3 == One(atomSNum)
           L2 == One(atomNum) ** Opt(L3)
           L1 == One(atomSNum) ** Opt(L2)
<1>1. /\ Len(kinds) = 4 /\ kinds[0 + 1] = atomRate
      /\ kinds[1 + 1] = atomSNum /\ kinds[2 + 1] = atomNum /\ kinds[3 + 1] = atomSNum
  OBVIOUS
<1>2. \A i \in 1..Len(kinds) : kinds[i] \subseteq Signed
  <2>1. /\ atomRate \subseteq Signed /\ atomSNum \subseteq Signed /\ atomNum \subseteq Signed
    BY DEF atomRate, atomNum, atomSNum, Signed, Numeral
  <2>2. QED
    BY <1>1, <2>1
<1> HIDE DEF kinds
<1>3. \A v \in L3 : Fits(v, kinds, 2 + 1)
  BY <1>1, OneFits, Atoms DEF Fits
<1>4. \A v \in L2 : Fits(v, kinds, 1 + 1)
  <2> HIDE DEF L3
  <2>1. \A v \in One(kinds[2 + 1]) ** Opt(L3) : Fits(v, kinds, 2)
    BY <1>1, <1>3, ChainFits, Atoms
  <2>2. QED
    BY <1>1, <2>1
<1>5. \A v \in L1 : Fits(v, kinds, 0 + 1)
  <2> HIDE DEF L2
  <2>1. \A v \in One(kinds[1 + 1]) ** Opt(L2) : Fits(v, kinds, 1)
    BY <1>1, <1>4, ChainFits, Atoms
  <2>2. QED
    BY <1>1, <2>1
<1>6. \A v \in netemRateRe : Fits(v, kinds, 0)
  <2> HIDE DEF L1
  <2>1. \A v \in One(kinds[0 + 1]) ** Opt(L1) : Fits(v, kinds, 0)
    BY <1>1, <1>5, ChainFits, Atoms
  <2>2. netemRateRe = One(atomRate) ** Opt(L1)
    BY DEF netemRateRe, L1
  <2>3. QED
    BY <1>1, <2>1, <2>2
<1>7. ASSUME NEW v \in netemRateRe, NEW w, Followed(w, v) PROVE TcTakes("rate", w) = Len(v)
  <2>1. WordAt(w, Len(v) + 1) \notin Signed /\ \A i \in 1..Len(v) : WordAt(w, i) = v[i]
    BY <1>7, StopsAreNoNumbers DEF Followed
  <2>2. TcNumbers(w, kinds, Signed) = Len(v)
    BY <1>1, <1>2, <1>6, <2>1, NumbersRead
  <2>3. QED
    BY <2>2 DEF TcTakes, kinds
<1>8. ASSUME NEW v \in netemRateRe PROVE v \in Seq(Words) /\ Len(v) > 0
  <2>1. Fits(v, kinds, 0)
    BY <1>6
  <2>2. QED
    BY <1>1, <2>1 DEF Fits
<1>9. QED
  BY <1>7, <1>8 DEF Takes

\* A sequence of two languages taken apart.
LEMMA Apart ==
  ASSUME NEW L, NEW M, NEW v \in L ** M
  PROVE  \E x \in L, y \in M : v = x \o y
BY DEF **

\* And put together.
LEMMA Together ==
  ASSUME NEW L, NEW M, NEW x \in L, NEW y \in M
  PROVE  x \o y \in L ** M
BY DEF **

\* What stands after a fixed first word.
LEMMA AfterWord ==
  ASSUME NEW L, NEW a, NEW v \in Word(a) ** L
  PROVE  \E y \in L : v = <<a>> \o y
<1>1. PICK x \in Word(a), y \in L : v = x \o y
  BY DEF **
<1>2. x = <<a>>
  BY DEF Word, One
<1>3. QED
  BY <1>1, <1>2

\* What follows a first word.
LEMMA Rest ==
  ASSUME NEW w \in Seq(Words), NEW v \in Seq(Words), NEW t \in Words, NEW y \in Seq(Words),
         Followed(w, v), v = <<t>> \o y
  PROVE  WordAt(w, 1) = t /\ Len(v) = 1 + Len(y) /\ Followed(From(w, 2), y)
<1>1. <<t>> \in Seq(Words) /\ Len(<<t>>) = 1 /\ <<t>>[1] = t
  OBVIOUS
<1>2. Len(v) = 1 + Len(y) /\ v[1] = t /\ \A i \in 1..Len(y) : v[1 + i] = y[i]
  BY <1>1, Concat
<1>3. Len(y) \in Nat /\ Len(w) \in Nat /\ DOMAIN w = 1..Len(w)
  BY LenProperties
<1>4. WordAt(w, 1) = t
  BY <1>2, <1>3 DEF Followed
<1>5. w # <<>> /\ Len(w) >= 1
  BY <1>3, <1>4, EndIsNoWord DEF WordAt
<1>6. From(w, 2) = Tail(w)
  BY <1>5, TailIsSubSeq DEF From
<1>7. /\ Tail(w) \in Seq(Words) /\ Len(Tail(w)) = Len(w) - 1
      /\ \A i \in 1..Len(Tail(w)) : Tail(w)[i] = w[i + 1]
  BY <1>5, HeadTailProperties
<1>8. DOMAIN Tail(w) = 1..(Len(w) - 1)
  BY <1>7, LenProperties
<1>9. \A i \in Nat \ {0} : WordAt(Tail(w), i) = WordAt(w, i + 1)
  BY <1>3, <1>7, <1>8 DEF WordAt
<1>10. \A i \in 1..Len(y) : WordAt(Tail(w), i) = y[i]
  <2>1. ASSUME NEW i \in 1..Len(y) PROVE WordAt(Tail(w), i) = y[i]
    <3>1. i \in Nat \ {0} /\ i + 1 \in 1..Len(v) /\ i + 1 = 1 + i
      BY <1>2, <1>3
    <3>2. WordAt(Tail(w), i) = WordAt(w, i + 1)
      BY <1>9, <3>1
    <3>3. WordAt(w, i + 1) = v[i + 1]
      BY <3>1 DEF Followed
    <3>4. QED
      BY <1>2, <3>1, <3>2, <3>3
  <2>2. QED
    BY <2>1
<1>11. WordAt(Tail(w), Len(y) + 1) \in Stops
  <2>1. WordAt(Tail(w), Len(y) + 1) = WordAt(w, (Len(y) + 1) + 1)
    BY <1>3, <1>9
  <2>2. (Len(y) + 1) + 1 = Len(v) + 1
    BY <1>2, <1>3
  <2>3. QED
    BY <2>1, <2>2 DEF Followed
<1>12. QED
  BY <1>2, <1>4, <1>6, <1>7, <1>10, <1>11 DEF Followed

\* tc takes every loss that netemLossRe accepts, in each of the four models.
LEMMA LossTaken == \A v \in netemLossRe : Takes("loss", v)
<1> DEFINE Two == <<atomPct, atomPct>>
           Five == [i \in 1..5 |-> atomPct]
           Four == [i \in 1..4 |-> atomProbPct]
<1>1. /\ Len(Two) = 2 /\ Two[1] = atomPct /\ Two[2] = atomPct
      /\ Len(Five) = 5 /\ \A i \in 1..5 : Five[i] = atomPct
      /\ Len(Four) = 4 /\ \A i \in 1..4 : Four[i] = atomProbPct
  <2>1. Five \in Seq(SUBSET Words) /\ Four \in Seq(SUBSET Words)
    BY Atoms
  <2>2. QED
    BY <2>1
<1>2. atomPct \subseteq Numeral /\ atomProbPct \subseteq Numeral
  BY DEF atomPct, atomProbPct, Numeral
<1> DEFINE Led(t, v, kinds) ==
             /\ v \in Seq(Words) /\ Len(v) > 0
             /\ \A w : Followed(w, v) =>
                  /\ WordAt(w, 1) = t
                  /\ After(1, TcNumbers(From(w, 2), kinds, Numeral)) = Len(v)
<1> HIDE DEF Two, Five, Four
<1>3. /\ \A v \in Times(atomPct, 2) : Fits(v, Two, 0)
      /\ \A v \in Times(atomPct, 5) : Fits(v, Five, 0)
      /\ \A v \in Times(atomProbPct, 4) : Fits(v, Four, 0)
  <2>1. \A i \in 1..2 : Two[i] = atomPct
    BY <1>1
  <2>2. \A v \in Times(atomPct, 2) : Fits(v, Two, 0)
    BY <1>1, <2>1, TimesFits, Atoms
  <2>3. \A v \in Times(atomPct, 5) : Fits(v, Five, 0)
    BY <1>1, TimesFits, Atoms
  <2>4. \A v \in Times(atomProbPct, 4) : Fits(v, Four, 0)
    BY <1>1, TimesFits, Atoms
  <2>5. QED
    BY <2>2, <2>3, <2>4
<1>4. ASSUME NEW y, NEW w, Followed(w, y), NEW kinds \in {Two, Five, Four}, Fits(y, kinds, 0)
      PROVE  TcNumbers(w, kinds, Numeral) = Len(y)
  <2>1. WordAt(w, Len(y) + 1) \notin Numeral /\ \A i \in 1..Len(y) : WordAt(w, i) = y[i]
    BY <1>4, StopsAreNoNumbers DEF Followed
  <2>2. Len(kinds) \in Nat /\ \A i \in 1..Len(kinds) : kinds[i] \subseteq Numeral
    BY <1>1, <1>2
  <2>3. QED
    BY <1>4, <2>1, <2>2, NumbersRead
<1>5. ASSUME NEW y, NEW kinds \in {Two, Five, Four}, Fits(y, kinds, 0),
             NEW t \in Words, NEW v, v = <<t>> \o y
      PROVE  Led(t, v, kinds)
  <2>1. y \in Seq(Words) /\ Len(y) \in Nat \ {0}
    BY <1>5, <1>1 DEF Fits
  <2>2. v \in Seq(Words) /\ Len(v) = 1 + Len(y)
    <3>1. <<t>> \in Seq(Words) /\ Len(<<t>>) = 1
      OBVIOUS
    <3>2. QED
      BY <1>5, <2>1, <3>1, Concat
  <2>3. ASSUME NEW w, Followed(w, v)
        PROVE  WordAt(w, 1) = t /\ After(1, TcNumbers(From(w, 2), kinds, Numeral)) = Len(v)
    <3>1. WordAt(w, 1) = t /\ Followed(From(w, 2), y)
      <4>1. w \in Seq(Words)
        BY <2>3 DEF Followed
      <4>2. QED
        BY <1>5, <2>1, <2>2, <2>3, <4>1, Rest
    <3>2. TcNumbers(From(w, 2), kinds, Numeral) = Len(y)
      BY <1>4, <1>5, <3>1
    <3>3. QED
      BY <2>1, <2>2, <3>1, <3>2 DEF After
  <2>4. QED
    BY <2>1, <2>2, <2>3
<1>6. ASSUME NEW v \in Word("state") ** Times(atomPct, 5) PROVE Takes("loss", v)
  <2>1. PICK y \in Times(atomPct, 5) : v = <<"state">> \o y
    BY AfterWord
  <2>2. Led("state", v, Five)
    <3>1. Fits(y, Five, 0) /\ "state" \in Words
      BY <1>3, Atoms
    <3> HIDE DEF Two, Five, Four, Led
    <3>2. QED
      BY <1>5, <2>1, <3>1
  <2>3. QED
    BY <2>2 DEF Takes, TcTakes, TcLoss, Five
<1>7. ASSUME NEW v \in Word("gemodel") ** Times(atomProbPct, 4) PROVE Takes("loss", v)
  <2>1. PICK y \in Times(atomProbPct, 4) : v = <<"gemodel">> \o y
    BY AfterWord
  <2>2. Led("gemodel", v, Four)
    <3>1. Fits(y, Four, 0) /\ "gemodel" \in Words
      BY <1>3, Atoms
    <3> HIDE DEF Two, Five, Four, Led
    <3>2. QED
      BY <1>5, <2>1, <3>1
  <2>3. QED
    BY <2>2 DEF Takes, TcTakes, TcLoss, Four
<1>8. ASSUME NEW v \in Word("random") ** Times(atomPct, 2) PROVE Takes("loss", v)
  <2>1. PICK y \in Times(atomPct, 2) : v = <<"random">> \o y
    BY AfterWord
  <2>2. Led("random", v, Two)
    <3>1. Fits(y, Two, 0) /\ "random" \in Words
      BY <1>3, Atoms
    <3> HIDE DEF Two, Five, Four, Led
    <3>2. QED
      BY <1>5, <2>1, <3>1
  <2>3. QED
    BY <2>2 DEF Takes, TcTakes, TcLoss, Two
<1>9. ASSUME NEW v \in Times(atomPct, 2) PROVE Takes("loss", v)
  <2>1. Fits(v, Two, 0) /\ v \in Seq(Words) /\ Len(v) \in 1..2
    BY <1>1, <1>3 DEF Fits
  <2>2. v[1] = "pct"
    BY <1>1, <2>1 DEF Fits, atomPct
  <2>3. ASSUME NEW w, Followed(w, v) PROVE TcTakes("loss", w) = Len(v)
    <3>1. WordAt(w, 1) = "pct"
      BY <2>1, <2>2, <2>3 DEF Followed
    <3>2. TcNumbers(w, Two, Numeral) = Len(v)
      BY <1>4, <2>1, <2>3
    <3>3. QED
      BY <3>1, <3>2 DEF TcTakes, TcLoss, Two
  <2>4. QED
    BY <2>1, <2>3 DEF Takes
<1>10. \A v \in Opt(Word("random")) ** Times(atomPct, 2) :
         v \in (Word("random") ** Times(atomPct, 2)) \cup Times(atomPct, 2)
  <2>1. ASSUME NEW v \in Times(atomPct, 2) PROVE <<>> \o v = v
    <3>1. v \in Seq(Words)
      BY <1>3 DEF Fits
    <3>2. QED
      BY <3>1, ConcatEmptySeq
  <2>2. ASSUME NEW v \in Opt(Word("random")) ** Times(atomPct, 2),
               v \notin Word("random") ** Times(atomPct, 2)
        PROVE  v \in Times(atomPct, 2)
    <3>1. PICK x \in Opt(Word("random")), y \in Times(atomPct, 2) : v = x \o y
      BY DEF **
    <3>2. x \notin Word("random")
      BY <2>2, <3>1, Together
    <3>3. x = <<>>
      BY <3>2 DEF Opt
    <3>4. QED
      BY <2>1, <3>1, <3>3
  <2>3. QED
    BY <2>2
<1>11. QED
  BY <1>6, <1>7, <1>8, <1>9, <1>10 DEF netemLossRe

\* A keyword with its number that may be left out, as "packets" and "bytes" may.
LEMMA Option ==
  ASSUME NEW a \in Words, NEW A, A \subseteq Words
  PROVE  \A v \in Opt(Word(a) ** One(A)) :
            /\ v \in Seq(Words) /\ Len(v) \in {0, 2} /\ (Len(v) = 0 <=> v = <<>>)
            /\ Len(v) = 2 => v \in Word(a) ** One(A) /\ v[1] = a /\ v[2] \in A
<1>1. ASSUME NEW v \in Word(a) ** One(A)
      PROVE  v \in Seq(Words) /\ Len(v) = 2 /\ v[1] = a /\ v[2] \in A
  <2>1. PICK y \in One(A) : v = <<a>> \o y
    BY AfterWord
  <2>2. y \in Seq(Words) /\ Len(y) = 1 /\ y[1] \in A
    BY OneFits
  <2>3. <<a>> \in Seq(Words) /\ Len(<<a>>) = 1 /\ <<a>>[1] = a
    OBVIOUS
  <2>4. v[1] = a /\ v[1 + 1] = y[1] /\ Len(v) = 1 + 1 /\ v \in Seq(Words)
    BY <2>1, <2>2, <2>3, Concat
  <2>5. QED
    BY <2>2, <2>4
<1>2. <<>> \in Seq(Words) /\ Len(<<>>) = 0
  OBVIOUS
<1>3. ASSUME NEW v \in Opt(Word(a) ** One(A)) PROVE v \in Word(a) ** One(A) \/ v = <<>>
  BY DEF Opt
<1>4. ASSUME NEW v \in Opt(Word(a) ** One(A))
      PROVE  /\ v \in Seq(Words) /\ Len(v) \in {0, 2} /\ (Len(v) = 0 <=> v = <<>>)
             /\ Len(v) = 2 => v \in Word(a) ** One(A) /\ v[1] = a /\ v[2] \in A
  <2>1. CASE v \in Word(a) ** One(A)
    <3>1. v \in Seq(Words) /\ Len(v) = 2 /\ v[1] = a /\ v[2] \in A
      BY <1>1, <2>1
    <3>2. v # <<>>
      BY <1>2, <3>1
    <3>3. QED
      BY <2>1, <3>1, <3>2
  <2>2. CASE v = <<>>
    BY <1>2, <2>2
  <2>3. QED
    BY <1>3, <2>1, <2>2
<1>5. QED
  BY <1>4

\* A delay with a distribution but without a jitter, which the validator accepts.
NoJitter == One(atomTime) ** Word("distribution") ** One(atomDist)

\* tc takes every delay that netemDelayRe accepts, but for those without a jitter: it refuses
\* these and never takes part of them.
LEMMA DelayTaken ==
  ASSUME NEW v \in netemDelayRe
  PROVE  /\ v \in Seq(Words) /\ Len(v) > 0
         /\ \A w : Followed(w, v) => \/ TcTakes("delay", w) = Len(v)
                                     \/ TcTakes("delay", w) = 0 /\ v \in NoJitter
<1> DEFINE kinds == <<atomTime, atomTime, atomPct>>
           L2 == One(atomPct)
           L1 == One(atomTime) ** Opt(L2)
           Numbers3 == One(atomTime) ** Opt(L1)
           Suffix == Word("distribution") ** One(atomDist)
<1>1. /\ Len(kinds) = 3 /\ kinds[0 + 1] = atomTime
      /\ kinds[1 + 1] = atomTime /\ kinds[2 + 1] = atomPct
  OBVIOUS
<1>2. \A i \in 1..Len(kinds) : kinds[i] \subseteq Numeral
  <2>1. /\ atomTime \subseteq Numeral /\ atomPct \subseteq Numeral
    BY DEF atomTime, atomPct, Numeral
  <2>2. QED
    BY <1>1, <2>1
<1> HIDE DEF kinds
<1>3. \A x \in L2 : Fits(x, kinds, 1 + 1)
  BY <1>1, OneFits, Atoms DEF Fits
<1>4. \A x \in L1 : Fits(x, kinds, 0 + 1)
  <2> HIDE DEF L2
  <2>1. kinds[1 + 1] \subseteq Words /\ Len(kinds) \in Nat /\ 1 < Len(kinds)
    BY <1>1, Atoms
  <2>2. \A x \in One(kinds[1 + 1]) ** Opt(L2) : Fits(x, kinds, 1)
    BY <1>3, <2>1, ChainFits
  <2>3. QED
    BY <1>1, <2>2
<1>5. \A x \in Numbers3 : Fits(x, kinds, 0) /\ (Len(x) = 1 => x \in One(atomTime))
  <2> HIDE DEF L1
  <2>1. \A x \in One(kinds[0 + 1]) ** Opt(L1) :
           Fits(x, kinds, 0) /\ (Len(x) = 1 => x \in One(kinds[0 + 1]))
    <3>1. kinds[0 + 1] \subseteq Words /\ Len(kinds) \in Nat /\ 0 < Len(kinds)
      BY <1>1, Atoms
    <3>2. QED
      BY <1>4, <3>1, ChainFits
  <2>2. QED
    BY <1>1, <2>1
<1>6. PICK x \in Numbers3, y \in Opt(Suffix) : v = x \o y
  <2>1. netemDelayRe = Numbers3 ** Opt(Suffix)
    BY DEF netemDelayRe
  <2> HIDE DEF Numbers3, Suffix
  <2>2. QED
    BY <2>1, Apart
<1> HIDE DEF Numbers3, Suffix
<1>7. Fits(x, kinds, 0) /\ x \in Seq(Words) /\ Len(x) \in 1..3
  BY <1>1, <1>5, <1>6 DEF Fits
<1>8. /\ y \in Seq(Words) /\ Len(y) \in {0, 2}
      /\ Len(y) = 2 => y \in Suffix /\ y[1] = "distribution" /\ y[2] \in atomDist
  BY <1>6, Option, Atoms DEF Suffix
<1>9. /\ v \in Seq(Words) /\ Len(v) = Len(x) + Len(y)
      /\ \A i \in 1..Len(x) : v[i] = x[i]
      /\ \A i \in 1..Len(y) : v[Len(x) + i] = y[i]
  BY <1>6, <1>7, <1>8, Concat
<1>10. ASSUME NEW w, Followed(w, v)
       PROVE  \/ TcTakes("delay", w) = Len(v)
              \/ TcTakes("delay", w) = 0 /\ v \in NoJitter
  <2> DEFINE n == TcNumbers(w, kinds, Numeral)
  <2>1. \A i \in 1..Len(x) : WordAt(w, i) = x[i]
    BY <1>7, <1>8, <1>9, <1>10 DEF Followed
  <2>2. TcTakes("delay", w) = IF n > 0 /\ WordAt(w, n + 1) = "distribution"
                              THEN IF n > 1 /\ WordAt(w, n + 2) \in atomDist THEN n + 2 ELSE 0
                              ELSE n
    BY DEF TcTakes, TcDelay, kinds
  <2>3. CASE Len(y) = 0
    <3>1. WordAt(w, Len(x) + 1) \in Stops
      BY <1>7, <1>9, <1>10, <2>3 DEF Followed
    <3>2. n = Len(x)
      BY <1>1, <1>2, <1>7, <2>1, <3>1, StopsAreNoNumbers, NumbersRead
    <3>3. WordAt(w, n + 1) # "distribution"
      BY <3>1, <3>2, FlagWords
    <3>4. QED
      BY <1>7, <1>9, <2>2, <2>3, <3>2, <3>3
  <2>4. CASE Len(y) = 2
    <3>1. WordAt(w, Len(x) + 1) = "distribution" /\ WordAt(w, Len(x) + 2) \in atomDist
      <4>1. Len(x) + 1 \in 1..Len(v) /\ Len(x) + 2 \in 1..Len(v)
        BY <1>7, <1>9, <2>4
      <4>2. WordAt(w, Len(x) + 1) = v[Len(x) + 1] /\ WordAt(w, Len(x) + 2) = v[Len(x) + 2]
        BY <1>10, <4>1 DEF Followed
      <4>3. QED
        BY <1>8, <1>9, <2>4, <4>2
    <3>2. "distribution" \notin Numeral
      BY DEF Numeral
    <3>3. n = Len(x)
      BY <1>1, <1>2, <1>7, <2>1, <3>1, <3>2, NumbersRead
    <3>4. CASE Len(x) > 1
      BY <1>7, <1>9, <2>2, <2>4, <3>1, <3>3, <3>4
    <3>5. CASE Len(x) = 1
      <4>1. x \in One(atomTime)
        BY <1>5, <1>6, <3>5
      <4>2. PICK a \in Word("distribution"), b \in One(atomDist) : y = a \o b
        <5>1. y \in Word("distribution") ** One(atomDist)
          BY <1>8, <2>4 DEF Suffix
        <5>2. QED
          BY <5>1, Apart
      <4>3. a \in Seq(Words) /\ b \in Seq(Words)
        BY OneFits, Atoms DEF Word
      <4>4. v = (x \o a) \o b
        BY <1>6, <1>7, <4>2, <4>3, Assoc
      <4>5. v \in NoJitter
        BY <4>1, <4>2, <4>4, Together DEF NoJitter
      <4>6. QED
        BY <2>2, <3>1, <3>3, <3>5, <4>5
    <3>6. QED
      BY <1>7, <3>4, <3>5
  <2>5. QED
    BY <1>8, <2>3, <2>4
<1>11. Len(v) > 0
  BY <1>7, <1>8, <1>9
<1>12. QED
  BY <1>9, <1>10, <1>11

\* tc takes every slot that netemSlotRe accepts.
LEMMA SlotTaken ==
  ASSUME NEW v \in netemSlotRe
  PROVE  Takes("slot", v)
<1> DEFINE kinds   == <<atomTime, atomTime>>
           Span    == Times(atomTime, 2)
           Drawn   == Word("distribution") ** One(atomDist) ** [1..2 -> atomTime]
           Packets == Opt(Word("packets") ** One(atomNum))
           Bytes   == Opt(Word("bytes") ** One(atomNum))
<1>1. PICK x \in Span \cup Drawn, p \in Packets, b \in Bytes : v = (x \o p) \o b
  <2> HIDE DEF Span, Drawn, Packets, Bytes
  <2>1. netemSlotRe = ((Span \cup Drawn) ** Packets) ** Bytes
    BY DEF netemSlotRe, Span, Drawn, Packets, Bytes
  <2>2. PICK u \in (Span \cup Drawn) ** Packets, b \in Bytes : v = u \o b
    BY <2>1, Apart
  <2>3. PICK x \in Span \cup Drawn, p \in Packets : u = x \o p
    BY Apart
  <2>4. QED
    BY <2>2, <2>3
<1>2. /\ p \in Seq(Words) /\ Len(p) \in {0, 2}
      /\ Len(p) = 2 => p[1] = "packets" /\ p[2] \in atomNum
      /\ b \in Seq(Words) /\ Len(b) \in {0, 2}
      /\ Len(b) = 2 => b[1] = "bytes" /\ b[2] \in atomNum
  BY <1>1, Option, Atoms
<1>3. Len(kinds) = 2 /\ kinds[1] = atomTime /\ kinds[2] = atomTime
  OBVIOUS
<1>4. \A i \in 1..Len(kinds) : kinds[i] \subseteq Numeral
  BY <1>3 DEF atomTime, Numeral
<1> HIDE DEF kinds
<1>5. ASSUME x \in Span PROVE Fits(x, kinds, 0) /\ x[1] = "time"
  <2>1. \A i \in 1..2 : kinds[i] = atomTime
    BY <1>3
  <2>2. Fits(x, kinds, 0)
    BY <1>3, <1>5, <2>1, TimesFits, Atoms
  <2>3. QED
    BY <1>3, <2>2 DEF Fits, atomTime
<1>6. ASSUME x \in Drawn
      PROVE  /\ x \in Seq(Words) /\ Len(x) = 4 /\ x[1] = "distribution" /\ x[2] \in atomDist
             /\ x[3] \in atomTime /\ x[4] \in atomTime
  <2>1. PICK u \in Word("distribution") ** One(atomDist), t \in [1..2 -> atomTime] : x = u \o t
    BY <1>6, Apart
  <2>2. u \in Seq(Words) /\ Len(u) = 2 /\ u[1] = "distribution" /\ u[2] \in atomDist
    <3> HIDE DEF Span, Drawn, Packets, Bytes
    <3>1. u \in Opt(Word("distribution") ** One(atomDist)) /\ u # <<>>
      <4>1. PICK y \in One(atomDist) : u = <<"distribution">> \o y
        BY AfterWord
      <4>2. y \in Seq(Words) /\ Len(y) = 1
        BY OneFits, Atoms
      <4>3. <<"distribution">> \in Seq(Words) /\ Len(<<"distribution">>) = 1
        BY Atoms
      <4>4. u \in Seq(Words) /\ Len(u) = 2
        BY <4>1, <4>2, <4>3, Concat
      <4>5. Len(u) = 0 \/ u # <<>>
        BY <4>4, EmptySeq
      <4>6. u # <<>>
        BY <4>4, <4>5
      <4>7. u \in Opt(Word("distribution") ** One(atomDist))
        BY Zenon DEF Opt
      <4>8. QED
        BY <4>6, <4>7
    <3>2. QED
      BY <3>1, Option, Atoms
  <2>3. t \in Seq(Words) /\ Len(t) = 2 /\ t[1] \in atomTime /\ t[2] \in atomTime
    <3>1. t \in [1..2 -> Words]
      BY <2>1, Atoms
    <3>2. t[1] \in atomTime /\ t[2] \in atomTime
      BY <2>1
    <3>3. t \in Seq(Words) /\ Len(t) = 2
      BY <3>1, FunctionIsSeq
    <3>4. QED
      BY <3>2, <3>3
  <2>4. /\ x \in Seq(Words) /\ Len(x) = 2 + 2 /\ x[1] = u[1] /\ x[2] = u[2]
        /\ x[2 + 1] = t[1] /\ x[2 + 2] = t[2]
    <3>1. /\ u \o t \in Seq(Words) /\ Len(u \o t) = Len(u) + Len(t)
          /\ \A i \in 1..Len(u) : (u \o t)[i] = u[i]
          /\ \A i \in 1..Len(t) : (u \o t)[Len(u) + i] = t[i]
      BY <2>2, <2>3, Concat
    <3>2. QED
      BY <2>1, <2>2, <2>3, <3>1
  <2>5. QED
    BY <2>2, <2>3, <2>4
<1>7. x \in Seq(Words) /\ Len(x) \in 1..4
  BY <1>1, <1>3, <1>5, <1>6 DEF Fits
<1>8. /\ v \in Seq(Words) /\ Len(v) = Len(x) + Len(p) + Len(b)
      /\ \A i \in 1..Len(x) : v[i] = x[i]
      /\ \A i \in 1..Len(p) : v[Len(x) + i] = p[i]
      /\ \A i \in 1..Len(b) : v[Len(x) + Len(p) + i] = b[i]
  <2>1. /\ x \o p \in Seq(Words) /\ Len(x \o p) = Len(x) + Len(p)
        /\ \A i \in 1..Len(x) : (x \o p)[i] = x[i]
        /\ \A i \in 1..Len(p) : (x \o p)[Len(x) + i] = p[i]
    BY <1>2, <1>7, Concat
  <2>2. /\ v \in Seq(Words) /\ Len(v) = Len(x \o p) + Len(b)
        /\ \A i \in 1..Len(x \o p) : v[i] = (x \o p)[i]
        /\ \A i \in 1..Len(b) : v[Len(x \o p) + i] = b[i]
    BY <1>1, <1>2, <2>1, Concat
  <2>3. \A i \in 1..Len(p) : Len(x) + i \in 1..Len(x \o p)
    BY <1>2, <1>7, <2>1
  <2>4. \A i \in 1..Len(x) : i \in 1..Len(x \o p)
    BY <1>2, <1>7, <2>1
  <2>5. ASSUME NEW i \in 1..Len(b) PROVE v[Len(x) + Len(p) + i] = b[i]
    BY <2>1, <2>2
  <2>6. QED
    BY <2>1, <2>2, <2>3, <2>4, <2>5
<1>9. ASSUME NEW w, Followed(w, v) PROVE TcTakes("slot", w) = Len(v)
  <2> DEFINE first  == IF WordAt(w, 1) # "distribution" THEN TcNumbers(w, kinds, Numeral)
                       ELSE IF /\ WordAt(w, 2) \in atomDist
                               /\ {WordAt(w, 3), WordAt(w, 4)} \subseteq atomTime THEN 4 ELSE 0
             Has(i, t) == WordAt(w, i) = t /\ WordAt(w, i + 1) \in atomNum
             second == IF Has(first + 1, "packets") THEN first + 2 ELSE first
  <2>1. TcTakes("slot", w) = IF first = 0 THEN 0
                             ELSE IF Has(second + 1, "bytes") THEN second + 2 ELSE second
    BY DEF TcTakes, TcSlot, kinds
  <2>2. /\ \A i \in 1..Len(x) : WordAt(w, i) = x[i]
        /\ \A i \in 1..Len(p) : WordAt(w, Len(x) + i) = p[i]
        /\ \A i \in 1..Len(b) : WordAt(w, Len(x) + Len(p) + i) = b[i]
        /\ WordAt(w, Len(x) + Len(p) + Len(b) + 1) \in Stops
    <3>1. \A i \in 1..Len(v) : WordAt(w, i) = v[i]
      BY <1>9 DEF Followed
    <3>2. WordAt(w, Len(v) + 1) \in Stops
      BY <1>9 DEF Followed
    <3>3. \A i \in 1..Len(x) : i \in 1..Len(v)
      BY <1>2, <1>7, <1>8
    <3>4. \A i \in 1..Len(p) : Len(x) + i \in 1..Len(v)
      BY <1>2, <1>7, <1>8
    <3>5. \A i \in 1..Len(b) : Len(x) + Len(p) + i \in 1..Len(v)
      BY <1>2, <1>7, <1>8
    <3>6. QED
      BY <1>8, <3>1, <3>2, <3>3, <3>4, <3>5
  <2>3. /\ Len(b) = 2 => Has(Len(x) + Len(p) + 1, "bytes")
        /\ Len(b) = 0 => WordAt(w, Len(x) + Len(p) + 1) \in Stops
    BY <1>2, <1>7, <2>2
  <2>4. /\ Len(p) = 2 => Has(Len(x) + 1, "packets")
        /\ Len(p) = 0 => WordAt(w, Len(x) + 1) \in Stops \cup {"bytes"}
    BY <1>2, <1>7, <2>2, <2>3
  <2>5. first = Len(x)
    <3>1. CASE x \in Span
      <4>1. WordAt(w, Len(x) + 1) \in Stops \cup {"bytes", "packets"}
        BY <1>2, <2>4
      <4>2. WordAt(w, Len(x) + 1) \notin Numeral
        BY <4>1, StopsAreNoNumbers DEF Numeral
      <4>3. TcNumbers(w, kinds, Numeral) = Len(x)
        BY <1>3, <1>4, <1>5, <2>2, <3>1, <4>2, NumbersRead
      <4>4. WordAt(w, 1) = "time"
        BY <1>5, <1>7, <2>2, <3>1
      <4>5. QED
        BY <4>3, <4>4
    <3>2. CASE x \in Drawn
      <4>1. /\ WordAt(w, 1) = "distribution" /\ WordAt(w, 2) \in atomDist
            /\ WordAt(w, 3) \in atomTime /\ WordAt(w, 4) \in atomTime
        <5>1. \A i \in 1..4 : WordAt(w, i) = x[i]
          BY <1>6, <2>2, <3>2
        <5>2. QED
          BY <1>6, <3>2, <5>1
      <4>2. QED
        BY <1>6, <3>2, <4>1
    <3>3. QED
      BY <1>1, <3>1, <3>2
  <2> HIDE DEF first
  <2>6. second = Len(x) + Len(p)
    <3>1. CASE Len(p) = 2
      BY <1>7, <2>4, <2>5, <3>1
    <3>2. CASE Len(p) = 0
      <4>1. ~Has(first + 1, "packets")
        BY <2>4, <2>5, <3>2, FlagWords
      <4>2. QED
        BY <1>7, <2>5, <3>2, <4>1
    <3>3. QED
      BY <1>2, <3>1, <3>2
  <2> HIDE DEF second
  <2>7. Has(second + 1, "bytes") <=> Len(b) = 2
    BY <1>2, <1>7, <2>3, <2>6, FlagWords
  <2>8. QED
    <3>1. TcTakes("slot", w) = IF Has(second + 1, "bytes") THEN second + 2 ELSE second
      BY <1>7, <2>1, <2>5
    <3>2. CASE Len(b) = 2
      BY <1>2, <1>7, <1>8, <2>6, <2>7, <3>1, <3>2
    <3>3. CASE Len(b) = 0
      <4>1. ~Has(second + 1, "bytes")
        BY <2>7, <3>3
      <4> HIDE DEF Has
      <4>2. TcTakes("slot", w) = second
        BY <3>1, <4>1
      <4>3. QED
        BY <1>2, <1>7, <1>8, <2>6, <3>3, <4>2
    <3>4. QED
      BY <1>2, <3>2, <3>3
<1>10. QED
  BY <1>2, <1>7, <1>8, <1>9 DEF Takes

-----------------------------------------------------------------------------
(* The command line, from the flags to tc.                                 *)

\* A flag of netem apply with its value, as it stands in the command line, and the
\* line from the i-th flag on.
Piece(key) == IF given[key] = <<>> THEN <<>> ELSE <<key>> \o given[key]

Lines ==
  LET e == Piece("slot") \o <<>>
      d == Piece("rate") \o e
      c == Piece("limit") \o d
      b == Piece("loss") \o c
      a == Piece("delay") \o b
  IN  <<a, b, c, d, e, <<>>>>

\* What the i-th flag was given, and what tc has read for it.
Given(i) == given[Flags[i]]
Heard(i) == heard[Flags[i]]

\* What a flag was given is what its validator accepts.
ValuesInv ==
  /\ given \in [Keys -> Seq(Words)] /\ heard \in [Keys -> Seq(Words)]
  /\ at \in 1..6
  /\ \A i \in 1..5 : Given(i) = <<>> \/ Given(i) \in Validates(Flags[i])

\* Until tc reads, the line has what the flags have been given.
BuildInv ==
  /\ pc \in {"idle", "flags", "child"} => heard = NoValues /\ args = Lines[1]
  /\ pc \in {"idle", "flags"} => \A i \in at..5 : Given(i) = <<>>
  /\ pc \in {"idle", "flags", "child", "root"} => tree = "none"
  /\ pc = "second" => tree # "none"

\* tc has read the flags before the i-th.
ReadTo(i) ==
  /\ args = Lines[i]
  /\ \A j \in 1..5 : Heard(j) = IF j < i THEN Given(j) ELSE <<>>

ReadInv == pc = "root" => \E i \in 1..6 : ReadTo(i)

\* The inductive invariant.
IInv == ValuesInv /\ BuildInv /\ ReadInv /\ KnobsReadBack

\* The flags are different words, and each ends the value before it.
LEMMA FlagFacts ==
  /\ Len(Flags) = 5 /\ DOMAIN Flags = 1..5
  /\ Flags[1] = "delay" /\ Flags[2] = "loss" /\ Flags[3] = "limit"
  /\ Flags[4] = "rate" /\ Flags[5] = "slot"
  /\ \A i \in 1..5 : /\ Flags[i] \in Keys /\ Flags[i] \in Stops
                    /\ Flags[i] \in Words /\ Flags[i] # "cake-bandwidth"
  /\ \A i, j \in 1..5 : Flags[i] = Flags[j] => i = j
<1>1. /\ Len(Flags) = 5 /\ DOMAIN Flags = 1..5
      /\ Flags[1] = "delay" /\ Flags[2] = "loss" /\ Flags[3] = "limit"
      /\ Flags[4] = "rate" /\ Flags[5] = "slot"
  BY DEF Flags
<1>2. \A i \in 1..5 : i \in {1, 2, 3, 4, 5}
  OBVIOUS
<1>3. \A i \in 1..5 : Flags[i] \in Keys /\ Flags[i] \in Stops /\ Flags[i] # "cake-bandwidth"
  BY <1>1, <1>2 DEF Keys, Stops
<1>4. \A i, j \in 1..5 : Flags[i] = Flags[j] => i = j
  BY <1>1, <1>2
<1>5. QED
  BY <1>1, <1>3, <1>4, Atoms

\* What tc makes of each flag's value.
LEMMA FlagTaken ==
  ASSUME NEW i \in 1..5, NEW v \in Validates(Flags[i])
  PROVE  /\ v \in Seq(Words) /\ v # <<>>
         /\ \A w : Followed(w, v) => \/ TcTakes(Flags[i], w) = Len(v)
                                     \/ i = 1 /\ TcTakes(Flags[i], w) = 0 /\ v \in NoJitter
<1>1. v \in Seq(Words) /\ Len(v) > 0 => v # <<>>
  BY EmptySeq
<1>2. CASE i = 1
  <2>1. v \in netemDelayRe /\ Flags[i] = "delay"
    BY <1>2, FlagFacts DEF Validates
  <2>2. QED
    BY <1>1, <1>2, <2>1, DelayTaken
<1>3. CASE i = 2
  <2>1. v \in netemLossRe /\ Flags[i] = "loss"
    BY <1>3, FlagFacts DEF Validates
  <2>2. QED
    BY <1>1, <2>1, LossTaken DEF Takes
<1>4. CASE i = 3
  <2>1. v \in netemLimitRe /\ Flags[i] = "limit"
    BY <1>4, FlagFacts DEF Validates
  <2>2. QED
    BY <1>1, <2>1, LimitTaken DEF Takes
<1>5. CASE i = 4
  <2>1. v \in netemRateRe /\ Flags[i] = "rate"
    BY <1>5, FlagFacts DEF Validates
  <2>2. QED
    BY <1>1, <2>1, RateTaken DEF Takes
<1>6. CASE i = 5
  <2>1. v \in netemSlotRe /\ Flags[i] = "slot"
    BY <1>6, FlagFacts DEF Validates
  <2>2. QED
    BY <1>1, <2>1, SlotTaken DEF Takes
<1>7. QED
  BY <1>2, <1>3, <1>4, <1>5, <1>6

\* The line from a flag on is the piece of the flag and the line from the next flag on.
LEMMA LinesFacts ==
  /\ Lines[6] = <<>>
  /\ \A i \in 1..5 : Lines[i] = Piece(Flags[i]) \o Lines[i + 1]
<1>1. \A i \in 1..5 : i \in {1, 2, 3, 4, 5}
  OBVIOUS
<1>2. Lines[6] = <<>>
  BY DEF Lines
<1>3. Lines[5] = Piece("slot") \o Lines[6]
  BY DEF Lines
<1>4. Lines[4] = Piece("rate") \o Lines[5]
  BY DEF Lines
<1>5. Lines[3] = Piece("limit") \o Lines[4]
  BY DEF Lines
<1>6. Lines[2] = Piece("loss") \o Lines[3]
  BY DEF Lines
<1>7. Lines[1] = Piece("delay") \o Lines[2]
  BY DEF Lines
<1>8. 1 + 1 = 2 /\ 2 + 1 = 3 /\ 3 + 1 = 4 /\ 4 + 1 = 5 /\ 5 + 1 = 6
  OBVIOUS
<1>9. QED
  BY <1>1, <1>2, <1>3, <1>4, <1>5, <1>6, <1>7, <1>8, FlagFacts

\* The piece of a flag is nothing, or its keyword and its value.
LEMMA PieceFacts ==
  ASSUME ValuesInv, NEW i \in 1..5
  PROVE  /\ Given(i) \in Seq(Words) /\ Piece(Flags[i]) \in Seq(Words)
         /\ Given(i) = <<>> => Piece(Flags[i]) = <<>>
         /\ Given(i) # <<>> => Piece(Flags[i]) = <<Flags[i]>> \o Given(i)
<1>1. Given(i) \in Seq(Words)
  BY FlagFacts DEF ValuesInv, Given
<1>2. <<>> \in Seq(Words) /\ <<Flags[i]>> \in Seq(Words)
  BY FlagFacts
<1>3. <<Flags[i]>> \o Given(i) \in Seq(Words)
  BY <1>1, <1>2, Concat
<1>4. QED
  BY <1>1, <1>2, <1>3 DEF Piece, Given

\* Wherever tc is in the line, the next word is a keyword, or there is none.
LEMMA LinesBegin ==
  ASSUME ValuesInv
  PROVE  \A i \in 1..6 : Lines[i] \in Seq(Words) /\ WordAt(Lines[i], 1) \in Stops
<1> DEFINE P(i) == Lines[i] \in Seq(Words) /\ WordAt(Lines[i], 1) \in Stops
<1>1. P(6)
  <2>1. <<>> \in Seq(Words) /\ WordAt(<<>>, 1) = "end"
    BY DEF WordAt
  <2>2. QED
    BY <2>1, LinesFacts, FlagWords
<1>2. ASSUME NEW i \in 1..5, P(i + 1) PROVE P(i)
  <2>1. CASE Given(i) = <<>>
    <3>1. Lines[i] = Lines[i + 1]
      BY <1>2, <2>1, LinesFacts, PieceFacts, ConcatEmptySeq
    <3>2. QED
      BY <1>2, <3>1
  <2>2. CASE Given(i) # <<>>
    <3> DEFINE k == <<Flags[i]>>
    <3>1. k \in Seq(Words) /\ Len(k) = 1 /\ k[1] = Flags[i]
      BY FlagFacts
    <3>2. Lines[i] = (k \o Given(i)) \o Lines[i + 1]
      BY <2>2, LinesFacts, PieceFacts
    <3>3. /\ k \o Given(i) \in Seq(Words) /\ Len(k \o Given(i)) = 1 + Len(Given(i))
          /\ (k \o Given(i))[1] = Flags[i]
      BY <3>1, PieceFacts, Concat
    <3>4. Len(Given(i)) \in Nat
      BY PieceFacts, LenProperties
    <3> HIDE DEF k
    <3>5. /\ Lines[i] \in Seq(Words) /\ Len(Lines[i]) = Len(k \o Given(i)) + Len(Lines[i + 1])
          /\ \A n \in 1..Len(k \o Given(i)) : Lines[i][n] = (k \o Given(i))[n]
      <4> DEFINE x == k \o Given(i)
                 y == Lines[i + 1]
      <4>1. x \in Seq(Words) /\ y \in Seq(Words)
        BY <1>2, <3>3
      <4>2. Lines[i] = x \o y
        BY <3>2
      <4> HIDE DEF x, y
      <4>3. /\ Lines[i] \in Seq(Words) /\ Len(Lines[i]) = Len(x) + Len(y)
            /\ \A n \in 1..Len(x) : Lines[i][n] = x[n]
        BY <4>1, <4>2, Concat
      <4>4. QED
        BY <4>3 DEF x, y
    <3>6. Lines[i][1] = Flags[i] /\ 1 \in DOMAIN Lines[i]
      <4>1. Len(Lines[i + 1]) \in Nat /\ DOMAIN Lines[i] = 1..Len(Lines[i])
        BY <1>2, <3>5, LenProperties
      <4>2. 1 \in 1..Len(k \o Given(i))
        BY <3>3, <3>4
      <4>3. Len(Lines[i]) = (1 + Len(Given(i))) + Len(Lines[i + 1])
        BY <3>3, <3>5
      <4>4. 1 \in 1..Len(Lines[i])
        <5>1. ASSUME NEW g \in Nat, NEW l \in Nat, NEW n, n = (1 + g) + l PROVE 1 \in 1..n
          BY <5>1
        <5>2. QED
          BY <3>4, <4>1, <4>3, <5>1
      <4>5. QED
        BY <3>3, <3>5, <4>1, <4>2, <4>4
    <3>7. QED
      BY <3>5, <3>6, FlagFacts DEF WordAt
  <2>3. QED
    BY <2>1, <2>2
<1> HIDE DEF P
<1>3. P(5)
  BY <1>1, <1>2
<1>4. P(4)
  BY <1>2, <1>3
<1>5. P(3)
  BY <1>2, <1>4
<1>6. P(2)
  BY <1>2, <1>5
<1>7. P(1)
  BY <1>2, <1>6
<1>8. \A i \in 1..6 : P(i)
  <2>1. \A i \in 1..6 : i \in {1, 2, 3, 4, 5, 6}
    OBVIOUS
  <2>2. QED
    BY <1>1, <1>3, <1>4, <1>5, <1>6, <1>7, <2>1
<1>9. QED
  BY <1>8 DEF P

\* A keyword, a value and what follows, taken apart as tc does it.
LEMMA Split ==
  ASSUME NEW k \in Words, NEW v \in Seq(Words), NEW s \in Seq(Words), NEW line, line = (<<k>> \o v) \o s
  PROVE  /\ line # <<>> /\ Head(line) = k /\ Tail(line) = v \o s
         /\ SubSeq(line, 2, Len(v) + 1) = v /\ SubSeq(line, Len(v) + 2, Len(line)) = s
<1>1. <<k>> \in Seq(Words) /\ Len(<<k>>) = 1 /\ <<k>>[1] = k
  OBVIOUS
<1>2. Len(v) \in Nat /\ Len(s) \in Nat
  BY LenProperties
<1>3. /\ <<k>> \o v \in Seq(Words) /\ Len(<<k>> \o v) = 1 + Len(v)
      /\ (<<k>> \o v)[1] = k /\ \A i \in 1..Len(v) : (<<k>> \o v)[1 + i] = v[i]
  BY <1>1, Concat
<1>4. /\ line \in Seq(Words) /\ Len(line) = 1 + Len(v) + Len(s)
      /\ line[1] = k /\ \A i \in 1..Len(v) : line[1 + i] = v[i]
      /\ \A i \in 1..Len(s) : line[1 + Len(v) + i] = s[i]
  <2>1. /\ line \in Seq(Words) /\ Len(line) = Len(<<k>> \o v) + Len(s)
        /\ \A i \in 1..Len(<<k>> \o v) : line[i] = (<<k>> \o v)[i]
        /\ \A i \in 1..Len(s) : line[Len(<<k>> \o v) + i] = s[i]
    BY <1>3, Concat
  <2>2. 1 \in 1..Len(<<k>> \o v) /\ \A i \in 1..Len(v) : 1 + i \in 1..Len(<<k>> \o v)
    BY <1>2, <1>3
  <2>3. line[1] = k /\ \A i \in 1..Len(v) : line[1 + i] = v[i]
    BY <1>3, <2>1, <2>2
  <2>4. \A i \in 1..Len(s) : line[1 + Len(v) + i] = s[i]
    BY <1>3, <2>1
  <2>5. QED
    BY <1>3, <2>1, <2>3, <2>4
<1>5. line # <<>>
  BY <1>2, <1>4
<1>6. Head(line) = k
  BY <1>4, <1>5
<1>7. Tail(line) = v \o s
  <2>1. line = <<k>> \o (v \o s)
    BY <1>1, ConcatAssociative
  <2>2. v \o s \in Seq(Words)
    BY Concat
  <2>3. /\ Tail(line) \in Seq(Words) /\ Len(Tail(line)) = Len(v \o s)
        /\ \A i \in 1..Len(Tail(line)) : Tail(line)[i] = line[i + 1]
    BY <1>2, <1>4, <1>5, HeadTailProperties, Concat
  <2>4. \A i \in 1..Len(v \o s) : line[1 + i] = (v \o s)[i]
    BY <1>1, <2>1, <2>2, Concat
  <2>5. Len(v \o s) \in Nat
    BY <2>2, LenProperties
  <2>6. \A i \in 1..Len(Tail(line)) : Tail(line)[i] = (v \o s)[i]
    BY <2>3, <2>4, <2>5
  <2>7. QED
    BY <2>2, <2>3, <2>6, SeqEqual
<1>8. SubSeq(line, 2, Len(v) + 1) = v
  <2> DEFINE t == SubSeq(line, 2, Len(v) + 1)
  <2>1. \A i \in 2..(Len(v) + 1) : line[i] \in Words
    BY <1>2, <1>4, ElementOfSeq
  <2>2. /\ t \in Seq(Words) /\ Len(t) = IF 2 <= Len(v) + 1 THEN (Len(v) + 1) - 2 + 1 ELSE 0
        /\ \A i \in 1..((Len(v) + 1) - 2 + 1) : t[i] = line[2 + i - 1]
    BY <1>2, <2>1, SubSeqProperties
  <2> HIDE DEF t
  <2>3. Len(t) = Len(v)
    BY <1>2, <2>2
  <2>4. \A i \in 1..Len(t) : t[i] = v[i]
    <3>1. ASSUME NEW i \in 1..Len(t) PROVE t[i] = v[i]
      <4>1. 2 + i - 1 = 1 + i /\ i \in 1..((Len(v) + 1) - 2 + 1) /\ i \in 1..Len(v)
        BY <1>2, <2>3
      <4>2. QED
        BY <1>4, <2>2, <4>1
    <3>2. QED
      BY <3>1
  <2>5. t = v
    BY <2>2, <2>3, <2>4, SeqEqual
  <2>6. QED
    BY <2>5 DEF t
<1>9. SubSeq(line, Len(v) + 2, Len(line)) = s
  <2> DEFINE b == 1 + Len(v) + Len(s)
             t == SubSeq(line, Len(v) + 2, b)
  <2>1. \A i \in (Len(v) + 2)..b : line[i] \in Words
    BY <1>2, <1>4, ElementOfSeq
  <2>2. /\ t \in Seq(Words) /\ Len(t) = IF Len(v) + 2 <= b THEN b - (Len(v) + 2) + 1 ELSE 0
        /\ \A i \in 1..(b - (Len(v) + 2) + 1) : t[i] = line[Len(v) + 2 + i - 1]
    BY <1>2, <2>1, SubSeqProperties
  <2> HIDE DEF t
  <2>3. Len(t) = Len(s)
    BY <1>2, <2>2
  <2>4. ASSUME NEW i \in 1..Len(t) PROVE t[i] = s[i]
    <3>1. /\ Len(v) + 2 + i - 1 = 1 + Len(v) + i
          /\ i \in 1..(b - (Len(v) + 2) + 1) /\ i \in 1..Len(s)
      BY <1>2, <2>3
    <3>2. QED
      BY <1>4, <2>2, <3>1
  <2>5. t = s
    BY <2>2, <2>3, <2>4, SeqEqual
  <2>6. QED
    BY <1>4, <2>5 DEF t
<1>10. QED
  BY <1>5, <1>6, <1>7, <1>8, <1>9

\* Nothing is nothing and nothing.
LEMMA ConcatEmpty ==
  ASSUME NEW x \in Seq(Words), NEW y \in Seq(Words), x \o y = <<>>
  PROVE  x = <<>> /\ y = <<>>
BY ConcatEqualIffEmpty

\* The lines are lines.
LEMMA LinesType == ValuesInv => Lines \in [1..6 -> Seq(Words)]
<1> SUFFICES ASSUME ValuesInv PROVE Lines \in [1..6 -> Seq(Words)]
  OBVIOUS
<1>1. \A i \in 1..6 : Lines[i] \in Seq(Words)
  BY LinesBegin
<1>2. Lines = [i \in 1..6 |-> Lines[i]]
  BY DEF Lines
<1>3. QED
  BY <1>1, <1>2

\* The order of two flags.
LEMMA OneAfter ==
  ASSUME NEW i \in 1..5, NEW k \in 1..5
  PROVE  /\ i = k => i + 1 > k /\ i >= k
         /\ i > k => i + 1 > k /\ i >= k
         /\ i < k => i + 1 <= k
         /\ i + 1 > k => i + 1 >= k
         /\ i > k \/ i = k \/ i < k
         /\ i >= k <=> i > k \/ i = k
         /\ i <= k <=> i < k \/ i = k
         /\ ~(i > k /\ i = k)
OBVIOUS

\* A line, from each flag on, made of pieces; and pieces that have one more, after the others.
Joins(L, P) == L[6] = <<>> /\ \A i \in 1..5 : L[i] = P[i] \o L[i + 1]

Adds(P, Q, k) ==
  /\ \A i \in 1..5 : i < k => Q[i] = P[i]
  /\ \A i \in 1..5 : i >= k => P[i] = <<>>
  /\ \A i \in 1..5 : i > k => Q[i] = <<>>

\* A line to which a flag is added after those that are in it already.
LEMMA Appended ==
  ASSUME NEW P \in [1..5 -> Seq(Words)], NEW Q \in [1..5 -> Seq(Words)],
         NEW L \in [1..6 -> Seq(Words)], NEW M \in [1..6 -> Seq(Words)],
         NEW k \in 1..5, Joins(L, P), Joins(M, Q), Adds(P, Q, k)
  PROVE  M[1] = L[1] \o Q[k]
<1> USE DEF Joins, Adds
<1> DEFINE A(i) == /\ L[i] \in Seq(Words)
                   /\ i > k => M[i] = <<>>
                   /\ i >= k => L[i] = <<>>
                   /\ i <= k => M[i] = L[i] \o Q[k]
<1>1. <<>> \in Seq(Words) /\ \A s \in Seq(Words) : s \o <<>> = s /\ <<>> \o s = s
  BY ConcatEmptySeq
<1>2. A(6)
  BY <1>1
<1>3. ASSUME NEW i \in 1..5, A(i + 1) PROVE A(i)
  <2> DEFINE p == P[i]
             q == Q[i]
             r == Q[k]
             l == L[i + 1]
             m == M[i + 1]
  <2>1. p \in Seq(Words) /\ q \in Seq(Words) /\ r \in Seq(Words)
    OBVIOUS
  <2>2. l \in Seq(Words)
    BY <1>3
  <2>3. L[i] = p \o l
    OBVIOUS
  <2>4. M[i] = q \o m
    OBVIOUS
  <2>5. /\ i > k => p = <<>> /\ q = <<>> /\ l = <<>> /\ m = <<>>
        /\ i = k => p = <<>> /\ q = r /\ l = <<>> /\ m = <<>>
        /\ i < k => p = q /\ m = l \o r
    <3>1. i >= k => p = <<>>
      OBVIOUS
    <3>2. i > k => q = <<>>
      OBVIOUS
    <3>3. i < k => q = p
      OBVIOUS
    <3>4. (i + 1 > k => m = <<>>) /\ (i + 1 >= k => l = <<>>) /\ (i + 1 <= k => m = l \o r)
      BY <1>3
    <3> HIDE DEF p, q, r, l, m
    <3>5. (i = k => i + 1 > k /\ i >= k) /\ (i > k => i + 1 > k /\ i >= k) /\ (i < k => i + 1 <= k)
          /\ (i + 1 > k => i + 1 >= k)
      BY OneAfter
    <3>6. i = k => q = r
      BY DEF q, r
    <3>7. QED
      BY <3>1, <3>2, <3>3, <3>4, <3>5, <3>6
  <2> HIDE DEF p, q, r, l, m
  <2>6. p \o l \in Seq(Words)
    BY <2>1, <2>2, Concat
  <2>7. i > k => q \o m = <<>> /\ p \o l = <<>>
    BY <1>1, <2>5
  <2>8. i = k => q \o m = (p \o l) \o r /\ p \o l = <<>>
    BY <1>1, <2>1, <2>5
  <2>9. i < k => q \o m = (p \o l) \o r
    <3>1. (p \o l) \o r = p \o (l \o r)
      BY <2>1, <2>2, Assoc
    <3>2. QED
      BY <2>5, <3>1
  <2>10. i > k \/ i = k \/ i < k
    BY OneAfter
  <2>11. (i >= k <=> i > k \/ i = k) /\ (i <= k <=> i < k \/ i = k) /\ ~(i > k /\ i = k)
    BY OneAfter
  <2>12. QED
    BY <2>3, <2>4, <2>6, <2>7, <2>8, <2>9, <2>10, <2>11 DEF r
<1>10. 5 + 1 = 6 /\ 4 + 1 = 5 /\ 3 + 1 = 4 /\ 2 + 1 = 3 /\ 1 + 1 = 2 /\ 1 <= k
  OBVIOUS
<1> HIDE DEF A
<1>4. A(5)
  BY <1>2, <1>3, <1>10
<1>5. A(4)
  BY <1>3, <1>4, <1>10
<1>6. A(3)
  BY <1>3, <1>5, <1>10
<1>7. A(2)
  BY <1>3, <1>6, <1>10
<1>8. A(1)
  BY <1>3, <1>7, <1>10
<1>9. QED
  BY <1>8, <1>10 DEF A

\* tc takes the value of the next flag that was given, as it was given, and no word more;
\* or it gives up, on a distribution without a jitter.
LEMMA ReadsNext ==
  ASSUME ValuesInv, ReadInv, TcReads
  PROVE  \E i \in 1..5 :
           /\ ReadTo(i) /\ Given(i) # <<>>
           /\ \/ /\ heard' = [heard EXCEPT ![Flags[i]] = Given(i)]
                 /\ args' = Lines[i + 1] /\ pc' = "root"
              \/ i = 1 /\ Given(1) \in NoJitter /\ pc' = "failed" /\ UNCHANGED <<heard, args>>
<1>1. pc = "root" /\ args # <<>>
  BY DEF TcReads
<1>2. PICK i \in 1..5 : ReadTo(i) /\ Given(i) # <<>>
  <2>1. ~ReadTo(6)
    BY <1>1, LinesFacts DEF ReadTo
  <2>2. ASSUME NEW i \in 1..5, ReadTo(i), Given(i) = <<>> PROVE ReadTo(i + 1)
    <3>1. Lines[i] = Lines[i + 1]
      <4>1. i + 1 \in 1..6
        OBVIOUS
      <4>2. Lines[i + 1] \in Seq(Words)
        BY <4>1, LinesBegin
      <4>3. Piece(Flags[i]) = <<>>
        BY <2>2, PieceFacts
      <4>4. Lines[i] = Piece(Flags[i]) \o Lines[i + 1]
        BY LinesFacts
      <4>5. QED
        BY <4>2, <4>3, <4>4, ConcatEmptySeq
    <3>2. \A j \in 1..5 : Heard(j) = IF j < i + 1 THEN Given(j) ELSE <<>>
      BY <2>2 DEF ReadTo
    <3>3. QED
      BY <2>2, <3>1, <3>2 DEF ReadTo
  <2>3. PICK n \in 1..6 : ReadTo(n)
    BY <1>1 DEF ReadInv
  <2>4. SUFFICES ASSUME \A i \in 1..5 : ReadTo(i) => Given(i) = <<>> PROVE FALSE
    OBVIOUS
  <2>5. \A i \in 1..5 : ReadTo(i) => ReadTo(i + 1)
    BY <2>2, <2>4
  <2> HIDE DEF ReadTo
  <2>6. n \in {1, 2, 3, 4, 5, 6}
    BY <2>3
  <2>7. ~ReadTo(5)
    BY <2>1, <2>5
  <2>8. ~ReadTo(4)
    BY <2>5, <2>7
  <2>9. ~ReadTo(3)
    BY <2>5, <2>8
  <2>10. ~ReadTo(2)
    BY <2>5, <2>9
  <2>11. ~ReadTo(1)
    BY <2>5, <2>10
  <2>12. QED
    BY <2>1, <2>3, <2>6, <2>7, <2>8, <2>9, <2>10, <2>11
<1> DEFINE value == Given(i)
           rest  == Lines[i + 1]
           key   == Flags[i]
<1>3. key \in Words /\ key \in Keys /\ value \in Seq(Words) /\ value \in Validates(key)
  BY <1>2, FlagFacts, PieceFacts DEF ValuesInv
<1>4. rest \in Seq(Words) /\ WordAt(rest, 1) \in Stops
  BY LinesBegin
<1>5. args = (<<key>> \o value) \o rest
  BY <1>2, LinesFacts, PieceFacts DEF ReadTo
<1>6. Len(value) \in Nat /\ Len(value) > 0
  BY <1>2, <1>3, EmptySeq, LenProperties
<1>7. \/ TcTakes(key, value \o rest) = Len(value)
      \/ i = 1 /\ TcTakes(key, value \o rest) = 0 /\ value \in NoJitter
  <2>1. Followed(value \o rest, value)
    BY <1>3, <1>4, Joined
  <2>2. QED
    BY <1>3, <2>1, FlagTaken
<1> HIDE DEF value, rest, key
<1>8. /\ Head(args) = key /\ Tail(args) = value \o rest
      /\ SubSeq(args, 2, Len(value) + 1) = value /\ From(args, Len(value) + 2) = rest
  <2>1. /\ Head(args) = key /\ Tail(args) = value \o rest
        /\ SubSeq(args, 2, Len(value) + 1) = value
        /\ SubSeq(args, Len(value) + 2, Len(args)) = rest
    BY <1>3, <1>4, <1>5, Split
  <2>2. QED
    BY <2>1 DEF From
<1> DEFINE n == TcTakes(key, value \o rest)
<1>9. IF n = 0 THEN pc' = "failed" /\ UNCHANGED <<heard, args>>
      ELSE /\ heard' = [heard EXCEPT ![key] = SubSeq(args, 2, n + 1)]
           /\ args'  = From(args, n + 2)
           /\ UNCHANGED pc
  BY <1>3, <1>8 DEF TcReads
<1>10. CASE n = Len(value)
  <2>1. heard' = [heard EXCEPT ![key] = value] /\ args' = rest /\ pc' = "root"
    <3> HIDE DEF n
    <3>1. n # 0
      BY <1>6, <1>10
    <3>2. SubSeq(args, 2, n + 1) = value /\ From(args, n + 2) = rest
      BY <1>8, <1>10
    <3>3. heard' = [heard EXCEPT ![key] = SubSeq(args, 2, n + 1)] /\ args' = From(args, n + 2)
      BY <1>9, <3>1
    <3>4. pc' = "root"
      BY <1>1, <1>9, <3>1
    <3>5. QED
      BY <3>2, <3>3, <3>4
  <2>2. QED
    BY <1>2, <2>1 DEF value, rest, key
<1>11. CASE i = 1 /\ n = 0 /\ value \in NoJitter
  <2>1. pc' = "failed" /\ UNCHANGED <<heard, args>>
    BY <1>9, <1>11
  <2>2. QED
    BY <1>2, <1>11, <2>1 DEF value
<1>12. QED
  BY <1>7, <1>10, <1>11

\* The values of flags are known words, and no flag is read before its turn.
LEMMA ValuesStep ==
  ASSUME ValuesInv, BuildInv, ReadInv, [Next]_vars
  PROVE  ValuesInv'
<1>1. CASE UNCHANGED <<given, heard, at>>
  BY <1>1 DEF ValuesInv, Given
<1>2. CASE NoFlag
  BY <1>2, FlagFacts DEF NoFlag, ValuesInv, Given
<1>3. CASE Flag
  <2>1. PICK v \in Values : v \in Validates(Flags[at]) /\ given' = [given EXCEPT ![Flags[at]] = v]
    BY <1>3 DEF Flag
  <2>2. at \in 1..5 /\ at' = at + 1 /\ heard' = heard
    BY <1>3, FlagFacts DEF Flag, ValuesInv
  <2>3. v \in Seq(Words)
    BY <2>1, <2>2, FlagTaken
  <2>4. given' \in [Keys -> Seq(Words)]
    BY <2>1, <2>3 DEF ValuesInv
  <2>5. \A i \in 1..5 : Given(i)' = IF i = at THEN v ELSE Given(i)
    BY <2>1, <2>2, FlagFacts DEF ValuesInv, Given
  <2>6. \A i \in 1..5 : Given(i)' = <<>> \/ Given(i)' \in Validates(Flags[i])
    BY <2>1, <2>2, <2>5 DEF ValuesInv
  <2>7. QED
    BY <2>2, <2>4, <2>6 DEF ValuesInv
<1>4. ASSUME NEW v \in netemRateRe, given' = [given EXCEPT !["cake-bandwidth"] = v],
             UNCHANGED <<heard, at>>
      PROVE  ValuesInv'
  <2>1. v \in Seq(Words)
    BY <1>4, RateTaken DEF Takes
  <2>2. given' \in [Keys -> Seq(Words)]
    BY <1>4, <2>1 DEF ValuesInv
  <2>3. \A i \in 1..5 : Given(i)' = Given(i)
    BY <1>4, FlagFacts DEF ValuesInv, Given
  <2>4. QED
    BY <1>4, <2>2, <2>3 DEF ValuesInv
<1>5. CASE Child
  <2>1. UNCHANGED <<heard, at>>
    BY <1>5 DEF Child
  <2>2. Validates("cake-bandwidth") = netemRateRe
    BY DEF Validates
  <2>3. \/ UNCHANGED given
        \/ \E v \in netemRateRe : given' = [given EXCEPT !["cake-bandwidth"] = v]
    BY <1>5, <2>2 DEF Child
  <2>4. QED
    BY <1>1, <1>4, <2>1, <2>3
<1>6. CASE TcReads
  <2>1. UNCHANGED <<given, at>> /\ \A i \in 1..5 : Given(i)' = Given(i)
    BY <1>6 DEF TcReads, Given
  <2>2. heard' \in [Keys -> Seq(Words)]
    <3>1. PICK i \in 1..5 : \/ heard' = [heard EXCEPT ![Flags[i]] = Given(i)]
                            \/ UNCHANGED heard
      BY <1>6, ReadsNext
    <3>2. Given(i) \in Seq(Words)
      BY PieceFacts
    <3>3. QED
      BY <3>1, <3>2 DEF ValuesInv
  <2>3. QED
    BY <2>1, <2>2 DEF ValuesInv
<1>7. QED
  BY <1>1, <1>2, <1>3, <1>5, <1>6 DEF Next, vars, Apply, BadFlag, FlagsRead,
     TcAddsRoot, TcAddsChild, GatewayCreate

\* Where the line is empty, nothing is given.
LEMMA EmptyLine ==
  ASSUME ValuesInv, NEW n \in 1..6, Lines[n] = <<>>
  PROVE  \A j \in 1..5 : j >= n => Given(j) = <<>>
<1>1. ASSUME NEW i \in 1..5, Lines[i] = <<>> PROVE Given(i) = <<>> /\ Lines[i + 1] = <<>>
  <2>1. Piece(Flags[i]) \in Seq(Words) /\ Lines[i + 1] \in Seq(Words)
    <3>1. i + 1 \in 1..6
      OBVIOUS
    <3>2. QED
      BY <3>1, PieceFacts, LinesBegin
  <2>2. Piece(Flags[i]) = <<>> /\ Lines[i + 1] = <<>>
    <3>1. Piece(Flags[i]) \o Lines[i + 1] = <<>>
      BY <1>1, LinesFacts
    <3>2. QED
      BY <2>1, <3>1, ConcatEmpty
  <2>3. Given(i) = <<>>
    <3>1. SUFFICES ASSUME Given(i) # <<>> PROVE FALSE
      OBVIOUS
    <3>2. <<Flags[i]>> \in Seq(Words) /\ Given(i) \in Seq(Words) /\ <<Flags[i]>> # <<>>
      BY FlagFacts, PieceFacts
    <3>3. <<Flags[i]>> \o Given(i) = <<>>
      BY <2>2, <3>1, PieceFacts
    <3>4. QED
      BY <3>2, <3>3, ConcatEmpty
  <2>4. QED
    BY <2>2, <2>3
<1> DEFINE E(i) == i >= n => Lines[i] = <<>>
<1>2. ASSUME NEW i \in 1..5, E(i) PROVE (i >= n => Given(i) = <<>>) /\ E(i + 1)
  <2>1. CASE i >= n
    BY <1>1, <1>2, <2>1
  <2>2. CASE i < n
    <3>1. i + 1 >= n => i + 1 = n
      BY <2>2
    <3>2. QED
      BY <2>2, <3>1
  <2>3. QED
    BY <2>1, <2>2
<1>3. E(1)
  OBVIOUS
<1> HIDE DEF E
<1>4. E(2)
  BY <1>2, <1>3
<1>5. E(3)
  BY <1>2, <1>4
<1>6. E(4)
  BY <1>2, <1>5
<1>7. E(5)
  BY <1>2, <1>6
<1>8. \A j \in 1..5 : j \in {1, 2, 3, 4, 5}
  OBVIOUS
<1>9. QED
  BY <1>2, <1>3, <1>4, <1>5, <1>6, <1>7, <1>8

\* The lines are made of the values alone.
LEMMA SameLines ==
  ASSUME ValuesInv, ValuesInv', \A i \in 1..5 : Given(i)' = Given(i)
  PROVE  Lines' = Lines
<1>1. /\ given'["delay"] = given["delay"] /\ given'["loss"] = given["loss"]
      /\ given'["limit"] = given["limit"] /\ given'["rate"] = given["rate"]
      /\ given'["slot"] = given["slot"]
  BY FlagFacts DEF Given
<1>2. QED
  BY <1>1 DEF Lines, Piece

\* What has been given to the flags is what is in the line, in their order.
LEMMA BuildStep ==
  ASSUME ValuesInv, ValuesInv', BuildInv, ReadInv, [Next]_vars
  PROVE  BuildInv'
<1>1. CASE UNCHANGED vars
  <2>1. Lines' = Lines
    BY <1>1, SameLines DEF vars, Given
  <2>2. QED
    BY <1>1, <2>1 DEF vars, BuildInv, Given
<1>2. ASSUME UNCHANGED <<given, at, heard, args, tree>>,
             \/ UNCHANGED pc
             \/ pc = "idle" /\ pc' = "flags"
             \/ pc = "flags" /\ pc' = "child"
             \/ pc \in {"flags", "child"} /\ pc' = "root"
             \/ pc' \in {"refused", "failed"}
      PROVE  BuildInv'
  <2>1. Lines' = Lines
    BY <1>2, SameLines DEF Given
  <2>2. QED
    BY <1>2, <2>1 DEF BuildInv, Given
<1>3. CASE NoFlag
  <2>1. Lines' = Lines
    BY <1>3, SameLines DEF NoFlag, Given
  <2>2. \A i \in (at')..5 : i \in at..5
    BY <1>3 DEF NoFlag, ValuesInv
  <2>3. QED
    BY <1>3, <2>1, <2>2 DEF NoFlag, BuildInv, Given
<1>4. CASE Flag
  <2>1. PICK v \in Values : /\ v \in Validates(Flags[at])
                            /\ given' = [given EXCEPT ![Flags[at]] = v]
                            /\ args'  = args \o <<Flags[at]>> \o v
    BY <1>4 DEF Flag
  <2>2. /\ at \in 1..5 /\ at' = at + 1 /\ pc = "flags" /\ pc' = "flags"
        /\ UNCHANGED <<heard, tree>> /\ args = Lines[1] /\ \A i \in at..5 : Given(i) = <<>>
    BY <1>4, FlagFacts DEF Flag, ValuesInv, BuildInv
  <2>3. v \in Seq(Words) /\ v # <<>>
    BY <2>1, <2>2, FlagTaken
  <2>4. \A i \in 1..5 : Given(i)' = IF i = at THEN v ELSE Given(i)
    BY <2>1, <2>2, FlagFacts DEF ValuesInv, Given
  <2>5. args' = Lines'[1]
    <3> DEFINE Before == [i \in 1..5 |-> Piece(Flags[i])]
               Now == [i \in 1..5 |-> Piece(Flags[i])']
    <3>1. Before \in [1..5 -> Seq(Words)] /\ Now \in [1..5 -> Seq(Words)]
      <4>1. \A i \in 1..5 : Piece(Flags[i]) \in Seq(Words)
        BY PieceFacts
      <4>2. ASSUME NEW i \in 1..5 PROVE Piece(Flags[i])' \in Seq(Words)
        <5>1. Flags[i] \in Words /\ Flags[i] \in Keys
          BY FlagFacts
        <5>2. given'[Flags[i]] \in Seq(Words)
          BY <5>1 DEF ValuesInv
        <5>3. <<>> \in Seq(Words) /\ <<Flags[i]>> \o given'[Flags[i]] \in Seq(Words)
          BY <5>1, <5>2, Concat
        <5>4. QED
          BY <5>3 DEF Piece
      <4>3. QED
        BY <4>1, <4>2
    <3>2. Now[at] = <<Flags[at]>> \o v
      BY <2>2, <2>3, <2>4 DEF Piece, Given
    <3>3. \A i \in 1..5 : i >= at => Before[i] = <<>>
      BY <2>2 DEF Piece, Given
    <3>4. \A i \in 1..5 : i # at => Now[i] = Before[i]
      BY <2>4 DEF Piece, Given
    <3>5. /\ Lines[6] = <<>> /\ Lines'[6] = <<>>
          /\ \A i \in 1..5 : Lines[i] = Before[i] \o Lines[i + 1]
          /\ \A i \in 1..5 : Lines'[i] = Now[i] \o Lines'[i + 1]
      <4>1. /\ Lines[6] = <<>>
            /\ \A i \in 1..5 : Lines[i] = Piece(Flags[i]) \o Lines[i + 1]
        BY LinesFacts
      <4>2. (/\ Lines[6] = <<>>
             /\ \A i \in 1..5 : Lines[i] = Piece(Flags[i]) \o Lines[i + 1])'
        BY LinesFacts, PTL
      <4>3. QED
        BY <4>1, <4>2
    <3> HIDE DEF Before, Now
    <3>6. \A i \in 1..5 : i < at => Now[i] = Before[i]
      BY <2>2, <3>4
    <3>7. \A i \in 1..5 : i > at => Now[i] = <<>>
      BY <2>2, <3>3, <3>4
    <3>8. Lines'[1] = Lines[1] \o (<<Flags[at]>> \o v)
      <4> DEFINE Was == Lines
                 Is == Lines'
      <4>1. Joins(Was, Before) /\ Joins(Is, Now)
        BY <3>5 DEF Joins
      <4>2. Adds(Before, Now, at)
        BY <3>3, <3>6, <3>7 DEF Adds
      <4> HIDE DEF Was, Is
      <4>3. at \in 1..5
        BY <2>2
      <4>4. Was \in [1..6 -> Seq(Words)] /\ Is \in [1..6 -> Seq(Words)]
        <5>1. ValuesInv => Lines \in [1..6 -> Seq(Words)]
          BY LinesType
        <5>2. (ValuesInv => Lines \in [1..6 -> Seq(Words)])'
          BY <5>1, LinesType, PTL
        <5>3. QED
          BY <5>1, <5>2 DEF Was, Is
      <4>6. Is[1] = Was[1] \o Now[at]
        BY <3>1, <4>1, <4>2, <4>3, <4>4, Appended
      <4>7. QED
        BY <3>2, <4>6 DEF Was, Is
    <3>9. Lines[1] \in Seq(Words) /\ <<Flags[at]>> \in Seq(Words)
      BY <2>2, LinesBegin, FlagFacts
    <3>10. QED
      <4>1. (Lines[1] \o <<Flags[at]>>) \o v = Lines[1] \o (<<Flags[at]>> \o v)
        BY <2>3, <3>9, Assoc
      <4>2. QED
        BY <2>1, <2>2, <3>8, <4>1
  <2>6. \A i \in (at')..5 : Given(i)' = <<>>
    BY <2>2, <2>4
  <2>7. QED
    BY <2>2, <2>5, <2>6 DEF BuildInv
<1>5. CASE Child
  <2>1. UNCHANGED <<at, heard, args, tree>> /\ pc = "child" /\ pc' \in {"root", "refused"}
    BY <1>5 DEF Child, Refuse
  <2>2. QED
    BY <2>1 DEF BuildInv
<1>6. CASE TcReads
  <2>1. pc' \in {"root", "failed"} /\ UNCHANGED tree /\ pc = "root"
    BY <1>6, ReadsNext DEF TcReads
  <2>2. QED
    BY <2>1 DEF BuildInv
<1>7. CASE TcAddsRoot
  BY <1>7 DEF TcAddsRoot, BuildInv
<1>8. CASE TcAddsChild
  BY <1>8 DEF TcAddsChild, BuildInv
<1>9. CASE Apply \/ BadFlag \/ FlagsRead \/ GatewayCreate
  BY <1>2, <1>9 DEF Apply, BadFlag, FlagsRead, GatewayCreate, Refuse
<1>10. QED
  BY <1>1, <1>3, <1>4, <1>5, <1>6, <1>7, <1>8, <1>9 DEF Next

\* tc has read the flags up to one, as they were given.
LEMMA ReadStep ==
  ASSUME ValuesInv, ValuesInv', BuildInv, ReadInv, [Next]_vars
  PROVE  ReadInv'
<1>1. ASSUME \A i \in 1..5 : Given(i)' = Given(i), UNCHANGED <<heard, args>>, pc = "root"
      PROVE  ReadInv'
  <2>1. Lines' = Lines
    BY <1>1, SameLines
  <2>2. \A i \in 1..6 : ReadTo(i) => ReadTo(i)'
    BY <1>1, <2>1 DEF ReadTo, Heard
  <2>3. QED
    BY <1>1, <2>2 DEF ReadInv
<1>2. CASE pc' # "root"
  BY <1>2 DEF ReadInv
<1>3. CASE Child
  <2>1. UNCHANGED <<heard, args>> /\ pc = "child"
    BY <1>3 DEF Child
  <2>2. \A i \in 1..5 : Given(i)' = Given(i)
    BY <1>3, FlagFacts DEF Child, ValuesInv, Given
  <2>3. Lines' = Lines
    BY <2>2, SameLines
  <2>4. args' = Lines'[1] /\ heard' = NoValues
    BY <2>1, <2>3 DEF BuildInv
  <2>5. \A j \in 1..5 : Heard(j)' = <<>> /\ ~(j < 1)
    BY <2>4, FlagFacts DEF Heard, NoValues
  <2>6. ReadTo(1)'
    BY <2>4, <2>5 DEF ReadTo
  <2>7. QED
    BY <2>6 DEF ReadInv
<1>4. CASE TcReads
  <2>1. PICK i \in 1..5 :
           /\ ReadTo(i)
           /\ \/ /\ heard' = [heard EXCEPT ![Flags[i]] = Given(i)]
                 /\ args' = Lines[i + 1] /\ pc' = "root"
              \/ pc' = "failed"
    BY <1>4, ReadsNext
  <2>2. CASE pc' = "failed"
    BY <2>2 DEF ReadInv
  <2>3. CASE heard' = [heard EXCEPT ![Flags[i]] = Given(i)] /\ args' = Lines[i + 1]
    <3>1. \A j \in 1..5 : Given(j)' = Given(j)
      BY <1>4 DEF TcReads, Given
    <3>2. Lines' = Lines
      BY <3>1, SameLines
    <3>3. \A j \in 1..5 : Heard(j)' = IF j = i THEN Given(i) ELSE Heard(j)
      BY <2>3, FlagFacts DEF ValuesInv, Heard
    <3>4. \A j \in 1..5 : Heard(j)' = IF j < i + 1 THEN Given(j)' ELSE <<>>
      BY <2>1, <3>1, <3>3 DEF ReadTo
    <3>5. ReadTo(i + 1)' /\ i + 1 \in 1..6
      BY <2>3, <3>2, <3>4 DEF ReadTo
    <3>6. QED
      BY <3>5 DEF ReadInv
  <2>4. QED
    BY <2>1, <2>2, <2>3
<1>5. CASE UNCHANGED <<pc, given, heard, args>>
  <2>1. \A i \in 1..5 : Given(i)' = Given(i)
    BY <1>5 DEF Given
  <2>2. QED
    BY <1>1, <1>2, <1>5, <2>1
<1>6. QED
  BY <1>2, <1>3, <1>4, <1>5 DEF Next, vars, Apply, NoFlag, Flag, BadFlag, FlagsRead, Refuse,
     TcAddsRoot, TcAddsChild, GatewayCreate

\* When tc adds the root qdisc it has read all that was given, for nothing is left in the line.
LEMMA KnobsStep ==
  ASSUME ValuesInv, ValuesInv', BuildInv, ReadInv, KnobsReadBack, [Next]_vars
  PROVE  KnobsReadBack'
<1> DEFINE Same == \A i \in DOMAIN Flags : heard[Flags[i]] = given[Flags[i]]
<1>1. CASE TcReads
  <2>1. PICK i \in 1..5 : pc' = "root" \/ (pc' = "failed" /\ i = 1 /\ Given(1) \in NoJitter)
    BY <1>1, ReadsNext
  <2>2. tree' = "none" /\ UNCHANGED given
    BY <1>1 DEF TcReads, BuildInv
  <2>3. QED
    BY <2>1, <2>2, FlagFacts DEF KnobsReadBack, NoJitter, Given
<1>2. CASE TcAddsRoot
  <2>1. pc = "root" /\ args = <<>> /\ UNCHANGED <<given, heard>> /\ tree' = "root" /\ pc' # "failed"
    BY <1>2 DEF TcAddsRoot
  <2>2. PICK n \in 1..6 : ReadTo(n)
    BY <2>1 DEF ReadInv
  <2>3. \A j \in 1..5 : Heard(j) = Given(j)
    <3>1. ASSUME NEW j \in 1..5, j >= n PROVE Given(j) = <<>>
      BY <2>1, <2>2, <3>1, EmptyLine DEF ReadTo
    <3>2. QED
      BY <2>2, <3>1 DEF ReadTo
  <2>4. QED
    BY <2>1, <2>3, FlagFacts DEF KnobsReadBack, Heard, Given
<1>3. CASE TcAddsChild
  <2>1. /\ UNCHANGED <<given, heard>> /\ tree # "none" /\ tree' # "none"
    BY <1>3 DEF TcAddsChild, BuildInv
  <2>2. QED
    BY <2>1 DEF KnobsReadBack
<1>4. CASE UNCHANGED <<pc, given, heard, tree>>
  BY <1>4 DEF KnobsReadBack
<1>5. CASE tree' = "none" /\ pc' # "failed"
  BY <1>5 DEF KnobsReadBack
<1>6. QED
  <2>1. CASE Apply \/ NoFlag \/ Flag \/ BadFlag \/ FlagsRead \/ Child
    <3>1. tree = "none" /\ tree' = tree /\ pc' # "failed"
      BY <2>1 DEF Apply, NoFlag, Flag, BadFlag, FlagsRead, Child, Refuse, BuildInv
    <3>2. QED
      BY <1>5, <3>1
  <2>2. QED
    BY <1>1, <1>2, <1>3, <1>4, <2>1 DEF Next, vars, GatewayCreate

\* In any combination of flags, with any values that the validators accept, tc understands each
\* flag as it was given when it has read the line, or it refuses a distribution without a jitter
\* (whether a number is in range, as of the percentages above 100 that netem.go's TODO admits, is
\* not part of a value here).
THEOREM ReadsBack == Spec => []KnobsReadBack
<1>1. Init => IInv
  <2> SUFFICES ASSUME Init PROVE IInv
    OBVIOUS
  <2>1. /\ pc = "idle" /\ at = 1 /\ given = NoValues /\ heard = NoValues
        /\ args = <<>> /\ tree = "none"
    BY Zenon DEF Init
  <2>2. NoValues \in [Keys -> Seq(Words)]
    BY DEF NoValues
  <2>3. \A i \in 1..5 : Given(i) = <<>>
    BY <2>1, FlagFacts DEF Given, NoValues
  <2>4. ValuesInv
    BY <2>1, <2>2, <2>3 DEF ValuesInv
  <2>5. Lines[1] = <<>>
    <3>1. /\ Piece("delay") = <<>> /\ Piece("loss") = <<>> /\ Piece("limit") = <<>>
          /\ Piece("rate") = <<>> /\ Piece("slot") = <<>>
      BY <2>1, FlagFacts DEF Piece, NoValues, Keys
    <3>2. <<>> \o <<>> = <<>>
      <4>1. <<>> \in Seq(Words)
        OBVIOUS
      <4>2. QED
        BY <4>1, ConcatEmptySeq
    <3>3. QED
      BY <3>1, <3>2 DEF Lines
  <2>6. QED
    BY <2>1, <2>3, <2>4, <2>5 DEF IInv, BuildInv, ReadInv, KnobsReadBack
<1>2. IInv /\ [Next]_vars => IInv'
  <2> SUFFICES ASSUME IInv, [Next]_vars PROVE IInv'
    OBVIOUS
  <2>1. ValuesInv'
    BY ValuesStep DEF IInv
  <2>2. QED
    BY <2>1, BuildStep, ReadStep, KnobsStep DEF IInv
<1>3. IInv => KnobsReadBack
  BY DEF IInv
<1>4. QED
  BY <1>1, <1>2, <1>3, PTL DEF Spec

=============================================================================
