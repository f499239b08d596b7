--------------------------- MODULE FederationProofs ---------------------------
(***************************************************************************)
(* Proofs about Federation, for any peers, lists, addresses and bounds: its   *)
(* types, that peers that are alive stay in the routing table, and that the    *)
(* pool keeps the number of connections low.                                   *)
(***************************************************************************)
EXTENDS Federation, TLAPS, FiniteSetTheorems, WellFoundedInduction

\* Every set of numbers that is not empty has a least one.
LEMMA LeastNumber ==
    ASSUME NEW S \in SUBSET Nat, S # {}
    PROVE  \E least \in S : \A n \in S : least <= n
<1>1. PICK least \in S : \A n \in S : <<n, least>> \notin OpToRel(<, Nat)
  BY NatLessThanWellFounded, WFMin
<1>2. \A n \in S : ~ (n < least)
  BY <1>1 DEF OpToRel
<1>3. QED
  BY <1>2

-----------------------------------------------------------------------------
(* The invariant. *)

Distinct(s) == \A i, j \in DOMAIN s : s[i] = s[j] => i = j

Records == [addr : Places, hop : 1 .. MaxHops, age : 0 .. Timeout]

\* The routing table: no peer is in it twice, and it has a record for each.
TableOK ==
    /\ known \in Seq(Peers) /\ Len(known) <= MaxPeers /\ Distinct(known)
    /\ peer \in [ToSet(known) -> Records]

\* The clients made for an address, and the forwards that are making one.
Made(a) == {c \in Clients : conn[c].addr = a}
Connecting(a) == {f \in Forwards : forward[f].at = "connect" /\ forward[f].addr = a}

\* A connection is made only to an address, and only by a forward that found none in
\* the pool, from which nothing is ever taken out: a client more is a forward less
\* that is making one.
PoolInv ==
    /\ \A f \in Forwards : forward[f].at = "connect" => forward[f].addr \in Addrs
    /\ \A a \in Addrs : pool[a] = NoClient => Made(a) = {}
    /\ \A a \in Addrs :
          Cardinality(Made(a)) + Cardinality(Connecting(a)) <= Cardinality(Forwards)

FedInv == TypeOK /\ PoolInv

-----------------------------------------------------------------------------
(* Lists. *)

\* One more at the end of a list.
LEMMA AppendFacts ==
    ASSUME NEW T, NEW s \in Seq(T), NEW e \in T
    PROVE  /\ Append(s, e) \in Seq(T) /\ Len(Append(s, e)) = Len(s) + 1
           /\ ToSet(Append(s, e)) = ToSet(s) \cup {e}
           /\ Distinct(s) /\ e \notin ToSet(s) => Distinct(Append(s, e))
<1> DEFINE a == Append(s, e)
<1>1. /\ a \in Seq(T) /\ Len(s) \in Nat /\ Len(a) = Len(s) + 1
      /\ DOMAIN a = 1 .. Len(s) + 1 /\ DOMAIN s = 1 .. Len(s)
      /\ a[Len(s) + 1] = e /\ \A i \in 1 .. Len(s) : a[i] = s[i]
  OBVIOUS
<1> HIDE DEF a
<1>2. \A x : x \in ToSet(a) <=> x \in ToSet(s) \/ x = e
  <2>1. ASSUME NEW x, x \in ToSet(a)  PROVE x \in ToSet(s) \/ x = e
    BY <1>1, <2>1 DEF ToSet
  <2>2. ASSUME NEW x, x \in ToSet(s)  PROVE x \in ToSet(a)
    <3>1. PICK i \in 1 .. Len(s) : x = s[i]
      BY <1>1, <2>2 DEF ToSet
    <3>2. i \in 1 .. Len(s) + 1 /\ x = a[i]
      BY <1>1, <3>1
    <3>3. QED
      BY <1>1, <3>2 DEF ToSet
  <2>3. e \in ToSet(a)
    <3>1. Len(s) + 1 \in DOMAIN a
      BY <1>1
    <3>2. QED
      BY <1>1, <3>1 DEF ToSet
  <2>4. QED
    BY <2>1, <2>2, <2>3
<1>3. ASSUME Distinct(s), e \notin ToSet(s)  PROVE Distinct(a)
  <2>1. \A i \in 1 .. Len(s) : s[i] # e
    BY <1>1, <1>3 DEF ToSet
  <2>2. ASSUME NEW i \in 1 .. Len(s) + 1, NEW j \in 1 .. Len(s) + 1, a[i] = a[j]
        PROVE  i = j
    BY <1>1, <1>3, <2>1, <2>2 DEF Distinct
  <2>3. QED
    BY <1>1, <2>2 DEF Distinct
<1>4. ToSet(a) = ToSet(s) \cup {e}
  BY <1>2
<1>5. QED
  BY <1>1, <1>3, <1>4 DEF a

\* One taken out of a list without repetitions.
LEMMA RemoveFacts ==
    ASSUME NEW T, NEW s \in Seq(T), Distinct(s), NEW k \in DOMAIN s
    PROVE  /\ RemoveAt(s, k) \in Seq(T) /\ Len(RemoveAt(s, k)) = Len(s) - 1
           /\ ToSet(RemoveAt(s, k)) = ToSet(s) \ {s[k]}
           /\ Distinct(RemoveAt(s, k))
<1> DEFINE r == RemoveAt(s, k)
<1>1. Len(s) \in Nat /\ DOMAIN s = 1 .. Len(s) /\ k \in 1 .. Len(s) /\ k \in Nat
  OBVIOUS
<1> DEFINE a == SubSeq(s, 1, k - 1)
           b == SubSeq(s, k + 1, Len(s))
<1>2. /\ a \in Seq(T) /\ Len(a) = k - 1 /\ \A i \in 1 .. k - 1 : a[i] = s[i]
  BY <1>1
<1>3. /\ b \in Seq(T) /\ Len(b) = Len(s) - k
      /\ \A i \in 1 .. Len(s) - k : b[i] = s[k + i]
  BY <1>1
<1>4. r = a \o b
  BY DEF RemoveAt
<1> HIDE DEF r, a, b
<1>5. r \in Seq(T) /\ Len(r) = Len(s) - 1 /\ DOMAIN r = 1 .. Len(s) - 1
  <2>1. Len(a) \in Nat /\ Len(b) \in Nat /\ Len(a) + Len(b) = Len(s) - 1
    BY <1>1, <1>2, <1>3
  <2>2. a \o b \in Seq(T) /\ Len(a \o b) = Len(a) + Len(b)
    <3>1. a \in Seq(T) /\ b \in Seq(T)
      BY <1>2, <1>3
    <3>2. QED
      BY <3>1
  <2>3. QED
    BY <1>4, <2>1, <2>2
<1>6. /\ \A i \in 1 .. k - 1 : r[i] = s[i]
      /\ \A i \in k .. Len(s) - 1 : r[i] = s[i + 1]
  <2>1. ASSUME NEW i \in 1 .. k - 1  PROVE r[i] = s[i]
    BY <1>1, <1>2, <1>3, <1>4
  <2>2. ASSUME NEW i \in k .. Len(s) - 1  PROVE r[i] = s[i + 1]
    <3>1. i - k + 1 \in 1 .. Len(s) - k /\ k + (i - k + 1) = i + 1
      BY <1>1
    <3>2. r[i] = b[i - k + 1]
      BY <1>1, <1>2, <1>3, <1>4
    <3>3. QED
      BY <1>3, <3>1, <3>2
  <2>3. QED
    BY <2>1, <2>2
<1>7. \A x : x \in ToSet(r) <=> x \in ToSet(s) /\ x # s[k]
  <2>1. ASSUME NEW x, x \in ToSet(r)  PROVE x \in ToSet(s) /\ x # s[k]
    <3>1. PICK i \in 1 .. Len(s) - 1 : x = r[i]
      BY <1>5, <2>1 DEF ToSet
    <3>2. CASE i < k
      <4>1. i \in 1 .. k - 1 /\ i \in DOMAIN s /\ i # k
        BY <1>1, <3>1, <3>2
      <4>2. x = s[i]
        BY <1>6, <3>1, <4>1
      <4>3. QED
        BY <4>1, <4>2 DEF ToSet, Distinct
    <3>3. CASE ~ (i < k)
      <4>1. i \in k .. Len(s) - 1 /\ i + 1 \in DOMAIN s /\ i + 1 # k
        BY <1>1, <3>1, <3>3
      <4>2. x = s[i + 1]
        BY <1>6, <3>1, <4>1
      <4>3. QED
        BY <4>1, <4>2 DEF ToSet, Distinct
    <3>4. QED
      BY <3>2, <3>3
  <2>2. ASSUME NEW x, x \in ToSet(s), x # s[k]  PROVE x \in ToSet(r)
    <3>1. PICK i \in 1 .. Len(s) : x = s[i]
      BY <1>1, <2>2 DEF ToSet
    <3>2. i # k
      BY <2>2, <3>1
    <3>3. CASE i < k
      <4>1. i \in 1 .. k - 1 /\ i \in DOMAIN r
        BY <1>1, <1>5, <3>1, <3>3
      <4>2. QED
        BY <1>6, <3>1, <4>1 DEF ToSet
    <3>4. CASE i > k
      <4>1. i - 1 \in k .. Len(s) - 1 /\ i - 1 \in DOMAIN r /\ (i - 1) + 1 = i
        BY <1>1, <1>5, <3>1, <3>4
      <4>2. r[i - 1] = x
        BY <1>6, <3>1, <4>1
      <4>3. QED
        BY <4>1, <4>2 DEF ToSet
    <3>5. QED
      BY <1>1, <3>1, <3>2, <3>3, <3>4
  <2>3. QED
    BY <2>1, <2>2
<1>8. Distinct(r)
  <2>1. ASSUME NEW i \in 1 .. Len(s) - 1, NEW j \in 1 .. Len(s) - 1, r[i] = r[j]
        PROVE  i = j
    <3> DEFINE at(n) == IF n < k THEN n ELSE n + 1
    <3>1. at(i) \in DOMAIN s /\ at(j) \in DOMAIN s /\ (at(i) = at(j) => i = j)
      BY <1>1
    <3>2. \A n \in 1 .. Len(s) - 1 : r[n] = s[at(n)]
      <4>1. ASSUME NEW n \in 1 .. Len(s) - 1  PROVE r[n] = s[at(n)]
        <5>1. n < k => n \in 1 .. k - 1
          BY <1>1
        <5>2. ~ (n < k) => n \in k .. Len(s) - 1
          BY <1>1
        <5>3. QED
          BY <1>6, <5>1, <5>2
      <4>2. QED
        BY <4>1
    <3> HIDE DEF at
    <3>3. QED
      BY <2>1, <3>1, <3>2 DEF Distinct
  <2>2. QED
    BY <1>5, <2>1 DEF Distinct
<1>9. ToSet(r) = ToSet(s) \ {s[k]}
  BY <1>7
<1>10. QED
  BY <1>5, <1>8, <1>9 DEF r

\* w holds the elements of seq in S among the first n, for each n up to k.
WithinUpTo(w, seq, S, k) ==
    w = [n \in 0 .. k |->
            IF n = 0 THEN << >>
            ELSE IF seq[n] \in S THEN Append(w[n - 1], seq[n]) ELSE w[n - 1]]

\* The equation at one of these numbers.
LEMMA WithinUpToAt ==
    ASSUME NEW w, NEW seq, NEW S, NEW k \in Nat, WithinUpTo(w, seq, S, k), NEW n \in 0 .. k
    PROVE  w[n] = IF n = 0 THEN << >>
                  ELSE IF seq[n] \in S THEN Append(w[n - 1], seq[n]) ELSE w[n - 1]
  BY DEF WithinUpTo

\* The recursion of Within can be carried as far as one likes.
LEMMA WithinUpToExists ==
    ASSUME NEW seq, NEW S
    PROVE  \A k \in Nat : \E w : WithinUpTo(w, seq, S, k)
<1> DEFINE Missing == {k \in Nat : ~ \E w : WithinUpTo(w, seq, S, k)}
<1> SUFFICES ASSUME Missing # {}  PROVE FALSE
  OBVIOUS
<1>1. PICK k \in Missing : \A m \in Missing : k <= m
  <2> HIDE DEF Missing
  <2>1. Missing \in SUBSET Nat
    BY DEF Missing
  <2>2. QED
    BY <2>1, LeastNumber
<1>2. CASE k = 0
  <2> DEFINE w == [n \in 0 .. 0 |-> << >>]
  <2>1. WithinUpTo(w, seq, S, 0)
    BY DEF WithinUpTo
  <2>2. QED
    BY <1>1, <1>2, <2>1
<1>3. CASE k # 0
  <2>1. k - 1 \in Nat /\ k - 1 \notin Missing
    BY <1>1, <1>3
  <2>2. PICK w : WithinUpTo(w, seq, S, k - 1)
    BY <2>1
  <2> DEFINE last == IF seq[k] \in S THEN Append(w[k - 1], seq[k]) ELSE w[k - 1]
             more == [n \in 0 .. k |-> IF n = k THEN last ELSE w[n]]
  <2>3. \A n \in 0 .. k - 1 : more[n] = w[n]
    BY <2>1
  <2>4. ASSUME NEW n \in 0 .. k
        PROVE  more[n] = IF n = 0 THEN << >>
                         ELSE IF seq[n] \in S THEN Append(more[n - 1], seq[n]) ELSE more[n - 1]
    <3>1. CASE n = k
      <4>1. more[n] = last /\ k - 1 \in 0 .. k - 1
        BY <2>1, <3>1
      <4> HIDE DEF more
      <4>2. more[k - 1] = w[k - 1]
        BY <2>3, <4>1
      <4>3. QED
        BY <1>3, <3>1, <4>1, <4>2
    <3>2. CASE n # k
      <4>1. n \in 0 .. k - 1 /\ (n # 0 => n - 1 \in 0 .. k - 1)
        BY <3>2
      <4> HIDE DEF more, last
      <4>2. w[n] = IF n = 0 THEN << >>
                   ELSE IF seq[n] \in S THEN Append(w[n - 1], seq[n]) ELSE w[n - 1]
        BY <2>1, <2>2, <4>1, WithinUpToAt
      <4>3. QED
        BY <2>3, <4>1, <4>2
    <3>3. QED
      BY <3>1, <3>2
  <2>5. more = [n \in 0 .. k |-> more[n]]
    OBVIOUS
  <2> HIDE DEF more
  <2>6. WithinUpTo(more, seq, S, k)
    BY <2>4, <2>5 DEF WithinUpTo
  <2>7. QED
    BY <1>1, <2>6
<1>4. QED
  BY <1>2, <1>3

\* What Within keeps of the first n is a list of just those that are in S.
Kept(w, seq, S, T, n) ==
    /\ w[n] \in Seq(T) /\ Len(w[n]) <= n
    /\ ToSet(w[n]) = {seq[i] : i \in 1 .. n} \cap S
    /\ Distinct(seq) => Distinct(w[n])

\* The elements of a list in S, in a list that is not longer and repeats none that
\* the first does not repeat.
LEMMA WithinFacts ==
    ASSUME NEW T, NEW seq \in Seq(T), NEW S
    PROVE  /\ Within(seq, S) \in Seq(T) /\ Len(Within(seq, S)) <= Len(seq)
           /\ ToSet(Within(seq, S)) = ToSet(seq) \cap S
           /\ Distinct(seq) => Distinct(Within(seq, S))
<1>0. Len(seq) \in Nat /\ DOMAIN seq = 1 .. Len(seq)
  OBVIOUS
<1>1. PICK w : WithinUpTo(w, seq, S, Len(seq)) /\ Within(seq, S) = w[Len(seq)]
  <2> DEFINE Body(w) == [n \in 0 .. Len(seq) |->
                IF n = 0 THEN << >>
                ELSE IF seq[n] \in S THEN Append(w[n - 1], seq[n]) ELSE w[n - 1]]
             within == CHOOSE w : w = Body(w)
  <2>1. Within(seq, S) = within[Len(seq)]
    BY Zenon DEF Within
  <2>2. \E w : w = Body(w)
    <3>1. PICK w : WithinUpTo(w, seq, S, Len(seq))
      BY <1>0, WithinUpToExists
    <3>2. w = Body(w)
      BY <3>1 DEF WithinUpTo
    <3>3. QED
      BY <3>2
  <2> HIDE DEF Body
  <2>3. within = Body(within)
    BY <2>2, Zenon
  <2> HIDE DEF within
  <2>4. WithinUpTo(within, seq, S, Len(seq))
    BY <2>3 DEF WithinUpTo, Body
  <2>5. QED
    BY <2>1, <2>4
<1> DEFINE Bad == {n \in 0 .. Len(seq) : ~ Kept(w, seq, S, T, n)}
<1>2. ASSUME Bad # {}  PROVE FALSE
  <2>1. PICK n \in Bad : \A m \in Bad : n <= m
    <3> HIDE DEF Bad
    <3>1. Bad \in SUBSET Nat
      BY <1>0 DEF Bad
    <3>2. QED
      BY <1>2, <3>1, LeastNumber
  <2>2. n \in 0 .. Len(seq) /\ ~ Kept(w, seq, S, T, n)
    BY <2>1
  <2>3. w[n] = IF n = 0 THEN << >>
               ELSE IF seq[n] \in S THEN Append(w[n - 1], seq[n]) ELSE w[n - 1]
    BY <1>0, <1>1, <2>2, WithinUpToAt
  <2>4. CASE n = 0
    <3>1. w[0] = << >> /\ << >> \in Seq(T) /\ Len(<< >>) = 0 /\ DOMAIN << >> = {}
      BY <2>3, <2>4
    <3>2. ToSet(w[0]) = {} /\ Distinct(w[0]) /\ {seq[i] : i \in 1 .. 0} = {}
      BY <3>1 DEF ToSet, Distinct
    <3>3. QED
      BY <2>2, <2>4, <3>1, <3>2 DEF Kept
  <2>5. CASE n # 0
    <3> DEFINE m == n - 1
               Before == {seq[i] : i \in 1 .. m}
    <3>1. m \in 0 .. Len(seq) /\ n \in 1 .. Len(seq) /\ n = m + 1 /\ m < n
      BY <1>0, <2>2, <2>5
    <3>2. Kept(w, seq, S, T, m)
      BY <2>1, <3>1
    <3>3. {seq[i] : i \in 1 .. n} = Before \cup {seq[n]} /\ seq[n] \in T
      BY <1>0, <3>1
    <3>4. Distinct(seq) => seq[n] \notin Before
      BY <1>0, <3>1 DEF Distinct
    <3>5. /\ w[m] \in Seq(T) /\ Len(w[m]) <= m /\ ToSet(w[m]) = Before \cap S
          /\ Distinct(seq) => Distinct(w[m])
      BY <3>2 DEF Kept
    <3> HIDE DEF m, Before
    <3>6. CASE seq[n] \in S
      <4>1. w[n] = Append(w[m], seq[n])
        BY <2>3, <2>5, <3>6 DEF m
      <4>2. /\ w[n] \in Seq(T) /\ Len(w[n]) = Len(w[m]) + 1
            /\ ToSet(w[n]) = ToSet(w[m]) \cup {seq[n]}
            /\ Distinct(w[m]) /\ seq[n] \notin ToSet(w[m]) => Distinct(w[n])
        BY <3>3, <3>5, <4>1, AppendFacts
      <4>3. Len(w[n]) <= n
        <5>1. Len(w[m]) \in Nat
          BY <3>5
        <5>2. QED
          BY <3>1, <3>5, <4>2, <5>1
      <4>4. ToSet(w[n]) = {seq[i] : i \in 1 .. n} \cap S
        BY <3>3, <3>5, <3>6, <4>2
      <4>5. Distinct(seq) => Distinct(w[n])
        BY <3>4, <3>5, <4>2
      <4>6. QED
        BY <2>2, <4>2, <4>3, <4>4, <4>5 DEF Kept
    <3>7. CASE seq[n] \notin S
      <4>1. w[n] = w[m]
        BY <2>3, <2>5, <3>7 DEF m
      <4>2. Len(w[n]) <= n
        <5>1. Len(w[m]) \in Nat
          BY <3>5
        <5>2. QED
          BY <3>1, <3>5, <4>1, <5>1
      <4>3. ToSet(w[n]) = {seq[i] : i \in 1 .. n} \cap S
        BY <3>3, <3>5, <3>7, <4>1
      <4>4. QED
        BY <2>2, <3>5, <4>1, <4>2, <4>3 DEF Kept
    <3>8. QED
      BY <3>6, <3>7
  <2>6. QED
    BY <2>4, <2>5
<1>3. Kept(w, seq, S, T, Len(seq))
  BY <1>0, <1>2
<1>4. {seq[i] : i \in 1 .. Len(seq)} = ToSet(seq)
  BY <1>0 DEF ToSet
<1>5. QED
  BY <1>1, <1>3, <1>4 DEF Kept

-----------------------------------------------------------------------------
(* The steps of the routing table. *)

\* What no step may do to the table.
TableStep ==
    \A p \in Peers : InTable(p) /\ ~ InTable(p)' => ~ Alive(p)

MergeTasks == [peer : Peers, addr : Places, by : Peers \cup {Self}]

\* A peer in the table has a record, with a distance and an age.
LEMMA RecordFacts ==
    ASSUME TableOK, NEW p \in DOMAIN peer
    PROVE  /\ p \in Peers /\ peer[p] \in Records
           /\ peer[p].hop \in 1 .. MaxHops /\ peer[p].age \in 0 .. Timeout
           /\ peer[p].addr \in Places /\ peer[p].hop \in Nat
<1>1. DOMAIN peer = ToSet(known) /\ peer[p] \in Records
  BY DEF TableOK
<1>2. p \in Peers
  BY <1>1 DEF TableOK, ToSet
<1>3. QED
  BY <1>1, <1>2, NumbersAssumption DEF Records

\* The distance by way of a peer in the table, or of one that is not.
LEMMA ViaType ==
    ASSUME TableOK, NEW by, NEW table, table \subseteq DOMAIN peer
    PROVE  Via(by, table) \in Nat \ {0}
<1>1. CASE by \in table
  <2>1. peer[by].hop \in Nat
    BY <1>1, RecordFacts
  <2>2. QED
    BY <1>1, <2>1 DEF Via
<1>2. CASE by \notin table
  BY <1>2 DEF Via
<1>3. QED
  BY <1>1, <1>2

\* A merge for a peer in the table changes its record only.
LEMMA UpdateTable ==
    ASSUME TableOK, NEW m \in MergeTasks, UpdatePeer(m)
    PROVE  TableOK' /\ TableStep
<1> DEFINE q == m.peer
           via == Via(m.by, DOMAIN peer)
           new == [addr |-> IF m.addr = NoAddr THEN peer[q].addr ELSE m.addr,
                   hop |-> IF via < peer[q].hop THEN via ELSE peer[q].hop, age |-> 0]
<1>1. q \in DOMAIN peer /\ known' = known /\ peer' = [peer EXCEPT ![q] = new]
  BY DEF UpdatePeer, InTable
<1>2. peer[q].hop \in 1 .. MaxHops /\ peer[q].addr \in Places /\ via \in Nat \ {0}
  BY <1>1, RecordFacts, ViaType
<1>3. new \in Records
  <2> HIDE DEF q, via
  <2>1. m.addr \in Places
    BY DEF MergeTasks
  <2>2. 0 \in 0 .. Timeout
    BY NumbersAssumption
  <2>3. new.hop \in 1 .. MaxHops
    BY <1>2, NumbersAssumption
  <2>4. QED
    BY <1>2, <2>1, <2>2, <2>3 DEF Records
<1> HIDE DEF new, q, via
<1>4. TableOK'
  BY <1>1, <1>3 DEF TableOK, Distinct, ToSet
<1>5. TableStep
  BY <1>1 DEF TableStep, InTable
<1>6. QED
  BY <1>4, <1>5

\* The peers that stay when one more is added: all of them, or all but one that is
\* dead, so that there is room.
LEMMA StayingFacts ==
    ASSUME TableOK, Len(known) < MaxPeers \/ Dead # {}
    PROVE  /\ Staying \in Seq(Peers) /\ Len(Staying) < MaxPeers /\ Distinct(Staying)
           /\ ToSet(Staying) \subseteq DOMAIN peer
           /\ \A p \in DOMAIN peer \ ToSet(Staying) : ~ Alive(p)
<1>1. /\ known \in Seq(Peers) /\ Len(known) \in Nat /\ Len(known) <= MaxPeers
      /\ Distinct(known) /\ DOMAIN peer = ToSet(known) /\ DOMAIN known = 1 .. Len(known)
  BY DEF TableOK
<1>2. CASE Len(known) < MaxPeers
  BY <1>1, <1>2 DEF Staying
<1>3. CASE ~ (Len(known) < MaxPeers)
  <2> DEFINE First(i) == /\ known[i] \in Dead
                         /\ \A j \in 1 .. i - 1 : known[j] \notin Dead
             k == CHOOSE i \in DOMAIN known : First(i)
  <2>1. Staying = RemoveAt(known, k)
    BY <1>3, Zenon DEF Staying
  <2>2. \E i \in DOMAIN known : First(i)
    <3> DEFINE D == {i \in DOMAIN known : known[i] \in Dead}
    <3>1. D # {} /\ D \in SUBSET Nat
      BY <1>1, <1>3 DEF Dead, ToSet
    <3>2. PICK i \in D : \A j \in D : i <= j
      <4> HIDE DEF D
      <4>1. QED
        BY <3>1, LeastNumber
    <3>3. ASSUME NEW j \in 1 .. i - 1  PROVE known[j] \notin Dead
      <4>1. j \in DOMAIN known /\ ~ (i <= j)
        BY <1>1, <3>2
      <4>2. QED
        BY <3>2, <4>1
    <3>4. QED
      BY <3>2, <3>3
  <2> HIDE DEF First
  <2>3. k \in DOMAIN known /\ First(k)
    BY <2>2, Zenon
  <2> HIDE DEF k
  <2>4. /\ Staying \in Seq(Peers) /\ Len(Staying) = Len(known) - 1
        /\ ToSet(Staying) = ToSet(known) \ {known[k]} /\ Distinct(Staying)
    BY <1>1, <2>1, <2>3, RemoveFacts
  <2>5. ~ Alive(known[k])
    BY <2>3 DEF First, Dead
  <2>6. Len(Staying) < MaxPeers
    BY <1>1, <2>4, NumbersAssumption
  <2>7. QED
    BY <1>1, <2>4, <2>5, <2>6
<1>4. QED
  BY <1>2, <1>3

\* A peer that comes into the table takes the place of nobody, or of a dead one.
LEMMA AddTable ==
    ASSUME TableOK, NEW m \in MergeTasks, AddPeer(m)
    PROVE  TableOK' /\ TableStep
<1> DEFINE q == m.peer
           staying == ToSet(Staying)
           via == Via(m.by, staying)
           new == [addr |-> m.addr, hop |-> via, age |-> 0]
<1>1. /\ q \notin DOMAIN peer /\ via <= MaxHops
      /\ Len(known) < MaxPeers \/ Dead # {}
      /\ known' = Append(Staying, q)
      /\ peer' = [p \in staying \cup {q} |-> IF p = q THEN new ELSE peer[p]]
  BY DEF AddPeer, InTable
<1>2. /\ Staying \in Seq(Peers) /\ Len(Staying) < MaxPeers /\ Distinct(Staying)
      /\ staying \subseteq DOMAIN peer
      /\ \A p \in DOMAIN peer \ staying : ~ Alive(p)
  BY <1>1, StayingFacts
<1>3. q \in Peers /\ m.addr \in Places
  BY DEF MergeTasks
<1>4. via \in Nat \ {0}
  <2> HIDE DEF staying
  <2>1. QED
    BY <1>2, ViaType
<1>5. new \in Records
  <2> HIDE DEF via
  <2>1. via \in 1 .. MaxHops /\ 0 \in 0 .. Timeout
    BY <1>1, <1>4, NumbersAssumption
  <2>2. QED
    BY <1>3, <2>1 DEF Records
<1>6. \A p \in staying : peer[p] \in Records
  BY <1>2, RecordFacts
<1> HIDE DEF new, via, q
<1>7. /\ known' \in Seq(Peers) /\ Len(known') = Len(Staying) + 1
      /\ ToSet(known') = staying \cup {q} /\ Distinct(known')
  BY <1>1, <1>2, <1>3, AppendFacts
<1> HIDE DEF staying
<1>8. peer' \in [staying \cup {q} -> Records]
  BY <1>1, <1>5, <1>6
<1>9. TableOK'
  <2>1. Len(known') <= MaxPeers
    BY <1>2, <1>7, NumbersAssumption
  <2>2. Distinct(known)'
    BY <1>7 DEF Distinct
  <2>3. ToSet(known)' = staying \cup {q} /\ Records' = Records
    BY <1>7 DEF ToSet
  <2>4. QED
    BY <1>7, <1>8, <2>1, <2>2, <2>3 DEF TableOK
<1>10. TableStep
  BY <1>1, <1>2 DEF TableStep, InTable
<1>11. QED
  BY <1>9, <1>10

\* Pruning takes the dead ones.
LEMMA PruneTable ==
    ASSUME TableOK, Prune
    PROVE  TableOK' /\ TableStep
<1> DEFINE staying == DOMAIN peer \ Dead
<1>1. known' = Within(known, staying) /\ peer' = [p \in staying |-> peer[p]]
  BY DEF Prune, Keep
<1>2. staying \subseteq ToSet(known) /\ ToSet(known) \cap staying = staying
  BY DEF TableOK
<1>3. /\ known' \in Seq(Peers) /\ Len(known') <= Len(known)
      /\ ToSet(known') = staying /\ Distinct(known')
  <2> HIDE DEF staying
  <2>1. QED
    BY <1>1, <1>2, WithinFacts DEF TableOK
<1>4. peer' \in [staying -> Records]
  <2>1. \A p \in staying : peer[p] \in Records
    BY RecordFacts
  <2> HIDE DEF staying
  <2>2. QED
    BY <1>1, <2>1
<1>5. TableOK'
  <2>1. Len(known') <= MaxPeers
    <3>1. Len(known') \in Nat /\ Len(known) \in Nat /\ Len(known) <= MaxPeers
      BY <1>3 DEF TableOK
    <3>2. QED
      BY <1>3, <3>1, NumbersAssumption
  <2>2. Distinct(known)'
    BY <1>3 DEF Distinct
  <2>3. ToSet(known)' = staying /\ Records' = Records
    BY <1>3 DEF ToSet
  <2> HIDE DEF staying
  <2>4. QED
    BY <1>3, <1>4, <2>1, <2>2, <2>3 DEF TableOK
<1>6. TableStep
  BY <1>1 DEF TableStep, InTable, Dead
<1>7. QED
  BY <1>5, <1>6

\* Heartbeats and time change ages only.
LEMMA AgesTable ==
    ASSUME TableOK, known' = known, NEW ages \in [DOMAIN peer -> 0 .. Timeout],
           peer' = [p \in DOMAIN peer |-> [peer[p] EXCEPT !.age = ages[p]]]
    PROVE  TableOK' /\ TableStep
<1>1. ASSUME NEW p \in DOMAIN peer
      PROVE  peer'[p] \in Records
  <2>1. peer[p] \in Records
    BY RecordFacts
  <2>2. peer'[p] = [peer[p] EXCEPT !.age = ages[p]] /\ ages[p] \in 0 .. Timeout
    OBVIOUS
  <2>3. QED
    BY <2>1, <2>2 DEF Records
<1>2. peer' \in [DOMAIN peer -> Records]
  BY <1>1
<1>3. TableOK'
  BY <1>2 DEF TableOK, Distinct, ToSet
<1>4. TableStep
  BY DEF TableStep, InTable
<1>5. QED
  BY <1>3, <1>4

\* An interval passes.
LEMMA TickTable ==
    ASSUME TableOK, Tick
    PROVE  TableOK' /\ TableStep
<1> DEFINE ages == [p \in DOMAIN peer |-> IF Alive(p) THEN peer[p].age + 1 ELSE peer[p].age]
<1>1. ages \in [DOMAIN peer -> 0 .. Timeout]
  <2>1. ASSUME NEW p \in DOMAIN peer
        PROVE  (IF Alive(p) THEN peer[p].age + 1 ELSE peer[p].age) \in 0 .. Timeout
    BY RecordFacts, NumbersAssumption DEF Alive
  <2>2. QED
    BY <2>1
<1>2. known' = known
  BY DEF Tick, tableVars
<1>3. peer' = [p \in DOMAIN peer |-> [peer[p] EXCEPT !.age = ages[p]]]
  BY DEF Tick
<1> HIDE DEF ages
<1>4. QED
  BY <1>1, <1>2, <1>3, AgesTable

\* A heartbeat makes a peer in the table young.
LEMMA HeartbeatTable ==
    ASSUME TableOK, NEW q \in Peers, ReceiveHeartbeat(q)
    PROVE  TableOK' /\ TableStep
<1> DEFINE ages == [p \in DOMAIN peer |-> IF p = q THEN 0 ELSE peer[p].age]
<1>1. ages \in [DOMAIN peer -> 0 .. Timeout]
  BY RecordFacts, NumbersAssumption
<1>2. known' = known /\ q \in DOMAIN peer /\ peer' = [peer EXCEPT ![q].age = 0]
  BY DEF ReceiveHeartbeat, InTable
<1>3. peer' = [p \in DOMAIN peer |-> [peer[p] EXCEPT !.age = ages[p]]]
  <2>1. \A p \in DOMAIN peer : peer[p] = [peer[p] EXCEPT !.age = peer[p].age]
    BY RecordFacts DEF Records
  <2>2. QED
    BY <1>2, <2>1
<1> HIDE DEF ages
<1>4. QED
  BY <1>1, <1>2, <1>3, AgesTable

\* The rest of TypeOK: the merges that wait, the heartbeat loop, and the forwards and
\* the pool.
TasksOK == merges \in Seq(MergeTasks)
LoopOK == loop \in {"asleep", "sending", "held"}
PoolOK ==
    /\ forward \in [Forwards -> [at : {"none", "ready", "connect", "send"},
                                 target : Peers \cup {Self}, ttl : 0 .. MaxTtl,
                                 addr : Places, client : Clients \cup {NoClient}]]
    /\ pool \in [Addrs -> Clients \cup {NoClient}]
    /\ conn \in [Clients -> [addr : Places, alive : BOOLEAN]]
    /\ refused \in BOOLEAN

\* TypeOK in the parts that different steps change.
LEMMA TypeParts == TypeOK <=> TableOK /\ TasksOK /\ LoopOK /\ PoolOK
  BY Zenon DEF TypeOK, TableOK, TasksOK, LoopOK, PoolOK, Distinct, Records, MergeTasks

\* The first merge that waits leaves a list of merges.
LEMMA MergeTable ==
    ASSUME TableOK, TasksOK, Merge
    PROVE  TableOK' /\ TasksOK' /\ TableStep
<1> DEFINE m == Head(merges)
<1>1. m \in MergeTasks /\ merges' \in Seq(MergeTasks)
  BY DEF Merge, TasksOK
<1>2. TasksOK'
  BY <1>1 DEF TasksOK, MergeTasks, Places
<1>3. UpdatePeer(m) \/ AddPeer(m) \/ TableFull(m)
  BY DEF Merge
<1> HIDE DEF m
<1>4. CASE UpdatePeer(m)
  BY <1>1, <1>2, <1>4, UpdateTable
<1>5. CASE AddPeer(m)
  BY <1>1, <1>2, <1>5, AddTable
<1>6. CASE TableFull(m)
  <2>1. UNCHANGED <<known, peer>>
    BY <1>6 DEF TableFull, tableVars
  <2>2. TableOK'
    BY <2>1 DEF TableOK, Distinct, ToSet
  <2>3. TableStep
    BY <2>1 DEF TableStep, InTable
  <2>4. QED
    BY <1>2, <2>2, <2>3
<1>7. QED
  BY <1>3, <1>4, <1>5, <1>6

\* A list of peers becomes merges for the peers it names, never for the router.
LEMMA ListTasks ==
    ASSUME TasksOK, NEW l \in PeerLists, ReceivePeerList(l)
    PROVE  TasksOK'
<1> DEFINE Named == [peer : Peers \cup {Self}, addr : Addrs \cup {NoAddr}]
           S == {e \in ToSet(l.entries) : e.peer # Self}
           named == Within(l.entries, S)
           more == [i \in DOMAIN named |->
                      [peer |-> named[i].peer, addr |-> named[i].addr, by |-> l.by]]
<1>1. l.by \in Peers \cup {Self} /\ l.entries \in Seq(Named)
  BY PeersAssumption
<1>2. merges' = merges \o more
  BY DEF ReceivePeerList
<1>3. named \in Seq(Named) /\ ToSet(named) = ToSet(l.entries) \cap S
  <2> HIDE DEF Named, S
  <2>1. QED
    BY <1>1, WithinFacts
<1>4. ASSUME NEW i \in DOMAIN named
      PROVE  [peer |-> named[i].peer, addr |-> named[i].addr, by |-> l.by] \in MergeTasks
  <2>1. named[i] \in ToSet(named)
    <3> HIDE DEF named
    <3>1. QED
      BY DEF ToSet
  <2>2. named[i].peer # Self
    BY <1>3, <2>1
  <2>3. named[i] \in Named
    <3> HIDE DEF named, Named
    <3>1. QED
      BY <1>3
  <2>4. named[i].peer \in Peers /\ named[i].addr \in Places
    BY <2>2, <2>3 DEF Places
  <2>5. QED
    BY <1>1, <2>4 DEF MergeTasks
<1>5. DOMAIN named = 1 .. Len(named) /\ Len(named) \in Nat
  <2> HIDE DEF named, Named
  <2>1. QED
    BY <1>3
<1>6. more \in Seq(MergeTasks)
  <2>1. more \in [1 .. Len(named) -> MergeTasks]
    <3>1. \A i \in DOMAIN named : more[i] \in MergeTasks
      BY <1>4
    <3> HIDE DEF named
    <3>2. QED
      BY <1>5, <3>1
  <2> HIDE DEF more, named
  <2>2. QED
    BY <1>5, <2>1
<1> HIDE DEF more
<1>7. QED
  BY <1>2, <1>6 DEF TasksOK, MergeTasks, Places

-----------------------------------------------------------------------------
(* The steps of the forwards. *)

\* The clients of an address and the forwards that connect to it are finite sets.
LEMMA FiniteCounts ==
    ASSUME NEW a
    PROVE  /\ IsFiniteSet(Made(a)) /\ IsFiniteSet(Connecting(a)) /\ IsFiniteSet(Forwards)
           /\ Cardinality(Made(a)) \in Nat /\ Cardinality(Connecting(a)) \in Nat
           /\ Cardinality(Forwards) \in Nat
           /\ Cardinality(Connecting(a)) <= Cardinality(Forwards)
<1>1. IsFiniteSet(Clients) /\ IsFiniteSet(Forwards)
  <2>1. 1 \in Int /\ MaxClients \in Int
    BY NumbersAssumption
  <2>2. QED
    BY <2>1, FS_Interval, PeersAssumption DEF Clients
<1>2. Made(a) \in SUBSET Clients /\ Connecting(a) \in SUBSET Forwards
  BY DEF Made, Connecting
<1>3. QED
  BY <1>1, <1>2, FS_Subset, FS_CardinalityType

\* A step that makes no client, and lets no forward begin to connect.
LEMMA NoneMore ==
    ASSUME PoolInv, PoolOK',
           \A c \in Clients : conn'[c].addr = conn[c].addr, pool' = pool,
           \A f \in Forwards : forward'[f].at = "connect" =>
               forward[f].at = "connect" /\ forward'[f].addr = forward[f].addr
    PROVE  PoolInv'
<1>1. \A a : Made(a)' = Made(a) /\ Connecting(a)' \subseteq Connecting(a)
  BY DEF Made, Connecting
<1>2. ASSUME NEW a \in Addrs
      PROVE  Cardinality(Made(a)') + Cardinality(Connecting(a)') <= Cardinality(Forwards)
  <2>1. Cardinality(Connecting(a)') <= Cardinality(Connecting(a)) /\ Cardinality(Connecting(a)') \in Nat
    BY <1>1, FiniteCounts, FS_Subset, FS_CardinalityType
  <2>2. Cardinality(Made(a)) + Cardinality(Connecting(a)) <= Cardinality(Forwards)
    BY DEF PoolInv
  <2>3. QED
    BY <1>1, <2>1, <2>2, FiniteCounts
<1>3. QED
  BY <1>1, <1>2 DEF PoolInv

\* A forward with an end: it is not under way any more.
LEMMA ForwardEnds ==
    ASSUME PoolOK, PoolInv, NEW f \in Forwards, forward' = [forward EXCEPT ![f] = NoForward],
           pool' = pool, conn' = conn, refused' \in BOOLEAN
    PROVE  PoolOK' /\ PoolInv'
<1>1. NoForward \in [at : {"none", "ready", "connect", "send"},
                     target : Peers \cup {Self}, ttl : 0 .. MaxTtl,
                     addr : Places, client : Clients \cup {NoClient}]
  BY NumbersAssumption DEF NoForward, Places
<1>2. PoolOK'
  BY <1>1 DEF PoolOK
<1>3. \A g \in Forwards : forward'[g].at = "connect" =>
        forward[g].at = "connect" /\ forward'[g].addr = forward[g].addr
  BY DEF PoolOK, NoForward
<1>4. QED
  BY <1>2, <1>3, NoneMore

\* A forward comes in.
LEMMA ReceiveForwardPool ==
    ASSUME PoolOK, PoolInv, NEW f \in Forwards, NEW target \in Targets, NEW ttl \in 0 .. MaxTtl,
           ReceiveForward(f, target, ttl)
    PROVE  PoolOK' /\ PoolInv'
<1> DEFINE new == [NoForward EXCEPT !.at = "ready", !.target = target, !.ttl = ttl - 1]
<1>1. ttl > 0 /\ forward' = [forward EXCEPT ![f] = new] /\ pool' = pool /\ conn' = conn
      /\ refused' = refused
  BY DEF ReceiveForward, poolVars
<1>2. new.at = "ready" /\ new \in [at : {"none", "ready", "connect", "send"},
               target : Peers \cup {Self}, ttl : 0 .. MaxTtl,
               addr : Places, client : Clients \cup {NoClient}]
  <2>1. target \in Peers \cup {Self} /\ ttl - 1 \in 0 .. MaxTtl
    BY <1>1, PeersAssumption, NumbersAssumption
  <2>2. QED
    BY <2>1 DEF NoForward, Places
<1> HIDE DEF new
<1>3. PoolOK'
  BY <1>1, <1>2 DEF PoolOK
<1>4. \A g \in Forwards : forward'[g].at = "connect" =>
        forward[g].at = "connect" /\ forward'[g].addr = forward[g].addr
  BY <1>1, <1>2 DEF PoolOK
<1>5. QED
  BY <1>1, <1>3, <1>4, NoneMore

\* A forward that finds no connection in the pool begins to make one: then there is
\* none at all to that address.
LEMMA LookUpPool ==
    ASSUME TableOK, PoolOK, PoolInv, NEW f \in Forwards, LookUp(f)
    PROVE  PoolOK' /\ PoolInv'
<1> DEFINE a == peer[forward[f].target].addr
           new == [forward[f] EXCEPT !.addr = a, !.client = pool[a],
                                     !.at = IF pool[a] # NoClient THEN "send" ELSE "connect"]
<1>1. /\ forward[f].at = "ready" /\ forward[f].target \in DOMAIN peer /\ a # NoAddr
      /\ pool' = pool /\ conn' = conn /\ refused' = refused
  BY DEF LookUp, Routed, InTable, poolVars
<1>2. a \in Addrs
  BY <1>1, RecordFacts DEF Places
<1>3. forward' = [forward EXCEPT ![f] = new]
  BY DEF LookUp, PoolOK
<1> HIDE DEF a
<1>4. pool[a] \in Clients \cup {NoClient}
  BY <1>2 DEF PoolOK
<1>5. /\ new \in [at : {"none", "ready", "connect", "send"},
               target : Peers \cup {Self}, ttl : 0 .. MaxTtl,
               addr : Places, client : Clients \cup {NoClient}]
      /\ new.addr = a /\ new.at \in {"send", "connect"}
      /\ new.at = "connect" <=> pool[a] = NoClient
  <2>1. forward[f] \in [at : {"none", "ready", "connect", "send"},
               target : Peers \cup {Self}, ttl : 0 .. MaxTtl,
               addr : Places, client : Clients \cup {NoClient}]
    BY DEF PoolOK
  <2>2. QED
    BY <1>2, <1>4, <2>1 DEF Places
<1> HIDE DEF new
<1>6. PoolOK'
  BY <1>1, <1>3, <1>5 DEF PoolOK
<1>7. forward'[f] = new /\ \A g \in Forwards \ {f} : forward'[g] = forward[g]
  BY <1>3 DEF PoolOK
<1>8. CASE pool[a] # NoClient
  <2>1. \A g \in Forwards : forward'[g].at = "connect" =>
          forward[g].at = "connect" /\ forward'[g].addr = forward[g].addr
    BY <1>5, <1>7, <1>8
  <2>2. QED
    BY <1>1, <1>6, <2>1, NoneMore
<1>9. CASE pool[a] = NoClient
  <2>1. \A b \in Addrs : Made(b)' = Made(b)
    BY <1>1 DEF Made
  <2>2. ASSUME NEW b \in Addrs
        PROVE  Cardinality(Made(b)') + Cardinality(Connecting(b)') <= Cardinality(Forwards)
    <3>1. CASE b = a
      <4>1. Made(b)' = {}
        BY <1>9, <2>1, <3>1 DEF PoolInv
      <4>2. Connecting(b)' \in SUBSET Forwards
        BY DEF Connecting
      <4>3. Cardinality(Connecting(b)') <= Cardinality(Forwards) /\ Cardinality(Connecting(b)') \in Nat
        BY <4>2, FiniteCounts, FS_Subset, FS_CardinalityType
      <4>4. QED
        BY <4>1, <4>3, FS_EmptySet
    <3>2. CASE b # a
      <4>1. Connecting(b)' = Connecting(b)
        BY <1>1, <1>5, <1>7, <3>2 DEF Connecting
      <4>2. QED
        BY <2>1, <4>1 DEF PoolInv
    <3>3. QED
      BY <3>1, <3>2
  <2>3. \A g \in Forwards : forward'[g].at = "connect" => forward'[g].addr \in Addrs
    BY <1>2, <1>5, <1>7 DEF PoolInv
  <2>4. \A b \in Addrs : pool'[b] = NoClient => Made(b)' = {}
    BY <1>1, <2>1 DEF PoolInv
  <2>5. QED
    BY <1>6, <2>2, <2>3, <2>4 DEF PoolInv
<1>10. QED
  BY <1>8, <1>9

\* A connection is made: one client more to its address, and one forward less that
\* is making one.
LEMMA ConnectedPool ==
    ASSUME PoolOK, PoolInv, NEW f \in Forwards, NEW c \in Clients, Connected(f, c)
    PROVE  PoolOK' /\ PoolInv'
<1>0. PICK a \in Addrs : a = forward[f].addr
  BY DEF Connected, PoolInv
<1>1. /\ forward[f].at = "connect" /\ conn[c] = NoConn
      /\ conn' = [conn EXCEPT ![c] = [addr |-> a, alive |-> TRUE]]
      /\ pool' = [pool EXCEPT ![a] = c]
      /\ forward' = [forward EXCEPT ![f].at = "send", ![f].client = c]
      /\ refused' = refused
  BY <1>0 DEF Connected
<1>2. a \in Addrs /\ a \in Places
  BY DEF Places
<1> DEFINE new == [forward[f] EXCEPT !.at = "send", !.client = c]
           Under == [at : {"none", "ready", "connect", "send"},
                     target : Peers \cup {Self}, ttl : 0 .. MaxTtl,
                     addr : Places, client : Clients \cup {NoClient}]
<1>3. forward' = [forward EXCEPT ![f] = new]
  BY <1>1 DEF PoolOK
<1>4. new \in Under /\ new.at = "send"
  <2>1. forward[f] \in Under
    BY DEF PoolOK
  <2>2. QED
    BY <2>1
<1>5. /\ forward'[f].at = "send" /\ \A g \in Forwards \ {f} : forward'[g] = forward[g]
      /\ forward' \in [Forwards -> Under]
  <2>1. forward \in [Forwards -> Under]
    BY DEF PoolOK
  <2> HIDE DEF new, Under
  <2>2. QED
    BY <1>3, <1>4, <2>1
<1>6. /\ conn'[c].addr = a /\ conn[c].addr \notin Addrs
      /\ \A d \in Clients \ {c} : conn'[d] = conn[d]
      /\ conn' \in [Clients -> [addr : Places, alive : BOOLEAN]]
  BY <1>1, <1>2, PeersAssumption DEF PoolOK, NoConn
<1>7. PoolOK'
  BY <1>1, <1>2, <1>5, <1>6 DEF PoolOK
<1>8. pool'[a] = c /\ c # NoClient /\ \A b \in Addrs \ {a} : pool'[b] = pool[b]
  BY <1>1, <1>2, NumbersAssumption DEF PoolOK, Clients, NoClient
<1>9. ASSUME NEW b \in Addrs \ {a}
      PROVE  Made(b)' = Made(b) /\ Connecting(b)' = Connecting(b)
  <2>1. Made(b)' = Made(b)
    BY <1>6, <1>9 DEF Made
  <2>2. Connecting(b)' = Connecting(b)
    BY <1>0, <1>1, <1>5, <1>9 DEF Connecting
  <2>3. QED
    BY <2>1, <2>2
<1>10. Cardinality(Made(a)') + Cardinality(Connecting(a)') <= Cardinality(Forwards)
  <2>1. Made(a)' = Made(a) \cup {c} /\ c \notin Made(a)
    <3>1. Made(a)' = {d \in Clients : conn'[d].addr = a}
      BY DEF Made
    <3>2. \A d : d \in Made(a)' <=> d \in Made(a) \/ d = c
      BY <1>6, <3>1 DEF Made
    <3>3. c \notin Made(a)
      BY <1>2, <1>6 DEF Made
    <3>4. QED
      BY <3>2, <3>3
  <2>2. Connecting(a)' = Connecting(a) \ {f} /\ f \in Connecting(a)
    BY <1>0, <1>1, <1>5 DEF Connecting
  <2>3. Cardinality(Made(a)') = Cardinality(Made(a)) + 1
    BY <2>1, FiniteCounts, FS_AddElement
  <2>4. Cardinality(Connecting(a)') = Cardinality(Connecting(a)) - 1
    BY <2>2, FiniteCounts, FS_RemoveElement
  <2>5. QED
    BY <1>2, <2>3, <2>4, FiniteCounts DEF PoolInv
<1>11. \A b \in Addrs : pool'[b] = NoClient => Made(b)' = {}
  BY <1>8, <1>9 DEF PoolInv
<1>12. \A b \in Addrs :
         Cardinality(Made(b)') + Cardinality(Connecting(b)') <= Cardinality(Forwards)
  <2>1. ASSUME NEW b \in Addrs
        PROVE  Cardinality(Made(b)') + Cardinality(Connecting(b)') <= Cardinality(Forwards)
    <3>1. CASE b = a
      BY <1>10, <3>1
    <3>2. CASE b # a
      BY <1>9, <3>2 DEF PoolInv
    <3>3. QED
      BY <3>1, <3>2
  <2>2. QED
    BY <2>1
<1>13. \A g \in Forwards : forward'[g].at = "connect" => forward'[g].addr \in Addrs
  BY <1>5 DEF PoolInv
<1>14. QED
  BY <1>7, <1>11, <1>12, <1>13 DEF PoolInv

\* A server goes away, and its connections with it: the pool keeps them all the same.
LEMMA PeerClosesPool ==
    ASSUME PoolOK, PoolInv, NEW a \in Addrs, PeerCloses(a)
    PROVE  PoolOK' /\ PoolInv'
<1>1. /\ conn' = [c \in Clients |-> IF conn[c].addr = a THEN [conn[c] EXCEPT !.alive = FALSE]
                                   ELSE conn[c]]
      /\ pool' = pool /\ forward' = forward /\ refused' = refused
  BY DEF PeerCloses
<1>2. /\ conn' \in [Clients -> [addr : Places, alive : BOOLEAN]]
      /\ \A c \in Clients : conn'[c].addr = conn[c].addr
  <2>1. \A c \in Clients : conn[c] \in [addr : Places, alive : BOOLEAN]
    BY DEF PoolOK
  <2>2. QED
    BY <1>1, <2>1
<1>3. PoolOK'
  BY <1>1, <1>2 DEF PoolOK
<1>4. QED
  BY <1>1, <1>2, <1>3, NoneMore

-----------------------------------------------------------------------------
\* A router begins with an empty table and an empty pool.
LEMMA InitFedInv == Init => FedInv
<1> SUFFICES ASSUME Init  PROVE FedInv
  OBVIOUS
<1>1. TableOK
  <2>1. ToSet(<< >>) = {} /\ Distinct(<< >>)
    BY DEF ToSet, Distinct
  <2>2. << >> \in [{} -> Records]
    OBVIOUS
  <2>3. QED
    BY <2>1, <2>2, NumbersAssumption DEF Init, TableOK
<1>2. TasksOK /\ LoopOK
  BY DEF Init, TasksOK, LoopOK
<1>3. PoolOK
  <2>1. NoForward \in [at : {"none", "ready", "connect", "send"},
                       target : Peers \cup {Self}, ttl : 0 .. MaxTtl,
                       addr : Places, client : Clients \cup {NoClient}]
    BY NumbersAssumption DEF NoForward, Places
  <2>2. NoConn \in [addr : Places, alive : BOOLEAN]
    BY DEF NoConn, Places
  <2>3. QED
    BY <2>1, <2>2 DEF Init, PoolOK
<1>4. PoolInv
  <2>1. \A a \in Addrs : Made(a) = {} /\ Connecting(a) = {}
    BY PeersAssumption DEF Init, Made, Connecting, NoConn, NoForward
  <2>2. Cardinality({}) = 0 /\ Cardinality(Forwards) \in Nat
    BY FS_EmptySet, FiniteCounts
  <2>3. \A f \in Forwards : forward[f].at # "connect"
    BY DEF Init, NoForward
  <2>4. \A a \in Addrs :
          Cardinality(Made(a)) + Cardinality(Connecting(a)) <= Cardinality(Forwards)
    <3>1. ASSUME NEW a \in Addrs
          PROVE  Cardinality(Made(a)) + Cardinality(Connecting(a)) <= Cardinality(Forwards)
      <4>1. Cardinality(Made(a)) = 0 /\ Cardinality(Connecting(a)) = 0
        BY <2>1, <2>2
      <4>2. QED
        BY <2>2, <4>1
    <3>2. QED
      BY <3>1
  <2>5. QED
    BY <2>1, <2>3, <2>4 DEF PoolInv
<1>5. QED
  BY <1>1, <1>2, <1>3, <1>4, TypeParts DEF FedInv

\* A step keeps the invariant, and takes no peer from the table that is alive.
LEMMA NextFedInv == FedInv /\ [Next]_vars => FedInv' /\ TableStep
<1> SUFFICES ASSUME FedInv, [Next]_vars  PROVE FedInv' /\ TableStep
  OBVIOUS
<1>1. TableOK /\ TasksOK /\ LoopOK /\ PoolOK /\ PoolInv
  BY TypeParts DEF FedInv
<1>2. UNCHANGED <<known, peer>> => TableOK' /\ TableStep
  <2>1. ASSUME UNCHANGED <<known, peer>>  PROVE TableOK'
    BY <1>1, <2>1 DEF TableOK, Distinct, ToSet
  <2>2. ASSUME UNCHANGED <<known, peer>>  PROVE TableStep
    BY <2>2 DEF TableStep, InTable
  <2>3. QED
    BY <2>1, <2>2
<1>3. UNCHANGED merges => TasksOK'
  BY <1>1 DEF TasksOK
<1>4. UNCHANGED <<forward, pool, conn, refused>> => PoolOK' /\ PoolInv'
  <2>1. ASSUME UNCHANGED <<forward, pool, conn, refused>>  PROVE PoolOK'
    BY <1>1, <2>1 DEF PoolOK
  <2>2. ASSUME UNCHANGED <<forward, pool, conn, refused>>  PROVE PoolInv'
    BY <1>1, <2>2 DEF PoolInv, Made, Connecting
  <2>3. QED
    BY <2>1, <2>2
<1>5. TableOK' /\ TasksOK' /\ LoopOK' /\ PoolOK' /\ PoolInv' => FedInv'
  <2>1. TypeOK' <=> TableOK' /\ TasksOK' /\ LoopOK' /\ PoolOK'
    BY TypeParts, PTL
  <2>2. QED
    BY <2>1 DEF FedInv
<1>6. TableOK' /\ TasksOK' /\ PoolOK' /\ PoolInv' /\ TableStep
  <2>1. ASSUME NEW l \in PeerLists, ReceivePeerList(l)
        PROVE  TableOK' /\ TasksOK' /\ PoolOK' /\ PoolInv' /\ TableStep
    <3>1. UNCHANGED <<known, peer>> /\ UNCHANGED <<forward, pool, conn, refused>>
      BY <2>1 DEF ReceivePeerList, tableVars, poolVars
    <3>2. QED
      BY <1>1, <1>2, <1>4, <2>1, <3>1, ListTasks
  <2>2. ASSUME NEW p \in Peers, ReceiveHeartbeat(p)
        PROVE  TableOK' /\ TasksOK' /\ PoolOK' /\ PoolInv' /\ TableStep
    <3>1. UNCHANGED merges /\ UNCHANGED <<forward, pool, conn, refused>>
      BY <2>2 DEF ReceiveHeartbeat, poolVars
    <3>2. QED
      BY <1>1, <1>3, <1>4, <2>2, <3>1, HeartbeatTable
  <2>3. CASE Merge
    <3>1. UNCHANGED <<forward, pool, conn, refused>>
      BY <2>3 DEF Merge, poolVars
    <3>2. QED
      BY <1>1, <1>4, <2>3, <3>1, MergeTable
  <2>4. CASE Prune
    <3>1. UNCHANGED merges /\ UNCHANGED <<forward, pool, conn, refused>>
      BY <2>4 DEF Prune, poolVars
    <3>2. QED
      BY <1>1, <1>3, <1>4, <2>4, <3>1, PruneTable
  <2>5. CASE HeartbeatsSent \/ ClientHolds \/ ClientReads
    <3>1. UNCHANGED <<known, peer>> /\ UNCHANGED merges /\ UNCHANGED <<forward, pool, conn, refused>>
      BY <2>5 DEF HeartbeatsSent, ClientHolds, ClientReads, tableVars, poolVars
    <3>2. QED
      BY <1>2, <1>3, <1>4, <3>1
  <2>6. CASE Tick
    <3>1. UNCHANGED merges /\ UNCHANGED <<forward, pool, conn, refused>>
      BY <2>6 DEF Tick, poolVars
    <3>2. QED
      BY <1>1, <1>3, <1>4, <2>6, <3>1, TickTable
  <2>7. ASSUME NEW f \in Forwards, NEW target \in Targets, NEW ttl \in 0 .. MaxTtl,
               ReceiveForward(f, target, ttl)
        PROVE  TableOK' /\ TasksOK' /\ PoolOK' /\ PoolInv' /\ TableStep
    <3>1. UNCHANGED <<known, peer>> /\ UNCHANGED merges
      BY <2>7 DEF ReceiveForward, tableVars
    <3>2. QED
      BY <1>1, <1>2, <1>3, <2>7, <3>1, ReceiveForwardPool
  <2>8. ASSUME NEW f \in Forwards, LookUp(f)
        PROVE  TableOK' /\ TasksOK' /\ PoolOK' /\ PoolInv' /\ TableStep
    <3>1. UNCHANGED <<known, peer>> /\ UNCHANGED merges
      BY <2>8 DEF LookUp, tableVars
    <3>2. QED
      BY <1>1, <1>2, <1>3, <2>8, <3>1, LookUpPool
  <2>9. ASSUME NEW f \in Forwards, NoRoute(f) \/ NotConnected(f) \/ SendForward(f)
        PROVE  TableOK' /\ TasksOK' /\ PoolOK' /\ PoolInv' /\ TableStep
    <3>1. UNCHANGED <<known, peer>> /\ UNCHANGED merges
      BY <2>9 DEF NoRoute, NotConnected, SendForward, tableVars
    <3>2. /\ forward' = [forward EXCEPT ![f] = NoForward] /\ pool' = pool /\ conn' = conn
      BY <2>9 DEF NoRoute, NotConnected, SendForward, poolVars
    <3>3. refused' \in BOOLEAN
      <4>1. refused \in BOOLEAN
        BY <1>1 DEF PoolOK
      <4>2. \/ refused' = refused
            \/ refused' = (refused \/ (conn[forward[f].client].alive
                                        /\ ConnectionKey(forward[f].client) # SigningKey))
        BY <2>9 DEF NoRoute, NotConnected, SendForward
      <4>3. QED
        BY <4>1, <4>2
    <3>4. QED
      BY <1>1, <1>2, <1>3, <3>1, <3>2, <3>3, ForwardEnds
  <2>10. ASSUME NEW f \in Forwards, NEW c \in Clients, Connected(f, c)
        PROVE  TableOK' /\ TasksOK' /\ PoolOK' /\ PoolInv' /\ TableStep
    <3>1. UNCHANGED <<known, peer>> /\ UNCHANGED merges
      BY <2>10 DEF Connected, tableVars
    <3>2. QED
      BY <1>1, <1>2, <1>3, <2>10, <3>1, ConnectedPool
  <2>11. ASSUME NEW a \in Addrs, PeerCloses(a)
         PROVE  TableOK' /\ TasksOK' /\ PoolOK' /\ PoolInv' /\ TableStep
    <3>1. UNCHANGED <<known, peer>> /\ UNCHANGED merges
      BY <2>11 DEF PeerCloses, tableVars
    <3>2. QED
      BY <1>1, <1>2, <1>3, <2>11, <3>1, PeerClosesPool
  <2>12. CASE UNCHANGED vars
    <3>1. UNCHANGED <<known, peer>> /\ UNCHANGED merges /\ UNCHANGED <<forward, pool, conn, refused>>
      BY <2>12 DEF vars, tableVars, poolVars
    <3>2. QED
      BY <1>2, <1>3, <1>4, <3>1
  <2>13. QED
    BY <2>1, <2>2, <2>3, <2>4, <2>5, <2>6, <2>7, <2>8, <2>9, <2>10, <2>11, <2>12 DEF Next
<1>7. LoopOK'
  <2>1. ASSUME loop' = loop \/ loop' \in {"asleep", "sending", "held"}  PROVE LoopOK'
    BY <1>1, <2>1 DEF LoopOK
  <2>2. CASE Prune \/ HeartbeatsSent \/ ClientHolds \/ ClientReads
    BY <2>1, <2>2 DEF Prune, HeartbeatsSent, ClientHolds, ClientReads
  <2>3. CASE ~ (Prune \/ HeartbeatsSent \/ ClientHolds \/ ClientReads)
    BY <2>1, <2>3 DEF Next, vars, ReceivePeerList, ReceiveHeartbeat, Merge, Tick,
       ReceiveForward, LookUp, NoRoute, NotConnected, SendForward, Connected, PeerCloses
  <2>4. QED
    BY <2>2, <2>3
<1>8. QED
  BY <1>5, <1>6, <1>7

\* The invariant holds in every state of the router.
THEOREM FedInvariant == Spec => []FedInv
<1>1. FedInv /\ [Next]_vars => FedInv'
  BY NextFedInv
<1>2. QED
  BY <1>1, InitFedInv, PTL DEF Spec

\* No peer is in the routing table twice or without a record, the table holds no
\* more than MAX_PEERS, and the router never merges itself (add_or_update_peer).
THEOREM TypesCorrect == Spec => []TypeOK
<1>1. FedInv => TypeOK
  BY DEF FedInv
<1>2. QED
  BY <1>1, FedInvariant, PTL

\* Neither pruning nor a full table takes a peer that has been heard of within the
\* timeout (HeartbeatManager.loop, add_or_update_peer).
THEOREM LivePeersStay == Spec => LiveStay
<1>1. FedInv /\ [Next]_vars =>
        [\A p \in Peers : InTable(p) /\ ~ InTable(p)' => ~ Alive(p)]_vars
  BY NextFedInv DEF TableStep
<1>2. QED
  BY <1>1, FedInvariant, PTL DEF Spec, LiveStay

\* There are never more connections to one address than forwards that run at once,
\* though they are made without the pool's lock (get_outbound_connection).
THEOREM ConnectionsBounded == Spec => []FewConnections
<1>1. FedInv => FewConnections
  <2> SUFFICES ASSUME FedInv, NEW a \in Addrs
               PROVE  Cardinality({c \in Clients : conn[c].addr = a}) <= Cardinality(Forwards)
    BY DEF FewConnections
  <2>1. Cardinality(Made(a)) + Cardinality(Connecting(a)) <= Cardinality(Forwards)
    BY DEF FedInv, PoolInv
  <2>2. Cardinality(Made(a)) <= Cardinality(Forwards)
    BY <2>1, FiniteCounts
  <2>3. QED
    BY <2>2 DEF Made
<1>2. QED
  BY <1>1, FedInvariant, PTL

=============================================================================
