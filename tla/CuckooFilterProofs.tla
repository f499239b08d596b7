-------------------------- MODULE CuckooFilterProofs --------------------------
(***************************************************************************)
(* Proofs about CuckooFilter: what its exclusive or and its powers of 2 are,   *)
(* that rebuilding hands back every entry, and the filter's invariants, for     *)
(* any items, hashes, bucket and table sizes.                                   *)
(***************************************************************************)
EXTENDS CuckooFilter, TLAPS, FiniteSetTheorems, WellFoundedInduction

\* Every set of numbers that is not empty has a least one.
LEMMA LeastNumber ==
    ASSUME NEW S \in SUBSET Nat, S # {}
    PROVE  \E least \in S : \A n \in S : least <= n
<1>1. PICK least \in S : \A n \in S : <<n, least>> \notin OpToRel(<, Nat)
  BY NatLessThanWellFounded, WFMin
<1>2. \A n \in S : ~ (n < least)
  BY <1>1 DEF OpToRel
<1>3. QED
  BY <1>2

-----------------------------------------------------------------------------
\* Half of a number.
LEMMA Halves ==
    ASSUME NEW n \in Nat
    PROVE  /\ n \div 2 \in Nat /\ n % 2 \in {0, 1} /\ n = 2 * (n \div 2) + (n % 2)
           /\ n # 0 => n \div 2 < n
           /\ n \div 2 <= n
  OBVIOUS

\* A number put together from its half and its last bit.
LEMMA HalfOfSum ==
    ASSUME NEW b \in {0, 1}, NEW n \in Nat
    PROVE  (b + 2 * n) \div 2 = n /\ (b + 2 * n) % 2 = b
<1>1. CASE b = 0
  BY <1>1
<1>2. CASE b = 1
  BY <1>2
<1>3. QED
  BY <1>1, <1>2

\* Row i of the table of exclusive ors, from the row of half of i.
XorRow(i, half) ==
    [j \in Nat |-> IF i = 0 \/ j = 0 THEN i + j ELSE ((i + j) % 2) + 2 * half[j \div 2]]

\* The row of 0 needs no other.
LEMMA XorRowZero ==
    ASSUME NEW f, NEW g
    PROVE  XorRow(0, f) = XorRow(0, g)
  BY DEF XorRow

\* xor holds the first rows of the table.
XorUpTo(xor, n) == xor = [i \in 0 .. n |-> XorRow(i, xor[i \div 2])]

\* The equation of one of these rows.
LEMMA XorUpToAt ==
    ASSUME NEW xor, NEW n \in Nat, XorUpTo(xor, n), NEW i \in 0 .. n
    PROVE  xor[i] = XorRow(i, xor[i \div 2])
  BY DEF XorUpTo

\* The recursion of Xor can be carried as far as one likes.
LEMMA XorUpToExists == \A n \in Nat : \E xor : XorUpTo(xor, n)
<1> DEFINE Missing == {n \in Nat : ~ \E xor : XorUpTo(xor, n)}
<1> SUFFICES ASSUME Missing # {}  PROVE FALSE
  OBVIOUS
<1>1. PICK n \in Missing : \A m \in Missing : n <= m
  <2> HIDE DEF Missing
  <2>1. Missing \in SUBSET Nat
    BY DEF Missing
  <2>2. QED
    BY <2>1, LeastNumber
<1>2. CASE n = 0
  <2> DEFINE xor == [i \in 0 .. 0 |-> XorRow(0, 0)]
  <2>1. xor = [i \in 0 .. 0 |-> XorRow(i, xor[i \div 2])]
    <3>1. \A i \in 0 .. 0 : XorRow(i, xor[i \div 2]) = XorRow(0, 0)
      BY XorRowZero
    <3> HIDE DEF xor
    <3>2. [i \in 0 .. 0 |-> XorRow(i, xor[i \div 2])] = [i \in 0 .. 0 |-> XorRow(0, 0)]
      BY <3>1
    <3>3. QED
      BY <3>2 DEF xor
  <2>2. QED
    BY <1>1, <1>2, <2>1 DEF XorUpTo
<1>3. CASE n # 0
  <2>1. n - 1 \in Nat /\ n - 1 \notin Missing
    BY <1>1, <1>3
  <2>2. PICK xor : XorUpTo(xor, n - 1)
    BY <2>1
  <2> DEFINE more == [i \in 0 .. n |-> IF i = n THEN XorRow(n, xor[n \div 2]) ELSE xor[i]]
  <2>3. \A i \in 0 .. n : i # 0 => i \div 2 \in 0 .. n - 1
    BY <1>3, Halves
  <2>4. \A i \in 0 .. n - 1 : more[i] = xor[i]
    OBVIOUS
  <2>5. ASSUME NEW i \in 0 .. n
        PROVE  more[i] = XorRow(i, more[i \div 2])
    <3>1. XorRow(i, more[i \div 2]) = XorRow(i, xor[i \div 2])
      <4> HIDE DEF more
      <4>1. CASE i = 0
        BY <4>1, XorRowZero
      <4>2. CASE i # 0
        BY <4>2, <2>3, <2>4
      <4>3. QED
        BY <4>1, <4>2
    <3>2. CASE i = n
      BY <3>1, <3>2
    <3>3. CASE i # n
      <4>1. i \in 0 .. n - 1
        BY <3>3
      <4> HIDE DEF more
      <4>2. xor[i] = XorRow(i, xor[i \div 2])
        BY <2>1, <2>2, <4>1, XorUpToAt
      <4>3. QED
        BY <3>1, <2>4, <4>1, <4>2
    <3>4. QED
      BY <3>2, <3>3
  <2>6. more = [i \in 0 .. n |-> more[i]]
    OBVIOUS
  <2> HIDE DEF more
  <2>7. more = [i \in 0 .. n |-> XorRow(i, more[i \div 2])]
    BY <2>5, <2>6
  <2>8. QED
    BY <1>1, <2>7 DEF XorUpTo
<1>4. QED
  BY <1>2, <1>3

\* However far it is carried, it gives the same rows.
LEMMA XorUpToAgree ==
    ASSUME NEW n \in Nat, NEW m \in Nat, NEW x, NEW y, XorUpTo(x, n), XorUpTo(y, m),
           NEW i \in 0 .. n, i <= m
    PROVE  x[i] = y[i]
<1> DEFINE Differ == {k \in 0 .. i : x[k] # y[k]}
<1> SUFFICES ASSUME Differ # {}  PROVE FALSE
  OBVIOUS
<1>1. PICK k \in Differ : \A p \in Differ : k <= p
  <2> HIDE DEF Differ
  <2>1. Differ \in SUBSET Nat
    BY DEF Differ
  <2>2. QED
    BY <2>1, LeastNumber
<1>3. x[k] = XorRow(k, x[k \div 2]) /\ y[k] = XorRow(k, y[k \div 2])
  BY <1>1, XorUpToAt
<1>4. CASE k = 0
  BY <1>1, <1>3, <1>4, XorRowZero
<1>5. CASE k # 0
  <2>1. k \div 2 \in 0 .. i /\ k \div 2 < k
    BY <1>1, <1>5, Halves
  <2>2. x[k \div 2] = y[k \div 2]
    BY <1>1, <2>1
  <2>3. QED
    BY <1>1, <1>3, <2>2
<1>6. QED
  BY <1>4, <1>5

XorTable(xor) == [i \in Nat |-> XorRow(i, xor[i \div 2])]

\* The recursion of Xor defines a function.
LEMMA XorDefined == Xor = XorTable(Xor)
<1> DEFINE xor(n) == CHOOSE x : XorUpTo(x, n)
           all == [i \in Nat |-> xor(i)[i]]
<1>1. \A n \in Nat : XorUpTo(xor(n), n)
  BY XorUpToExists, Zenon
<1> HIDE DEF xor
<1>2. ASSUME NEW i \in Nat
      PROVE  all[i] = XorRow(i, all[i \div 2])
  <2>1. i \div 2 \in Nat /\ i \div 2 <= i
    BY Halves
  <2>2. all[i] = xor(i)[i] /\ all[i \div 2] = xor(i \div 2)[i \div 2]
    BY <2>1
  <2> HIDE DEF all
  <2>3. xor(i \div 2)[i \div 2] = xor(i)[i \div 2]
    <3>1. XorUpTo(xor(i \div 2), i \div 2) /\ XorUpTo(xor(i), i)
      BY <1>1, <2>1
    <3>2. QED
      BY <3>1, <2>1, XorUpToAgree
  <2>4. xor(i)[i] = XorRow(i, xor(i)[i \div 2])
    BY <1>1, XorUpToAt
  <2>5. QED
    BY <2>2, <2>3, <2>4
<1>3. all = [i \in Nat |-> all[i]]
  OBVIOUS
<1> HIDE DEF all
<1>4. all = XorTable(all)
  BY <1>2, <1>3 DEF XorTable
<1>5. Xor = CHOOSE x : x = XorTable(x)
  BY DEF Xor, XorTable, XorRow
<1>6. QED
  BY <1>4, <1>5, Zenon

\* The equation of Xor at one pair of numbers.
LEMMA XorAt ==
    ASSUME NEW i \in Nat, NEW j \in Nat
    PROVE  Xor[i][j] = IF i = 0 \/ j = 0 THEN i + j
                       ELSE ((i + j) % 2) + 2 * Xor[i \div 2][j \div 2]
<1>1. Xor[i] = XorRow(i, Xor[i \div 2])
  <2>1. Xor[i] = XorTable(Xor)[i]
    BY XorDefined
  <2>2. QED
    BY <2>1 DEF XorTable
<1>2. XorRow(i, Xor[i \div 2])[j] = IF i = 0 \/ j = 0 THEN i + j
                       ELSE ((i + j) % 2) + 2 * Xor[i \div 2][j \div 2]
  BY DEF XorRow
<1>3. QED
  BY <1>1, <1>2

\* Exclusive or of numbers is a number.
LEMMA XorType == \A i, j \in Nat : Xor[i][j] \in Nat
<1> DEFINE Bad == {i \in Nat : \E j \in Nat : Xor[i][j] \notin Nat}
<1> SUFFICES ASSUME Bad # {}  PROVE FALSE
  OBVIOUS
<1>1. PICK i \in Bad : \A k \in Bad : i <= k
  <2> HIDE DEF Bad
  <2>1. Bad \in SUBSET Nat
    BY DEF Bad
  <2>2. QED
    BY <2>1, LeastNumber
<1>2. PICK j \in Nat : Xor[i][j] \notin Nat
  BY <1>1
<1>3. i # 0 /\ j # 0 /\ Xor[i][j] = ((i + j) % 2) + 2 * Xor[i \div 2][j \div 2]
  BY <1>1, <1>2, XorAt
<1>4. i \div 2 \in Nat /\ i \div 2 < i /\ j \div 2 \in Nat
  BY <1>1, <1>3, Halves
<1>5. Xor[i \div 2][j \div 2] \in Nat
  BY <1>1, <1>4
<1>6. QED
  BY <1>1, <1>2, <1>3, <1>5

\* Of a number with itself nothing is left.
LEMMA XorSelf == \A i \in Nat : Xor[i][i] = 0
<1> DEFINE Bad == {i \in Nat : Xor[i][i] # 0}
<1> SUFFICES ASSUME Bad # {}  PROVE FALSE
  OBVIOUS
<1>1. PICK i \in Bad : \A k \in Bad : i <= k
  <2> HIDE DEF Bad
  <2>1. Bad \in SUBSET Nat
    BY DEF Bad
  <2>2. QED
    BY <2>1, LeastNumber
<1>2. i # 0 /\ Xor[i][i] = ((i + i) % 2) + 2 * Xor[i \div 2][i \div 2]
  <2>1. i \in Nat /\ Xor[i][i] # 0
    BY <1>1
  <2>2. Xor[i][i] = IF i = 0 \/ i = 0 THEN i + i
                    ELSE ((i + i) % 2) + 2 * Xor[i \div 2][i \div 2]
    BY <2>1, XorAt
  <2>3. QED
    BY <2>1, <2>2
<1>3. i \div 2 \in Nat /\ i \div 2 < i
  BY <1>1, <1>2, Halves
<1>4. Xor[i \div 2][i \div 2] = 0
  BY <1>1, <1>3
<1>5. (i + i) % 2 = 0
  BY <1>1
<1>6. QED
  BY <1>1, <1>2, <1>4, <1>5

\* The last bit of a sum is that of the sum of the last bits.
LEMMA LastBits ==
    ASSUME NEW i \in Nat, NEW j \in Nat, NEW b, b = (i + j) % 2
    PROVE  (b + j) % 2 = i % 2
<1>1. PICK p \in Nat, q \in {0, 1} : i = q + 2 * p /\ p = i \div 2 /\ q = i % 2
  BY Halves
<1>2. PICK r \in Nat, s \in {0, 1} : j = s + 2 * r /\ r = j \div 2 /\ s = j % 2
  BY Halves
<1>3. CASE q = 0 /\ s = 0
  BY <1>1, <1>2, <1>3
<1>4. CASE q = 0 /\ s = 1
  BY <1>1, <1>2, <1>4
<1>5. CASE q = 1 /\ s = 0
  BY <1>1, <1>2, <1>5
<1>6. CASE q = 1 /\ s = 1
  BY <1>1, <1>2, <1>6
<1>7. QED
  BY <1>1, <1>2, <1>3, <1>4, <1>5, <1>6

\* Exclusive or with the same number twice leads back.
LEMMA XorBack == \A i, j \in Nat : Xor[Xor[i][j]][j] = i
<1> DEFINE Bad == {i \in Nat : \E j \in Nat : Xor[Xor[i][j]][j] # i}
<1> SUFFICES ASSUME Bad # {}  PROVE FALSE
  OBVIOUS
<1>1. PICK i \in Bad : \A k \in Bad : i <= k
  <2> HIDE DEF Bad
  <2>1. Bad \in SUBSET Nat
    BY DEF Bad
  <2>2. QED
    BY <2>1, LeastNumber
<1>2. PICK j \in Nat : Xor[Xor[i][j]][j] # i
  BY <1>1
<1>3. i \in Nat
  BY <1>1
<1>4. CASE j = 0
  <2>1. Xor[i][0] = i
    BY <1>3, XorAt
  <2>2. QED
    BY <1>2, <1>4, <2>1
<1>5. CASE i = 0
  <2>1. Xor[0][j] = j /\ Xor[j][j] = 0
    BY XorAt, XorSelf
  <2>2. QED
    BY <1>2, <1>5, <2>1
<1>6. CASE i # 0 /\ j # 0
  <2> DEFINE x == Xor[i \div 2][j \div 2]
             b == (i + j) % 2
             y == Xor[i][j]
  <2>1. i \div 2 \in Nat /\ i \div 2 < i /\ j \div 2 \in Nat /\ i = 2 * (i \div 2) + (i % 2)
    BY <1>3, <1>6, Halves
  <2>2. x \in Nat /\ b \in {0, 1} /\ y = b + 2 * x /\ y \in Nat
    <3>1. x \in Nat /\ y \in Nat
      BY <1>3, <2>1, XorType
    <3>2. y = b + 2 * x
      BY <1>3, <1>6, XorAt
    <3>3. b \in {0, 1}
      BY <1>3, Halves
    <3>4. QED
      BY <3>1, <3>2, <3>3
  <2>3. Xor[x][j \div 2] = i \div 2
    BY <1>1, <2>1
  <2>4. (b + j) % 2 = i % 2
    BY <1>3, LastBits
  <2> HIDE DEF x, b, y
  <2>5. y \div 2 = x /\ y % 2 = b
    BY <2>2, HalfOfSum
  <2>6. CASE y = 0
    <3>1. b = 0 /\ x = 0
      BY <2>2, <2>6
    <3>2. Xor[0][j \div 2] = j \div 2
      BY <2>1, XorAt
    <3>3. i \div 2 = j \div 2 /\ j % 2 = i % 2
      BY <2>3, <2>4, <3>1, <3>2
    <3>4. i = j
      BY <2>1, <3>3, Halves
    <3>5. Xor[0][j] = j
      BY XorAt
    <3>6. QED
      BY <1>2, <2>6, <3>4, <3>5 DEF y
  <2>7. CASE y # 0
    <3>1. Xor[y][j] = ((y + j) % 2) + 2 * Xor[y \div 2][j \div 2]
      BY <1>6, <2>2, <2>7, XorAt
    <3>2. (y + j) % 2 = (b + j) % 2
      BY <2>2
    <3>3. Xor[y][j] = i
      BY <2>1, <2>3, <2>4, <2>5, <3>1, <3>2
    <3>4. QED
      BY <1>2, <3>3 DEF y
  <2>8. QED
    BY <2>6, <2>7
<1>7. QED
  BY <1>3, <1>4, <1>5, <1>6

-----------------------------------------------------------------------------
\* pow holds the first powers of 2; and the equations that define them all.
PowUpTo(pow, n) == pow = [i \in 0 .. n |-> IF i = 0 THEN 1 ELSE 2 * pow[i - 1]]
PowTable(pow) == [i \in Nat |-> IF i = 0 THEN 1 ELSE 2 * pow[i - 1]]

\* The equation at one of the first numbers.
LEMMA PowUpToAt ==
    ASSUME NEW pow, NEW n \in Nat, PowUpTo(pow, n), NEW i \in 0 .. n
    PROVE  pow[i] = IF i = 0 THEN 1 ELSE 2 * pow[i - 1]
  BY DEF PowUpTo

\* The recursion of Pow2 can be carried as far as one likes.
LEMMA PowUpToExists == \A n \in Nat : \E pow : PowUpTo(pow, n)
<1> DEFINE Missing == {n \in Nat : ~ \E pow : PowUpTo(pow, n)}
<1> SUFFICES ASSUME Missing # {}  PROVE FALSE
  OBVIOUS
<1>1. PICK n \in Missing : \A m \in Missing : n <= m
  <2> HIDE DEF Missing
  <2>1. Missing \in SUBSET Nat
    BY DEF Missing
  <2>2. QED
    BY <2>1, LeastNumber
<1>2. CASE n = 0
  <2> DEFINE pow == [i \in 0 .. 0 |-> 1]
  <2>1. PowUpTo(pow, 0)
    BY DEF PowUpTo
  <2>2. QED
    BY <1>1, <1>2, <2>1
<1>3. CASE n # 0
  <2>1. n - 1 \in Nat /\ n - 1 \notin Missing
    BY <1>1, <1>3
  <2>2. PICK pow : PowUpTo(pow, n - 1)
    BY <2>1
  <2> DEFINE more == [i \in 0 .. n |-> IF i = n THEN 2 * pow[n - 1] ELSE pow[i]]
  <2>3. \A i \in 0 .. n - 1 : more[i] = pow[i]
    OBVIOUS
  <2>4. ASSUME NEW i \in 0 .. n
        PROVE  more[i] = IF i = 0 THEN 1 ELSE 2 * more[i - 1]
    <3>1. CASE i = n
      <4>1. more[n] = 2 * pow[n - 1] /\ more[n - 1] = pow[n - 1]
        BY <1>3, <2>1
      <4> HIDE DEF more
      <4>2. QED
        BY <1>3, <3>1, <4>1
    <3>2. CASE i # n
      <4>1. i \in 0 .. n - 1
        BY <3>2
      <4> HIDE DEF more
      <4>2. pow[i] = IF i = 0 THEN 1 ELSE 2 * pow[i - 1]
        BY <2>1, <2>2, <4>1, PowUpToAt
      <4>3. i # 0 => i - 1 \in 0 .. n - 1
        BY <4>1
      <4>4. QED
        BY <2>3, <4>1, <4>2, <4>3
    <3>3. QED
      BY <3>1, <3>2
  <2>5. more = [i \in 0 .. n |-> more[i]]
    OBVIOUS
  <2> HIDE DEF more
  <2>6. more = [i \in 0 .. n |-> IF i = 0 THEN 1 ELSE 2 * more[i - 1]]
    BY <2>4, <2>5
  <2>7. QED
    BY <1>1, <2>6 DEF PowUpTo
<1>4. QED
  BY <1>2, <1>3

\* However far it is carried, it gives the same powers.
LEMMA PowUpToAgree ==
    ASSUME NEW n \in Nat, NEW m \in Nat, NEW x, NEW y, PowUpTo(x, n), PowUpTo(y, m),
           NEW i \in 0 .. n, i <= m
    PROVE  x[i] = y[i]
<1> DEFINE Differ == {k \in 0 .. i : x[k] # y[k]}
<1> SUFFICES ASSUME Differ # {}  PROVE FALSE
  OBVIOUS
<1>1. PICK k \in Differ : \A p \in Differ : k <= p
  <2> HIDE DEF Differ
  <2>1. Differ \in SUBSET Nat
    BY DEF Differ
  <2>2. QED
    BY <2>1, LeastNumber
<1>2. /\ x[k] = IF k = 0 THEN 1 ELSE 2 * x[k - 1]
      /\ y[k] = IF k = 0 THEN 1 ELSE 2 * y[k - 1]
  BY <1>1, PowUpToAt
<1>3. k # 0 => k - 1 \in 0 .. i /\ k - 1 \notin Differ
  BY <1>1
<1>4. QED
  BY <1>1, <1>2, <1>3

\* The recursion of Pow2 defines a function.
LEMMA PowDefined == Pow2 = PowTable(Pow2)
<1> DEFINE pow(n) == CHOOSE x : PowUpTo(x, n)
           all == [i \in Nat |-> pow(i)[i]]
<1>1. \A n \in Nat : PowUpTo(pow(n), n)
  BY PowUpToExists, Zenon
<1> HIDE DEF pow
<1>2. ASSUME NEW i \in Nat
      PROVE  all[i] = IF i = 0 THEN 1 ELSE 2 * all[i - 1]
  <2>1. pow(i)[i] = IF i = 0 THEN 1 ELSE 2 * pow(i)[i - 1]
    BY <1>1, PowUpToAt
  <2>2. CASE i = 0
    BY <2>1, <2>2
  <2>3. CASE i # 0
    <3>1. i - 1 \in Nat /\ i - 1 \in 0 .. i - 1 /\ i - 1 <= i
      BY <2>3
    <3>2. PowUpTo(pow(i - 1), i - 1) /\ PowUpTo(pow(i), i)
      BY <1>1, <3>1
    <3>3. pow(i - 1)[i - 1] = pow(i)[i - 1]
      BY <3>1, <3>2, PowUpToAgree
    <3>4. all[i] = pow(i)[i] /\ all[i - 1] = pow(i - 1)[i - 1]
      BY <3>1
    <3> HIDE DEF all
    <3>5. QED
      BY <2>1, <2>3, <3>3, <3>4
  <2>4. QED
    BY <2>2, <2>3
<1>3. all = [i \in Nat |-> all[i]]
  OBVIOUS
<1> HIDE DEF all
<1>4. all = PowTable(all)
  BY <1>2, <1>3 DEF PowTable
<1>5. Pow2 = CHOOSE x : x = PowTable(x)
  BY DEF Pow2, PowTable
<1>6. QED
  BY <1>4, <1>5, Zenon

\* The equations of Pow2.
LEMMA PowAt == Pow2[0] = 1 /\ \A n \in Nat : Pow2[n + 1] = 2 * Pow2[n]
<1>1. Pow2[0] = 1
  BY PowDefined DEF PowTable
<1>2. ASSUME NEW n \in Nat  PROVE Pow2[n + 1] = 2 * Pow2[n]
  <2>1. n + 1 \in Nat /\ n + 1 # 0 /\ (n + 1) - 1 = n
    OBVIOUS
  <2>2. Pow2[n + 1] = PowTable(Pow2)[n + 1]
    BY PowDefined
  <2>3. QED
    BY <2>1, <2>2 DEF PowTable
<1>3. QED
  BY <1>1, <1>2

\* Powers of 2 are numbers above 0.
LEMMA PowType == \A n \in Nat : Pow2[n] \in Nat \ {0}
<1> DEFINE Bad == {n \in Nat : Pow2[n] \notin Nat \ {0}}
<1> SUFFICES ASSUME Bad # {}  PROVE FALSE
  OBVIOUS
<1>1. PICK n \in Bad : \A k \in Bad : n <= k
  <2> HIDE DEF Bad
  <2>1. Bad \in SUBSET Nat
    BY DEF Bad
  <2>2. QED
    BY <2>1, LeastNumber
<1>2. CASE n = 0
  BY <1>1, <1>2, PowAt
<1>3. CASE n # 0
  <2>1. n - 1 \in Nat /\ n - 1 \notin Bad /\ n = (n - 1) + 1
    BY <1>1, <1>3
  <2>2. Pow2[n] = 2 * Pow2[n - 1]
    BY <2>1, PowAt
  <2>3. QED
    BY <1>1, <2>1, <2>2
<1>4. QED
  BY <1>2, <1>3

\* More doublings make no smaller number.
LEMMA PowMonotone ==
    ASSUME NEW m \in Nat, NEW k \in Nat, k <= m
    PROVE  Pow2[k] <= Pow2[m]
<1> DEFINE Bad == {d \in 0 .. m : Pow2[m - d] > Pow2[m]}
<1>1. ASSUME Bad # {}  PROVE FALSE
  <2>1. PICK d \in Bad : \A e \in Bad : d <= e
    <3> HIDE DEF Bad
    <3>1. Bad \in SUBSET Nat
      BY DEF Bad
    <3>2. QED
      BY <1>1, <3>1, LeastNumber
  <2>2. d # 0
    BY <2>1, PowType
  <2>3. d - 1 \in 0 .. m /\ d - 1 \notin Bad
    BY <2>1, <2>2
  <2>4. m - d \in Nat /\ m - (d - 1) = (m - d) + 1
    BY <2>1
  <2>5. Pow2[m - (d - 1)] = 2 * Pow2[m - d]
    BY <2>4, PowAt
  <2>6. Pow2[m - d] \in Nat /\ Pow2[m] \in Nat
    BY <2>4, PowType
  <2>7. QED
    BY <2>1, <2>3, <2>5, <2>6
<1>2. m - k \in 0 .. m /\ m - (m - k) = k /\ Pow2[k] \in Nat /\ Pow2[m] \in Nat
  BY PowType
<1>3. m - k \notin Bad
  BY <1>1
<1>4. QED
  BY <1>2, <1>3

\* Of two powers of 2 the larger is at least twice the smaller.
LEMMA PowGrows ==
    ASSUME NEW m \in Nat, NEW n \in Nat, Pow2[m] < Pow2[n]
    PROVE  2 * Pow2[m] <= Pow2[n]
<1>1. Pow2[m] \in Nat /\ Pow2[n] \in Nat
  BY PowType
<1>2. m + 1 <= n
  <2>1. n <= m => Pow2[n] <= Pow2[m]
    BY PowMonotone
  <2>2. QED
    BY <1>1, <2>1
<1>3. Pow2[m + 1] <= Pow2[n]
  BY <1>2, PowMonotone
<1>4. QED
  BY <1>3, PowAt

\* Exclusive or sets no bit above those of its operands.
LEMMA XorBound ==
    \A n \in Nat : \A i, j \in 0 .. Pow2[n] - 1 : Xor[i][j] \in 0 .. Pow2[n] - 1
<1> DEFINE Bad == {n \in Nat : \E i, j \in 0 .. Pow2[n] - 1 : Xor[i][j] \notin 0 .. Pow2[n] - 1}
<1> SUFFICES ASSUME Bad # {}  PROVE FALSE
  OBVIOUS
<1>1. PICK n \in Bad : \A k \in Bad : n <= k
  <2> HIDE DEF Bad
  <2>1. Bad \in SUBSET Nat
    BY DEF Bad
  <2>2. QED
    BY <2>1, LeastNumber
<1>2. PICK i \in 0 .. Pow2[n] - 1, j \in 0 .. Pow2[n] - 1 : Xor[i][j] \notin 0 .. Pow2[n] - 1
  BY <1>1
<1>3. n \in Nat /\ Pow2[n] \in Nat /\ i \in Nat /\ j \in Nat
  BY <1>1, PowType
<1>4. i # 0 /\ j # 0 /\ Xor[i][j] = ((i + j) % 2) + 2 * Xor[i \div 2][j \div 2]
  BY <1>2, <1>3, XorAt
<1>5. n # 0
  BY <1>2, <1>3, <1>4, PowAt
<1>6. n - 1 \in Nat /\ n - 1 \notin Bad /\ n = (n - 1) + 1
  BY <1>1, <1>3, <1>5
<1>7. Pow2[n] = 2 * Pow2[n - 1] /\ Pow2[n - 1] \in Nat
  BY <1>6, PowAt, PowType
<1>8. i \div 2 \in 0 .. Pow2[n - 1] - 1 /\ j \div 2 \in 0 .. Pow2[n - 1] - 1
  BY <1>2, <1>3, <1>7
<1>9. Xor[i \div 2][j \div 2] \in 0 .. Pow2[n - 1] - 1
  BY <1>6, <1>8
<1>10. (i + j) % 2 \in {0, 1}
  BY <1>3, Halves
<1>11. QED
  BY <1>2, <1>4, <1>7, <1>9, <1>10
-----------------------------------------------------------------------------
(* Counting the copies of an item. *)

Positions(seq, x) == {n \in DOMAIN seq : seq[n] = x}

\* A sequence holds a number of copies of an item.
LEMMA PositionsFinite ==
    ASSUME NEW seq \in Seq(Items), NEW x
    PROVE  /\ IsFiniteSet(Positions(seq, x))
           /\ Copies(seq, x) = Cardinality(Positions(seq, x)) /\ Copies(seq, x) \in Nat
<1>1. IsFiniteSet(1 .. Len(seq))
  BY FS_Interval
<1>2. Positions(seq, x) \in SUBSET (1 .. Len(seq))
  BY DEF Positions
<1>3. IsFiniteSet(Positions(seq, x))
  BY <1>1, <1>2, FS_Subset
<1>4. Copies(seq, x) = Cardinality(Positions(seq, x))
  BY DEF Copies, Positions
<1>5. QED
  BY <1>3, <1>4, FS_CardinalityType

\* Two sequences after one another hold the copies of both.
LEMMA CopiesConcat ==
    ASSUME NEW a \in Seq(Items), NEW b \in Seq(Items), NEW x
    PROVE  Copies(a \o b, x) = Copies(a, x) + Copies(b, x)
<1> DEFINE A == Positions(a, x)
           B == Positions(b, x)
           Moved == {n \in Len(a) + 1 .. Len(a) + Len(b) : (a \o b)[n] = x}
           move == [n \in B |-> Len(a) + n]
<1>1. /\ a \o b \in Seq(Items) /\ Len(a \o b) = Len(a) + Len(b)
      /\ \A n \in 1 .. Len(a) : (a \o b)[n] = a[n]
      /\ \A n \in 1 .. Len(b) : (a \o b)[Len(a) + n] = b[n]
  OBVIOUS
<1>2. Positions(a \o b, x) = A \cup Moved /\ A \cap Moved = {}
  <2>1. DOMAIN (a \o b) = 1 .. Len(a) + Len(b) /\ DOMAIN a = 1 .. Len(a)
    BY <1>1
  <2>2. A = {n \in 1 .. Len(a) : (a \o b)[n] = x}
    BY <1>1, <2>1 DEF Positions
  <2>3. Positions(a \o b, x) = {n \in 1 .. Len(a) + Len(b) : (a \o b)[n] = x}
    BY <2>1 DEF Positions
  <2> HIDE DEF A
  <2>4. QED
    BY <2>2, <2>3
<1>3. move \in Bijection(B, Moved)
  <2>1. \A n \in B : n \in 1 .. Len(b) /\ b[n] = x
    BY DEF Positions
  <2>2. \A n \in B : Len(a) + n \in Moved
    BY <1>1, <2>1
  <2>3. \A m \in Moved : m - Len(a) \in B /\ Len(a) + (m - Len(a)) = m
    <3>1. ASSUME NEW m \in Moved  PROVE m - Len(a) \in B /\ Len(a) + (m - Len(a)) = m
      <4>1. m - Len(a) \in 1 .. Len(b) /\ Len(a) + (m - Len(a)) = m
        OBVIOUS
      <4>2. b[m - Len(a)] = x
        BY <1>1, <4>1
      <4>3. QED
        BY <4>1, <4>2 DEF Positions
    <3>2. QED
      BY <3>1
  <2>4. \A m, n \in B : Len(a) + m = Len(a) + n => m = n
    BY <2>1
  <2> HIDE DEF B, Moved
  <2>5. move \in [B -> Moved]
    BY <2>2
  <2>6. \A m, n \in B : move[m] = move[n] => m = n
    BY <2>4
  <2>7. \A m \in Moved : \E n \in B : move[n] = m
    BY <2>3
  <2> HIDE DEF move
  <2>8. QED
    BY <2>5, <2>6, <2>7 DEF Bijection, Injection, Surjection, IsInjective
<1>4. IsFiniteSet(A) /\ IsFiniteSet(B)
  BY PositionsFinite
<1>5. IsFiniteSet(Moved) /\ Cardinality(Moved) = Cardinality(B)
  <2> HIDE DEF B, Moved, move
  <2>1. QED
    BY <1>3, <1>4, FS_Bijection DEF ExistsBijection
<1>6. Cardinality(A \cup Moved) = Cardinality(A) + Cardinality(B)
  <2> HIDE DEF A, B, Moved
  <2>1. Cardinality(A \cup Moved) = Cardinality(A) + Cardinality(Moved) - Cardinality(A \cap Moved)
    BY <1>4, <1>5, FS_Union
  <2>2. Cardinality(A) \in Nat /\ Cardinality(B) \in Nat
    BY <1>4, FS_CardinalityType
  <2>3. Cardinality(A \cap Moved) = 0
    BY <1>2, FS_EmptySet
  <2>4. QED
    BY <1>5, <2>1, <2>2, <2>3
<1>7. QED
  <2>1. Copies(a \o b, x) = Cardinality(Positions(a \o b, x))
    BY <1>1, PositionsFinite
  <2> HIDE DEF Moved
  <2>2. QED
    BY <1>2, <1>6, <2>1, PositionsFinite

\* The tables the filter may have.
Tables == {t \in [BucketNos -> Seq(Items)] : \A i \in BucketNos : Len(t[i]) <= Slots}

\* Where a table holds copies of an item, among the first so many buckets.
Spots(t, k, x) ==
    {p \in BucketNos \X (1 .. Slots) :
        p[1] < k /\ p[2] <= Len(t[p[1]]) /\ t[p[1]][p[2]] = x}
TableCopies(t, k, x) == Cardinality(Spots(t, k, x))

\* A table holds a number of copies of an item.
LEMMA SpotsFinite ==
    ASSUME NEW t, NEW k, NEW x
    PROVE  IsFiniteSet(Spots(t, k, x)) /\ TableCopies(t, k, x) \in Nat
<1>1. IsFiniteSet(BucketNos) /\ IsFiniteSet(1 .. Slots)
  <2>1. 0 \in Int /\ 1 \in Int /\ MaxBuckets - 1 \in Int /\ Slots \in Int
    BY SizesAssumption
  <2>2. QED
    BY <2>1, FS_Interval DEF BucketNos
<1>2. IsFiniteSet(BucketNos \X (1 .. Slots))
  BY <1>1, FS_Product
<1>3. Spots(t, k, x) \in SUBSET (BucketNos \X (1 .. Slots))
  BY DEF Spots
<1>4. IsFiniteSet(Spots(t, k, x))
  BY <1>2, <1>3, FS_Subset
<1>5. QED
  BY <1>4, FS_CardinalityType DEF TableCopies

\* One bucket more holds the copies of that bucket more.
LEMMA SpotsNext ==
    ASSUME NEW t \in Tables, NEW k \in BucketNos, NEW x
    PROVE  TableCopies(t, k + 1, x) = TableCopies(t, k, x) + Copies(t[k], x)
<1> DEFINE S == Spots(t, k, x)
           P == Positions(t[k], x)
           Bucket == {p \in Spots(t, k + 1, x) : p[1] = k}
           in == [n \in P |-> <<k, n>>]
<1>1. t[k] \in Seq(Items) /\ Len(t[k]) \in 0 .. Slots /\ DOMAIN t[k] = 1 .. Len(t[k])
  BY SizesAssumption DEF Tables
<1>2. Spots(t, k + 1, x) = S \cup Bucket /\ S \cap Bucket = {}
  <2>1. \A p \in BucketNos \X (1 .. Slots) : p[1] < k + 1 <=> p[1] < k \/ p[1] = k
    BY SizesAssumption DEF BucketNos
  <2>2. QED
    BY <2>1, SizesAssumption DEF Spots, BucketNos
<1>3. in \in Bijection(P, Bucket)
  <2>1. \A n \in P : n \in 1 .. Slots /\ n <= Len(t[k]) /\ t[k][n] = x
    BY <1>1, SizesAssumption DEF Positions
  <2>2. \A n \in P : <<k, n>> \in Bucket
    BY <2>1, SizesAssumption DEF Spots, BucketNos
  <2>3. ASSUME NEW p \in Bucket  PROVE \E n \in P : p = <<k, n>>
    <3>1. p = <<k, p[2]>> /\ p[2] \in 1 .. Len(t[k]) /\ t[k][p[2]] = x
      BY <1>1, SizesAssumption DEF Spots
    <3>2. QED
      BY <1>1, <3>1 DEF Positions
  <2> HIDE DEF P, Bucket
  <2>4. in \in [P -> Bucket]
    BY <2>2
  <2>5. \A m, n \in P : in[m] = in[n] => m = n
    OBVIOUS
  <2>6. \A p \in Bucket : \E n \in P : in[n] = p
    BY <2>3
  <2> HIDE DEF in
  <2>7. QED
    BY <2>4, <2>5, <2>6 DEF Bijection, Injection, Surjection, IsInjective
<1>4. IsFiniteSet(P) /\ IsFiniteSet(S) /\ Copies(t[k], x) = Cardinality(P) /\ Cardinality(P) \in Nat
      /\ Cardinality(S) \in Nat
  BY <1>1, PositionsFinite, SpotsFinite, FS_CardinalityType
<1> HIDE DEF S, P, Bucket, in
<1>5. IsFiniteSet(Bucket) /\ Cardinality(Bucket) = Cardinality(P)
  BY <1>3, <1>4, FS_Bijection DEF ExistsBijection
<1>6. Cardinality(S \cup Bucket) = Cardinality(S) + Cardinality(Bucket) - Cardinality(S \cap Bucket)
  BY <1>4, <1>5, FS_Union
<1>7. Cardinality(S \cap Bucket) = 0
  BY <1>2, FS_EmptySet
<1>8. Cardinality(S \cup Bucket) = Cardinality(S) + Copies(t[k], x)
  BY <1>4, <1>5, <1>6, <1>7
<1>9. QED
  BY <1>2, <1>8 DEF TableCopies, S

-----------------------------------------------------------------------------
(* FlattenSeq: the entries that a rebuild inserts again. *)

\* f holds the first n sequences of s put together, for each n up to k.
JoinedUpTo(f, s, k) == f = [i \in 1 .. k |-> IF i = 1 THEN s[i] ELSE f[i - 1] \o s[i]]

\* One sequence more is put behind those before it.
LEMMA JoinedUpToAt ==
    ASSUME NEW f, NEW s, NEW k \in Nat, JoinedUpTo(f, s, k), NEW i \in 1 .. k
    PROVE  f[i] = IF i = 1 THEN s[i] ELSE f[i - 1] \o s[i]
  BY DEF JoinedUpTo

\* Any number of sequences can be put together.
LEMMA JoinedUpToExists == \A s : \A k \in Nat : \E f : JoinedUpTo(f, s, k)
<1> SUFFICES ASSUME NEW s  PROVE \A k \in Nat : \E f : JoinedUpTo(f, s, k)
  OBVIOUS
<1> DEFINE Missing == {k \in Nat : ~ \E f : JoinedUpTo(f, s, k)}
<1> SUFFICES ASSUME Missing # {}  PROVE FALSE
  OBVIOUS
<1>1. PICK k \in Missing : \A m \in Missing : k <= m
  <2> HIDE DEF Missing
  <2>1. Missing \in SUBSET Nat
    BY DEF Missing
  <2>2. QED
    BY <2>1, LeastNumber
<1>2. CASE k = 0
  <2> DEFINE f == [i \in 1 .. 0 |-> s]
  <2>1. JoinedUpTo(f, s, 0)
    BY DEF JoinedUpTo
  <2>2. QED
    BY <1>1, <1>2, <2>1
<1>3. CASE k # 0
  <2>1. k - 1 \in Nat /\ k - 1 \notin Missing
    BY <1>1, <1>3
  <2>2. PICK f : JoinedUpTo(f, s, k - 1)
    BY <2>1
  <2> DEFINE more == [i \in 1 .. k |-> IF i < k THEN f[i]
                                      ELSE IF i = 1 THEN s[i] ELSE f[i - 1] \o s[i]]
  <2>3. \A i \in 1 .. k - 1 : more[i] = f[i]
    BY <2>1
  <2>4. ASSUME NEW i \in 1 .. k
        PROVE  more[i] = IF i = 1 THEN s[i] ELSE more[i - 1] \o s[i]
    <3>1. i # 1 => i - 1 \in 1 .. k - 1
      BY <2>1
    <3>2. CASE i = k
      <4>1. more[i] = IF i = 1 THEN s[i] ELSE f[i - 1] \o s[i]
        BY <3>2
      <4> HIDE DEF more
      <4>2. QED
        BY <2>3, <3>1, <4>1
    <3>3. CASE i # k
      <4>1. i \in 1 .. k - 1
        BY <3>3
      <4> HIDE DEF more
      <4>2. f[i] = IF i = 1 THEN s[i] ELSE f[i - 1] \o s[i]
        BY <2>1, <2>2, <4>1, JoinedUpToAt
      <4>3. QED
        BY <2>3, <3>1, <4>1, <4>2
    <3>4. QED
      BY <3>2, <3>3
  <2>5. more = [i \in 1 .. k |-> more[i]]
    OBVIOUS
  <2> HIDE DEF more
  <2>6. more = [i \in 1 .. k |-> IF i = 1 THEN s[i] ELSE more[i - 1] \o s[i]]
    BY <2>4, <2>5
  <2>7. QED
    BY <1>1, <2>6 DEF JoinedUpTo
<1>4. QED
  BY <1>2, <1>3

\* FlattenSeq puts all the sequences together.
LEMMA FlattenJoins ==
    ASSUME NEW s, Len(s) \in Nat, Len(s) # 0
    PROVE  \E f : JoinedUpTo(f, s, Len(s)) /\ FlattenSeq(s) = f[Len(s)]
<1> DEFINE Joined(f) == [i \in 1 .. Len(s) |-> IF i = 1 THEN s[i] ELSE f[i - 1] \o s[i]]
           flatten == CHOOSE f : f = Joined(f)
<1>1. FlattenSeq(s) = flatten[Len(s)]
  BY Zenon DEF FlattenSeq
<1>2. \E f : f = Joined(f)
  BY JoinedUpToExists DEF JoinedUpTo
<1> HIDE DEF Joined
<1>3. flatten = Joined(flatten)
  BY <1>2, Zenon
<1> HIDE DEF flatten
<1>4. JoinedUpTo(flatten, s, Len(s))
  BY <1>3 DEF JoinedUpTo, Joined
<1>5. QED
  BY <1>1, <1>4

\* Joining the buckets of a table one by one gathers the copies of each item.
LEMMA JoinedCopies ==
    ASSUME NEW t \in Tables, NEW n \in 1 .. MaxBuckets, NEW f,
           JoinedUpTo(f, [i \in 1 .. n |-> t[i - 1]], n), NEW x
    PROVE  \A k \in 1 .. n : f[k] \in Seq(Items) /\ Copies(f[k], x) = TableCopies(t, k, x)
<1> DEFINE s == [i \in 1 .. n |-> t[i - 1]]
           Right(k) == f[k] \in Seq(Items) /\ Copies(f[k], x) = TableCopies(t, k, x)
           Bad == {k \in 1 .. n : ~ Right(k)}
<1>n. n \in Nat
  BY SizesAssumption
<1> SUFFICES ASSUME Bad # {}  PROVE FALSE
  OBVIOUS
<1>1. PICK k \in Bad : \A m \in Bad : k <= m
  <2> HIDE DEF Bad
  <2>1. Bad \in SUBSET Nat
    BY DEF Bad
  <2>2. QED
    BY <2>1, LeastNumber
<1>2. k \in 1 .. n /\ k - 1 \in BucketNos /\ (k - 1) + 1 = k /\ t[k - 1] \in Seq(Items)
  <2>1. k \in 1 .. n
    BY <1>1
  <2>2. k - 1 \in BucketNos /\ (k - 1) + 1 = k
    BY <2>1, SizesAssumption DEF BucketNos
  <2>3. t[k - 1] \in Seq(Items)
    BY <2>2 DEF Tables
  <2>4. QED
    BY <2>1, <2>2, <2>3
<1>3. f[k] = IF k = 1 THEN s[k] ELSE f[k - 1] \o s[k]
  <2> HIDE DEF s, Bad
  <2>1. JoinedUpTo(f, s, n)
    BY DEF s
  <2>2. QED
    BY <1>n, <1>2, <2>1, JoinedUpToAt
<1>4. s[k] = t[k - 1]
  BY <1>2
<1>5. TableCopies(t, k, x) = TableCopies(t, k - 1, x) + Copies(t[k - 1], x)
  <2> DEFINE j == k - 1
  <2>1. j \in BucketNos /\ j + 1 = k
    BY <1>2
  <2> HIDE DEF j
  <2>2. TableCopies(t, j + 1, x) = TableCopies(t, j, x) + Copies(t[j], x)
    BY <2>1, SpotsNext
  <2>3. QED
    BY <2>1, <2>2 DEF j
<1>6. CASE k = 1
  <2>1. TableCopies(t, 0, x) = 0
    <3>1. Spots(t, 0, x) = {}
      BY SizesAssumption DEF Spots, BucketNos
    <3>2. QED
      BY <3>1, FS_EmptySet DEF TableCopies
  <2>2. Copies(t[k - 1], x) \in Nat
    BY <1>2, PositionsFinite
  <2>3. f[k] = t[k - 1] /\ TableCopies(t, k, x) = Copies(t[k - 1], x)
    BY <1>3, <1>4, <1>5, <1>6, <2>1, <2>2
  <2>4. QED
    BY <1>1, <1>2, <2>3
<1>7. CASE k # 1
  <2>1. Right(k - 1)
    BY <1>1, <1>2, <1>7
  <2>2. f[k] = f[k - 1] \o t[k - 1]
    BY <1>3, <1>4, <1>7
  <2>3. Copies(f[k], x) = Copies(f[k - 1], x) + Copies(t[k - 1], x)
    BY <1>2, <2>1, <2>2, CopiesConcat
  <2>4. f[k] \in Seq(Items)
    BY <1>2, <2>1, <2>2
  <2>5. QED
    BY <1>1, <1>5, <2>1, <2>3, <2>4
<1>8. QED
  BY <1>6, <1>7

\* What a rebuild is given is what the table holds, no entry less and none twice.
THEOREM EntriesAreAll ==
    ASSUME table \in Tables, buckets \in 1 .. MaxBuckets,
           \A i \in BucketNos : i >= buckets => table[i] = << >>
    PROVE  /\ Entries \in Seq(Items)
           /\ \A x \in Items : Copies(Entries, x) = TableCopies(table, MaxBuckets, x)
<1> DEFINE s == [i \in 1 .. buckets |-> table[i - 1]]
<1>1. buckets \in Nat /\ buckets # 0
  BY SizesAssumption
<1>2. Len(s) = buckets
  <2>1. \A i \in 1 .. buckets : table[i - 1] \in Seq(Items)
    <3>1. \A i \in 1 .. buckets : i - 1 \in BucketNos
      BY SizesAssumption DEF BucketNos
    <3>2. QED
      BY <3>1 DEF Tables
  <2>2. s \in Seq(Seq(Items))
    BY <1>1, <2>1
  <2>3. QED
    BY <1>1, <2>2
<1> HIDE DEF s
<1>3. PICK f : JoinedUpTo(f, s, Len(s)) /\ FlattenSeq(s) = f[Len(s)]
  BY <1>1, <1>2, FlattenJoins
<1>4. Entries = f[buckets] /\ JoinedUpTo(f, s, buckets)
  BY <1>2, <1>3 DEF Entries, s
<1>5. \A x : f[buckets] \in Seq(Items) /\ Copies(f[buckets], x) = TableCopies(table, buckets, x)
  <2>1. buckets \in 1 .. buckets
    BY <1>1
  <2>2. ASSUME NEW x
        PROVE  f[buckets] \in Seq(Items) /\ Copies(f[buckets], x) = TableCopies(table, buckets, x)
    <3>1. JoinedUpTo(f, [i \in 1 .. buckets |-> table[i - 1]], buckets)
      BY <1>4 DEF s
    <3>2. QED
      BY <2>1, <3>1, JoinedCopies
  <2>3. QED
    BY <2>2
<1>6. \A x : TableCopies(table, buckets, x) = TableCopies(table, MaxBuckets, x)
  <2>1. ASSUME NEW x, NEW p \in Spots(table, MaxBuckets, x)  PROVE p[1] < buckets
    <3>1. p[1] \in BucketNos /\ p[2] \in 1 .. Slots /\ p[2] <= Len(table[p[1]])
      BY <2>1 DEF Spots
    <3>2. table[p[1]] # << >>
      BY <3>1, SizesAssumption
    <3>3. QED
      BY <1>1, <3>1, <3>2, SizesAssumption DEF BucketNos
  <2>2. ASSUME NEW x  PROVE Spots(table, buckets, x) = Spots(table, MaxBuckets, x)
    <3>1. Spots(table, MaxBuckets, x) \subseteq Spots(table, buckets, x)
      BY <2>1 DEF Spots
    <3>2. Spots(table, buckets, x) \subseteq Spots(table, MaxBuckets, x)
      BY SizesAssumption DEF Spots, BucketNos
    <3>3. QED
      BY <3>1, <3>2
  <2>3. QED
    BY <2>2 DEF TableCopies
<1>7. QED
  BY <1>4, <1>5, <1>6

-----------------------------------------------------------------------------
(* The buckets of an item. *)

\* Both buckets of an item are buckets of the table, and from each of them
\* Alternate leads to the other.
LEMMA Alternates ==
    ASSUME hash \in [Items -> Hashes], NEW n \in Nat, buckets = Pow2[n], NEW x \in Items
    PROVE  /\ Home(x) \in 0 .. buckets - 1
           /\ \A i \in 0 .. buckets - 1 : /\ Alternate(x, i) \in 0 .. buckets - 1
                                          /\ Alternate(x, Alternate(x, i)) = i
<1>1. buckets \in Nat \ {0}
  BY PowType
<1>2. hash[x].first \in Nat /\ hash[x].mask \in Nat
  <2>1. hash[x] \in Hashes
    OBVIOUS
  <2>2. hash[x].first \in 0 .. MaxBuckets - 1 /\ hash[x].mask \in 0 .. MaxBuckets - 1
    BY <2>1, HashesAssumption
  <2>3. QED
    BY <2>2, SizesAssumption
<1>3. hash[x].first % buckets \in 0 .. buckets - 1 /\ hash[x].mask % buckets \in 0 .. buckets - 1
  BY <1>1, <1>2
<1>4. \A i, j \in 0 .. buckets - 1 : Xor[i][j] \in 0 .. buckets - 1
  BY XorBound
<1>5. \A i, j \in 0 .. buckets - 1 : Xor[Xor[i][j]][j] = i
  BY <1>1, XorBack
<1>6. QED
  BY <1>3, <1>4, <1>5 DEF Home, Alternate

\* Every entry of a table is in one of its buckets.
InPlace(t) ==
    \A i \in BucketNos : \A n \in DOMAIN t[i] :
        i \in {Home(t[i][n]), Alternate(t[i][n], Home(t[i][n]))}

One(x, y) == IF x = y THEN 1 ELSE 0

-----------------------------------------------------------------------------
(* What appending and replacing an entry do to a table. *)

Appended(t, i, y) == [t EXCEPT ![i] = Append(@, y)]
Replaced(t, i, n, y) == [t EXCEPT ![i][n] = y]

\* An entry that a bucket has room for is one copy of its item more, and in
\* place when the bucket is one of its two.
LEMMA EntryAppended ==
    ASSUME NEW t \in Tables, NEW i \in BucketNos, Len(t[i]) < Slots, NEW y \in Items
    PROVE  LET u == Appended(t, i, y) IN
           /\ u \in Tables
           /\ \A x : TableCopies(u, MaxBuckets, x) = TableCopies(t, MaxBuckets, x) + One(x, y)
           /\ InPlace(t) /\ i \in {Home(y), Alternate(y, Home(y))} => InPlace(u)
           /\ \A j \in BucketNos \ {i} : u[j] = t[j]
<1> DEFINE s == <<i, Len(t[i]) + 1>>
           u == Appended(t, i, y)
<1>0. u = [t EXCEPT ![i] = Append(@, y)]
  BY DEF Appended
<1> HIDE DEF u
<1>1. /\ t \in [BucketNos -> Seq(Items)] /\ Len(t[i]) \in Nat /\ Slots \in Nat
      /\ \A j \in BucketNos : Len(t[j]) <= Slots
  BY SizesAssumption DEF Tables
<1>2. /\ u \in [BucketNos -> Seq(Items)]
      /\ u[i] = Append(t[i], y) /\ Len(u[i]) = Len(t[i]) + 1
      /\ \A j \in BucketNos \ {i} : u[j] = t[j]
      /\ \A n \in 1 .. Len(t[i]) : u[i][n] = t[i][n]
      /\ u[i][Len(t[i]) + 1] = y
  BY <1>0, <1>1
<1>3. u \in Tables
  BY <1>1, <1>2 DEF Tables
<1>4. ASSUME NEW x
      PROVE  TableCopies(u, MaxBuckets, x) = TableCopies(t, MaxBuckets, x) + One(x, y)
  <2> DEFINE S == Spots(t, MaxBuckets, x)
             U == Spots(u, MaxBuckets, x)
  <2>1. s \in BucketNos \X (1 .. Slots) /\ s[1] = i /\ s[2] = Len(t[i]) + 1
    BY <1>1
  <2>2. \A p \in BucketNos \X (1 .. Slots) : p # s =>
          /\ p[2] <= Len(u[p[1]]) <=> p[2] <= Len(t[p[1]])
          /\ p[2] <= Len(t[p[1]]) => u[p[1]][p[2]] = t[p[1]][p[2]]
    <3>1. ASSUME NEW p \in BucketNos \X (1 .. Slots), p # s
          PROVE  /\ p[2] <= Len(u[p[1]]) <=> p[2] <= Len(t[p[1]])
                 /\ p[2] <= Len(t[p[1]]) => u[p[1]][p[2]] = t[p[1]][p[2]]
      <4>1. p = <<p[1], p[2]>> /\ p[1] \in BucketNos /\ p[2] \in 1 .. Slots
        OBVIOUS
      <4>2. CASE p[1] = i
        <5>1. p[2] # Len(t[i]) + 1 /\ p[2] \in Nat /\ p[2] >= 1
          BY <3>1, <4>1, <4>2, <1>1
        <5>2. QED
          BY <4>2, <5>1, <1>1, <1>2
      <4>3. CASE p[1] # i
        BY <4>1, <4>3, <1>2
      <4>4. QED
        BY <4>2, <4>3
    <3>2. QED
      BY <3>1
  <2>3. s \notin S
    BY <1>1, <2>1 DEF Spots
  <2>4. s \in U <=> x = y
    <3>1. s[1] < MaxBuckets /\ s[2] <= Len(u[s[1]]) /\ u[s[1]][s[2]] = y
      BY <1>1, <1>2, <2>1, SizesAssumption DEF BucketNos
    <3> HIDE DEF s
    <3>2. QED
      BY <2>1, <3>1 DEF Spots
  <2> HIDE DEF s
  <2>5. \A p : p # s => (p \in U <=> p \in S)
    BY <2>2 DEF Spots
  <2>6. IsFiniteSet(S) /\ Cardinality(S) \in Nat
    BY SpotsFinite DEF TableCopies
  <2> HIDE DEF S, U
  <2>7. CASE x = y
    <3>1. U = S \cup {s}
      BY <2>4, <2>5, <2>7
    <3>2. Cardinality(U) = Cardinality(S) + 1
      BY <2>3, <2>6, <3>1, FS_AddElement
    <3>3. QED
      BY <2>7, <3>2 DEF TableCopies, One, S, U
  <2>8. CASE x # y
    <3>1. U = S
      <4>1. \A p : p \in U <=> p \in S
        BY <2>3, <2>4, <2>5, <2>8, Zenon
      <4>2. QED
        BY <4>1, Zenon
    <3>2. QED
      BY <2>6, <2>8, <3>1 DEF TableCopies, One, S, U
  <2>9. QED
    BY <2>7, <2>8
<1>5. ASSUME InPlace(t), i \in {Home(y), Alternate(y, Home(y))}
      PROVE  InPlace(u)
  <2>1. ASSUME NEW j \in BucketNos, NEW n \in DOMAIN u[j]
        PROVE  j \in {Home(u[j][n]), Alternate(u[j][n], Home(u[j][n]))}
    <3>1. CASE j # i
      BY <1>2, <1>5, <2>1, <3>1 DEF InPlace
    <3>2. CASE j = i /\ n = Len(t[i]) + 1
      BY <1>2, <1>5, <3>2
    <3>3. CASE j = i /\ n # Len(t[i]) + 1
      <4>1. n \in 1 .. Len(t[i]) /\ n \in DOMAIN t[i]
        BY <1>1, <1>2, <2>1, <3>3
      <4>2. u[j][n] = t[i][n]
        BY <1>2, <3>3, <4>1
      <4>3. QED
        BY <1>5, <3>3, <4>1, <4>2 DEF InPlace
    <3>4. QED
      BY <3>1, <3>2, <3>3
  <2>2. QED
    BY <2>1 DEF InPlace
<1>6. QED
  BY <1>2, <1>3, <1>4, <1>5 DEF u

\* Where one entry takes the place of another, one copy comes and one goes.
LEMMA EntryReplaced ==
    ASSUME NEW t \in Tables, NEW i \in BucketNos, NEW n \in DOMAIN t[i], NEW y \in Items
    PROVE  LET u == Replaced(t, i, n, y) IN
           /\ u \in Tables /\ Len(u[i]) = Len(t[i])
           /\ \A x : TableCopies(u, MaxBuckets, x) + One(x, t[i][n])
                        = TableCopies(t, MaxBuckets, x) + One(x, y)
           /\ InPlace(t) /\ i \in {Home(y), Alternate(y, Home(y))} => InPlace(u)
           /\ \A j \in BucketNos \ {i} : u[j] = t[j]
<1> DEFINE s == <<i, n>>
           u == Replaced(t, i, n, y)
<1>0. u = [t EXCEPT ![i][n] = y]
  BY DEF Replaced
<1> HIDE DEF u
<1>1. /\ t \in [BucketNos -> Seq(Items)] /\ Len(t[i]) \in Nat /\ Slots \in Nat
      /\ \A j \in BucketNos : Len(t[j]) <= Slots
      /\ n \in 1 .. Len(t[i])
  BY SizesAssumption DEF Tables
<1>2. /\ u \in [BucketNos -> Seq(Items)]
      /\ Len(u[i]) = Len(t[i]) /\ u[i][n] = y
      /\ \A j \in BucketNos \ {i} : u[j] = t[j]
      /\ \A m \in 1 .. Len(t[i]) : m # n => u[i][m] = t[i][m]
  <2>1. /\ [t[i] EXCEPT ![n] = y] \in Seq(Items) /\ Len([t[i] EXCEPT ![n] = y]) = Len(t[i])
        /\ [t[i] EXCEPT ![n] = y][n] = y
        /\ \A m \in 1 .. Len(t[i]) : m # n => [t[i] EXCEPT ![n] = y][m] = t[i][m]
    BY <1>1
  <2>2. u[i] = [t[i] EXCEPT ![n] = y] /\ \A j \in BucketNos \ {i} : u[j] = t[j]
    BY <1>0, <1>1
  <2>3. u \in [BucketNos -> Seq(Items)]
    <3>1. u = [j \in BucketNos |-> u[j]]
      BY <1>0, <1>1
    <3>2. \A j \in BucketNos : u[j] \in Seq(Items)
      BY <1>1, <2>1, <2>2
    <3>3. QED
      BY <3>1, <3>2
  <2>4. QED
    BY <2>1, <2>2, <2>3
<1>3. u \in Tables
  BY <1>1, <1>2 DEF Tables
<1>4. ASSUME NEW x
      PROVE  TableCopies(u, MaxBuckets, x) + One(x, t[i][n])
                = TableCopies(t, MaxBuckets, x) + One(x, y)
  <2> DEFINE S == Spots(t, MaxBuckets, x)
             U == Spots(u, MaxBuckets, x)
  <2>1. s \in BucketNos \X (1 .. Slots) /\ s[1] = i /\ s[2] = n
    BY <1>1
  <2>2. \A p \in BucketNos \X (1 .. Slots) : p # s =>
          /\ p[2] <= Len(u[p[1]]) <=> p[2] <= Len(t[p[1]])
          /\ p[2] <= Len(t[p[1]]) => u[p[1]][p[2]] = t[p[1]][p[2]]
    <3>1. ASSUME NEW p \in BucketNos \X (1 .. Slots), p # s
          PROVE  /\ p[2] <= Len(u[p[1]]) <=> p[2] <= Len(t[p[1]])
                 /\ p[2] <= Len(t[p[1]]) => u[p[1]][p[2]] = t[p[1]][p[2]]
      <4>1. p = <<p[1], p[2]>> /\ p[1] \in BucketNos /\ p[2] \in 1 .. Slots
        OBVIOUS
      <4>2. CASE p[1] = i
        <5>1. p[2] # n /\ p[2] \in Nat /\ p[2] >= 1
          BY <3>1, <4>1, <4>2, <1>1
        <5>2. QED
          BY <4>2, <5>1, <1>1, <1>2
      <4>3. CASE p[1] # i
        BY <4>1, <4>3, <1>2
      <4>4. QED
        BY <4>2, <4>3
    <3>2. QED
      BY <3>1
  <2>3. (s \in S <=> x = t[i][n]) /\ (s \in U <=> x = y)
    <3>1. /\ s[1] < MaxBuckets /\ s[2] <= Len(u[s[1]]) /\ u[s[1]][s[2]] = y
          /\ s[2] <= Len(t[s[1]]) /\ t[s[1]][s[2]] = t[i][n]
      BY <1>1, <1>2, <2>1, SizesAssumption DEF BucketNos
    <3> HIDE DEF s
    <3>2. QED
      BY <2>1, <3>1 DEF Spots
  <2> HIDE DEF s
  <2>4. \A p : p # s => (p \in U <=> p \in S)
    BY <2>2 DEF Spots
  <2>5. /\ IsFiniteSet(S) /\ Cardinality(S) \in Nat
        /\ IsFiniteSet(U) /\ Cardinality(U) \in Nat
    BY SpotsFinite DEF TableCopies
  <2> HIDE DEF S, U
  <2>6. S \ {s} = U \ {s}
    BY <2>4
  <2>7. /\ Cardinality(S \ {s}) = IF s \in S THEN Cardinality(S) - 1 ELSE Cardinality(S)
        /\ Cardinality(U \ {s}) = IF s \in U THEN Cardinality(U) - 1 ELSE Cardinality(U)
    BY <2>5, FS_RemoveElement
  <2>8. Cardinality(S) - One(x, t[i][n]) = Cardinality(U) - One(x, y)
    BY <2>3, <2>5, <2>6, <2>7 DEF One
  <2>9. QED
    BY <2>5, <2>8 DEF TableCopies, S, U, One
<1>5. ASSUME InPlace(t), i \in {Home(y), Alternate(y, Home(y))}
      PROVE  InPlace(u)
  <2>1. ASSUME NEW j \in BucketNos, NEW m \in DOMAIN u[j]
        PROVE  j \in {Home(u[j][m]), Alternate(u[j][m], Home(u[j][m]))}
    <3>1. CASE j # i
      BY <1>2, <1>5, <2>1, <3>1 DEF InPlace
    <3>2. CASE j = i /\ m = n
      BY <1>2, <1>5, <3>2
    <3>3. CASE j = i /\ m # n
      <4>1. m \in 1 .. Len(t[i]) /\ m \in DOMAIN t[i]
        BY <1>1, <1>2, <2>1, <3>3
      <4>2. u[j][m] = t[i][m]
        BY <1>2, <3>3, <4>1
      <4>3. QED
        BY <1>5, <3>3, <4>1, <4>2 DEF InPlace
    <3>4. QED
      BY <3>1, <3>2, <3>3
  <2>2. QED
    BY <2>1 DEF InPlace
<1>6. QED
  BY <1>2, <1>3, <1>4, <1>5 DEF u

-----------------------------------------------------------------------------
(***************************************************************************)
(* The inductive invariant.  That every entry is accounted for depends on      *)
(* where insert and _resize are: which of them holds an item, and that a       *)
(* rebuild is under way exactly while an item is owed.  That an evicted entry  *)
(* is moved to its other bucket depends on the bucket evicted from being one   *)
(* of its two, and on the indices being below a power of 2.                    *)
(***************************************************************************)
Control ==
    /\ pc = "idle" <=> call = NoItem
    /\ pc = "idle" => ~ resizing
    /\ hand \in Items <=> pc \in {"place", "kick", "full"}
    /\ pc = "rebuild" => resizing
    /\ pc = "full" => ~ resizing
    /\ resizing <=> owed \in Items
    /\ ~ resizing => todo = << >>
    /\ call \in Items => begun[call] > 0
    /\ \A x \in accepted : begun[x] > 0

EvictsFromFull ==
    pc = "kick" => /\ cur \in {Home(hand), Alternate(hand, Home(hand))}
                   /\ Len(table[cur]) = Slots

Sized ==
    /\ \E n \in Nat : buckets = Pow2[n]
    /\ \A i \in BucketNos : i >= buckets => table[i] = << >>

Total(x) ==
    TableCopies(table, MaxBuckets, x) + Copies(todo, x) + InHand(x) + Owed(x) + dropped[x]

Counted == \A x \in Items : Total(x) = begun[x]

FilterInv == TypeOK /\ Control /\ EvictsFromFull /\ Sized /\ InPlace(table) /\ Counted

\* The counts are numbers.
LEMMA CountsAreNumbers ==
    ASSUME TypeOK, NEW x \in Items
    PROVE  /\ TableCopies(table, MaxBuckets, x) \in Nat /\ Copies(todo, x) \in Nat
           /\ InHand(x) \in {0, 1} /\ Owed(x) \in {0, 1}
           /\ dropped[x] \in Nat /\ begun[x] \in Nat
  BY SpotsFinite, PositionsFinite, SizesAssumption DEF TypeOK, InHand, Owed

\* Nothing is counted in a table without entries, nor in a list without any.
LEMMA EmptyCounts ==
    /\ Empty \in Tables /\ InPlace(Empty)
    /\ \A x : TableCopies(Empty, MaxBuckets, x) = 0 /\ Copies(<< >>, x) = 0
<1>1. Empty \in Tables
  BY SizesAssumption DEF Empty, Tables
<1>2. InPlace(Empty)
  BY DEF Empty, InPlace
<1>3. ASSUME NEW x  PROVE TableCopies(Empty, MaxBuckets, x) = 0 /\ Copies(<< >>, x) = 0
  <2>1. Spots(Empty, MaxBuckets, x) = {}
    <3>1. \A p \in BucketNos \X (1 .. Slots) : ~ (p[2] <= Len(Empty[p[1]]))
      BY SizesAssumption DEF Empty
    <3>2. QED
      BY <3>1 DEF Spots
  <2>2. {n \in DOMAIN << >> : << >>[n] = x} = {}
    OBVIOUS
  <2>3. QED
    BY <2>1, <2>2, FS_EmptySet DEF TableCopies, Copies
<1>4. QED
  BY <1>1, <1>2, <1>3

\* A new filter is empty, and nothing has been inserted into it.
LEMMA InitFilterInv == Init => FilterInv
<1> SUFFICES ASSUME Init  PROVE FilterInv
  OBVIOUS
<1> USE DEF Init
<1>1. PICK n \in 0 .. MaxBuckets : StartBuckets = Pow2[n] /\ StartBuckets <= MaxBuckets
  BY SizesAssumption
<1>2. StartBuckets \in Nat \ {0}
  BY <1>1, PowType, SizesAssumption
<1>3. MaxBuckets \in Nat \ {0}
  BY <1>1, <1>2, SizesAssumption
<1>4. TypeOK
  <2>1. buckets \in StartBuckets .. MaxBuckets /\ cur \in BucketNos
    BY <1>1, <1>2, <1>3 DEF BucketNos
  <2>2. table \in [BucketNos -> Seq(Items)] /\ \A i \in BucketNos : Len(table[i]) <= Slots
    BY EmptyCounts DEF Tables
  <2>3. 0 \in 0 .. MaxInserts /\ 0 \in 0 .. MaxKicks
    BY SizesAssumption
  <2>4. /\ begun \in [Items -> 0 .. MaxInserts] /\ dropped \in [Items -> 0 .. MaxInserts]
        /\ kicks \in 0 .. MaxKicks
    BY <2>3
  <2>5. QED
    BY <2>1, <2>2, <2>4 DEF TypeOK
<1>5. Control
  BY HashesAssumption DEF Control
<1>6. EvictsFromFull
  BY DEF EvictsFromFull
<1>7. Sized
  BY <1>1, SizesAssumption DEF Sized, Empty
<1>8. Counted
  <2>1. ASSUME NEW x \in Items  PROVE Total(x) = begun[x]
    <3>1. InHand(x) = 0 /\ Owed(x) = 0 /\ dropped[x] = 0 /\ begun[x] = 0
      BY HashesAssumption DEF InHand, Owed
    <3>2. TableCopies(table, MaxBuckets, x) = 0 /\ Copies(todo, x) = 0
      BY EmptyCounts
    <3>3. QED
      BY <3>1, <3>2 DEF Total
  <2>2. QED
    BY <2>1 DEF Counted
<1>9. QED
  BY <1>4, <1>5, <1>6, <1>7, <1>8, EmptyCounts DEF FilterInv

\* insert begins with the item in hand, which is one more to be accounted for.
LEMMA InsertStep ==
    ASSUME FilterInv, NEW x \in Items, Insert(x)
    PROVE  FilterInv'
<1>1. TypeOK'
  <2>1. begun[x] + 1 \in 0 .. MaxInserts
    <3>1. begun[x] \in 0 .. MaxInserts
      BY DEF FilterInv, TypeOK
    <3>2. begun[x] < MaxInserts /\ MaxInserts \in Nat
      BY SizesAssumption DEF Insert
    <3>3. QED
      BY <3>1, <3>2
  <2>2. begun' \in [Items -> 0 .. MaxInserts]
    BY <2>1 DEF FilterInv, Insert, TypeOK
  <2>3. QED
    BY <2>2 DEF FilterInv, Insert, TypeOK
<1>2. Control'
  BY HashesAssumption, SizesAssumption DEF FilterInv, Insert, Control, TypeOK
<1>3. EvictsFromFull' /\ Sized'
  BY DEF FilterInv, Insert, EvictsFromFull, Sized
<1>4. InPlace(table)'
  BY DEF FilterInv, Insert, InPlace, Home, Alternate
<1>5. Counted'
  <2>1. ASSUME NEW y \in Items  PROVE Total(y)' = begun'[y]
    <3>1. /\ TableCopies(table', MaxBuckets, y) = TableCopies(table, MaxBuckets, y)
          /\ Copies(todo', y) = Copies(todo, y)
          /\ Owed(y)' = Owed(y) /\ dropped'[y] = dropped[y]
      BY DEF Insert, Owed
    <3>2. InHand(y) = 0 /\ InHand(y)' = One(y, x) /\ begun'[y] = begun[y] + One(y, x)
      BY HashesAssumption DEF FilterInv, Insert, InHand, One, Control, TypeOK
    <3>3. Total(y) = begun[y]
      BY DEF FilterInv, Counted
    <3>4. Total(y)' = TableCopies(table', MaxBuckets, y) + Copies(todo', y) + InHand(y)'
                        + Owed(y)' + dropped'[y]
      BY DEF Total
    <3>5. /\ TableCopies(table, MaxBuckets, y) \in Nat /\ Copies(todo, y) \in Nat
          /\ Owed(y) \in {0, 1} /\ dropped[y] \in Nat /\ begun[y] \in Nat
      BY CountsAreNumbers DEF FilterInv
    <3>6. Total(y) = TableCopies(table, MaxBuckets, y) + Copies(todo, y) + InHand(y)
                        + Owed(y) + dropped[y]
      BY DEF Total
    <3>7. One(y, x) \in {0, 1}
      BY DEF One
    <3>8. QED
      BY <3>1, <3>2, <3>3, <3>4, <3>5, <3>6, <3>7
  <2>2. QED
    BY <2>1 DEF Counted
<1>6. QED
  BY <1>1, <1>2, <1>3, <1>4, <1>5 DEF FilterInv

\* Total, read as the sum it is, before and after a step.
LEMMA Totals ==
    ASSUME FilterInv, NEW x \in Items
    PROVE  /\ begun[x] = TableCopies(table, MaxBuckets, x) + Copies(todo, x) + InHand(x)
                           + Owed(x) + dropped[x]
           /\ Total(x)' = TableCopies(table', MaxBuckets, x) + Copies(todo', x) + InHand(x)'
                           + Owed(x)' + dropped'[x]
           /\ TableCopies(table, MaxBuckets, x) \in Nat /\ Copies(todo, x) \in Nat
           /\ InHand(x) \in {0, 1} /\ Owed(x) \in {0, 1}
           /\ dropped[x] \in Nat /\ begun[x] \in Nat
  BY CountsAreNumbers DEF FilterInv, Counted, Total

\* The table, and the buckets of the item in hand, in a state of the filter.
LEMMA TableFacts ==
    ASSUME FilterInv
    PROVE  /\ table \in Tables
           /\ buckets \in Nat \ {0} /\ buckets <= MaxBuckets
           /\ 0 .. buckets - 1 \subseteq BucketNos
           /\ \A x \in Items :
                /\ Home(x) \in 0 .. buckets - 1
                /\ \A i \in 0 .. buckets - 1 : /\ Alternate(x, i) \in 0 .. buckets - 1
                                               /\ Alternate(x, Alternate(x, i)) = i
           /\ \A i \in BucketNos : i >= buckets => table[i] = << >>
<1>1. PICK n \in Nat : buckets = Pow2[n]
  BY DEF FilterInv, Sized
<1>2. buckets \in Nat \ {0}
  BY <1>1, PowType
<1>3. StartBuckets \in Nat
  <2>1. PICK k \in 0 .. MaxBuckets : StartBuckets = Pow2[k]
    BY SizesAssumption
  <2>2. QED
    BY <2>1, PowType, SizesAssumption
<1>4. buckets <= MaxBuckets
  BY <1>2, <1>3, SizesAssumption DEF FilterInv, TypeOK
<1>5. \A x \in Items :
        /\ Home(x) \in 0 .. buckets - 1
        /\ \A i \in 0 .. buckets - 1 : /\ Alternate(x, i) \in 0 .. buckets - 1
                                       /\ Alternate(x, Alternate(x, i)) = i
  BY <1>1, Alternates DEF FilterInv, TypeOK
<1>6. table \in Tables
  BY DEF FilterInv, TypeOK, Tables
<1>7. 0 .. buckets - 1 \subseteq BucketNos
  BY <1>2, <1>4, SizesAssumption DEF BucketNos
<1>8. QED
  BY <1>2, <1>4, <1>5, <1>6, <1>7 DEF FilterInv, Sized

\* The item in hand has found its place in the table u.
LEMMA SettlesStep ==
    ASSUME FilterInv, pc \in {"place", "kick"}, NEW u \in Tables, InPlace(u),
           \A i \in BucketNos : i >= buckets => u[i] = << >>,
           \A x \in Items : TableCopies(u, MaxBuckets, x)
                              = TableCopies(table, MaxBuckets, x) + One(x, hand),
           Settles(u),
           UNCHANGED <<hash, buckets, cur, kicks, resizing, owed, todo, begun, dropped>>
    PROVE  FilterInv'
<1>1. hand \in Items /\ call \in Items /\ begun[call] > 0
  BY DEF FilterInv, Control, TypeOK
<1>2. /\ table' = u /\ hand' = NoItem /\ NoItem \notin Items
      /\ \/ resizing /\ pc' = "rebuild" /\ call' = call /\ accepted' = accepted
         \/ ~ resizing /\ pc' = "idle" /\ call' = NoItem /\ accepted' = accepted \cup {call}
  BY HashesAssumption DEF Settles
<1>3. TypeOK'
  BY <1>1, <1>2 DEF FilterInv, TypeOK, Tables
<1>4. Control'
  BY <1>1, <1>2 DEF FilterInv, Control, TypeOK
<1>5. EvictsFromFull' /\ Sized'
  BY <1>2 DEF FilterInv, EvictsFromFull, Sized
<1>6. InPlace(table)'
  BY <1>2 DEF InPlace, Home, Alternate
<1>7. Counted'
  <2>1. ASSUME NEW x \in Items  PROVE Total(x)' = begun'[x]
    <3>1. /\ TableCopies(table', MaxBuckets, x) = TableCopies(table, MaxBuckets, x) + One(x, hand)
          /\ Copies(todo', x) = Copies(todo, x) /\ Owed(x)' = Owed(x)
          /\ dropped'[x] = dropped[x] /\ begun'[x] = begun[x]
      BY <1>2 DEF Owed
    <3>2. InHand(x)' = 0 /\ InHand(x) = One(x, hand)
      BY <1>2 DEF InHand, One
    <3>3. QED
      BY <3>1, <3>2, Totals
  <2>2. QED
    BY <2>1 DEF Counted
<1>8. QED
  BY <1>3, <1>4, <1>5, <1>6, <1>7 DEF FilterInv

\* An item whose bucket has room goes there.
LEMMA PlaceStep ==
    ASSUME FilterInv, Place
    PROVE  FilterInv'
<1>1. pc = "place" /\ hand \in Items
  BY DEF Place, FilterInv, Control
<1>2. PICK b \in {Home(hand), Alternate(hand, Home(hand))} :
         HasRoom(b) /\ Settles([table EXCEPT ![b] = Append(@, hand)])
  BY DEF Place
<1> DEFINE u == Appended(table, b, hand)
<1>3. b \in 0 .. buckets - 1 /\ b \in BucketNos
  BY <1>1, <1>2, TableFacts
<1>4. Len(table[b]) < Slots /\ InPlace(table)
  BY <1>2 DEF HasRoom, FilterInv
<1>5. /\ u \in Tables /\ InPlace(u)
      /\ \A x : TableCopies(u, MaxBuckets, x) = TableCopies(table, MaxBuckets, x) + One(x, hand)
      /\ \A j \in BucketNos \ {b} : u[j] = table[j]
  BY <1>1, <1>2, <1>3, <1>4, TableFacts, EntryAppended
<1>6. Settles(u)
  BY <1>2 DEF Appended
<1> HIDE DEF u
<1>7. \A i \in BucketNos : i >= buckets => u[i] = << >>
  BY <1>3, <1>5, TableFacts, SizesAssumption DEF BucketNos
<1>8. UNCHANGED <<hash, buckets, cur, kicks, resizing, owed, todo, begun, dropped>>
  BY DEF Place
<1>9. QED
  BY <1>1, <1>5, <1>6, <1>7, <1>8, SettlesStep

\* Kicks start from a bucket of the item in hand, which is full.
LEMMA StartKicksStep ==
    ASSUME FilterInv, StartKicks
    PROVE  FilterInv'
<1>1. /\ pc = "place" /\ hand \in Items /\ pc' = "kick" /\ cur' = Home(hand) /\ kicks' = 0
      /\ ~ HasRoom(Home(hand))
      /\ UNCHANGED <<hash, buckets, table, call, hand, resizing, owed, todo,
                     begun, accepted, dropped>>
  BY DEF StartKicks, FilterInv, Control
<1>2. Home(hand) \in BucketNos
  BY <1>1, TableFacts
<1>3. TypeOK'
  <2>1. kicks' \in 0 .. MaxKicks
    BY <1>1, SizesAssumption
  <2>2. QED
    BY <1>1, <1>2, <2>1 DEF FilterInv, TypeOK
<1>4. Control' /\ Sized'
  BY <1>1 DEF FilterInv, Control, Sized
<1>5. EvictsFromFull'
  <2>1. Len(table[Home(hand)]) = Slots
    BY <1>1, <1>2, SizesAssumption DEF HasRoom, FilterInv, TypeOK
  <2>2. QED
    BY <1>1, <2>1 DEF EvictsFromFull, Home, Alternate
<1>6. InPlace(table)'
  BY <1>1 DEF FilterInv, InPlace, Home, Alternate
<1>7. Counted'
  BY <1>1 DEF FilterInv, Counted, Total, InHand, Owed
<1>8. QED
  BY <1>3, <1>4, <1>5, <1>6, <1>7 DEF FilterInv

\* An entry that is kicked out goes to its other bucket, or is the next one in
\* hand, with that bucket, which is full, to evict from.
LEMMA KickStep ==
    ASSUME FilterInv, NEW n \in DOMAIN table[cur], Kick(n)
    PROVE  FilterInv'
<1> DEFINE kicked == table[cur][n]
           alt == Alternate(kicked, cur)
           out == Replaced(table, cur, n, hand)
           u == Appended(out, alt, kicked)
<1>1. /\ pc = "kick" /\ hand \in Items /\ kicks < MaxKicks
      /\ cur \in {Home(hand), Alternate(hand, Home(hand))} /\ Len(table[cur]) = Slots
  BY DEF Kick, FilterInv, Control, EvictsFromFull
<1>2. cur \in 0 .. buckets - 1 /\ cur \in BucketNos
  BY <1>1, TableFacts
<1>3. kicked \in Items /\ cur \in {Home(kicked), Alternate(kicked, Home(kicked))}
  <2>1. kicked \in Items
    BY <1>2, TableFacts DEF Tables
  <2>2. QED
    BY <1>2, <2>1 DEF FilterInv, InPlace
<1>4. /\ alt \in 0 .. buckets - 1 /\ alt \in BucketNos
      /\ alt \in {Home(kicked), Alternate(kicked, Home(kicked))}
  <2> HIDE DEF kicked
  <2>1. QED
    BY <1>2, <1>3, TableFacts
<1>5. /\ out \in Tables /\ InPlace(out) /\ Len(out[cur]) = Len(table[cur])
      /\ \A x : TableCopies(out, MaxBuckets, x) + One(x, kicked)
                  = TableCopies(table, MaxBuckets, x) + One(x, hand)
      /\ \A j \in BucketNos \ {cur} : out[j] = table[j]
  <2>1. /\ table \in Tables /\ InPlace(table) /\ n \in DOMAIN table[cur]
    BY TableFacts DEF FilterInv
  <2>2. QED
    BY <1>1, <1>2, <2>1, EntryReplaced
<1>6. \A i \in BucketNos : i >= buckets => out[i] = << >>
  <2> HIDE DEF out, kicked, alt
  <2>1. QED
    BY <1>2, <1>5, TableFacts, SizesAssumption DEF BucketNos
<1>7. CASE /\ HasRoom(alt) /\ Settles(u) /\ UNCHANGED <<cur, kicks>>
           /\ UNCHANGED <<hash, buckets, resizing, owed, todo, begun, dropped>>
  <2>1. alt # cur /\ Len(out[alt]) < Slots
    <3> HIDE DEF out, kicked, alt
    <3>1. QED
      BY <1>1, <1>4, <1>5, <1>7, SizesAssumption DEF HasRoom
  <2>2. Settles(u)
    BY <1>7
  <2> HIDE DEF out, kicked, alt
  <2>3. /\ u \in Tables /\ InPlace(u)
        /\ \A x : TableCopies(u, MaxBuckets, x)
                    = TableCopies(out, MaxBuckets, x) + One(x, kicked)
        /\ \A j \in BucketNos \ {alt} : u[j] = out[j]
    BY <1>3, <1>4, <1>5, <2>1, EntryAppended
  <2> HIDE DEF u
  <2>4. \A i \in BucketNos : i >= buckets => u[i] = << >>
    BY <1>4, <1>6, <2>3, TableFacts, SizesAssumption DEF BucketNos
  <2>5. \A x \in Items : TableCopies(u, MaxBuckets, x)
                           = TableCopies(table, MaxBuckets, x) + One(x, hand)
    BY <1>5, <2>3
  <2>6. QED
    BY <1>1, <1>7, <2>2, <2>3, <2>4, <2>5, SettlesStep
<1>8. CASE /\ ~ HasRoom(alt)
           /\ table' = out /\ hand' = kicked /\ cur' = alt /\ kicks' = kicks + 1
           /\ UNCHANGED <<pc, call, accepted>>
           /\ UNCHANGED <<hash, buckets, resizing, owed, todo, begun, dropped>>
  <2> HIDE DEF out, kicked, alt, u
  <2>1. TypeOK'
    <3>1. kicks' \in 0 .. MaxKicks
      BY <1>1, <1>8, SizesAssumption DEF FilterInv, TypeOK
    <3>2. QED
      BY <1>3, <1>4, <1>5, <1>8, <3>1 DEF FilterInv, TypeOK, Tables
  <2>2. Control' /\ Sized'
    BY <1>1, <1>3, <1>6, <1>8 DEF FilterInv, Control, Sized
  <2>3. EvictsFromFull'
    <3>1. Len(out[alt]) = Slots
      <4>1. Len(table[alt]) = Slots
        BY <1>4, <1>8, SizesAssumption DEF HasRoom, FilterInv, TypeOK
      <4>2. QED
        BY <1>1, <1>4, <1>5, <4>1
    <3>2. QED
      BY <1>4, <1>8, <3>1 DEF EvictsFromFull, Home, Alternate
  <2>4. InPlace(table)'
    BY <1>5, <1>8 DEF InPlace, Home, Alternate
  <2>5. Counted'
    <3>1. ASSUME NEW x \in Items  PROVE Total(x)' = begun'[x]
      <4>1. /\ Copies(todo', x) = Copies(todo, x) /\ Owed(x)' = Owed(x)
            /\ dropped'[x] = dropped[x] /\ begun'[x] = begun[x]
            /\ table' = out
        BY <1>8 DEF Owed
      <4>2. InHand(x)' = One(x, kicked) /\ InHand(x) = One(x, hand)
        BY <1>8 DEF InHand, One
      <4>3. TableCopies(out, MaxBuckets, x) + One(x, kicked)
              = TableCopies(table, MaxBuckets, x) + One(x, hand)
        BY <1>5
      <4>4. TableCopies(out, MaxBuckets, x) \in Nat /\ One(x, kicked) \in {0, 1}
        BY SpotsFinite DEF One
      <4>5. QED
        BY <4>1, <4>2, <4>3, <4>4, Totals
    <3>2. QED
      BY <3>1 DEF Counted
  <2>6. QED
    BY <2>1, <2>2, <2>3, <2>4, <2>5 DEF FilterInv
<1>9. QED
  BY <1>7, <1>8 DEF Kick, Appended, Replaced

\* Giving up leaves the item in hand to a rebuild, or drops it from one.
LEMMA GiveUpStep ==
    ASSUME FilterInv, GiveUp
    PROVE  FilterInv'
<1>1. /\ pc = "kick" /\ hand \in Items /\ hand # NoItem /\ NoItem \notin Items
      /\ UNCHANGED <<hash, buckets, table, call, cur, kicks, resizing, owed, todo,
                     begun, accepted>>
  BY HashesAssumption DEF GiveUp, FilterInv, Control
<1>2. EvictsFromFull' /\ Sized' /\ InPlace(table)'
  <2>1. EvictsFromFull'
    BY DEF GiveUp, EvictsFromFull
  <2>2. Sized' /\ InPlace(table)'
    BY <1>1 DEF FilterInv, Sized, InPlace, Home, Alternate
  <2>3. QED
    BY <2>1, <2>2
<1>3. CASE ~ resizing
  <2>1. pc' = "full" /\ UNCHANGED <<dropped, hand>>
    BY <1>3 DEF GiveUp
  <2>2. TypeOK' /\ Control'
    BY <1>1, <1>3, <2>1 DEF FilterInv, TypeOK, Control
  <2>3. Counted'
    BY <1>1, <2>1 DEF FilterInv, Counted, Total, InHand, Owed
  <2>4. QED
    BY <1>2, <2>2, <2>3 DEF FilterInv
<1>4. CASE resizing
  <2>1. /\ dropped' = [dropped EXCEPT ![hand] = @ + 1]
        /\ hand' = NoItem /\ pc' = "rebuild"
    BY <1>4 DEF GiveUp
  <2>2. dropped[hand] + 1 \in 0 .. MaxInserts
    <3>1. InHand(hand) = 1
      BY DEF InHand
    <3>2. begun[hand] \in 0 .. MaxInserts
      BY <1>1 DEF FilterInv, TypeOK
    <3>3. dropped[hand] + 1 <= begun[hand]
      BY <1>1, <3>1, Totals
    <3>4. dropped[hand] \in Nat
      BY <1>1, Totals
    <3>5. QED
      BY <3>2, <3>3, <3>4, SizesAssumption
  <2>3. dropped' \in [Items -> 0 .. MaxInserts]
    BY <2>1, <2>2 DEF FilterInv, TypeOK
  <2>4. TypeOK'
    BY <1>1, <2>1, <2>3 DEF FilterInv, TypeOK
  <2>5. Control'
    BY <1>1, <1>4, <2>1 DEF FilterInv, TypeOK, Control
  <2>6. Counted'
    <3>1. ASSUME NEW x \in Items  PROVE Total(x)' = begun'[x]
      <4>1. /\ TableCopies(table', MaxBuckets, x) = TableCopies(table, MaxBuckets, x)
            /\ Copies(todo', x) = Copies(todo, x) /\ Owed(x)' = Owed(x)
            /\ begun'[x] = begun[x]
        BY <1>1 DEF Owed
      <4>2. InHand(x)' = 0 /\ InHand(x) = One(x, hand)
        BY <1>1, <2>1 DEF InHand, One
      <4>3. dropped'[x] = dropped[x] + One(x, hand)
        BY <1>1, <2>1, Totals DEF One, FilterInv, TypeOK
      <4>4. QED
        BY <4>1, <4>2, <4>3, Totals
    <3>2. QED
      BY <3>1 DEF Counted
  <2>7. QED
    BY <1>2, <2>4, <2>5, <2>6 DEF FilterInv
<1>5. QED
  BY <1>3, <1>4

\* What a rebuild inserts again is what the table held.
LEMMA EntriesCounted ==
    ASSUME FilterInv
    PROVE  /\ Entries \in Seq(Items)
           /\ \A x \in Items : Copies(Entries, x) = TableCopies(table, MaxBuckets, x)
<1>1. buckets \in 1 .. MaxBuckets
  BY TableFacts, SizesAssumption
<1>2. QED
  BY <1>1, TableFacts, EntriesAreAll

\* A rebuild empties the table into the list of what is to be inserted again.
LEMMA ResizeStep ==
    ASSUME FilterInv, Resize
    PROVE  FilterInv'
<1>1. /\ pc = "full" /\ hand \in Items /\ NoItem \notin Items /\ ~ resizing /\ owed = NoItem
      /\ todo = << >> /\ call \in Items
  BY HashesAssumption DEF Resize, FilterInv, Control, TypeOK
<1>2. /\ resizing' = TRUE /\ owed' = hand /\ hand' = NoItem /\ todo' = Entries
      /\ table' = Empty /\ pc' = "rebuild"
      /\ UNCHANGED <<hash, call, cur, kicks, begun, accepted, dropped>>
  BY DEF Resize
<1>3. /\ buckets' \in StartBuckets .. MaxBuckets
      /\ \E n \in Nat : buckets' = Pow2[n]
  <2>1. PICK n \in Nat : buckets = Pow2[n]
    BY DEF FilterInv, Sized
  <2>2. PICK m \in 0 .. MaxBuckets : MaxBuckets = Pow2[m]
    BY SizesAssumption
  <2>3. buckets \in StartBuckets .. MaxBuckets /\ buckets \in Nat \ {0} /\ buckets <= MaxBuckets
        /\ m \in Nat
    BY TableFacts, SizesAssumption DEF FilterInv, TypeOK
  <2>4. StartBuckets \in Nat
    <3>1. PICK k \in 0 .. MaxBuckets : StartBuckets = Pow2[k]
      BY SizesAssumption
    <3>2. QED
      BY <3>1, PowType, SizesAssumption
  <2>5. CASE buckets = MaxBuckets
    BY <2>1, <2>3, <2>5 DEF Resize
  <2>6. CASE buckets # MaxBuckets
    <3>1. buckets' = 2 * buckets
      BY <2>6 DEF Resize
    <3>2. Pow2[n] < Pow2[m]
      BY <2>1, <2>2, <2>3, <2>6, SizesAssumption
    <3>3. 2 * Pow2[n] <= Pow2[m]
      BY <2>3, <3>2, PowGrows
    <3>4. buckets' = Pow2[n + 1]
      BY <2>1, <3>1, PowAt
    <3>5. buckets' \in StartBuckets .. MaxBuckets
      BY <2>1, <2>2, <2>3, <2>4, <3>1, <3>3, SizesAssumption
    <3>6. QED
      BY <3>4, <3>5
  <2>7. QED
    BY <2>5, <2>6
<1>4. TypeOK'
  <2>1. table' \in [BucketNos -> Seq(Items)] /\ \A i \in BucketNos : Len(table'[i]) <= Slots
    BY <1>2, EmptyCounts DEF Tables
  <2>2. todo' \in Seq(Items)
    BY <1>2, EntriesCounted
  <2>3. QED
    BY <1>1, <1>2, <1>3, <2>1, <2>2 DEF FilterInv, TypeOK
<1>5. Control'
  BY <1>1, <1>2 DEF FilterInv, Control
<1>6. EvictsFromFull' /\ Sized'
  BY <1>2, <1>3 DEF EvictsFromFull, Sized, Empty
<1>7. InPlace(table)'
  BY <1>2, SizesAssumption DEF InPlace, Empty
<1>8. Counted'
  <2>1. ASSUME NEW x \in Items  PROVE Total(x)' = begun'[x]
    <3>1. /\ TableCopies(table', MaxBuckets, x) = 0
          /\ Copies(todo', x) = TableCopies(table, MaxBuckets, x)
          /\ dropped'[x] = dropped[x] /\ begun'[x] = begun[x]
      BY <1>2, EmptyCounts, EntriesCounted
    <3>2. InHand(x)' = 0 /\ InHand(x) = One(x, hand) /\ Owed(x)' = One(x, hand) /\ Owed(x) = 0
      BY <1>1, <1>2 DEF InHand, Owed, One
    <3>3. Copies(todo, x) = 0
      BY <1>1, EmptyCounts
    <3>4. QED
      BY <3>1, <3>2, <3>3, Totals
  <2>2. QED
    BY <2>1 DEF Counted
<1>9. QED
  BY <1>4, <1>5, <1>6, <1>7, <1>8 DEF FilterInv

\* Taking the first of a list takes one copy of it.
LEMMA HeadCounted ==
    ASSUME NEW seq \in Seq(Items), seq # << >>
    PROVE  /\ Head(seq) \in Items /\ Tail(seq) \in Seq(Items)
           /\ \A x : Copies(seq, x) = Copies(Tail(seq), x) + One(x, Head(seq))
<1>1. Head(seq) \in Items /\ Tail(seq) \in Seq(Items)
  OBVIOUS
<1> DEFINE one == << Head(seq) >>
<1>2. one \in Seq(Items) /\ Len(one) = 1 /\ one[1] = Head(seq) /\ DOMAIN one = {1}
  BY <1>1
<1>3. seq = one \o Tail(seq)
  <2>1. Len(one \o Tail(seq)) = Len(seq)
    BY <1>1, <1>2
  <2>2. \A n \in 1 .. Len(seq) : seq[n] = (one \o Tail(seq))[n]
    OBVIOUS
  <2>3. one \o Tail(seq) \in Seq(Items)
    BY <1>1, <1>2
  <2>4. QED
    BY <2>1, <2>2, <2>3
<1> HIDE DEF one
<1>4. ASSUME NEW x  PROVE Copies(seq, x) = Copies(Tail(seq), x) + One(x, Head(seq))
  <2>1. Copies(one \o Tail(seq), x) = Copies(one, x) + Copies(Tail(seq), x)
    BY <1>1, <1>2, CopiesConcat
  <2>2. Copies(one, x) = One(x, Head(seq))
    <3>1. CASE x = Head(seq)
      <4>1. {n \in DOMAIN one : one[n] = x} = {1}
        BY <1>2, <3>1
      <4>2. Copies(one, x) = 1
        BY <4>1, FS_Singleton DEF Copies
      <4>3. QED
        BY <3>1, <4>2 DEF One
    <3>2. CASE x # Head(seq)
      <4>1. {n \in DOMAIN one : one[n] = x} = {}
        BY <1>2, <3>2
      <4>2. Copies(one, x) = 0
        BY <4>1, FS_EmptySet DEF Copies
      <4>3. QED
        BY <3>2, <4>2 DEF One
    <3>3. QED
      BY <3>1, <3>2
  <2>3. Copies(Tail(seq), x) \in Nat
    BY <1>1, PositionsFinite
  <2>4. One(x, Head(seq)) \in {0, 1}
    BY DEF One
  <2>5. Copies(seq, x) = Copies(one, x) + Copies(Tail(seq), x)
    BY <1>3, <2>1, Zenon
  <2>6. QED
    BY <2>2, <2>3, <2>4, <2>5
<1>5. QED
  BY <1>1, <1>4

\* A rebuild inserts the next entry again.
LEMMA ReinsertStep ==
    ASSUME FilterInv, Reinsert
    PROVE  FilterInv'
<1>1. /\ pc = "rebuild" /\ todo # << >> /\ todo \in Seq(Items) /\ resizing
      /\ hand = NoItem /\ NoItem \notin Items
  BY HashesAssumption DEF Reinsert, FilterInv, Control, TypeOK
<1>2. /\ hand' = Head(todo) /\ todo' = Tail(todo) /\ pc' = "place"
      /\ UNCHANGED <<hash, buckets, table, call, cur, kicks, resizing, owed,
                     begun, accepted, dropped>>
  BY DEF Reinsert
<1>3. Head(todo) \in Items /\ Tail(todo) \in Seq(Items)
  BY <1>1, HeadCounted
<1>4. TypeOK'
  BY <1>2, <1>3 DEF FilterInv, TypeOK
<1>5. Control'
  BY <1>1, <1>2, <1>3 DEF FilterInv, Control
<1>6. EvictsFromFull' /\ Sized' /\ InPlace(table)'
  BY <1>2 DEF FilterInv, EvictsFromFull, Sized, InPlace, Home, Alternate
<1>7. Counted'
  <2>1. ASSUME NEW x \in Items  PROVE Total(x)' = begun'[x]
    <3>1. /\ TableCopies(table', MaxBuckets, x) = TableCopies(table, MaxBuckets, x)
          /\ Owed(x)' = Owed(x) /\ dropped'[x] = dropped[x] /\ begun'[x] = begun[x]
      BY <1>2 DEF Owed
    <3>2. InHand(x)' = One(x, Head(todo)) /\ InHand(x) = 0
      BY <1>1, <1>2 DEF InHand, One
    <3>3. Copies(todo, x) = Copies(todo', x) + One(x, Head(todo)) /\ Copies(todo', x) \in Nat
      BY <1>1, <1>2, <1>3, HeadCounted, PositionsFinite
    <3>4. One(x, Head(todo)) \in {0, 1}
      BY DEF One
    <3>5. QED
      BY <3>1, <3>2, <3>3, <3>4, Totals
  <2>2. QED
    BY <2>1 DEF Counted
<1>8. QED
  BY <1>4, <1>5, <1>6, <1>7 DEF FilterInv

\* After the rebuild the item that is owed is the one in hand.
LEMMA RetryInsertStep ==
    ASSUME FilterInv, RetryInsert
    PROVE  FilterInv'
<1>1. /\ pc = "rebuild" /\ todo = << >> /\ resizing /\ owed \in Items
      /\ hand = NoItem /\ NoItem \notin Items
  BY HashesAssumption DEF RetryInsert, FilterInv, Control, TypeOK
<1>2. /\ resizing' = FALSE /\ hand' = owed /\ owed' = NoItem /\ pc' = "place"
      /\ UNCHANGED <<hash, buckets, table, call, cur, kicks, todo, begun, accepted, dropped>>
  BY DEF RetryInsert
<1>3. TypeOK' /\ Control'
  BY <1>1, <1>2 DEF FilterInv, TypeOK, Control
<1>4. EvictsFromFull' /\ Sized' /\ InPlace(table)'
  BY <1>2 DEF FilterInv, EvictsFromFull, Sized, InPlace, Home, Alternate
<1>5. Counted'
  <2>1. ASSUME NEW x \in Items  PROVE Total(x)' = begun'[x]
    <3>1. /\ TableCopies(table', MaxBuckets, x) = TableCopies(table, MaxBuckets, x)
          /\ Copies(todo', x) = Copies(todo, x)
          /\ dropped'[x] = dropped[x] /\ begun'[x] = begun[x]
      BY <1>2
    <3>2. InHand(x)' = One(x, owed) /\ InHand(x) = 0 /\ Owed(x)' = 0 /\ Owed(x) = One(x, owed)
      BY <1>1, <1>2 DEF InHand, Owed, One
    <3>3. QED
      BY <3>1, <3>2, Totals
  <2>2. QED
    BY <2>1 DEF Counted
<1>6. QED
  BY <1>3, <1>4, <1>5 DEF FilterInv

\* Every step of the filter keeps the invariant.
LEMMA NextFilterInv == FilterInv /\ [Next]_vars => FilterInv'
<1> SUFFICES ASSUME FilterInv, [Next]_vars  PROVE FilterInv'
  OBVIOUS
<1>1. ASSUME NEW x \in Items, Insert(x)  PROVE FilterInv'
  BY <1>1, InsertStep
<1>2. CASE Place
  BY <1>2, PlaceStep
<1>3. CASE StartKicks
  BY <1>3, StartKicksStep
<1>4. CASE GiveUp
  BY <1>4, GiveUpStep
<1>5. ASSUME NEW n \in DOMAIN table[cur], Kick(n)  PROVE FilterInv'
  BY <1>5, KickStep
<1>6. CASE Resize
  BY <1>6, ResizeStep
<1>7. CASE Reinsert
  BY <1>7, ReinsertStep
<1>8. CASE RetryInsert
  BY <1>8, RetryInsertStep
<1>9. CASE UNCHANGED vars
  BY <1>9 DEF vars, FilterInv, TypeOK, Control, EvictsFromFull, Sized, InPlace, Counted,
              Total, InHand, Owed, Home, Alternate
<1>10. QED
  BY <1>1, <1>2, <1>3, <1>4, <1>5, <1>6, <1>7, <1>8, <1>9 DEF Next, Working, Done

\* The invariant holds in every state of the filter.
THEOREM FilterInvariant == Spec => []FilterInv
<1>1. QED
  BY InitFilterInv, NextFilterInv, PTL DEF Spec

\* Buckets never hold more than their slots, and the table never has more buckets
\* than a hash has values, through evictions and rebuilds (CuckooFilter).
THEOREM TypesCorrect == Spec => []TypeOK
<1>1. FilterInv => TypeOK
  BY DEF FilterInv
<1>2. QED
  BY <1>1, FilterInvariant, PTL

\* Wherever evictions and rebuilds have put an entry, contains and remove look for
\* it there (_hash, _alt_index, _resize).
THEOREM AllInPlace == Spec => []EntriesInPlace
<1>1. FilterInv => EntriesInPlace
  BY DEF FilterInv, InPlace, EntriesInPlace
<1>2. QED
  BY <1>1, FilterInvariant, PTL

\* No entry is lost or duplicated on the way from insert through evictions and
\* rebuilds, but for those a rebuild says it dropped (insert, _resize).
THEOREM NoneForgotten == Spec => []NothingForgotten
<1>1. FilterInv => NothingForgotten
  <2> SUFFICES ASSUME FilterInv, NEW x \in Items
               PROVE  Copies(Entries, x) + Copies(todo, x) + InHand(x) + Owed(x) + dropped[x]
                        = begun[x]
    BY DEF NothingForgotten
  <2>1. Copies(Entries, x) = TableCopies(table, MaxBuckets, x)
    BY EntriesCounted
  <2>2. QED
    BY <2>1, Totals
<1>2. QED
  BY <1>1, FilterInvariant, PTL

\* A serial that has a copy in the table is found.
LEMMA CopyIsFound ==
    ASSUME FilterInv, NEW x \in Items, TableCopies(table, MaxBuckets, x) # 0
    PROVE  Found(x)
<1>1. Spots(table, MaxBuckets, x) # {}
  BY FS_EmptySet DEF TableCopies
<1>2. PICK p \in BucketNos \X (1 .. Slots) :
         p[2] <= Len(table[p[1]]) /\ table[p[1]][p[2]] = x
  BY <1>1 DEF Spots
<1>3. p[1] \in BucketNos /\ p[2] \in 1 .. Slots
  BY <1>2
<1>4. p[2] \in DOMAIN table[p[1]]
  BY <1>2, <1>3, SizesAssumption DEF FilterInv, TypeOK
<1>5. p[1] \in {Home(x), Alternate(x, Home(x))}
  BY <1>2, <1>3, <1>4 DEF FilterInv, InPlace
<1>6. QED
  BY <1>2, <1>4, <1>5 DEF Found

\* A revoked serial that insert has accepted is found by contains when insert has
\* returned, whatever has been evicted and rebuilt since, unless a rebuild dropped
\* an entry of it.
THEOREM AcceptedFound == Spec => []AcceptedAreFound
<1>1. FilterInv => AcceptedAreFound
  <2> SUFFICES ASSUME FilterInv  PROVE AcceptedAreFound
    OBVIOUS
  <2>0. \A x \in accepted : x \in Items /\ dropped[x] \in Nat
    <3>1. \A x \in accepted : x \in Items
      BY DEF FilterInv, TypeOK
    <3>2. QED
      BY <3>1, Totals
  <2> SUFFICES ASSUME pc = "idle", NEW x \in accepted, dropped[x] = 0
               PROVE  Found(x)
    BY <2>0 DEF AcceptedAreFound
  <2>1. x \in Items /\ begun[x] > 0
    BY DEF FilterInv, TypeOK, Control
  <2>2. hand \notin Items /\ owed \notin Items /\ todo = << >>
    BY DEF FilterInv, Control
  <2>3. InHand(x) = 0 /\ Owed(x) = 0 /\ Copies(todo, x) = 0
    BY <2>1, <2>2, EmptyCounts DEF InHand, Owed
  <2>4. TableCopies(table, MaxBuckets, x) # 0
    BY <2>1, <2>3, Totals
  <2>5. QED
    BY <2>1, <2>4, CopyIsFound
<1>2. QED
  BY <1>1, FilterInvariant, PTL

=============================================================================
