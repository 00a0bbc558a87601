---------------------------- MODULE ExerciseProofs ----------------------------
(***************************************************************************)
(* Bringing up a network implements Deployment, whatever the switches, the *)
(* configurations and the moments at which processes die: a switch goes    *)
(* through the stages of its configuration one at a time, and              *)
(* program_switch returns normally only after the last.                    *)
(***************************************************************************)
EXTENDS Exercise, FunctionTheorems, FiniteSetTheorems, WellFoundedInduction, TLAPS

-----------------------------------------------------------------------------
(***************************************************************************)
(* The least number of a set, in place of an induction.                    *)
(***************************************************************************)
LEMMA Least ==
  ASSUME NEW S, S \subseteq Nat, S # {}
  PROVE  \E n \in S : \A m \in S : n <= m
<1> DEFINE Less == {p \in Nat \X Nat : p[1] < p[2]}
<1>1. IsWellFoundedOn(Less, Nat)
  BY NatLessThanWellFounded DEF OpToRel
<1>2. \A m, n \in Nat : m < n => <<m, n>> \in Less
  OBVIOUS
<1> HIDE DEF Less
<1>3. PICK n \in S : \A m \in S : ~(<<m, n>> \in Less)
  BY <1>1, WFMin
<1>4. \A m \in S : m \in Nat /\ n \in Nat
  OBVIOUS
<1>5. \A m \in S : ~(m < n)
  BY <1>2, <1>3, <1>4
<1>6. \A m \in S : n <= m
  BY <1>4, <1>5
<1>7. QED
  BY <1>6

(***************************************************************************)
(* Powers of two, counted as the subsets of a set, and dividing by them.   *)
(***************************************************************************)
LEMMA PowerDoubles == ASSUME NEW n \in Nat PROVE 2^n \in Nat \ {0} /\ 2^(n + 1) = 2 * 2^n
<1> DEFINE S == 1..n
           With(T) == T \cup {n + 1}
           New == {With(T) : T \in SUBSET S}
<1>1. IsFiniteSet(S) /\ Cardinality(S) = n /\ n + 1 \notin S
  BY FS_Interval
<1>2. IsFiniteSet(S \cup {n + 1}) /\ Cardinality(S \cup {n + 1}) = n + 1
  <2> HIDE DEF S
  <2>1. QED
    BY <1>1, FS_AddElement
<1> HIDE DEF S
<1>3. IsFiniteSet(SUBSET S) /\ Cardinality(SUBSET S) = 2^n /\ Cardinality(SUBSET S) \in Nat
  BY <1>1, FS_SUBSET, FS_CardinalityType
<1>4. Cardinality(SUBSET (S \cup {n + 1})) = 2^(n + 1)
  BY <1>2, FS_SUBSET
<1>5. SUBSET (S \cup {n + 1}) = (SUBSET S) \cup New /\ (SUBSET S) \cap New = {}
  <2>1. \A T \in SUBSET (S \cup {n + 1}) : n + 1 \in T => T \ {n + 1} \in SUBSET S /\ T = With(T \ {n + 1})
    OBVIOUS
  <2>2. \A T \in SUBSET (S \cup {n + 1}) : T \in (SUBSET S) \cup New
    <3> SUFFICES ASSUME NEW T \in SUBSET (S \cup {n + 1}) PROVE T \in (SUBSET S) \cup New
      OBVIOUS
    <3>1. CASE n + 1 \in T
      BY <2>1, <3>1
    <3>2. CASE n + 1 \notin T
      BY <3>2
    <3>3. QED
      BY <3>1, <3>2
  <2>3. \A T \in (SUBSET S) \cup New : T \in SUBSET (S \cup {n + 1})
    OBVIOUS
  <2>4. \A N \in New : n + 1 \in N
    OBVIOUS
  <2>5. (SUBSET S) \cap New = {}
    BY <1>1, <2>4
  <2> HIDE DEF New
  <2>6. QED
    BY <2>2, <2>3, <2>5
<1>6. IsFiniteSet(New) /\ Cardinality(New) = Cardinality(SUBSET S)
  <2> DEFINE f == [T \in SUBSET S |-> With(T)]
  <2>1. ExistsBijection(SUBSET S, New)
    <3>1. f \in [SUBSET S -> New] /\ \A N \in New : \E T \in SUBSET S : f[T] = N
      OBVIOUS
    <3>2. \A T, U \in SUBSET S : f[T] = f[U] => T = U
      BY <1>1
    <3> HIDE DEF f
    <3>3. QED
      BY <3>1, <3>2, Fun_IsBij DEF ExistsBijection
  <2>2. QED
    BY <1>3, <2>1, FS_Bijection
<1>7. Cardinality((SUBSET S) \cup New) = Cardinality(SUBSET S) + Cardinality(New)
  <2> HIDE DEF New
  <2>1. Cardinality((SUBSET S) \cup New)
          = Cardinality(SUBSET S) + Cardinality(New) - Cardinality((SUBSET S) \cap New)
    BY <1>3, <1>6, FS_Union
  <2>2. Cardinality((SUBSET S) \cap New) = 0
    BY <1>5, FS_EmptySet
  <2>3. QED
    BY <1>3, <1>6, <2>1, <2>2
<1>8. 2^(n + 1) = 2 * 2^n /\ 2^n \in Nat
  <2> DEFINE c == Cardinality(SUBSET S)
  <2>1. c \in Nat /\ c = 2^n /\ Cardinality((SUBSET S) \cup New) = c + c
    BY <1>3, <1>6, <1>7
  <2>2. Cardinality((SUBSET S) \cup New) = 2^(n + 1)
    BY <1>4, <1>5
  <2> HIDE DEF c
  <2>3. 2 * c = c + c
    BY <2>1
  <2>4. QED
    BY <2>1, <2>2, <2>3
<1>9. {} \in SUBSET S
  OBVIOUS
<1>10. 2^n # 0
  BY <1>3, <1>9, FS_EmptySet
<1>11. QED
  BY <1>8, <1>10

LEMMA Dividing ==
  ASSUME NEW m \in Nat, NEW d \in Nat \ {0}
  PROVE  /\ m \div d \in Nat /\ m % d \in 0..(d - 1)
         /\ m = d * (m \div d) + (m % d)
OBVIOUS

LEMMA Quotient ==
  ASSUME NEW d \in Nat \ {0}, NEW q \in Nat, NEW r \in 0..(d - 1)
  PROVE  (d * q + r) \div d = q
OBVIOUS

\* Dividing in two goes.
LEMMA DividingTwice ==
  ASSUME NEW m \in Nat, NEW d \in Nat \ {0}
  PROVE  /\ m \div (256 * d) \in Nat /\ (m \div d) % 256 \in 0..255
         /\ m \div d = 256 * (m \div (256 * d)) + ((m \div d) % 256)
<1> DEFINE q == m \div d
           r == m % d
           p == q \div 256
           t == q % 256
<1>1. q \in Nat /\ r \in 0..(d - 1) /\ m = d * q + r
  BY Dividing
<1> HIDE DEF q, r
<1>2. p \in Nat /\ t \in 0..255 /\ q = 256 * p + t
  BY <1>1, Dividing
<1> HIDE DEF p, t
<1> DEFINE u == d * t + r
<1>3. m = (256 * d) * p + u
  <2>1. d * q = d * (256 * p) + d * t
    BY <1>1, <1>2
  <2>2. d * (256 * p) = (256 * d) * p
    BY <1>2
  <2>3. QED
    BY <1>1, <1>2, <2>1, <2>2
<1>4. u \in 0..(256 * d - 1)
  <2>1. d * t <= d * 255 /\ d * t >= 0 /\ d * t \in Int
    BY <1>2
  <2>2. QED
    BY <1>1, <2>1
<1> HIDE DEF u
<1>5. 256 * d \in Nat \ {0}
  OBVIOUS
<1>6. m \div (256 * d) = p
  BY <1>2, <1>3, <1>4, <1>5, Quotient
<1>7. QED
  BY <1>2, <1>6 DEF q, t

LEMMA PowerOfByte == ASSUME NEW n \in Nat PROVE 2^(n + 8) = 256 * 2^n
<1> DEFINE P(k) == 2^(n + k)
<1>1. P(0) \in Nat /\ P(0) = 2^n
  BY PowerDoubles
<1>2. \A k \in 0..7 : n + k \in Nat /\ (n + k) + 1 = n + (k + 1)
  OBVIOUS
<1>3. \A k \in 0..7 : P(k + 1) = 2 * P(k)
  BY <1>2, PowerDoubles
<1> HIDE DEF P
<1>4. P(8) = 256 * P(0)
  BY <1>1, <1>3
<1>5. QED
  BY <1>1, <1>4 DEF P

(***************************************************************************)
(* decodeNum undoes encodeNum, for every number and width: a byte is what  *)
(* a division by 256 leaves of what the next one divides.                  *)
(***************************************************************************)
\* The bytes of m, the most significant first.
Digits(m, size) == [i \in 1..size |-> (m \div 2^(8 * (size - i))) % 256]

Folded(f, bytes) ==
  [i \in 0..Len(bytes) |-> IF i = 0 THEN 0 ELSE 256 * f[i - 1] + bytes[i]]

LEMMA FoldedValues ==
  ASSUME NEW bytes, Len(bytes) \in Nat, NEW f, f = Folded(f, bytes)
  PROVE  /\ DOMAIN f = 0..Len(bytes) /\ f = [i \in 0..Len(bytes) |-> f[i]] /\ f[0] = 0
         /\ \A i \in 1..Len(bytes) : f[i] = 256 * f[i - 1] + bytes[i]
<1> DEFINE N == Len(bytes)
           F == Folded(f, bytes)
<1>1. DOMAIN F = 0..N /\ F = [i \in 0..N |-> F[i]] /\ F[0] = 0
  BY DEF Folded
<1>2. \A i \in 1..N : F[i] = 256 * f[i - 1] + bytes[i]
  BY DEF Folded
<1>3. F = f
  OBVIOUS
<1> HIDE DEF F
<1>4. QED
  BY <1>1, <1>2, <1>3

\* A fold to the left has one value.
LEMMA FoldedOnce ==
  ASSUME NEW bytes, Len(bytes) \in Nat, NEW f, NEW g, f = Folded(f, bytes), g = Folded(g, bytes)
  PROVE  f = g
<1> DEFINE N == Len(bytes)
           Bad == {i \in 0..N : f[i] # g[i]}
<1>1. /\ DOMAIN f = 0..N /\ DOMAIN g = 0..N
      /\ f = [i \in 0..N |-> f[i]] /\ g = [i \in 0..N |-> g[i]]
      /\ f[0] = 0 /\ g[0] = 0
      /\ \A i \in 1..N : f[i] = 256 * f[i - 1] + bytes[i] /\ g[i] = 256 * g[i - 1] + bytes[i]
  BY FoldedValues
<1>2. Bad = {}
  <2> SUFFICES ASSUME Bad # {} PROVE FALSE
    OBVIOUS
  <2>1. Bad \subseteq Nat
    OBVIOUS
  <2>2. PICK i \in Bad : \A j \in Bad : i <= j
    <3> HIDE DEF Bad
    <3>1. QED
      BY <2>1, Least
  <2>3. i \in 0..N /\ f[i] # g[i] /\ i # 0
    BY <1>1, <2>2
  <2>4. i \in 1..N /\ i - 1 \in 0..N /\ ~(i <= i - 1)
    BY <2>3
  <2>5. f[i - 1] = g[i - 1]
    BY <2>2, <2>4
  <2>6. f[i] = 256 * f[i - 1] + bytes[i] /\ g[i] = 256 * g[i - 1] + bytes[i]
    BY <1>1, <2>4
  <2>7. QED
    BY <2>3, <2>5, <2>6
<1>3. \A i \in 0..N : f[i] = g[i]
  BY <1>2
<1> HIDE DEF N
<1>4. QED
  BY <1>1, <1>3

\* What decodeNum makes of a number's bytes, if they are enough for it.
LEMMA DecodeDigits ==
  ASSUME NEW size \in Nat, NEW m \in Nat, m < 2^(8 * size)
  PROVE  DecodeNum(Digits(m, size)) = m
<1> DEFINE bytes == Digits(m, size)
           d(i) == 2^(8 * (size - i))
           v == [i \in 0..size |-> m \div d(i)]
<1>1. Len(bytes) = size /\ \A i \in 1..size : bytes[i] = (m \div d(i)) % 256
  BY DEF Digits
<1>2. \A i \in 0..size : d(i) \in Nat \ {0} /\ m \div d(i) \in Nat
  <2> TAKE i \in 0..size
  <2>1. 8 * (size - i) \in Nat
    OBVIOUS
  <2>2. d(i) \in Nat \ {0}
    BY <2>1, PowerDoubles
  <2> HIDE DEF d
  <2>3. QED
    BY <2>2, Dividing
<1>3. \A i \in 1..size : d(i - 1) = 256 * d(i)
  <2> TAKE i \in 1..size
  <2>1. 8 * (size - i) \in Nat /\ 8 * (size - (i - 1)) = 8 * (size - i) + 8
    OBVIOUS
  <2>2. QED
    BY <2>1, PowerOfByte
<1>4. d(0) = 2^(8 * size) /\ d(size) = 1
  OBVIOUS
<1> HIDE DEF d
<1>5. m \div d(0) = 0
  <2>1. d(0) \in Nat \ {0} /\ m \in 0..(d(0) - 1)
    BY <1>2, <1>4
  <2>2. m = d(0) * 0 + m
    BY <2>1
  <2>3. QED
    BY <2>1, <2>2, Quotient
<1>6. m \div d(size) = m
  BY <1>4
<1>7. \A i \in 1..size : m \div d(i) = 256 * (m \div d(i - 1)) + bytes[i]
  <2> TAKE i \in 1..size
  <2>1. d(i) \in Nat \ {0} /\ d(i - 1) = 256 * d(i)
    BY <1>2, <1>3
  <2>2. m \div d(i) = 256 * (m \div (256 * d(i))) + ((m \div d(i)) % 256)
    BY <2>1, DividingTwice
  <2> HIDE DEF bytes
  <2>3. QED
    BY <1>1, <2>1, <2>2
<1>8. v = Folded(v, bytes)
  <2>1. \A i \in 0..size : v[i] = IF i = 0 THEN 0 ELSE 256 * v[i - 1] + bytes[i]
    <3> TAKE i \in 0..size
    <3>1. CASE i = 0
      BY <1>5, <3>1
    <3>2. CASE i # 0
      <4>1. i \in 1..size /\ i - 1 \in 0..size
        BY <3>2
      <4>2. v[i] = m \div d(i) /\ v[i - 1] = m \div d(i - 1)
        BY <4>1
      <4> HIDE DEF v, bytes
      <4>3. QED
        BY <1>7, <3>2, <4>1, <4>2
    <3>3. QED
      BY <3>1, <3>2
  <2>2. v = [i \in 0..size |-> v[i]]
    OBVIOUS
  <2> HIDE DEF v, bytes
  <2>3. [i \in 0..size |-> v[i]] = [i \in 0..size |-> IF i = 0 THEN 0 ELSE 256 * v[i - 1] + bytes[i]]
    BY <2>1
  <2>4. v = [i \in 0..size |-> IF i = 0 THEN 0 ELSE 256 * v[i - 1] + bytes[i]]
    BY <2>2, <2>3, Zenon
  <2>5. [i \in 0..size |-> IF i = 0 THEN 0 ELSE 256 * v[i - 1] + bytes[i]] = Folded(v, bytes)
    BY <1>1 DEF Folded
  <2>6. QED
    BY <2>4, <2>5, Zenon
<1> DEFINE value == CHOOSE f : f = Folded(f, bytes)
<1>9. value = v
  <2>1. value = Folded(value, bytes)
    <3> HIDE DEF v, bytes
    <3>1. QED
      BY <1>8
  <2> HIDE DEF value, v, bytes
  <2>2. QED
    BY <1>1, <1>8, <2>1, FoldedOnce
<1>10. DecodeNum(bytes) = value[Len(bytes)]
  <2> HIDE DEF bytes
  <2>1. QED
    BY DEF DecodeNum, Folded
<1>11. v[size] = m
  BY <1>6
<1> HIDE DEF v, value, bytes
<1>12. QED
  BY <1>1, <1>9, <1>10, <1>11 DEF bytes

\* The bytes of a field are enough for it.
LEMMA BytesHold ==
  ASSUME NEW w \in Nat \ {0}
  PROVE  LET size == BitwidthToBytes(w)
         IN  /\ size \in Nat \ {0} /\ w \in (8 * size - 7)..(8 * size)
             /\ 2^w <= 2^(8 * size)
<1> DEFINE size == BitwidthToBytes(w)
           P(k) == 2^(w + k)
<1>1. size \in Nat \ {0} /\ w \in (8 * size - 7)..(8 * size)
  BY DEF BitwidthToBytes
<1> HIDE DEF size
<1>2. PICK k \in 0..7 : 8 * size = w + k
  BY <1>1
<1>3. \A j \in 0..7 : w + j \in Nat /\ (w + j) + 1 = w + (j + 1)
  OBVIOUS
<1>4. \A j \in 0..7 : P(j) \in Nat /\ P(j + 1) = 2 * P(j)
  BY <1>3, PowerDoubles
<1>5. P(0) = 2^w /\ P(k) = 2^(8 * size)
  BY <1>2
<1> HIDE DEF P
<1>6. P(0) <= P(k)
  BY <1>4
<1>7. QED
  BY <1>1, <1>5, <1>6 DEF size

\* encodeNum refuses exactly the numbers that do not fit, and what it makes of
\* the others are bytes, as many as the width takes, that decodeNum turns back
\* into the number or its two's complement.
THEOREM Encoding ==
  \A w \in Nat \ {0} : \A n \in Int : EncodesFaithfully(n, w)
<1> SUFFICES ASSUME NEW w \in Nat \ {0}, NEW n \in Int PROVE EncodesFaithfully(n, w)
  OBVIOUS
<1> DEFINE size == BitwidthToBytes(w)
           m == IF n < 0 THEN 2^w + n ELSE n
           fits == n < 2^w /\ 2 * n >= -(2^w)
           ok == n >= -(2^(w - 1)) /\ m < 2^w
<1>1. 2^(w - 1) \in Nat /\ 2^w = 2 * 2^(w - 1) /\ 2^w \in Nat
  <2>1. w - 1 \in Nat /\ (w - 1) + 1 = w
    OBVIOUS
  <2>2. QED
    BY <2>1, PowerDoubles
<1>2. (ok <=> fits) /\ (ok => m \in Nat)
  BY <1>1
<1>3. /\ size \in Nat \ {0} /\ w \in (8 * size - 7)..(8 * size)
      /\ 2^w <= 2^(8 * size) /\ 2^(8 * size) \in Nat
  <2>1. size \in Nat \ {0} /\ w \in (8 * size - 7)..(8 * size) /\ 2^w <= 2^(8 * size)
    BY BytesHold
  <2> HIDE DEF size
  <2>2. 8 * size \in Nat
    BY <2>1
  <2>3. QED
    BY <2>1, <2>2, PowerDoubles
<1>4. EncodeNum(n, w) = {Digits(k, size) : k \in {k \in {m} : ok}}
  BY DEF EncodeNum, Digits
<1> HIDE DEF size
<1>5. ASSUME ok
      PROVE  LET bytes == Digits(m, size) IN
             /\ Len(bytes) = size /\ \A i \in DOMAIN bytes : bytes[i] \in 0..255
             /\ DecodeNum(bytes) = m
  <2>1. m \in Nat /\ m < 2^(8 * size)
    BY <1>1, <1>2, <1>3, <1>5
  <2> HIDE DEF m, ok
  <2>2. DecodeNum(Digits(m, size)) = m
    BY <1>3, <2>1, DecodeDigits
  <2>3. ASSUME NEW i \in 1..size PROVE (m \div 2^(8 * (size - i))) % 256 \in 0..255
    <3>1. 8 * (size - i) \in Nat
      BY <1>3
    <3>2. 2^(8 * (size - i)) \in Nat \ {0}
      BY <3>1, PowerDoubles
    <3>3. QED
      BY <2>1, <3>2, DividingTwice
  <2>4. QED
    BY <1>3, <2>2, <2>3 DEF Digits
<1>6. (EncodeNum(n, w) = {} <=> ~fits) /\ \A bytes \in EncodeNum(n, w) : ok /\ bytes = Digits(m, size)
  <2> HIDE DEF m, ok, fits
  <2>1. QED
    BY <1>2, <1>4
<1>7. m = IF n < 0 THEN n + 2^w ELSE n
  BY <1>1
<1> HIDE DEF m, ok
<1>8. QED
  BY <1>3, <1>5, <1>6, <1>7 DEF EncodesFaithfully

\* So it is for the numbers and widths the run looks at.
THEOREM EncodingHolds == Spec => []EncodingIsFaithful
<1>1. EncodingIsFaithful
  <2> SUFFICES ASSUME NEW w \in {1, 2, 7, 8, 9, 16, 17},
                      NEW n \in {-(2^w), -(2^(w - 1)) - 1, -(2^(w - 1)), -1, 0, 1, 2^w - 1, 2^w, 2^w + 1}
               PROVE  EncodesFaithfully(n, w)
    BY DEF EncodingIsFaithful
  <2>1. w \in Nat \ {0} /\ w - 1 \in Nat
    OBVIOUS
  <2>2. 2^w \in Nat /\ 2^(w - 1) \in Nat
    BY <2>1, PowerDoubles
  <2>3. n \in Int
    BY <2>2
  <2>4. QED
    BY <2>1, <2>3, Encoding
<1>2. QED
  BY <1>1, PTL


-----------------------------------------------------------------------------
(***************************************************************************)
(* What the entries of a configuration amount to.                          *)
(***************************************************************************)
LEMMA RequestsAreSequences ==
  ASSUME NEW n \in DOMAIN Files
  PROVE  \E S : Requests[n] \in Seq(S)
<1> DEFINE es == EntriesOf(Files[n])
<1>1. PICK T : es \in Seq(T)
  BY P4RuntimeAssumption
<1>2. DOMAIN es = 1..Len(es) /\ Len(es) \in Nat
  BY <1>1
<1>3. Requests[n] = [i \in 1..Len(es) |-> Request(Files[n], es[i])]
  BY <1>2 DEF Requests
<1> HIDE DEF es
<1>4. Requests[n] \in Seq({Request(Files[n], es[i]) : i \in 1..Len(es)})
  BY <1>2, <1>3
<1>5. QED
  BY <1>4

\* Nothing before the first entry.
LEMMA EffectOfNothing == ASSUME NEW S, NEW r \in Seq(S) PROVE Effect(SubSeq(r, 1, 0)) = {}
<1>1. DOMAIN SubSeq(r, 1, 0) = {}
  OBVIOUS
<1>2. QED
  BY <1>1 DEF Effect

\* An entry takes the place of those with its key.
LEMMA EffectOfNext ==
  ASSUME NEW S, NEW r \in Seq(S), NEW k \in Nat, k < Len(r)
  PROVE  Effect(SubSeq(r, 1, k + 1)) =
           {f \in Effect(SubSeq(r, 1, k)) : f.key # r[k + 1].key} \cup {r[k + 1]}
<1> DEFINE q == SubSeq(r, 1, k)
           p == SubSeq(r, 1, k + 1)
<1>0. Len(r) \in Nat
  OBVIOUS
<1>1. DOMAIN q = 1..k /\ \A i \in 1..k : q[i] = r[i]
  BY <1>0
<1>2. DOMAIN p = 1..(k + 1) /\ \A i \in 1..(k + 1) : p[i] = r[i]
  BY <1>0
<1> HIDE DEF q, p
<1>3. Effect(q) = {r[i] : i \in {i \in 1..k : \A j \in 1..k : j > i => r[j].key # r[i].key}}
  BY <1>1, Zenon DEF Effect
<1>4. Effect(p) =
        {r[i] : i \in {i \in 1..(k + 1) : \A j \in 1..(k + 1) : j > i => r[j].key # r[i].key}}
  BY <1>2, Zenon DEF Effect
<1>5. Effect(p) \subseteq {f \in Effect(q) : f.key # r[k + 1].key} \cup {r[k + 1]}
  <2> SUFFICES ASSUME NEW i \in 1..(k + 1), \A j \in 1..(k + 1) : j > i => r[j].key # r[i].key
               PROVE  r[i] \in {f \in Effect(q) : f.key # r[k + 1].key} \cup {r[k + 1]}
    BY <1>4
  <2>1. CASE i = k + 1
    BY <2>1
  <2>2. CASE i \in 1..k
    <3>1. r[i] \in Effect(q)
      BY <1>3, <2>2
    <3>2. r[k + 1].key # r[i].key
      BY <2>2
    <3>3. QED
      BY <3>1, <3>2
  <2>3. QED
    BY <2>1, <2>2
<1>6. {f \in Effect(q) : f.key # r[k + 1].key} \subseteq Effect(p)
  <2> SUFFICES ASSUME NEW i \in 1..k, \A j \in 1..k : j > i => r[j].key # r[i].key,
                      r[i].key # r[k + 1].key
               PROVE  r[i] \in Effect(p)
    BY <1>3
  <2>1. \A j \in 1..(k + 1) : j > i => r[j].key # r[i].key
    OBVIOUS
  <2>2. QED
    BY <1>4, <2>1
<1>7. r[k + 1] \in Effect(p)
  BY <1>4
<1>8. QED
  BY <1>5, <1>6, <1>7 DEF q, p

LEMMA FirstStage ==
  ASSUME NEW n \in DOMAIN Files
  PROVE  Stages[n] \in Seq({Stages[n][i] : i \in DOMAIN Stages[n]}) /\ Stages[n] # <<>>
         /\ Len(Stages[n]) = Len(Requests[n]) + 1 /\ Len(Requests[n]) \in Nat
         /\ Stages[n][1] = {}
<1>1. PICK S : Requests[n] \in Seq(S)
  BY RequestsAreSequences
<1>2. Len(Requests[n]) \in Nat
  BY <1>1
<1>3. Stages[n] = [k \in 1..(Len(Requests[n]) + 1) |-> Effect(SubSeq(Requests[n], 1, k - 1))]
  BY DEF Stages
<1>4. Stages[n][1] = Effect(SubSeq(Requests[n], 1, 0))
  BY <1>2, <1>3
<1>5. Stages[n][1] = {}
  BY <1>1, <1>4, EffectOfNothing
<1>6. DOMAIN Stages[n] = 1..(Len(Requests[n]) + 1)
  BY <1>3
<1>7. Stages[n] = [k \in 1..(Len(Requests[n]) + 1) |-> Stages[n][k]]
  BY <1>3
<1>8. Stages[n] \in Seq({Stages[n][i] : i \in DOMAIN Stages[n]})
  BY <1>2, <1>6, <1>7
<1>9. Len(Stages[n]) = Len(Requests[n]) + 1
  BY <1>2, <1>6, <1>8
<1>10. QED
  BY <1>2, <1>5, <1>8, <1>9

LEMMA NextStage ==
  ASSUME NEW n \in DOMAIN Files, NEW k \in Nat, k < Len(Requests[n])
  PROVE  Stages[n][k + 2] =
           {f \in Stages[n][k + 1] : f.key # Requests[n][k + 1].key} \cup {Requests[n][k + 1]}
<1>1. PICK S : Requests[n] \in Seq(S)
  BY RequestsAreSequences
<1>2. Len(Requests[n]) \in Nat
  BY <1>1
<1>3. Stages[n] = [j \in 1..(Len(Requests[n]) + 1) |-> Effect(SubSeq(Requests[n], 1, j - 1))]
  BY DEF Stages
<1>4. /\ Stages[n][k + 1] = Effect(SubSeq(Requests[n], 1, k))
      /\ Stages[n][k + 2] = Effect(SubSeq(Requests[n], 1, k + 1))
  BY <1>2, <1>3
<1>5. QED
  BY <1>1, <1>4, EffectOfNext

-----------------------------------------------------------------------------
(***************************************************************************)
(* Types, and where the script is in its loops.                            *)
(***************************************************************************)
LoopInv ==
  /\ setup \in Setups /\ conf = setup.conf
  /\ phase \in {"topology", "hosts", "cli"} => at = 1
  /\ phase \in {"make", "start", "await", "stop"} => at \in DOMAIN setup.made
  /\ phase = "program" => at \in DOMAIN setup.programs

LEMMA SetupFacts ==
  ASSUME setup \in Setups
  PROVE  /\ setup.made \in Seq(Switch) /\ setup.programs \in Seq(Switch)
         /\ Len(setup.made) \in Nat \ {0} /\ Len(setup.programs) \in Nat \ {0}
         /\ DOMAIN setup.made = 1..Len(setup.made)
         /\ DOMAIN setup.programs = 1..Len(setup.programs)
         /\ \A i, j \in DOMAIN setup.made : setup.made[i] = setup.made[j] => i = j
         /\ \A i, j \in DOMAIN setup.programs : setup.programs[i] = setup.programs[j] => i = j
         /\ Elements(setup.made) = Elements(setup.programs)
         /\ setup.conf \in [Switch -> DOMAIN Files]
<1>1. IsOrder(setup.made) /\ IsOrder(setup.programs)
      /\ Elements(setup.made) = Elements(setup.programs)
      /\ setup.conf \in [Switch -> DOMAIN Files]
  BY ExerciseAssumption
<1>2. QED
  BY <1>1 DEF IsOrder

LEMMA InitLoop == Init => LoopInv
<1> SUFFICES ASSUME Init PROVE LoopInv
  OBVIOUS
<1>1. QED
  BY DEF Init, LoopInv

LEMMA StepLoop == LoopInv /\ at \in Nat \ {0} /\ [Next]_vars => LoopInv'
<1> SUFFICES ASSUME LoopInv, at \in Nat \ {0}, [Next]_vars PROVE LoopInv'
  OBVIOUS
<1>0. setup \in Setups /\ conf = setup.conf
  BY DEF LoopInv
<1>1. /\ Len(setup.made) \in Nat \ {0} /\ Len(setup.programs) \in Nat \ {0}
      /\ DOMAIN setup.made = 1..Len(setup.made)
      /\ DOMAIN setup.programs = 1..Len(setup.programs)
  BY <1>0, SetupFacts
<1> DEFINE Stay == UNCHANGED <<setup, conf, phase, at>>
<1>2. Stay => LoopInv'
  BY DEF LoopInv
<1> USE DEF LoopInv, clientVars, runnerVars
<1>3. Compile => LoopInv'
  BY <1>1 DEF Compile, Advance, Fail
<1>4. ReadTopology => LoopInv'
  BY <1>1 DEF ReadTopology
<1>5. MakeSwitch => LoopInv'
  BY <1>1 DEF MakeSwitch, Advance, Fail
<1>6. StartSwitch => LoopInv'
  BY <1>1 DEF StartSwitch
<1>7. CheckSwitchStarted => LoopInv'
  BY <1>1 DEF CheckSwitchStarted, Advance, Fail
<1>8. ProgramHosts => LoopInv'
  BY <1>1 DEF ProgramHosts
<1>9. ProgramExerciseSwitch => LoopInv'
  BY <1>1 DEF ProgramExerciseSwitch, Advance, Fail
<1>10. CallProgramSwitch => Stay
  BY DEF CallProgramSwitch, Call, SkipSwitch, BadP4Info, Connect
<1>11. InProgramSwitch => Stay
  BY DEF InProgramSwitch, ProgramSwitch, MasterArbitrationUpdate, SetForwardingPipelineConfig, Insert,
         Finish, Raise
<1>12. ProgramNext => LoopInv'
  BY <1>1 DEF ProgramNext, Advance, Fail
<1>13. StopSwitch => LoopInv'
  BY <1>1 DEF StopSwitch, Advance
<1>14. LeaveCli => LoopInv'
  BY <1>1 DEF LeaveCli
<1>15. ASSUME NEW s \in Switch, Bind(s) \/ Die(s) \/ RunCli(s) PROVE Stay
  BY <1>15 DEF Bind, Die, RunCli
<1>16. OtherPrograms \/ UNCHANGED vars => Stay
  BY DEF OtherPrograms, Occupy, Leave, vars
<1> HIDE DEF Stay, LoopInv
<1>17. QED
  BY <1>2, <1>3, <1>4, <1>5, <1>6, <1>7, <1>8, <1>9, <1>10, <1>11, <1>12, <1>13, <1>14, <1>15, <1>16
     DEF Next, Script

ClientTypes ==
  /\ busy \in Switch \cup {NoSwitch} /\ step \in Step /\ sent \in Nat
  /\ outcome \in [Switch -> Outcome]
  /\ stream \in [Switch -> {"none", "open", "closed"}]
  /\ DOMAIN dump = Switch
ServerTypes == serving \subseteq Switch /\ pipeline \subseteq serving /\ DOMAIN installed = Switch
RunnerTypes ==
  /\ phase \in Phase /\ at \in Nat \ {0} /\ tries \in 0..Timeout
  /\ {thriftPort, grpcPort} \subseteq [Switch -> Nat]
  /\ deviceId \in [Switch -> Nat \cup {-1}]
ProcessTypes ==
  /\ process \in [Switch -> {"none", "booting", "serving", "dead"}]
  /\ cli \in [Switch -> {"none", "running", "done"}]
  /\ commanded \subseteq Switch \X Switch

OtherTypes ==
  occupied \subseteq setup.occupied \cup setup.contested /\ intruded \subseteq setup.contested

LEMMA TypesAreTypes ==
  TypeOK <=> ClientTypes /\ ServerTypes /\ RunnerTypes /\ ProcessTypes /\ OtherTypes
  BY DEF TypeOK, ClientTypes, ServerTypes, RunnerTypes, ProcessTypes, OtherTypes

LEMMA InitTypes == Init => TypeOK
<1> SUFFICES ASSUME Init PROVE TypeOK
  OBVIOUS
<1>1. ClientTypes /\ ServerTypes
  BY DEF Init, ClientInit, ServerInit, ClientTypes, ServerTypes, Step, Outcome
<1>2. RunnerTypes
  BY ExerciseAssumption DEF Init, RunnerTypes, Phase, NoPort
<1>3. ProcessTypes /\ OtherTypes
  BY DEF Init, ProcessTypes, OtherTypes
<1>4. QED
  BY <1>1, <1>2, <1>3, TypesAreTypes

\* Only the client's own steps change its state.
LEMMA StepClient ==
  ASSUME [Next]_vars
  PROVE  \/ UNCHANGED clientVars
         \/ /\ CallProgramSwitch \/ InProgramSwitch
            /\ UNCHANGED <<serving, setup, runnerVars, processVars>>
<1> DEFINE Others == UNCHANGED clientVars
<1>1. Compile \/ ReadTopology \/ MakeSwitch \/ StartSwitch => Others
  BY DEF Compile, ReadTopology, MakeSwitch, StartSwitch
<1>2. CheckSwitchStarted \/ ProgramHosts \/ ProgramExerciseSwitch \/ ProgramNext => Others
  BY DEF CheckSwitchStarted, ProgramHosts, ProgramExerciseSwitch, ProgramNext
<1>3. StopSwitch \/ LeaveCli => Others
  BY DEF StopSwitch, LeaveCli
<1>4. ASSUME NEW s \in Switch, Bind(s) \/ Die(s) \/ RunCli(s) PROVE Others
  BY <1>4 DEF Bind, Die, RunCli
<1>5. CallProgramSwitch \/ InProgramSwitch => UNCHANGED <<serving, setup, runnerVars, processVars>>
  BY DEF CallProgramSwitch, InProgramSwitch
<1>6. OtherPrograms \/ UNCHANGED vars => Others
  BY DEF OtherPrograms, Occupy, Leave, vars
<1> HIDE DEF Others
<1>7. Others \/ CallProgramSwitch \/ InProgramSwitch
  BY <1>1, <1>2, <1>3, <1>4, <1>6 DEF Next, Script
<1>8. QED
  BY <1>5, <1>7 DEF Others

\* The switch that is programmed is one.
LEMMA ProgrammedIsSwitch ==
  ASSUME LoopInv, phase = "program" PROVE Programmed \in Switch
<1>1. at \in DOMAIN setup.programs /\ setup \in Setups
  BY DEF LoopInv
<1>2. QED
  BY <1>1, SetupFacts DEF Programmed

LEMMA CurrentIsSwitch ==
  ASSUME LoopInv, phase \in {"make", "start", "await", "stop"} PROVE Current \in Switch
<1>1. at \in DOMAIN setup.made /\ setup \in Setups
  BY DEF LoopInv
<1>2. QED
  BY <1>1, SetupFacts DEF Current

LEMMA StepClientTypes ==
  ASSUME LoopInv, ClientTypes, [Next]_vars PROVE ClientTypes'
<1> USE DEF ClientTypes, Step, Outcome
<1>1. CASE UNCHANGED clientVars
  BY <1>1 DEF clientVars
<1>2. CASE CallProgramSwitch
  <2>1. Programmed \in Switch
    BY <1>2, ProgrammedIsSwitch DEF CallProgramSwitch
  <2>2. QED
    BY <1>2, <2>1 DEF CallProgramSwitch, Call, SkipSwitch, BadP4Info, Connect, Return
<1>3. CASE InProgramSwitch
  BY <1>3 DEF InProgramSwitch, ProgramSwitch, MasterArbitrationUpdate, SetForwardingPipelineConfig,
              Insert, Finish, Raise, Refused, Return, Shutdown, LogMessage
<1>4. QED
  BY <1>1, <1>2, <1>3, StepClient

LEMMA StepServerTypes ==
  ASSUME ServerTypes, [Next]_vars PROVE ServerTypes'
<1> USE DEF ServerTypes
<1> DEFINE Same == UNCHANGED <<serving, serverVars>>
<1>0. Same => ServerTypes'
  BY DEF serverVars
<1>1. Compile \/ ReadTopology \/ MakeSwitch \/ StartSwitch => Same
  BY DEF Compile, ReadTopology, MakeSwitch, StartSwitch
<1>2. CheckSwitchStarted \/ ProgramHosts \/ ProgramExerciseSwitch \/ ProgramNext \/ LeaveCli => Same
  BY DEF CheckSwitchStarted, ProgramHosts, ProgramExerciseSwitch, ProgramNext, LeaveCli
<1>3. CallProgramSwitch => Same
  BY DEF CallProgramSwitch, Call, SkipSwitch, BadP4Info, Connect
<1>4. InProgramSwitch => ServerTypes'
  BY DEF InProgramSwitch, ProgramSwitch, MasterArbitrationUpdate, SetForwardingPipelineConfig,
         Insert, Finish, Raise, Load, Write, serverVars
<1>5. StopSwitch => ServerTypes'
  BY DEF StopSwitch, ServerGone
<1>6. ASSUME NEW s \in Switch, Bind(s) \/ Die(s) \/ RunCli(s) PROVE ServerTypes'
  BY <1>6 DEF Bind, Die, RunCli, ServerGone, serverVars
<1>7. OtherPrograms \/ UNCHANGED vars => Same
  BY DEF OtherPrograms, Occupy, Leave, vars
<1> HIDE DEF Same, ServerTypes
<1>8. QED
  BY <1>0, <1>1, <1>2, <1>3, <1>4, <1>5, <1>6, <1>7 DEF Next, Script

LEMMA PortsAreNumbers ==
  ASSUME at \in Nat \ {0}, NEW s
  PROVE  NextThriftPort(s) \in Nat /\ NextGrpcPort \in Nat
<1> DEFINE P == {i \in 1..(at - 1) : SameClass(s, setup.made[i])}
<1>1. IsFiniteSet(1..(at - 1))
  BY FS_Interval
<1>2. IsFiniteSet(P)
  BY <1>1, FS_Subset
<1>3. Cardinality(P) \in Nat
  BY <1>2, FS_CardinalityType
<1>4. QED
  BY <1>3 DEF NextThriftPort, NextGrpcPort, FirstThriftPort, FirstGrpcPort

LEMMA StepRunnerTypes ==
  ASSUME RunnerTypes, [Next]_vars PROVE RunnerTypes'
<1> USE DEF RunnerTypes, Phase
<1> DEFINE Same == UNCHANGED runnerVars
           SamePorts == UNCHANGED <<thriftPort, grpcPort, deviceId>>
<1>0. Same => RunnerTypes'
  BY DEF runnerVars
<1>1. Compile \/ ReadTopology \/ ProgramHosts \/ ProgramNext \/ StopSwitch \/ LeaveCli => RunnerTypes'
  BY DEF Compile, ReadTopology, ProgramHosts, ProgramNext, StopSwitch, LeaveCli, Advance, Fail
<1>2. MakeSwitch => RunnerTypes'
  <2> SUFFICES ASSUME MakeSwitch PROVE RunnerTypes'
    OBVIOUS
  <2>1. NextThriftPort(Current) \in Nat /\ NextGrpcPort \in Nat /\ NoPort \in Nat
    BY PortsAreNumbers DEF NoPort
  <2>2. {thriftPort', grpcPort'} \subseteq [Switch -> Nat]
    BY <2>1 DEF MakeSwitch
  <2>3. deviceId' \in [Switch -> Nat \cup {-1}]
    BY DEF MakeSwitch
  <2>4. phase' \in Phase /\ at' \in Nat \ {0} /\ tries' \in 0..Timeout
    BY DEF MakeSwitch, Advance, Fail
  <2>5. QED
    BY <2>2, <2>3, <2>4
<1>3. StartSwitch => RunnerTypes'
  BY ExerciseAssumption DEF StartSwitch
<1>4. CheckSwitchStarted => RunnerTypes'
  BY ExerciseAssumption DEF CheckSwitchStarted, Advance, Fail
<1>5. ProgramExerciseSwitch => RunnerTypes'
  BY DEF ProgramExerciseSwitch, Advance, Fail
<1>6. CallProgramSwitch \/ InProgramSwitch => Same
  BY DEF CallProgramSwitch, InProgramSwitch
<1>7. ASSUME NEW s \in Switch, Bind(s) \/ Die(s) \/ RunCli(s) PROVE Same
  BY <1>7 DEF Bind, Die, RunCli
<1>8. OtherPrograms \/ UNCHANGED vars => Same
  BY DEF OtherPrograms, Occupy, Leave, vars
<1> HIDE DEF Same, RunnerTypes
<1>9. QED
  BY <1>0, <1>1, <1>2, <1>3, <1>4, <1>5, <1>6, <1>7, <1>8 DEF Next, Script

LEMMA StepProcessTypes ==
  ASSUME ProcessTypes, [Next]_vars PROVE ProcessTypes'
<1> USE DEF ProcessTypes
<1> DEFINE Same == UNCHANGED processVars
<1>0. Same => ProcessTypes'
  BY DEF processVars
<1>1. Compile \/ ReadTopology \/ MakeSwitch \/ CheckSwitchStarted \/ ProgramHosts => Same
  BY DEF Compile, ReadTopology, MakeSwitch, CheckSwitchStarted, ProgramHosts
<1>2. CallProgramSwitch \/ InProgramSwitch \/ ProgramNext \/ LeaveCli => Same
  BY DEF CallProgramSwitch, InProgramSwitch, ProgramNext, LeaveCli
<1>3. StartSwitch \/ ProgramExerciseSwitch \/ StopSwitch => ProcessTypes'
  BY DEF StartSwitch, ProgramExerciseSwitch, StopSwitch
<1>4. ASSUME NEW s \in Switch, Bind(s) \/ Die(s) \/ RunCli(s) PROVE ProcessTypes'
  BY <1>4 DEF Bind, Die, RunCli, Listeners
<1>5. OtherPrograms \/ UNCHANGED vars => Same
  BY DEF OtherPrograms, Occupy, Leave, vars
<1> HIDE DEF Same, ProcessTypes
<1>6. QED
  BY <1>0, <1>1, <1>2, <1>3, <1>4, <1>5 DEF Next, Script

\* Other programs come and go by themselves.
LEMMA OnlyOthersOccupy ==
  ASSUME [Next]_vars
  PROVE  OtherPrograms \/ UNCHANGED <<setup, otherVars>>
<1> DEFINE Same == UNCHANGED <<setup, otherVars>>
<1>1. Compile \/ ReadTopology \/ MakeSwitch \/ StartSwitch \/ CheckSwitchStarted \/ ProgramHosts => Same
  BY DEF Compile, ReadTopology, MakeSwitch, StartSwitch, CheckSwitchStarted, ProgramHosts
<1>2. ProgramExerciseSwitch \/ CallProgramSwitch \/ InProgramSwitch \/ ProgramNext \/ LeaveCli
        \/ StopSwitch => Same
  BY DEF ProgramExerciseSwitch, CallProgramSwitch, InProgramSwitch, ProgramNext, LeaveCli, StopSwitch
<1>3. ASSUME NEW s \in Switch, Bind(s) \/ Die(s) \/ RunCli(s) PROVE Same
  BY <1>3 DEF Bind, Die, RunCli
<1>4. UNCHANGED vars => Same
  BY DEF vars
<1> HIDE DEF Same
<1>5. OtherPrograms \/ Same
  BY <1>1, <1>2, <1>3, <1>4 DEF Next, Script
<1>6. QED
  BY <1>5 DEF Same

LEMMA StepOtherTypes == ASSUME OtherTypes, [Next]_vars PROVE OtherTypes'
<1>1. CASE UNCHANGED <<setup, otherVars>>
  BY <1>1 DEF OtherTypes, otherVars
<1>2. CASE OtherPrograms
  BY <1>2 DEF OtherTypes, OtherPrograms, Occupy, Leave
<1>3. QED
  BY <1>1, <1>2, OnlyOthersOccupy

Types == LoopInv /\ TypeOK

LEMMA StepTypes == Types /\ [Next]_vars => Types'
<1> SUFFICES ASSUME LoopInv, TypeOK, [Next]_vars PROVE LoopInv' /\ TypeOK'
  BY DEF Types
<1>1. ClientTypes /\ ServerTypes /\ RunnerTypes /\ ProcessTypes /\ OtherTypes
  BY TypesAreTypes
<1>2. ClientTypes' /\ ServerTypes' /\ RunnerTypes' /\ ProcessTypes' /\ OtherTypes'
  BY <1>1, StepClientTypes, StepServerTypes, StepRunnerTypes, StepProcessTypes, StepOtherTypes
<1>3. LoopInv'
  BY <1>1, StepLoop DEF RunnerTypes
<1>4. TypeOK'
  BY <1>2 DEF TypeOK, ClientTypes, ServerTypes, RunnerTypes, ProcessTypes, OtherTypes
<1>5. QED
  BY <1>3, <1>4

\* The variables keep their types, and no switch holds a pipeline that does not
\* serve.
THEOREM TypeCorrect == Spec => []TypeOK
<1>1. Init => Types
  BY InitLoop, InitTypes DEF Types
<1>2. Types => TypeOK
  BY DEF Types
<1>3. QED
  BY <1>1, <1>2, StepTypes, PTL DEF Spec

-----------------------------------------------------------------------------
(***************************************************************************)
(* program_switch is called once for a switch, and a switch has a pipeline *)
(* only from the call that loads it.                                       *)
(***************************************************************************)
CallInv ==
  \A s \in Switch :
    /\ stream[s] = "open" <=> busy = s
    /\ busy = s => outcome[s] = "none" /\ step # "returned" /\ conf[s] \in Accepted
    /\ busy = s /\ step # "entries" => sent = 0
    /\ s \in pipeline => conf[s] \in Accepted /\ (outcome[s] # "none" \/ (busy = s /\ step = "entries"))
    /\ outcome[s] = "done" => conf[s] \in Accepted
    /\ outcome[s] = "skipped" => conf[s] \notin Accepted

\* Whoever else takes a step, no switch gets a pipeline.
LEMMA OthersLoadNothing ==
  ASSUME [Next]_vars, ~CallProgramSwitch, ~InProgramSwitch
  PROVE  UNCHANGED clientVars /\ pipeline' \subseteq pipeline
<1> DEFINE Fewer == pipeline' \subseteq pipeline
<1>1. Compile \/ ReadTopology \/ MakeSwitch \/ StartSwitch => Fewer
  BY DEF Compile, ReadTopology, MakeSwitch, StartSwitch, serverVars
<1>2. CheckSwitchStarted \/ ProgramHosts \/ ProgramExerciseSwitch \/ ProgramNext \/ LeaveCli => Fewer
  BY DEF CheckSwitchStarted, ProgramHosts, ProgramExerciseSwitch, ProgramNext, LeaveCli, serverVars
<1>3. StopSwitch => Fewer
  BY DEF StopSwitch, ServerGone
<1>4. ASSUME NEW s \in Switch, Bind(s) \/ Die(s) \/ RunCli(s) PROVE Fewer
  BY <1>4 DEF Bind, Die, RunCli, ServerGone, serverVars
<1>5. OtherPrograms \/ UNCHANGED vars => Fewer
  BY DEF OtherPrograms, Occupy, Leave, vars, serverVars
<1> HIDE DEF Fewer
<1>6. Fewer
  BY <1>1, <1>2, <1>3, <1>4, <1>5 DEF Next, Script
<1>7. QED
  BY <1>6, StepClient DEF Fewer

LEMMA InitCalls == Init => CallInv
<1> SUFFICES ASSUME Init PROVE CallInv
  OBVIOUS
<1>1. QED
  BY P4RuntimeAssumption DEF Init, ClientInit, ServerInit, CallInv

LEMMA StepCalls == Types /\ CallInv /\ [Next]_vars => CallInv'
<1> SUFFICES ASSUME Types, CallInv, [Next]_vars PROVE CallInv'
  OBVIOUS
<1>0. /\ LoopInv /\ NoSwitch \notin Switch
      /\ busy \in Switch \cup {NoSwitch} /\ outcome \in [Switch -> Outcome]
      /\ stream \in [Switch -> {"none", "open", "closed"}]
  BY P4RuntimeAssumption DEF Types, TypeOK
<1>1. CASE ~CallProgramSwitch /\ ~InProgramSwitch
  <2>1. UNCHANGED clientVars /\ pipeline' \subseteq pipeline
    BY <1>1, OthersLoadNothing
  <2>2. QED
    BY <2>1 DEF CallInv, clientVars
<1>2. CASE CallProgramSwitch
  <2>1. Programmed \in Switch /\ busy = NoSwitch /\ outcome[Programmed] = "none" /\ Call(Programmed)
    BY <1>0, <1>2, ProgrammedIsSwitch DEF CallProgramSwitch
  <2> DEFINE s == Programmed
  <2>2. SkipSwitch(s) => CallInv'
    BY <1>0, <2>1 DEF SkipSwitch, Return, CallInv, serverVars
  <2>3. BadP4Info(s) => CallInv'
    BY <1>0, <2>1 DEF BadP4Info, Return, CallInv, serverVars
  <2>4. Connect(s) => CallInv'
    BY <1>0, <2>1 DEF Connect, CallInv, serverVars
  <2>5. QED
    BY <2>1, <2>2, <2>3, <2>4 DEF Call
<1>3. CASE InProgramSwitch
  <2>1. Programmed \in Switch /\ busy = Programmed /\ ProgramSwitch(Programmed)
    BY <1>0, <1>3, ProgrammedIsSwitch DEF InProgramSwitch
  <2> DEFINE s == Programmed
  <2>2. MasterArbitrationUpdate(s) => CallInv'
    BY <1>0, <2>1 DEF MasterArbitrationUpdate, CallInv, serverVars
  <2>3. SetForwardingPipelineConfig(s) => CallInv'
    BY <1>0, <2>1 DEF SetForwardingPipelineConfig, Load, CallInv
  <2>4. Insert(s) => CallInv'
    BY <1>0, <2>1 DEF Insert, Write, CallInv
  <2>5. Finish(s) => CallInv'
    BY <1>0, <2>1 DEF Finish, Shutdown, Return, CallInv, serverVars
  <2>6. Raise(s) => CallInv'
    BY <1>0, <2>1 DEF Raise, Shutdown, Return, CallInv, serverVars
  <2>7. QED
    BY <2>1, <2>2, <2>3, <2>4, <2>5, <2>6 DEF ProgramSwitch
<1>4. QED
  BY <1>1, <1>2, <1>3

\* A connection is open exactly while program_switch uses it, whatever fails.
THEOREM StreamsAreClosed == Spec => []NoOpenStreams
<1>1. Init => Types /\ CallInv
  BY InitLoop, InitTypes, InitCalls DEF Types
<1>2. Types /\ CallInv => NoOpenStreams
  BY DEF CallInv, NoOpenStreams
<1>3. QED
  BY <1>1, <1>2, StepTypes, StepCalls, PTL DEF Spec

-----------------------------------------------------------------------------
(***************************************************************************)
(* A process is started once, and its server is there only while it runs.  *)
(***************************************************************************)
NotStarted(j) ==
  \/ phase \in {"compile", "topology", "make"}
  \/ phase = "start" /\ j >= at
  \/ phase = "await" /\ j > at

ProcessInv ==
  /\ \A s \in serving : process[s] = "serving"
  /\ \A j \in DOMAIN setup.made : NotStarted(j) => process[setup.made[j]] = "none"

LEMMA InitProcesses == Init => ProcessInv
<1> SUFFICES ASSUME Init PROVE ProcessInv
  OBVIOUS
<1>1. \A j \in DOMAIN setup.made : setup.made[j] \in Switch
  BY SetupFacts DEF Init
<1>2. QED
  BY <1>1 DEF Init, ServerInit, ProcessInv

LEMMA StepProcesses == Types /\ ProcessInv /\ [Next]_vars => ProcessInv'
<1> SUFFICES ASSUME Types, ProcessInv, [Next]_vars PROVE ProcessInv'
  OBVIOUS
<1>0. /\ setup \in Setups /\ LoopInv /\ at \in Nat \ {0} /\ serving \subseteq Switch
      /\ process \in [Switch -> {"none", "booting", "serving", "dead"}]
  BY DEF Types, LoopInv, TypeOK
<1>1. /\ DOMAIN setup.made = 1..Len(setup.made) /\ Len(setup.made) \in Nat
      /\ \A j \in DOMAIN setup.made : setup.made[j] \in Switch
      /\ \A i, j \in DOMAIN setup.made : setup.made[i] = setup.made[j] => i = j
  BY <1>0, SetupFacts
<1> DEFINE Later == \A j \in DOMAIN setup.made : NotStarted(j)' => NotStarted(j)
           Fixed == UNCHANGED <<serving, setup, process>>
<1>2. Later /\ Fixed => ProcessInv'
  BY DEF ProcessInv
<1> USE DEF runnerVars, processVars, NotStarted
<1>3. Compile \/ ReadTopology \/ ProgramHosts \/ ProgramExerciseSwitch => Later /\ Fixed
  BY <1>0, <1>1 DEF Compile, ReadTopology, ProgramHosts, ProgramExerciseSwitch, Advance, Fail
<1>4. MakeSwitch => Later /\ Fixed
  BY <1>0, <1>1 DEF MakeSwitch, Advance, Fail
<1>5. CheckSwitchStarted => Later /\ Fixed
  BY <1>0, <1>1 DEF CheckSwitchStarted, Advance, Fail
<1>6. CallProgramSwitch \/ InProgramSwitch => Later /\ Fixed
  BY DEF CallProgramSwitch, InProgramSwitch
<1>7. ProgramNext \/ LeaveCli => Later /\ Fixed
  BY DEF ProgramNext, LeaveCli, Advance, Fail
<1>8. StartSwitch => ProcessInv'
  <2> SUFFICES ASSUME StartSwitch PROVE ProcessInv'
    OBVIOUS
  <2>1. at \in DOMAIN setup.made /\ phase = "start" /\ phase' = "await"
        /\ UNCHANGED <<serving, setup, at>>
        /\ process' = [process EXCEPT ![setup.made[at]] = "booting"]
    BY <1>0 DEF StartSwitch, LoopInv, Current
  <2>2. process[setup.made[at]] = "none"
    BY <1>1, <2>1 DEF ProcessInv
  <2>3. QED
    BY <1>0, <1>1, <2>1, <2>2 DEF ProcessInv
<1>9. StopSwitch => ProcessInv'
  <2> SUFFICES ASSUME StopSwitch PROVE ProcessInv'
    OBVIOUS
  <2>1. \A j : ~NotStarted(j)'
    BY DEF StopSwitch, Advance
  <2>2. serving' = serving \ {Current} /\ process' = [process EXCEPT ![Current] = "dead"]
        /\ UNCHANGED setup
    BY DEF StopSwitch, ServerGone
  <2>3. QED
    BY <1>0, <2>1, <2>2 DEF ProcessInv
<1>10. ASSUME NEW s \in Switch, Bind(s) PROVE ProcessInv'
  BY <1>0, <1>1, <1>10 DEF Bind, ProcessInv
<1>11. ASSUME NEW s \in Switch, Die(s) PROVE ProcessInv'
  BY <1>0, <1>1, <1>11 DEF Die, ServerGone, ProcessInv
<1>12. ASSUME NEW s \in Switch, RunCli(s) PROVE Later /\ Fixed
  BY <1>12 DEF RunCli
<1>13. OtherPrograms \/ UNCHANGED vars => Later /\ Fixed
  BY DEF OtherPrograms, Occupy, Leave, vars
<1> HIDE DEF Later, Fixed, NotStarted
<1>14. QED
  BY <1>2, <1>3, <1>4, <1>5, <1>6, <1>7, <1>8, <1>9, <1>10, <1>11, <1>12, <1>13 DEF Next, Script

-----------------------------------------------------------------------------
(***************************************************************************)
(* While program_switch sends entries, the switch is at the stage that the *)
(* number sent says, or dead.                                              *)
(***************************************************************************)
EntriesInv ==
  \A s \in Switch : busy = s /\ step = "entries" =>
    IF s \in serving THEN s \in pipeline /\ installed[s] = Stage(s, sent) ELSE process[s] = "dead"

Inv == Types /\ CallInv /\ ProcessInv /\ EntriesInv

LEMMA InitInv == Init => Inv
<1>1. Init => EntriesInv
  BY P4RuntimeAssumption DEF Init, ClientInit, EntriesInv
<1>2. QED
  BY <1>1, InitLoop, InitTypes, InitCalls, InitProcesses DEF Inv, Types

\* Every configuration is one of the files.
LEMMA Configured == ASSUME Types, NEW s \in Switch PROVE conf[s] \in DOMAIN Files
<1>1. setup \in Setups /\ conf = setup.conf
  BY DEF Types, LoopInv
<1>2. QED
  BY <1>1, SetupFacts

\* What a switch that serves no more held is gone, and it stays so.
LEMMA DeadStaysDead ==
  ASSUME Types, ProcessInv, [Next]_vars, NEW s \in Switch, process[s] = "dead"
  PROVE  process'[s] = "dead" /\ s \notin serving'
<1>0. /\ LoopInv /\ process \in [Switch -> {"none", "booting", "serving", "dead"}]
      /\ s \notin serving
  BY DEF Types, TypeOK, ProcessInv
<1> DEFINE Same == UNCHANGED <<process, serving>>
<1>1. Same => process'[s] = "dead" /\ s \notin serving'
  BY <1>0
<1> USE DEF processVars
<1>2. Compile \/ ReadTopology \/ MakeSwitch \/ CheckSwitchStarted \/ ProgramHosts => Same
  BY DEF Compile, ReadTopology, MakeSwitch, CheckSwitchStarted, ProgramHosts
<1>3. ProgramExerciseSwitch \/ CallProgramSwitch \/ InProgramSwitch \/ ProgramNext \/ LeaveCli => Same
  BY DEF ProgramExerciseSwitch, CallProgramSwitch, InProgramSwitch, ProgramNext, LeaveCli
<1>4. StartSwitch => process'[s] = "dead" /\ s \notin serving'
  <2> SUFFICES ASSUME StartSwitch PROVE process'[s] = "dead" /\ s \notin serving'
    OBVIOUS
  <2>1. at \in DOMAIN setup.made /\ at \in Nat
    BY <1>0 DEF StartSwitch, LoopInv, Types, TypeOK
  <2>2. process[Current] = "none"
    BY <2>1 DEF StartSwitch, ProcessInv, NotStarted, Current
  <2>3. QED
    BY <1>0, <2>2 DEF StartSwitch
<1>5. StopSwitch => process'[s] = "dead" /\ s \notin serving'
  BY <1>0 DEF StopSwitch, ServerGone
<1>6. ASSUME NEW r \in Switch, Bind(r) \/ Die(r) \/ RunCli(r)
      PROVE  process'[s] = "dead" /\ s \notin serving'
  BY <1>0, <1>6 DEF Bind, Die, RunCli, ServerGone
<1>7. OtherPrograms \/ UNCHANGED vars => Same
  BY DEF OtherPrograms, Occupy, Leave, vars
<1> HIDE DEF Same
<1>8. QED
  BY <1>1, <1>2, <1>3, <1>4, <1>5, <1>6, <1>7 DEF Next, Script

\* A switch that serves and holds a pipeline keeps both and its entries, or
\* dies, unless the client writes to it.
LEMMA OthersWriteNothing ==
  ASSUME Types, ProcessInv, [Next]_vars, ~CallProgramSwitch, ~InProgramSwitch, NEW s \in serving
  PROVE  \/ s \in serving' /\ installed'[s] = installed[s] /\ (s \in pipeline => s \in pipeline')
         \/ s \notin serving' /\ process'[s] = "dead"
<1>0. /\ process \in [Switch -> {"none", "booting", "serving", "dead"}] /\ s \in Switch
      /\ DOMAIN installed = Switch /\ LoopInv
  BY DEF Types, TypeOK
<1> DEFINE Same == UNCHANGED <<serving, serverVars>>
           Goal == \/ s \in serving' /\ installed'[s] = installed[s] /\ (s \in pipeline => s \in pipeline')
                   \/ s \notin serving' /\ process'[s] = "dead"
<1>1. Same => Goal
  BY DEF serverVars
<1>2. Compile \/ ReadTopology \/ MakeSwitch \/ StartSwitch => Same
  BY DEF Compile, ReadTopology, MakeSwitch, StartSwitch
<1>3. CheckSwitchStarted \/ ProgramHosts \/ ProgramExerciseSwitch \/ ProgramNext \/ LeaveCli => Same
  BY DEF CheckSwitchStarted, ProgramHosts, ProgramExerciseSwitch, ProgramNext, LeaveCli
<1>4. StopSwitch => Goal
  BY <1>0 DEF StopSwitch, ServerGone
<1>5. ASSUME NEW r \in Switch, Bind(r) \/ Die(r) \/ RunCli(r) PROVE Goal
  BY <1>0, <1>5 DEF Bind, Die, RunCli, ServerGone, serverVars
<1>6. OtherPrograms \/ UNCHANGED vars => Same
  BY DEF OtherPrograms, Occupy, Leave, vars
<1> HIDE DEF Same, Goal
<1>7. Goal
  BY <1>1, <1>2, <1>3, <1>4, <1>5, <1>6 DEF Next, Script
<1>8. QED
  BY <1>7 DEF Goal

\* Inserting an entry brings a switch to its next stage.
LEMMA InsertStages ==
  ASSUME Types, NEW s \in Switch, Insert(s), installed[s] = Stage(s, sent)
  PROVE  installed'[s] = Stage(s, sent + 1) /\ sent < Sends(s) /\ sent \in Nat
<1>0. sent \in Nat /\ conf[s] \in DOMAIN Files /\ DOMAIN installed = Switch
  BY Configured DEF Types, TypeOK
<1>1. sent < Len(Requests[conf[s]])
  BY DEF Insert, Sends
<1> DEFINE e == Requests[conf[s]][sent + 1]
<1>2. installed'[s] = {f \in installed[s] : f.key # e.key} \cup {e}
  BY <1>0 DEF Insert, Write, WireOf
<1>3. Stages[conf[s]][sent + 2] = {f \in Stages[conf[s]][sent + 1] : f.key # e.key} \cup {e}
  BY <1>0, <1>1, NextStage
<1>4. Stage(s, sent) = Stages[conf[s]][sent + 1] /\ Stage(s, sent + 1) = Stages[conf[s]][sent + 2]
  BY <1>0 DEF Stage
<1>5. QED
  BY <1>0, <1>1, <1>2, <1>3, <1>4 DEF Sends

LEMMA StepEntries == Inv /\ [Next]_vars => EntriesInv'
<1> SUFFICES ASSUME Inv, [Next]_vars PROVE EntriesInv'
  OBVIOUS
<1>0. /\ Types /\ LoopInv /\ ProcessInv /\ CallInv /\ EntriesInv
      /\ NoSwitch \notin Switch /\ serving \subseteq Switch /\ DOMAIN installed = Switch
      /\ process \in [Switch -> {"none", "booting", "serving", "dead"}]
  BY P4RuntimeAssumption DEF Inv, Types, TypeOK
<1>1. CASE ~CallProgramSwitch /\ ~InProgramSwitch
  <2> SUFFICES ASSUME NEW s \in Switch, busy' = s, step' = "entries"
               PROVE  IF s \in serving' THEN s \in pipeline' /\ installed'[s] = Stage(s, sent)'
                                        ELSE process'[s] = "dead"
    BY DEF EntriesInv
  <2>1. UNCHANGED <<conf, busy, step, sent>>
    BY <1>1, OthersLoadNothing DEF clientVars
  <2>2. Stage(s, sent)' = Stage(s, sent)
    BY <2>1 DEF Stage
  <2>3. CASE s \in serving
    <3>1. s \in pipeline /\ installed[s] = Stage(s, sent)
      BY <1>0, <2>1, <2>3 DEF EntriesInv
    <3>2. QED
      BY <1>0, <1>1, <2>2, <2>3, <3>1, OthersWriteNothing
  <2>4. CASE s \notin serving
    <3>1. process[s] = "dead"
      BY <1>0, <2>1, <2>4 DEF EntriesInv
    <3>2. QED
      BY <1>0, <3>1, DeadStaysDead
  <2>5. QED
    BY <2>3, <2>4
<1>2. CASE CallProgramSwitch
  <2>1. Programmed \in Switch
    BY <1>0, <1>2, ProgrammedIsSwitch DEF CallProgramSwitch
  <2>2. busy' = NoSwitch \/ step' = "arbitration"
    BY <1>2 DEF CallProgramSwitch, Call, SkipSwitch, BadP4Info, Connect, Return
  <2>3. QED
    BY <1>0, <2>2 DEF EntriesInv
<1>3. CASE InProgramSwitch
  <2> DEFINE s == Programmed
  <2>1. s \in Switch /\ busy = s /\ ProgramSwitch(s) /\ UNCHANGED <<serving, process>>
    BY <1>0, <1>3, ProgrammedIsSwitch DEF InProgramSwitch, processVars
  <2> HIDE DEF s
  <2>2. MasterArbitrationUpdate(s) => EntriesInv'
    BY DEF MasterArbitrationUpdate, EntriesInv
  <2>3. Finish(s) \/ Raise(s) => EntriesInv'
    BY <1>0 DEF Finish, Raise, Return, EntriesInv
  <2>4. SetForwardingPipelineConfig(s) => EntriesInv'
    <3> SUFFICES ASSUME SetForwardingPipelineConfig(s) PROVE EntriesInv'
      OBVIOUS
    <3>1. busy' = s /\ s \in serving' /\ s \in pipeline' /\ installed'[s] = {} /\ conf' = conf
      BY <1>0, <2>1 DEF SetForwardingPipelineConfig, Load
    <3>2. sent' = 0
      BY <1>0, <2>1 DEF SetForwardingPipelineConfig, CallInv
    <3>3. conf[s] \in DOMAIN Files
      BY <1>0, <2>1, Configured
    <3>4. Stages[conf[s]][1] = {}
      BY <3>3, FirstStage
    <3>5. Stages[conf'[s]][sent' + 1] = {}
      BY <3>1, <3>2, <3>4
    <3>6. QED
      BY <2>1, <3>1, <3>5 DEF EntriesInv, Stage
  <2>5. Insert(s) => EntriesInv'
    <3> SUFFICES ASSUME Insert(s) PROVE EntriesInv'
      OBVIOUS
    <3>1. s \in serving /\ s \in pipeline /\ step = "entries" /\ busy' = s /\ sent' = sent + 1
          /\ UNCHANGED <<conf, pipeline>>
      BY DEF Insert, Write
    <3>2. installed[s] = Stage(s, sent)
      BY <1>0, <2>1, <3>1 DEF EntriesInv
    <3>3. installed'[s] = Stage(s, sent + 1)
      BY <1>0, <2>1, <3>2, InsertStages
    <3>4. Stages[conf'[s]][sent' + 1] = installed'[s]
      BY <3>1, <3>3 DEF Stage
    <3>5. QED
      BY <2>1, <3>1, <3>4 DEF EntriesInv, Stage
  <2>6. QED
    BY <2>1, <2>2, <2>3, <2>4, <2>5 DEF ProgramSwitch
<1>4. QED
  BY <1>1, <1>2, <1>3

-----------------------------------------------------------------------------
(***************************************************************************)
(* The refinement.                                                         *)
(***************************************************************************)
LEMMA StepInv == Inv /\ [Next]_vars => Inv'
  BY StepTypes, StepCalls, StepProcesses, StepEntries DEF Inv

LEMMA InitDeployed == Init => Deployed!Init
<1> SUFFICES ASSUME Init PROVE Deployed!Init
  OBVIOUS
<1>1. \A s \in Switch : conf[s] \in DOMAIN Files
  BY InitInv, Configured DEF Inv
<1>2. \A s \in Switch : Stages[conf[s]] # <<>> /\ Stages[conf[s]][1] = {}
  BY <1>1, FirstStage
<1>3. QED
  BY <1>2 DEF Init, ClientInit, ServerInit, Deployed!Init

\* What a step leaves alone that Deployment speaks of.
Kept ==
  /\ UNCHANGED <<conf, pipeline, installed>>
  /\ {s \in Switch : outcome'[s] = "done"} = {s \in Switch : outcome[s] = "done"}
  /\ {s \in Switch : process'[s] = "dead"} = {s \in Switch : process[s] = "dead"}

LEMMA Stutters == Kept => UNCHANGED Deployed!vars
  BY DEF Kept, Deployed!vars

\* A process that is gone is a switch that is lost.
LEMMA GoneIsLost ==
  ASSUME NEW s \in Switch, process \in [Switch -> {"none", "booting", "serving", "dead"}],
         process' = [process EXCEPT ![s] = "dead"], ServerGone(s), UNCHANGED <<conf, outcome>>
  PROVE  Deployed!Lose(s)
  BY DEF ServerGone, Deployed!Lose

LEMMA OthersDeploy ==
  ASSUME Inv, [Next]_vars, ~CallProgramSwitch, ~InProgramSwitch
  PROVE  Kept \/ \E s \in Switch : Deployed!Lose(s)
<1>0. /\ LoopInv /\ ProcessInv
      /\ process \in [Switch -> {"none", "booting", "serving", "dead"}]
      /\ UNCHANGED <<conf, outcome>>
  BY OthersLoadNothing DEF Inv, Types, TypeOK, clientVars
<1> DEFINE Same == UNCHANGED <<conf, pipeline, installed, outcome, process>>
           Goal == Kept \/ \E s \in Switch : Deployed!Lose(s)
<1>1. Same => Goal
  BY DEF Kept
<1> USE DEF serverVars, processVars
<1>2. Compile \/ ReadTopology \/ MakeSwitch \/ CheckSwitchStarted \/ ProgramHosts => Same
  BY <1>0 DEF Compile, ReadTopology, MakeSwitch, CheckSwitchStarted, ProgramHosts
<1>3. ProgramExerciseSwitch \/ ProgramNext \/ LeaveCli => Same
  BY <1>0 DEF ProgramExerciseSwitch, ProgramNext, LeaveCli
<1>4. StartSwitch => Goal
  <2> SUFFICES ASSUME StartSwitch PROVE Goal
    OBVIOUS
  <2>1. at \in DOMAIN setup.made /\ at \in Nat
    BY <1>0 DEF StartSwitch, LoopInv, Inv, Types, TypeOK
  <2>2. process[Current] = "none"
    BY <1>0, <2>1 DEF StartSwitch, ProcessInv, NotStarted, Current
  <2>3. process' = [process EXCEPT ![Current] = "booting"] /\ UNCHANGED <<pipeline, installed>>
    BY DEF StartSwitch
  <2>4. Kept
    BY <1>0, <2>2, <2>3 DEF Kept
  <2>5. QED
    BY <2>4
<1>5. StopSwitch => Goal
  <2> SUFFICES ASSUME StopSwitch PROVE Goal
    OBVIOUS
  <2>1. PICK s \in Switch : s = Current
    BY <1>0, CurrentIsSwitch DEF StopSwitch
  <2>2. process' = [process EXCEPT ![s] = "dead"] /\ ServerGone(s)
    BY <2>1 DEF StopSwitch, ServerGone
  <2>3. Deployed!Lose(s)
    BY <1>0, <2>1, <2>2, GoneIsLost
  <2>4. QED
    BY <2>1, <2>3
<1>6. ASSUME NEW s \in Switch, Bind(s) PROVE Goal
  BY <1>0, <1>6 DEF Bind, Kept
<1>7. ASSUME NEW s \in Switch, Die(s) PROVE Goal
  BY <1>0, <1>7, GoneIsLost DEF Die
<1>8. ASSUME NEW s \in Switch, RunCli(s) PROVE Same
  BY <1>0, <1>8 DEF RunCli
<1>9. OtherPrograms \/ UNCHANGED vars => Same
  BY DEF OtherPrograms, Occupy, Leave, vars, clientVars
<1> HIDE DEF Same, Goal
<1>10. Goal
  BY <1>1, <1>2, <1>3, <1>4, <1>5, <1>6, <1>7, <1>8, <1>9 DEF Next, Script
<1>11. QED
  BY <1>10 DEF Goal

LEMMA CallDeploys == ASSUME Inv, CallProgramSwitch PROVE Kept
<1> DEFINE s == Programmed
<1>1. s \in Switch /\ outcome \in [Switch -> Outcome] /\ outcome[s] = "none"
  BY ProgrammedIsSwitch DEF CallProgramSwitch, Inv, Types, TypeOK
<1>2. UNCHANGED <<conf, serverVars, process>>
  BY DEF CallProgramSwitch, Call, SkipSwitch, BadP4Info, Connect, processVars
<1>3. outcome' = outcome \/ \E r \in {"skipped", "raised"} : outcome' = [outcome EXCEPT ![s] = r]
  BY DEF CallProgramSwitch, Call, SkipSwitch, BadP4Info, Connect, Return
<1> HIDE DEF s
<1>4. QED
  BY <1>1, <1>2, <1>3 DEF Kept, serverVars

\* Loading a pipeline is Load, an insertion Extend, a normal return Declare.
LEMMA ProgrammingDeploys ==
  ASSUME Inv, InProgramSwitch
  PROVE  Kept \/ \E s \in Switch : Deployed!Load(s) \/ Deployed!Extend(s) \/ Deployed!Declare(s)
<1>0. Programmed \in Switch /\ busy = Programmed /\ UNCHANGED process
  BY ProgrammedIsSwitch DEF InProgramSwitch, processVars, Inv, Types
<1>1. PICK s \in Switch : busy = s /\ ProgramSwitch(s) /\ UNCHANGED process
  BY <1>0 DEF InProgramSwitch, ProgramSwitch, MasterArbitrationUpdate, SetForwardingPipelineConfig,
              Insert, Finish, Raise, Refused, Return, Shutdown, LogMessage, Write, Load, CanBuild,
              Sends, WireOf, Keys
<1>2. /\ Types /\ CallInv /\ ProcessInv /\ EntriesInv /\ conf[s] \in DOMAIN Files
      /\ outcome \in [Switch -> Outcome] /\ outcome[s] = "none" /\ step # "returned"
      /\ DOMAIN installed = Switch /\ sent \in Nat
  BY <1>1, Configured DEF Inv, Types, TypeOK, CallInv
<1>3. /\ Stages[conf[s]][1] = {} /\ Len(Stages[conf[s]]) = Len(Requests[conf[s]]) + 1
      /\ Len(Requests[conf[s]]) \in Nat
  BY <1>2, FirstStage
<1>4. MasterArbitrationUpdate(s) => Kept
  BY <1>1 DEF MasterArbitrationUpdate, Kept, serverVars
<1>5. Raise(s) => Kept
  BY <1>1, <1>2 DEF Raise, Return, Kept, serverVars
<1>6. SetForwardingPipelineConfig(s) => Deployed!Load(s)
  <2> SUFFICES ASSUME SetForwardingPipelineConfig(s) PROVE Deployed!Load(s)
    OBVIOUS
  <2>1. s \in serving /\ step = "pipeline" /\ pipeline' = pipeline \cup {s}
        /\ installed' = [installed EXCEPT ![s] = {}] /\ UNCHANGED <<conf, outcome>>
    BY DEF SetForwardingPipelineConfig, Load
  <2>2. process[s] # "dead"
    BY <1>2, <2>1 DEF ProcessInv
  <2>3. s \notin pipeline
    BY <1>1, <1>2, <2>1 DEF CallInv
  <2>4. QED
    BY <1>1, <1>2, <1>3, <2>1, <2>2, <2>3 DEF Deployed!Load
<1>7. Insert(s) => Deployed!Extend(s)
  <2> SUFFICES ASSUME Insert(s) PROVE Deployed!Extend(s)
    OBVIOUS
  <2>1. s \in serving /\ s \in pipeline /\ step = "entries" /\ UNCHANGED <<conf, outcome, pipeline>>
    BY DEF Insert, Write
  <2>2. installed[s] = Stage(s, sent)
    BY <1>1, <1>2, <2>1 DEF EntriesInv
  <2>3. installed'[s] = Stage(s, sent + 1) /\ sent < Sends(s)
    BY <1>1, <1>2, <2>2, InsertStages
  <2>4. installed' = [installed EXCEPT ![s] = installed'[s]]
    BY <1>1, <1>2 DEF Insert, Write
  <2> DEFINE k == sent + 1
  <2>5. k \in 1..(Len(Stages[conf[s]]) - 1)
    BY <1>2, <1>3, <2>3 DEF Sends
  <2>6. installed[s] = Stages[conf[s]][k] /\ installed'[s] = Stages[conf[s]][k + 1]
    BY <2>2, <2>3 DEF Stage
  <2> HIDE DEF k
  <2>7. installed' = [installed EXCEPT ![s] = Stages[conf[s]][k + 1]]
    BY <2>4, <2>6
  <2>8. QED
    BY <1>1, <1>2, <2>1, <2>5, <2>6, <2>7 DEF Deployed!Extend
<1>8. Finish(s) => Deployed!Declare(s)
  <2> SUFFICES ASSUME Finish(s) PROVE Deployed!Declare(s)
    OBVIOUS
  <2>1. step = "entries" /\ sent = Len(Requests[conf[s]])
        /\ outcome' = [outcome EXCEPT ![s] = "done"] /\ UNCHANGED <<conf, pipeline, installed>>
    BY DEF Finish, Return, Sends, serverVars
  <2>2. IF s \in serving THEN s \in pipeline /\ installed[s] = Stage(s, sent)
                         ELSE process[s] = "dead"
    BY <1>1, <1>2, <2>1 DEF EntriesInv
  <2>3. process[s] = "dead" \/ (s \in pipeline /\ installed[s] = Stages[conf[s]][Len(Stages[conf[s]])])
    BY <1>3, <2>1, <2>2 DEF Stage
  <2>4. {r \in Switch : outcome'[r] = "done"} = {r \in Switch : outcome[r] = "done"} \cup {s}
    BY <1>1, <1>2, <2>1
  <2>5. QED
    BY <1>1, <2>1, <2>3, <2>4 DEF Deployed!Declare, Deployed!Complete
<1>9. Kept \/ Deployed!Load(s) \/ Deployed!Extend(s) \/ Deployed!Declare(s)
  BY <1>1, <1>4, <1>5, <1>6, <1>7, <1>8 DEF ProgramSwitch
<1>10. QED
  BY <1>1, <1>9

LEMMA StepDeployed == Inv /\ [Next]_vars => [Deployed!Next]_(Deployed!vars)
<1> SUFFICES ASSUME Inv, [Next]_vars PROVE Deployed!Next \/ UNCHANGED Deployed!vars
  OBVIOUS
<1>1. CASE CallProgramSwitch
  BY <1>1, CallDeploys, Stutters
<1>2. CASE InProgramSwitch
  BY <1>2, ProgrammingDeploys, Stutters DEF Deployed!Next
<1>3. CASE ~CallProgramSwitch /\ ~InProgramSwitch
  BY <1>3, OthersDeploy, Stutters DEF Deployed!Next
<1>4. QED
  BY <1>1, <1>2, <1>3

\* program_switch brings a switch from one stage of its configuration to the
\* next, and returns normally only after the last, whatever dies meanwhile.
THEOREM Refinement == Spec => ProgramsByStages
<1>1. QED
  BY InitInv, StepInv, InitDeployed, StepDeployed, PTL DEF Spec, ProgramsByStages, Deployed!Spec

-----------------------------------------------------------------------------
(***************************************************************************)
(* Deployment keeps its promise, whatever the stages: a switch that was    *)
(* declared ready holds its configuration until it is lost, for nothing is *)
(* loaded or extended once it is ready.                                    *)
(***************************************************************************)
THEOREM ReadyComplete == Deployed!Spec => []Deployed!ReadyIsComplete
<1> DEFINE TypeInv == DOMAIN installed = Switch /\ pipeline \subseteq Switch
           Both == TypeInv /\ Deployed!ReadyIsComplete
<1>1. Deployed!Init => Both
  BY DEF Deployed!Init, Deployed!ReadyIsComplete
<1>2. Both /\ [Deployed!Next]_(Deployed!vars) => Both'
  <2> SUFFICES ASSUME TypeInv, Deployed!ReadyIsComplete, [Deployed!Next]_(Deployed!vars) PROVE Both'
    OBVIOUS
  <2> USE DEF Deployed!ReadyIsComplete, Deployed!Complete
  <2>1. CASE UNCHANGED Deployed!vars
    BY <2>1 DEF Deployed!vars
  <2>2. ASSUME NEW s \in Switch, Deployed!Load(s) PROVE Both'
    BY <2>2 DEF Deployed!Load
  <2>3. ASSUME NEW s \in Switch, Deployed!Extend(s) PROVE Both'
    BY <2>3 DEF Deployed!Extend
  <2>4. ASSUME NEW s \in Switch, Deployed!Declare(s) PROVE Both'
    BY <2>4 DEF Deployed!Declare
  <2>5. ASSUME NEW s \in Switch, Deployed!Lose(s) PROVE Both'
    BY <2>5 DEF Deployed!Lose
  <2>6. QED
    BY <2>1, <2>2, <2>3, <2>4, <2>5 DEF Deployed!Next
<1>3. QED
  BY <1>1, <1>2, PTL DEF Deployed!Spec

LEMMA ReadySwitches == Spec => []Deployed!ReadyIsComplete
BY Refinement, ReadyComplete, PTL DEF ProgramsByStages

-----------------------------------------------------------------------------
(***************************************************************************)
(* What holds at the prompt and after: every switch that serves is in the  *)
(* network, and program_switch has returned for every switch that is.      *)
(***************************************************************************)
Prompted == phase \in {"cli", "stop", "ended"}

PromptInv ==
  /\ \A s \in Switch : process[s] # "none" => s \in InNetwork
  /\ IsRunner /\ (phase = "program" \/ Prompted) =>
       \A j \in DOMAIN setup.programs :
         Prompted \/ j < at => outcome[setup.programs[j]] \in {"done", "skipped"}

LEMMA InitPrompt == Init => PromptInv
  BY DEF Init, PromptInv, Prompted

\* No outcome is changed once it is there.
LEMMA OutcomesStay ==
  ASSUME Inv, [Next]_vars, NEW s \in Switch, outcome[s] # "none"
  PROVE  outcome'[s] = outcome[s]
<1>0. outcome \in [Switch -> Outcome] /\ CallInv
  BY DEF Inv, Types, TypeOK
<1>1. CASE UNCHANGED clientVars
  BY <1>1 DEF clientVars
<1>2. CASE CallProgramSwitch
  <2>1. Programmed # s
    BY <1>2 DEF CallProgramSwitch
  <2>2. QED
    BY <1>0, <1>2, <2>1 DEF CallProgramSwitch, Call, SkipSwitch, BadP4Info, Connect, Return
<1>3. CASE InProgramSwitch
  <2>1. Programmed # s
    BY <1>0, <1>3 DEF InProgramSwitch, CallInv
  <2>2. QED
    BY <1>0, <1>3, <2>1
       DEF InProgramSwitch, ProgramSwitch, MasterArbitrationUpdate, SetForwardingPipelineConfig,
           Insert, Finish, Raise, Return
<1>4. QED
  BY <1>1, <1>2, <1>3, StepClient

LEMMA StepNetwork ==
  ASSUME Inv, [Next]_vars, \A s \in Switch : process[s] # "none" => s \in InNetwork
  PROVE  UNCHANGED setup /\ \A s \in Switch : process'[s] # "none" => s \in InNetwork
<1>0. LoopInv /\ process \in [Switch -> {"none", "booting", "serving", "dead"}]
  BY DEF Inv, Types, TypeOK
<1> DEFINE Goal == UNCHANGED setup /\ \A s \in Switch : process'[s] # "none" => s \in InNetwork
           Same == UNCHANGED <<setup, process>>
<1>1. Same => Goal
  OBVIOUS
<1> USE DEF processVars
<1>2. Compile \/ ReadTopology \/ MakeSwitch \/ CheckSwitchStarted \/ ProgramHosts => Same
  BY DEF Compile, ReadTopology, MakeSwitch, CheckSwitchStarted, ProgramHosts
<1>3. ProgramExerciseSwitch \/ CallProgramSwitch \/ InProgramSwitch \/ ProgramNext \/ LeaveCli => Same
  BY DEF ProgramExerciseSwitch, CallProgramSwitch, InProgramSwitch, ProgramNext, LeaveCli
<1>4. phase \in {"start", "stop"} => Current \in InNetwork
  BY <1>0 DEF LoopInv, Current, InNetwork, Elements
<1>5. StartSwitch \/ StopSwitch => Goal
  BY <1>0, <1>4 DEF StartSwitch, StopSwitch
<1>6. ASSUME NEW r \in Switch, Bind(r) \/ Die(r) \/ RunCli(r) PROVE Goal
  BY <1>0, <1>6 DEF Bind, Die, RunCli
<1>7. OtherPrograms \/ UNCHANGED vars => Same
  BY DEF OtherPrograms, Occupy, Leave, vars
<1> HIDE DEF Same, Goal
<1>8. Goal
  BY <1>1, <1>2, <1>3, <1>5, <1>6, <1>7 DEF Next, Script
<1>9. QED
  BY <1>8 DEF Goal

LEMMA StepPrompt == Inv /\ PromptInv /\ [Next]_vars => PromptInv'
<1> SUFFICES ASSUME Inv, PromptInv, [Next]_vars PROVE PromptInv'
  OBVIOUS
<1>1. UNCHANGED setup /\ \A s \in Switch : process'[s] # "none" => s \in InNetwork
  BY StepNetwork DEF PromptInv
<1>2. /\ LoopInv /\ setup \in Setups /\ outcome \in [Switch -> Outcome] /\ at \in Nat \ {0}
      /\ DOMAIN setup.programs = 1..Len(setup.programs) /\ Len(setup.programs) \in Nat
      /\ \A j \in DOMAIN setup.programs : setup.programs[j] \in Switch
  BY SetupFacts DEF Inv, Types, TypeOK, LoopInv
<1> DEFINE Past(j) == Prompted \/ (phase = "program" /\ j < at)
           Returned(j) == outcome[setup.programs[j]] \in {"done", "skipped"}
<1> USE DEF Prompted
<1>3. ASSUME IsRunner, NEW j \in DOMAIN setup.programs, Past(j) PROVE Returned(j) /\ Returned(j)'
  <2>1. Returned(j)
    BY <1>3 DEF PromptInv
  <2>2. QED
    BY <1>1, <1>2, <2>1, OutcomesStay
<1>4. ASSUME IsRunner, NEW j \in DOMAIN setup.programs, Past(j)', ~Past(j) PROVE Returned(j)'
  <2> USE DEF runnerVars
  <2>1. CASE ProgramNext
    <3>1. at = j /\ phase = "program" /\ UNCHANGED outcome
      BY <1>2, <1>4, <2>1 DEF ProgramNext, Advance, Fail, clientVars
    <3>2. outcome[setup.programs[j]] \in {"done", "skipped"}
      BY <1>2, <1>4, <2>1, <3>1 DEF ProgramNext, Fail, Programmed, Outcome
    <3>3. QED
      BY <1>1, <3>1, <3>2
  <2>2. ~ProgramExerciseSwitch
    BY <1>4 DEF ProgramExerciseSwitch
  <2>3. ~Compile /\ ~ReadTopology /\ ~MakeSwitch /\ ~StartSwitch /\ ~CheckSwitchStarted
    BY <1>4 DEF Compile, ReadTopology, MakeSwitch, StartSwitch, CheckSwitchStarted, Advance, Fail
  <2>4. ~ProgramHosts /\ ~StopSwitch /\ ~LeaveCli
    BY <1>2, <1>4 DEF ProgramHosts, StopSwitch, LeaveCli, Advance, LoopInv
  <2>5. ~CallProgramSwitch /\ ~InProgramSwitch
    BY <1>4 DEF CallProgramSwitch, InProgramSwitch
  <2>6. ASSUME NEW s \in Switch PROVE ~Bind(s) /\ ~Die(s) /\ ~RunCli(s)
    BY <1>4 DEF Bind, Die, RunCli
  <2>7. ~OtherPrograms /\ ~UNCHANGED vars
    BY <1>4 DEF OtherPrograms, Occupy, Leave, vars
  <2>8. QED
    BY <2>1, <2>2, <2>3, <2>4, <2>5, <2>6, <2>7 DEF Next, Script
<1>5. QED
  BY <1>1, <1>3, <1>4 DEF PromptInv, InNetwork, IsRunner

LEMMA PromptedIsProgrammed ==
  ASSUME Inv, PromptInv, Deployed!ReadyIsComplete, Prompted, IsRunner, NEW s \in serving
  PROVE  IF conf[s] \in Accepted THEN installed[s] = Stage(s, Sends(s)) ELSE s \notin pipeline
<1>1. /\ Types /\ CallInv /\ s \in Switch /\ process[s] = "serving" /\ setup \in Setups
      /\ conf[s] \in DOMAIN Files
  BY Configured DEF Inv, Types, TypeOK, LoopInv, ProcessInv
<1>2. PICK j \in DOMAIN setup.programs : s = setup.programs[j]
  <2>1. s \in Elements(setup.made)
    BY <1>1 DEF PromptInv, InNetwork
  <2>2. Elements(setup.made) = Elements(setup.programs)
    BY <1>1, SetupFacts
  <2>3. s \in Elements(setup.programs)
    BY <2>1, <2>2
  <2>4. QED
    BY <2>3 DEF Elements
<1>3. outcome[s] \in {"done", "skipped"}
  BY <1>2 DEF PromptInv
<1>4. CASE outcome[s] = "skipped"
  BY <1>1, <1>4 DEF CallInv
<1>5. CASE outcome[s] = "done"
  <2>1. installed[s] = Stages[conf[s]][Len(Stages[conf[s]])]
    BY <1>1, <1>5 DEF Deployed!ReadyIsComplete, Deployed!Complete
  <2>2. Len(Stages[conf[s]]) = Sends(s) + 1
    BY <1>1, FirstStage DEF Sends
  <2>3. QED
    BY <1>1, <1>5, <2>1, <2>2 DEF CallInv, Stage
<1>6. QED
  BY <1>3, <1>4, <1>5

\* When the user gets the prompt, each switch that serves holds what its
\* configuration calls for, if that was accepted, and has no pipeline otherwise.
THEOREM PromptProgrammed == Spec => []PromptMeansProgrammed
<1>1. Inv /\ PromptInv /\ Deployed!ReadyIsComplete => PromptMeansProgrammed
  BY PromptedIsProgrammed DEF PromptMeansProgrammed, Prompted
<1>2. QED
  BY <1>1, InitInv, StepInv, InitPrompt, StepPrompt, ReadySwitches, PTL DEF Spec

-----------------------------------------------------------------------------
(***************************************************************************)
(* The file of requests.  It is begun with the call and has a message for  *)
(* each request so far; while the client sends, a switch that serves holds *)
(* all that is in the file, and only the request the call ends with may be *)
(* one it refused.  A switch that has not served yet has an empty file and *)
(* holds nothing.                                                          *)
(***************************************************************************)
Logged ==
  {Message(r) : r \in {PipelineRequest}
                        \cup UNION {{Requests[n][i] : i \in DOMAIN Requests[n]} : n \in DOMAIN Files}}
Sending(s) == busy = s /\ step = "entries"
Holds(s, i) == i > 1 => RequestAt(s, i).key \in Keys(s)

\* The i-th message is that of the i-th request.
InOrder(s) == \A i \in DOMAIN dump[s] : dump[s][i] = Message(RequestAt(s, i))

\* In the file is all that the switch holds, and the switch holds all but the last.
Agrees(s) ==
  /\ \A e \in installed[s] : \E i \in DOMAIN dump[s] : e = RequestAt(s, i)
  /\ \A i \in DOMAIN dump[s] : Sending(s) \/ i < Len(dump[s]) => Holds(s, i)

LogOf(s) ==
  /\ dump[s] \in Seq(Logged) /\ InOrder(s)
  /\ Sending(s) => Len(dump[s]) = sent + 1
  /\ s \notin pipeline => installed[s] = {}
  /\ outcome[s] = "none" /\ ~Sending(s) => dump[s] = <<>>
  /\ process[s] \in {"none", "booting"} =>
       dump[s] = <<>> /\ ~(busy = s /\ step \in {"pipeline", "entries"})
  /\ s \in serving => Agrees(s)

LogInv == \A s \in Switch : LogOf(s)

LEMMA InitLog == Init => LogInv
<1> SUFFICES ASSUME Init, NEW s \in Switch PROVE LogOf(s)
  BY DEF LogInv
<1>1. dump[s] = <<>> /\ installed[s] = {} /\ serving = {} /\ busy = NoSwitch
  BY DEF Init, ClientInit, ServerInit
<1>2. ~Sending(s) /\ busy # s
  BY <1>1, P4RuntimeAssumption DEF Sending
<1>3. QED
  BY <1>1, <1>2 DEF LogOf, InOrder

\* Every request is one of a file.
LEMMA RequestIsLogged ==
  ASSUME Types, NEW s \in Switch, sent < Sends(s), sent \in Nat
  PROVE  Message(WireOf(s, sent + 1)) \in Logged
<1>1. conf[s] \in DOMAIN Files
  BY Configured
<1>2. PICK S : Requests[conf[s]] \in Seq(S)
  BY <1>1, RequestsAreSequences
<1>3. sent + 1 \in DOMAIN Requests[conf[s]]
  BY <1>2 DEF Sends
<1>4. WireOf(s, sent + 1) \in UNION {{Requests[n][i] : i \in DOMAIN Requests[n]} : n \in DOMAIN Files}
  BY <1>1, <1>3 DEF WireOf
<1>5. QED
  BY <1>4 DEF Logged

LEMMA PipelineIsLogged == Message(PipelineRequest) \in Logged
  BY DEF Logged

LEMMA RequestsStay == ASSUME conf' = conf, NEW s, NEW i PROVE RequestAt(s, i)' = RequestAt(s, i)
  BY DEF RequestAt, WireOf

\* What is true of a switch and its file stays so with them.
LEMMA AgreesStays ==
  ASSUME UNCHANGED conf, NEW s, dump'[s] = dump[s], installed'[s] = installed[s],
         Agrees(s), Sending(s)' => Sending(s)
  PROVE  Agrees(s)'
<1>1. \A i : RequestAt(s, i)' = RequestAt(s, i)
  BY RequestsStay
<1>2. \A i : Holds(s, i) => Holds(s, i)'
  BY <1>1 DEF Holds, Keys
<1>3. QED
  BY <1>1, <1>2 DEF Agrees

LEMMA OrderStays == ASSUME UNCHANGED conf, NEW s, dump'[s] = dump[s], InOrder(s) PROVE InOrder(s)'
  BY RequestsStay DEF InOrder

\* What a step that is not the client's does to a switch: it is lost, or goes
\* on as it was, or has just begun to serve.
LEMMA OthersLeaveSwitch ==
  ASSUME Types, ProcessInv, [Next]_vars, ~CallProgramSwitch, ~InProgramSwitch, NEW s \in Switch
  PROVE  \/ process'[s] = "dead" /\ s \notin serving' /\ installed'[s] = {}
         \/ /\ installed'[s] = installed[s] /\ (s \in pipeline' <=> s \in pipeline)
            /\ s \in serving' => s \in serving \/ process[s] = "booting"
            /\ process'[s] \in {"none", "booting"} => process[s] \in {"none", "booting"}
<1> DEFINE Lost == process'[s] = "dead" /\ s \notin serving' /\ installed'[s] = {}
           Stays == /\ installed'[s] = installed[s] /\ (s \in pipeline' <=> s \in pipeline)
                    /\ s \in serving' => s \in serving \/ process[s] = "booting"
                    /\ process'[s] \in {"none", "booting"} => process[s] \in {"none", "booting"}
           Same == UNCHANGED <<serving, serverVars, process>>
<1>0. /\ LoopInv /\ process \in [Switch -> {"none", "booting", "serving", "dead"}]
      /\ DOMAIN installed = Switch
  BY DEF Types, TypeOK
<1>1. Same => Stays
  BY DEF serverVars
<1> USE DEF processVars
<1>2. Compile \/ ReadTopology \/ MakeSwitch \/ CheckSwitchStarted => Same
  BY DEF Compile, ReadTopology, MakeSwitch, CheckSwitchStarted
<1>3. ProgramHosts \/ ProgramExerciseSwitch \/ ProgramNext \/ LeaveCli => Same
  BY DEF ProgramHosts, ProgramExerciseSwitch, ProgramNext, LeaveCli
<1>4. StartSwitch => Stays
  <2> SUFFICES ASSUME StartSwitch PROVE Stays
    OBVIOUS
  <2>1. at \in DOMAIN setup.made /\ at \in Nat
    BY <1>0 DEF StartSwitch, LoopInv, Types, TypeOK
  <2>2. process[Current] = "none"
    BY <2>1 DEF StartSwitch, ProcessInv, NotStarted, Current
  <2>3. UNCHANGED <<serving, pipeline, installed>>
    BY DEF StartSwitch, serverVars
  <2>4. QED
    BY <1>0, <2>2, <2>3 DEF StartSwitch
<1>5. StopSwitch => Lost \/ Stays
  BY <1>0 DEF StopSwitch, ServerGone
<1>6. ASSUME NEW r \in Switch, Bind(r) PROVE Stays
  BY <1>0, <1>6 DEF Bind, serverVars
<1>7. ASSUME NEW r \in Switch, Die(r) PROVE Lost \/ Stays
  BY <1>0, <1>7 DEF Die, ServerGone
<1>8. ASSUME NEW r \in Switch, RunCli(r) PROVE Same
  BY <1>8 DEF RunCli
<1>9. OtherPrograms \/ UNCHANGED vars => Same
  BY DEF OtherPrograms, Occupy, Leave, vars
<1> HIDE DEF Lost, Stays, Same
<1>10. Lost \/ Stays
  BY <1>1, <1>2, <1>3, <1>4, <1>5, <1>6, <1>7, <1>8, <1>9 DEF Next, Script
<1>11. QED
  BY <1>10 DEF Lost, Stays

LEMMA OthersLog ==
  ASSUME Inv, LogInv, [Next]_vars, ~CallProgramSwitch, ~InProgramSwitch
  PROVE  LogInv'
<1> SUFFICES ASSUME NEW s \in Switch PROVE LogOf(s)'
  BY DEF LogInv
<1>0. /\ Types /\ ProcessInv /\ LogOf(s)
      /\ pipeline \subseteq serving /\ pipeline' \subseteq serving'
      /\ \A r \in serving : process[r] = "serving"
  BY StepTypes DEF Inv, LogInv, Types, TypeOK, ProcessInv
<1>1. UNCHANGED <<conf, dump, outcome, busy, step, sent>>
  BY OthersLoadNothing DEF clientVars
<1>2. (Sending(s)' <=> Sending(s)) /\ InOrder(s)'
  BY <1>0, <1>1, OrderStays DEF Sending, LogOf
<1>3. CASE process'[s] = "dead" /\ s \notin serving' /\ installed'[s] = {}
  BY <1>0, <1>1, <1>2, <1>3 DEF LogOf
<1>4. CASE /\ installed'[s] = installed[s] /\ (s \in pipeline' <=> s \in pipeline)
           /\ s \in serving' => s \in serving \/ process[s] = "booting"
           /\ process'[s] \in {"none", "booting"} => process[s] \in {"none", "booting"}
  <2>1. CASE process[s] = "booting"
    <3>1. dump[s] = <<>> /\ installed[s] = {}
      BY <1>0, <2>1 DEF LogOf
    <3>2. Agrees(s)'
      BY <1>1, <1>4, <3>1 DEF Agrees
    <3>3. QED
      BY <1>0, <1>1, <1>2, <1>4, <2>1, <3>2 DEF LogOf
  <2>2. CASE process[s] # "booting"
    <3>1. Agrees(s) => Agrees(s)'
      BY <1>1, <1>2, <1>4, AgreesStays
    <3>2. QED
      BY <1>0, <1>1, <1>2, <1>4, <2>2, <3>1 DEF LogOf
  <2>3. QED
    BY <2>1, <2>2
<1>5. QED
  BY <1>0, <1>3, <1>4, OthersLeaveSwitch

LEMMA CallLogs == ASSUME Inv, LogInv, CallProgramSwitch PROVE LogInv'
<1> SUFFICES ASSUME NEW r \in Switch PROVE LogOf(r)'
  BY DEF LogInv
<1> DEFINE s == Programmed
<1>0. /\ s \in Switch /\ busy = NoSwitch /\ outcome[s] = "none" /\ Call(s) /\ LogOf(r)
      /\ outcome \in [Switch -> Outcome] /\ DOMAIN dump = Switch
      /\ UNCHANGED <<serving, process>> /\ NoSwitch \notin Switch
  BY ProgrammedIsSwitch, P4RuntimeAssumption
     DEF CallProgramSwitch, Inv, Types, TypeOK, LogInv, processVars
<1>1. UNCHANGED <<conf, pipeline, installed>>
  BY <1>0 DEF Call, SkipSwitch, BadP4Info, Connect, serverVars
<1>2. ~Sending(r) /\ ~Sending(r)' /\ ~(busy' = r /\ step' \in {"pipeline", "entries"})
  BY <1>0 DEF Call, SkipSwitch, BadP4Info, Connect, Return, Sending
<1>3. dump'[r] = dump[r]
  <2>1. dump[s] = <<>>
    BY <1>0 DEF LogInv, LogOf, Sending
  <2>2. QED
    BY <1>0, <2>1 DEF Call, SkipSwitch, BadP4Info, Connect
<1>4. outcome'[r] = "none" => outcome[r] = "none"
  BY <1>0 DEF Call, SkipSwitch, BadP4Info, Connect, Return
<1>5. (Agrees(r) => Agrees(r)') /\ (InOrder(r) => InOrder(r)')
  BY <1>1, <1>2, <1>3, AgreesStays, OrderStays
<1>6. QED
  BY <1>0, <1>1, <1>2, <1>3, <1>4, <1>5 DEF LogOf

\* A step of program_switch for s leaves every other switch and its file alone.
LEMMA ProgrammingLeavesOthers ==
  ASSUME Inv, NEW s \in Switch, busy = s, ProgramSwitch(s), UNCHANGED <<serving, process>>,
         NEW r \in Switch, r # s, LogOf(r)
  PROVE  LogOf(r)'
<1>0. /\ DOMAIN dump = Switch /\ DOMAIN installed = Switch /\ DOMAIN outcome = Switch
      /\ NoSwitch \notin Switch
  BY P4RuntimeAssumption DEF Inv, Types, TypeOK
<1>1. /\ dump'[r] = dump[r] /\ installed'[r] = installed[r] /\ outcome'[r] = outcome[r]
      /\ r \in pipeline' <=> r \in pipeline
      /\ busy # r /\ busy' # r /\ UNCHANGED conf
  BY <1>0 DEF ProgramSwitch, MasterArbitrationUpdate, SetForwardingPipelineConfig, Insert, Finish,
              Raise, Refused, Return, LogMessage, Load, Write, serverVars
<1>2. ~Sending(r) /\ ~Sending(r)'
  BY <1>1 DEF Sending
<1>3. (Agrees(r) => Agrees(r)') /\ (InOrder(r) => InOrder(r)')
  BY <1>1, <1>2, AgreesStays, OrderStays
<1>4. QED
  BY <1>1, <1>2, <1>3 DEF LogOf

\* A message on top of a file.
LEMMA OneMore ==
  ASSUME NEW S, NEW d \in Seq(S), NEW w \in S
  PROVE  /\ Append(d, w) \in Seq(S) /\ Len(Append(d, w)) = Len(d) + 1 /\ Len(d) \in Nat
         /\ DOMAIN d = 1..Len(d) /\ DOMAIN Append(d, w) = 1..(Len(d) + 1)
         /\ \A i \in 1..Len(d) : Append(d, w)[i] = d[i]
         /\ Append(d, w)[Len(d) + 1] = w
OBVIOUS

\* The next entry's message, whatever comes of the entry.
LEMMA NextMessage ==
  ASSUME Types, NEW s \in Switch, Sending(s), sent < Sends(s), UNCHANGED conf,
         LogMessage(s, WireOf(s, sent + 1)), LogOf(s)
  PROVE  /\ dump'[s] \in Seq(Logged) /\ InOrder(s)'
         /\ Len(dump'[s]) = Len(dump[s]) + 1 /\ Len(dump[s]) = sent + 1 /\ sent \in Nat
         /\ DOMAIN dump[s] = 1..Len(dump[s]) /\ DOMAIN dump'[s] = 1..(Len(dump[s]) + 1)
         /\ RequestAt(s, Len(dump[s]) + 1) = WireOf(s, sent + 1)
<1>0. DOMAIN dump = Switch /\ sent \in Nat /\ dump[s] \in Seq(Logged) /\ InOrder(s) /\ Len(dump[s]) = sent + 1
  BY DEF Types, TypeOK, LogOf
<1> DEFINE w == Message(WireOf(s, sent + 1))
           d == dump[s]
<1>1. w \in Logged
  BY <1>0, RequestIsLogged
<1>2. dump'[s] = Append(d, w)
  BY <1>0 DEF LogMessage
<1>3. RequestAt(s, sent + 2) = WireOf(s, sent + 1)
  <2>1. sent + 2 # 1 /\ (sent + 2) - 1 = sent + 1
    BY <1>0
  <2>2. QED
    BY <2>1 DEF RequestAt
<1> HIDE DEF w
<1>4. /\ dump'[s] \in Seq(Logged) /\ Len(dump'[s]) = Len(d) + 1 /\ Len(d) \in Nat
      /\ DOMAIN d = 1..Len(d) /\ DOMAIN dump'[s] = 1..(Len(d) + 1)
      /\ \A i \in 1..Len(d) : dump'[s][i] = d[i]
      /\ dump'[s][Len(d) + 1] = w
  BY <1>0, <1>1, <1>2, OneMore
<1>5. ASSUME NEW i \in DOMAIN dump'[s] PROVE dump'[s][i] = Message(RequestAt(s, i)')
  <2>0. RequestAt(s, i)' = RequestAt(s, i)
    BY RequestsStay
  <2>1. CASE i \in 1..Len(d)
    BY <1>0, <1>4, <2>0, <2>1 DEF InOrder
  <2>2. CASE i = Len(d) + 1
    <3>1. i = sent + 2
      BY <1>0, <2>2
    <3>2. QED
      BY <1>3, <1>4, <2>0, <2>2, <3>1 DEF w
  <2>3. QED
    BY <1>4, <1>5, <2>1, <2>2
<1>6. InOrder(s)'
  BY <1>5 DEF InOrder
<1>7. Len(d) + 1 = sent + 2
  BY <1>0
<1>8. QED
  BY <1>0, <1>3, <1>4, <1>6, <1>7

LEMMA InsertLogs ==
  ASSUME Inv, NEW s \in Switch, busy = s, Insert(s), UNCHANGED <<serving, process>>, LogOf(s)
  PROVE  LogOf(s)'
<1>0. /\ DOMAIN dump = Switch /\ DOMAIN installed = Switch /\ sent \in Nat /\ Types
      /\ step = "entries" /\ s \in serving /\ s \in pipeline
  BY DEF Inv, Types, TypeOK, Insert, Write
<1> DEFINE w == WireOf(s, sent + 1)
           d == dump[s]
<1>1. Agrees(s) /\ Sending(s) /\ sent < Sends(s) /\ LogMessage(s, w) /\ UNCHANGED conf
  BY <1>0 DEF LogOf, Sending, Insert
<1>2. /\ installed'[s] = {f \in installed[s] : f.key # w.key} \cup {w}
      /\ UNCHANGED <<busy, step, outcome, pipeline>> /\ sent' = sent + 1
  BY <1>0 DEF Insert, Write
<1>3. /\ dump'[s] \in Seq(Logged) /\ InOrder(s)' /\ Len(dump'[s]) = Len(d) + 1 /\ Len(d) = sent + 1
      /\ DOMAIN d = 1..Len(d) /\ DOMAIN dump'[s] = 1..(Len(d) + 1)
      /\ RequestAt(s, Len(d) + 1) = w
  BY <1>0, <1>1, NextMessage
<1>4. \A i : RequestAt(s, i)' = RequestAt(s, i)
  BY <1>1, RequestsStay
<1> HIDE DEF w, d
<1>5. \A e \in installed'[s] : \E i \in DOMAIN dump'[s] : e = RequestAt(s, i)
  <2> SUFFICES ASSUME NEW e \in installed'[s] PROVE \E i \in DOMAIN dump'[s] : e = RequestAt(s, i)
    OBVIOUS
  <2>0. Len(d) \in Nat
    BY <1>0, <1>3
  <2>1. CASE e = w
    BY <1>3, <2>0, <2>1
  <2>2. CASE e \in installed[s]
    <3>1. PICK i \in 1..Len(d) : e = RequestAt(s, i)
      BY <1>1, <1>3, <2>2 DEF Agrees, d
    <3>2. i \in DOMAIN dump'[s]
      BY <1>3, <2>0
    <3>3. QED
      BY <3>1, <3>2
  <2>3. QED
    BY <1>2, <2>1, <2>2
<1>6. Keys(s)' = Keys(s) \cup {w.key}
  BY <1>2 DEF Keys
<1>7. ASSUME NEW i \in DOMAIN dump'[s] PROVE Holds(s, i)'
  <2>1. CASE i = Len(d) + 1
    BY <1>3, <1>4, <1>6, <2>1 DEF Holds
  <2>2. CASE i \in 1..Len(d)
    <3>1. Holds(s, i)
      BY <1>1, <1>3, <2>2 DEF Agrees, d
    <3>2. QED
      BY <1>4, <1>6, <3>1 DEF Holds
  <2>3. QED
    BY <1>0, <1>3, <2>1, <2>2
<1>8. Agrees(s)'
  BY <1>4, <1>5, <1>7 DEF Agrees
<1>9. Sending(s)' /\ process'[s] \notin {"none", "booting"}
  BY <1>0, <1>2 DEF Sending, Inv, ProcessInv
<1>10. Len(dump'[s]) = sent' + 1
  BY <1>2, <1>3
<1>11. QED
  BY <1>0, <1>2, <1>3, <1>8, <1>9, <1>10 DEF LogOf

\* The file with the pipeline's message only.
LEMMA FirstMessage ==
  ASSUME NEW s \in Switch, DOMAIN dump = Switch, dump[s] = <<>>, LogMessage(s, PipelineRequest)
  PROVE  /\ dump'[s] \in Seq(Logged) /\ InOrder(s)' /\ Len(dump'[s]) = 1 /\ DOMAIN dump'[s] = {1}
<1>1. dump'[s] = <<Message(PipelineRequest)>>
  BY DEF LogMessage
<1>2. dump'[s] \in Seq(Logged) /\ Len(dump'[s]) = 1 /\ DOMAIN dump'[s] = {1}
      /\ dump'[s][1] = Message(PipelineRequest)
  BY <1>1, PipelineIsLogged
<1>3. RequestAt(s, 1)' = PipelineRequest
  BY DEF RequestAt
<1>4. InOrder(s)'
  BY <1>2, <1>3 DEF InOrder
<1>5. QED
  BY <1>2, <1>4

LEMMA RaiseLogs ==
  ASSUME Inv, NEW s \in Switch, busy = s, Raise(s), UNCHANGED <<serving, process>>, LogOf(s)
  PROVE  LogOf(s)'
<1>0. /\ DOMAIN dump = Switch /\ sent \in Nat /\ Types /\ outcome[s] = "none"
      /\ DOMAIN outcome = Switch /\ pipeline \subseteq serving /\ NoSwitch \notin Switch
      /\ s \in pipeline => step = "entries"
  BY P4RuntimeAssumption DEF Inv, Types, TypeOK, CallInv
<1>1. /\ UNCHANGED <<conf, installed, pipeline>> /\ outcome'[s] = "raised"
      /\ ~Sending(s)' /\ busy' # s
  BY <1>0 DEF Raise, Return, serverVars, Sending
<1>2. CASE UNCHANGED dump
  <2>1. (Agrees(s) => Agrees(s)') /\ InOrder(s)'
    BY <1>1, <1>2, AgreesStays, OrderStays DEF LogOf
  <2>2. QED
    BY <1>1, <1>2, <2>1 DEF LogOf
<1>3. CASE step = "pipeline" /\ LogMessage(s, PipelineRequest)
  <2>1. dump[s] = <<>> /\ installed[s] = {}
    BY <1>0, <1>3 DEF LogOf, Sending
  <2>2. dump'[s] \in Seq(Logged) /\ InOrder(s)' /\ Len(dump'[s]) = 1 /\ DOMAIN dump'[s] = {1}
    BY <1>0, <1>3, <2>1, FirstMessage
  <2>3. Agrees(s)'
    BY <1>1, <2>1, <2>2 DEF Agrees, Holds
  <2>4. process[s] \notin {"none", "booting"}
    BY <1>3 DEF LogOf
  <2>5. QED
    BY <1>1, <2>1, <2>2, <2>3, <2>4 DEF LogOf
<1>4. CASE step = "entries" /\ sent < Sends(s) /\ LogMessage(s, WireOf(s, sent + 1))
  <2> DEFINE d == dump[s]
  <2>1. Sending(s) /\ process[s] \notin {"none", "booting"}
    BY <1>4 DEF LogOf, Sending
  <2>2. /\ dump'[s] \in Seq(Logged) /\ InOrder(s)' /\ Len(dump'[s]) = Len(d) + 1 /\ Len(d) = sent + 1
        /\ DOMAIN d = 1..Len(d) /\ DOMAIN dump'[s] = 1..(Len(d) + 1)
    BY <1>0, <1>1, <1>4, <2>1, NextMessage
  <2>3. \A i : RequestAt(s, i)' = RequestAt(s, i)
    BY <1>1, RequestsStay
  <2> HIDE DEF d
  <2>4. ASSUME Agrees(s) PROVE Agrees(s)'
    <3>1. \A e \in installed'[s] : \E i \in DOMAIN dump'[s] : e = RequestAt(s, i)
      <4> SUFFICES ASSUME NEW e \in installed[s] PROVE \E i \in DOMAIN dump'[s] : e = RequestAt(s, i)
        BY <1>1
      <4>1. PICK i \in 1..Len(d) : e = RequestAt(s, i)
        BY <2>2, <2>4 DEF Agrees, d
      <4>2. i \in DOMAIN dump'[s]
        BY <1>0, <2>2
      <4>3. QED
        BY <4>1, <4>2
    <3>2. ASSUME NEW i \in DOMAIN dump'[s], i < Len(dump'[s]) PROVE Holds(s, i)'
      <4>1. i \in 1..Len(d)
        BY <1>0, <2>2, <3>2
      <4>2. Holds(s, i)
        BY <2>1, <2>2, <2>4, <4>1 DEF Agrees, d
      <4>3. QED
        BY <1>1, <2>3, <4>2 DEF Holds, Keys
    <3>3. QED
      BY <1>1, <2>3, <3>1, <3>2 DEF Agrees
  <2>5. QED
    BY <1>1, <2>1, <2>2, <2>4 DEF LogOf
<1>5. QED
  BY <1>2, <1>3, <1>4 DEF Raise, Refused

LEMMA ProgrammingLogs == ASSUME Inv, LogInv, InProgramSwitch PROVE LogInv'
<1>s1. Programmed \in Switch
  BY ProgrammedIsSwitch DEF InProgramSwitch, Inv, Types
<1>s2. PICK s \in Switch : s = Programmed
  BY <1>s1
<1>0. busy = s /\ UNCHANGED <<serving, process>>
  BY <1>s2 DEF InProgramSwitch, processVars
<1>1. ProgramSwitch(s) /\ LogOf(s)
  BY <1>s2 DEF InProgramSwitch, LogInv, ProgramSwitch, MasterArbitrationUpdate,
              SetForwardingPipelineConfig, Insert, Finish, Raise, Refused, Return, Shutdown,
              LogMessage, Write, Load, CanBuild, Sends, WireOf, Keys
<1>2. /\ DOMAIN dump = Switch /\ outcome[s] = "none" /\ DOMAIN outcome = Switch /\ DOMAIN installed = Switch
      /\ step # "entries" => s \notin pipeline
      /\ step = "pipeline" => sent = 0
      /\ NoSwitch \notin Switch /\ \A r \in serving : process[r] = "serving"
  BY <1>0, P4RuntimeAssumption DEF Inv, Types, TypeOK, CallInv, ProcessInv
<1>3. MasterArbitrationUpdate(s) => LogOf(s)'
  <2> SUFFICES ASSUME MasterArbitrationUpdate(s) PROVE LogOf(s)'
    OBVIOUS
  <2>1. s \in serving /\ step = "arbitration" /\ step' = "pipeline"
        /\ UNCHANGED <<conf, busy, outcome, dump, pipeline, installed>>
    BY DEF MasterArbitrationUpdate, serverVars
  <2>2. ~Sending(s) /\ ~Sending(s)'
    BY <2>1 DEF Sending
  <2>3. (Agrees(s) => Agrees(s)') /\ (InOrder(s) => InOrder(s)')
    BY <2>1, <2>2, AgreesStays, OrderStays
  <2>4. QED
    BY <1>0, <1>1, <1>2, <2>1, <2>2, <2>3 DEF LogOf
<1>4. SetForwardingPipelineConfig(s) => LogOf(s)'
  <2> SUFFICES ASSUME SetForwardingPipelineConfig(s) PROVE LogOf(s)'
    OBVIOUS
  <2>1. /\ step = "pipeline" /\ step' = "entries" /\ busy' = busy /\ busy = s /\ sent' = sent
        /\ s \in serving /\ s \in pipeline' /\ installed'[s] = {} /\ LogMessage(s, PipelineRequest)
    BY <1>0, <1>2 DEF SetForwardingPipelineConfig, Load
  <2>2. dump[s] = <<>>
    BY <1>1, <1>2, <2>1 DEF LogOf, Sending
  <2>3. dump'[s] \in Seq(Logged) /\ InOrder(s)' /\ Len(dump'[s]) = 1 /\ DOMAIN dump'[s] = {1}
    BY <1>2, <2>1, <2>2, FirstMessage
  <2>4. Sending(s)' /\ Len(dump'[s]) = sent' + 1
    BY <1>2, <2>1, <2>3 DEF Sending
  <2>5. Agrees(s)'
    BY <2>1, <2>3 DEF Agrees, Holds
  <2>6. process'[s] = "serving"
    BY <1>0, <1>2, <2>1
  <2>7. QED
    BY <2>1, <2>3, <2>4, <2>5, <2>6 DEF LogOf
<1>5. Insert(s) => LogOf(s)'
  BY <1>0, <1>1, InsertLogs
<1>6. Finish(s) => LogOf(s)'
  <2> SUFFICES ASSUME Finish(s) PROVE LogOf(s)'
    OBVIOUS
  <2>1. /\ UNCHANGED <<conf, dump, pipeline, installed>> /\ outcome'[s] = "done"
        /\ ~Sending(s)' /\ busy' # s
    BY <1>0, <1>2 DEF Finish, Return, serverVars, Sending
  <2>2. (Agrees(s) => Agrees(s)') /\ (InOrder(s) => InOrder(s)')
    BY <2>1, AgreesStays, OrderStays
  <2>3. QED
    BY <1>0, <1>1, <2>1, <2>2 DEF LogOf
<1>7. Raise(s) => LogOf(s)'
  BY <1>0, <1>1, RaiseLogs
<1>8. LogOf(s)'
  BY <1>1, <1>3, <1>4, <1>5, <1>6, <1>7 DEF ProgramSwitch
<1>9. ASSUME NEW r \in Switch, r # s PROVE LogOf(r)'
  BY <1>0, <1>1, <1>9, ProgrammingLeavesOthers DEF LogInv
<1>10. QED
  BY <1>8, <1>9 DEF LogInv

LEMMA StepLog == Inv /\ LogInv /\ [Next]_vars => LogInv'
  BY OthersLog, CallLogs, ProgrammingLogs

\* The file of requests tells what a switch was sent, whoever dies and whatever
\* is refused: it has the requests of the configuration in their order, whole or
\* as notices; at most the last of them was refused, and what the switch holds is
\* among them.
THEOREM DumpsTell == Spec => []DumpTells
<1>1. Inv /\ LogInv => DumpTells
  <2> SUFFICES ASSUME Inv, LogInv, NEW s \in Switch
               PROVE  /\ \A i \in DOMAIN dump[s] : dump[s][i] = Message(RequestAt(s, i))
                      /\ s \in serving =>
                           /\ \A i \in DOMAIN dump[s] :
                                1 < i /\ i < Len(dump[s]) => RequestAt(s, i).key \in Keys(s)
                           /\ \A e \in installed[s] : \E i \in DOMAIN dump[s] : e = RequestAt(s, i)
    BY DEF DumpTells
  <2>1. InOrder(s) /\ (s \in serving => Agrees(s)) /\ DOMAIN dump[s] = 1..Len(dump[s])
    BY DEF LogInv, LogOf
  <2>2. \A i \in DOMAIN dump[s] : 1 < i => i > 1
    BY <2>1
  <2>3. QED
    BY <2>1, <2>2 DEF Agrees, Holds, InOrder
<1>2. QED
  BY <1>1, InitInv, StepInv, InitLog, StepLog, PTL DEF Spec

-----------------------------------------------------------------------------
(***************************************************************************)
(* Every switch has been started once the script is past it, and a CLI is  *)
(* launched only for one that has.                                         *)
(***************************************************************************)
Begun(j) ==
  \/ phase = "start" /\ j < at
  \/ phase = "await" /\ j <= at
  \/ phase \in {"hosts", "program", "cli", "stop"}

StartInv ==
  /\ \A j \in DOMAIN setup.made : Begun(j) => process[setup.made[j]] # "none"
  /\ \A s \in Switch : cli[s] = "running" => process[s] # "none"

LEMMA InitStart == Init => StartInv
<1> SUFFICES ASSUME Init PROVE StartInv
  OBVIOUS
<1>1. phase \in {"compile", "topology"} /\ cli = [s \in Switch |-> "none"]
  BY DEF Init
<1>2. QED
  BY <1>1 DEF StartInv, Begun

LEMMA StartedStays ==
  ASSUME Types, [Next]_vars, NEW s \in Switch, process[s] # "none"
  PROVE  process'[s] # "none"
<1>0. process \in [Switch -> {"none", "booting", "serving", "dead"}]
  BY DEF Types, TypeOK
<1> USE DEF processVars
<1>1. Compile \/ ReadTopology \/ MakeSwitch \/ CheckSwitchStarted \/ ProgramHosts => UNCHANGED process
  BY DEF Compile, ReadTopology, MakeSwitch, CheckSwitchStarted, ProgramHosts
<1>2. ProgramExerciseSwitch \/ CallProgramSwitch \/ InProgramSwitch \/ ProgramNext \/ LeaveCli
        => UNCHANGED process
  BY DEF ProgramExerciseSwitch, CallProgramSwitch, InProgramSwitch, ProgramNext, LeaveCli
<1>3. StartSwitch \/ StopSwitch => process'[s] # "none"
  BY <1>0 DEF StartSwitch, StopSwitch
<1>4. ASSUME NEW r \in Switch, Bind(r) \/ Die(r) \/ RunCli(r) PROVE process'[s] # "none"
  BY <1>0, <1>4 DEF Bind, Die, RunCli
<1>5. OtherPrograms \/ UNCHANGED vars => UNCHANGED process
  BY DEF OtherPrograms, Occupy, Leave, vars
<1>6. QED
  BY <1>1, <1>2, <1>3, <1>4, <1>5 DEF Next, Script

\* The script gets past a switch only by starting it.
LEMMA OnlyStartBegins ==
  ASSUME Types, [Next]_vars, NEW j \in DOMAIN setup.made, Begun(j)'
  PROVE  Begun(j) \/ (StartSwitch /\ j = at)
<1>0. /\ setup \in Setups /\ LoopInv /\ at \in Nat \ {0}
      /\ DOMAIN setup.made = 1..Len(setup.made) /\ Len(setup.made) \in Nat
  BY SetupFacts DEF Types, LoopInv, TypeOK
<1> USE DEF Begun, runnerVars
<1>1. Compile \/ ReadTopology \/ MakeSwitch => Begun(j)
  BY <1>0 DEF Compile, ReadTopology, MakeSwitch, Advance, Fail
<1>2. StartSwitch => Begun(j) \/ j = at
  BY <1>0 DEF StartSwitch
<1>3. CheckSwitchStarted => Begun(j)
  BY <1>0 DEF CheckSwitchStarted, Advance, Fail, LoopInv
<1>4. ProgramHosts \/ ProgramExerciseSwitch \/ ProgramNext \/ LeaveCli \/ StopSwitch => Begun(j)
  BY DEF ProgramHosts, ProgramExerciseSwitch, ProgramNext, LeaveCli, StopSwitch
<1>5. CallProgramSwitch \/ InProgramSwitch => Begun(j)
  BY DEF CallProgramSwitch, InProgramSwitch
<1>6. ASSUME NEW s \in Switch, Bind(s) \/ Die(s) \/ RunCli(s) PROVE Begun(j)
  BY <1>6 DEF Bind, Die, RunCli
<1>7. OtherPrograms \/ UNCHANGED vars => Begun(j)
  BY DEF OtherPrograms, Occupy, Leave, vars
<1> HIDE DEF Begun
<1>8. QED
  BY <1>1, <1>2, <1>3, <1>4, <1>5, <1>6, <1>7 DEF Next, Script

LEMMA OnlyExerciseLaunches ==
  ASSUME Types, [Next]_vars, NEW s \in Switch, cli'[s] = "running"
  PROVE  cli[s] = "running" \/ (ProgramExerciseSwitch /\ s = Programmed)
<1>0. cli \in [Switch -> {"none", "running", "done"}]
  BY DEF Types, TypeOK
<1> USE DEF processVars
<1>1. Compile \/ ReadTopology \/ MakeSwitch \/ StartSwitch \/ CheckSwitchStarted \/ ProgramHosts
        => UNCHANGED cli
  BY DEF Compile, ReadTopology, MakeSwitch, StartSwitch, CheckSwitchStarted, ProgramHosts
<1>2. CallProgramSwitch \/ InProgramSwitch \/ ProgramNext \/ LeaveCli \/ StopSwitch => UNCHANGED cli
  BY DEF CallProgramSwitch, InProgramSwitch, ProgramNext, LeaveCli, StopSwitch
<1>3. ProgramExerciseSwitch => cli[s] = "running" \/ s = Programmed
  BY <1>0 DEF ProgramExerciseSwitch
<1>4. ASSUME NEW r \in Switch, Bind(r) \/ Die(r) \/ RunCli(r) PROVE cli[s] = "running"
  BY <1>0, <1>4 DEF Bind, Die, RunCli
<1>5. OtherPrograms \/ UNCHANGED vars => UNCHANGED cli
  BY DEF OtherPrograms, Occupy, Leave, vars
<1>6. QED
  BY <1>1, <1>2, <1>3, <1>4, <1>5 DEF Next, Script

LEMMA StepStart == Inv /\ PromptInv /\ StartInv /\ [Next]_vars => StartInv'
<1> SUFFICES ASSUME Inv, PromptInv, StartInv, [Next]_vars PROVE StartInv'
  OBVIOUS
<1>s1. /\ Types /\ LoopInv /\ setup \in Setups /\ UNCHANGED setup
       /\ process \in [Switch -> {"none", "booting", "serving", "dead"}]
  BY StepNetwork DEF Inv, Types, LoopInv, TypeOK, PromptInv
<1>s2. /\ \A j \in DOMAIN setup.made : setup.made[j] \in Switch
       /\ Elements(setup.made) = Elements(setup.programs)
  BY <1>s1, SetupFacts
<1>0. /\ Types /\ LoopInv /\ setup \in Setups /\ UNCHANGED setup
      /\ process \in [Switch -> {"none", "booting", "serving", "dead"}]
      /\ \A j \in DOMAIN setup.made : setup.made[j] \in Switch
      /\ Elements(setup.made) = Elements(setup.programs)
  BY <1>s1, <1>s2
<1>1. ASSUME NEW j \in DOMAIN setup.made, Begun(j)' PROVE process'[setup.made[j]] # "none"
  <2>1. CASE Begun(j)
    BY <1>0, <2>1, StartedStays DEF StartInv
  <2>2. CASE StartSwitch /\ j = at
    BY <1>0, <2>2 DEF StartSwitch, Current
  <2>3. QED
    BY <1>0, <1>1, <2>1, <2>2, OnlyStartBegins
<1>2. ASSUME NEW s \in Switch, cli'[s] = "running" PROVE process'[s] # "none"
  <2>1. CASE cli[s] = "running"
    BY <1>0, <2>1, StartedStays DEF StartInv
  <2>2. CASE ProgramExerciseSwitch /\ s = Programmed
    <3>1. phase = "program" /\ UNCHANGED process
      BY <2>2 DEF ProgramExerciseSwitch
    <3>2. s \in Elements(setup.programs)
      BY <1>0, <2>2, <3>1 DEF Elements, Programmed, LoopInv
    <3>3. PICK j \in DOMAIN setup.made : s = setup.made[j]
      BY <1>0, <3>2 DEF Elements
    <3>4. QED
      BY <3>1, <3>3 DEF StartInv, Begun
  <2>3. QED
    BY <1>0, <1>2, <2>1, <2>2, OnlyExerciseLaunches
<1>3. QED
  BY <1>0, <1>1, <1>2 DEF StartInv

-----------------------------------------------------------------------------
(***************************************************************************)
(* Ports.  If all simple_switch objects are of one class, the j-th switch  *)
(* gets the j-th port of each counter and the j-th device, and none is     *)
(* left that MakeSwitch found the port of to be taken: whoever else has it *)
(* has taken it since.  The counters do not meet unless there are more     *)
(* switches than lie between them.                                         *)
(***************************************************************************)
OneClass == \A z \in Setups : z.grpc \/ z.own = {}
PortsForAll == \A z \in Setups : Len(z.made) <= FirstGrpcPort - FirstThriftPort

Numbered(j) ==
  /\ thriftPort[setup.made[j]] = FirstThriftPort + (j - 1)
  /\ grpcPort[setup.made[j]] = IF setup.grpc THEN FirstGrpcPort + (j - 1) ELSE NoPort
IsMade(j) ==
  (phase = "make" /\ j < at) \/ phase \in {"start", "await"} \/ process[setup.made[j]] # "none"

\* Nobody else's, or intruded.
FreeOrIntruded(s) == LookedAt(s) \in occupied => LookedAt(s) \in intruded
PortOfNone(s) == thriftPort[s] = NoPort /\ grpcPort[s] = NoPort

PortsOf(j) ==
  /\ PortOfNone(setup.made[j]) \/ Numbered(j)
  /\ deviceId[setup.made[j]] \in {-1, j - 1}
  /\ IsMade(j) => Numbered(j) /\ FreeOrIntruded(setup.made[j])

PortsInv ==
  /\ \A s \in Switch \ InNetwork : PortOfNone(s) /\ deviceId[s] = -1
  /\ \A j \in DOMAIN setup.made : PortsOf(j)

LEMMA InitPorts == Init => PortsInv
<1> SUFFICES ASSUME Init PROVE PortsInv
  OBVIOUS
<1>1. setup \in Setups /\ phase \in {"compile", "topology"}
      /\ \A s \in Switch : process[s] = "none" /\ PortOfNone(s) /\ deviceId[s] = -1
  BY DEF Init, PortOfNone
<1>2. \A j \in DOMAIN setup.made : setup.made[j] \in Switch
  BY <1>1, SetupFacts
<1>3. QED
  BY <1>1, <1>2 DEF PortsInv, PortsOf, IsMade

\* The counters count the switches made before.
LEMMA PortsAreCounted ==
  ASSUME OneClass, setup \in Setups, at \in Nat \ {0}, NEW s
  PROVE  NextThriftPort(s) = FirstThriftPort + (at - 1) /\ NextGrpcPort = FirstGrpcPort + (at - 1)
<1>1. \A i : SameClass(s, setup.made[i])
  BY DEF OneClass, SameClass
<1>2. {i \in 1..(at - 1) : SameClass(s, setup.made[i])} = 1..(at - 1)
  BY <1>1
<1>3. Cardinality(1..(at - 1)) = at - 1
  <2>1. Cardinality(1..(at - 1)) = IF 1 > at - 1 THEN 0 ELSE (at - 1) - 1 + 1
    BY FS_Interval
  <2>2. QED
    BY <2>1
<1>4. NextThriftPort(s) = FirstThriftPort + (at - 1)
  BY <1>2, <1>3 DEF NextThriftPort
<1>5. NextGrpcPort = FirstGrpcPort + (at - 1)
  BY DEF NextGrpcPort, FirstGrpcPort
<1>6. QED
  BY <1>4, <1>5

LEMMA OthersKeepPorts ==
  ASSUME [Next]_vars, ~MakeSwitch
  PROVE  UNCHANGED <<thriftPort, grpcPort, deviceId>>
<1> DEFINE Same == UNCHANGED <<thriftPort, grpcPort, deviceId>>
<1> USE DEF runnerVars
<1>1. Compile \/ ReadTopology \/ StartSwitch \/ CheckSwitchStarted \/ ProgramHosts => Same
  BY DEF Compile, ReadTopology, StartSwitch, CheckSwitchStarted, ProgramHosts
<1>2. ProgramExerciseSwitch \/ CallProgramSwitch \/ InProgramSwitch \/ ProgramNext \/ LeaveCli
        \/ StopSwitch => Same
  BY DEF ProgramExerciseSwitch, CallProgramSwitch, InProgramSwitch, ProgramNext, LeaveCli, StopSwitch
<1>3. ASSUME NEW s \in Switch, Bind(s) \/ Die(s) \/ RunCli(s) PROVE Same
  BY <1>3 DEF Bind, Die, RunCli
<1>4. OtherPrograms \/ UNCHANGED vars => Same
  BY DEF OtherPrograms, Occupy, Leave, vars
<1> HIDE DEF Same
<1>5. Same
  BY <1>1, <1>2, <1>3, <1>4 DEF Next, Script
<1>6. QED
  BY <1>5 DEF Same

\* Only MakeSwitch makes one.
LEMMA OthersMakeNone ==
  ASSUME Inv, StartInv, [Next]_vars, ~MakeSwitch, UNCHANGED setup,
         NEW j \in DOMAIN setup.made, IsMade(j)'
  PROVE  IsMade(j)
<1>0. /\ setup \in Setups /\ LoopInv /\ at \in Nat \ {0}
      /\ process \in [Switch -> {"none", "booting", "serving", "dead"}]
      /\ DOMAIN setup.made = 1..Len(setup.made) /\ Len(setup.made) \in Nat
      /\ \A i \in DOMAIN setup.made : setup.made[i] \in Switch
  BY SetupFacts DEF Inv, Types, LoopInv, TypeOK
<1> USE DEF IsMade, runnerVars, processVars
<1>1. Compile \/ ReadTopology => IsMade(j)
  BY <1>0 DEF Compile, ReadTopology, Advance, Fail, LoopInv
<1>2. StartSwitch => IsMade(j)
  BY DEF StartSwitch
<1>3. CheckSwitchStarted => IsMade(j)
  BY <1>0 DEF CheckSwitchStarted, Advance, Fail
<1>4. ProgramHosts \/ ProgramExerciseSwitch \/ ProgramNext \/ LeaveCli => IsMade(j)
  BY DEF ProgramHosts, ProgramExerciseSwitch, ProgramNext, LeaveCli, Advance, Fail
<1>5. CallProgramSwitch \/ InProgramSwitch => IsMade(j)
  BY DEF CallProgramSwitch, InProgramSwitch
<1>6. StopSwitch => IsMade(j)
  BY <1>0 DEF StopSwitch, StartInv, Begun
<1>7. ASSUME NEW s \in Switch, Bind(s) \/ Die(s) \/ RunCli(s) PROVE IsMade(j)
  BY <1>0, <1>7 DEF Bind, Die, RunCli
<1>8. OtherPrograms \/ UNCHANGED vars => IsMade(j)
  BY DEF OtherPrograms, Occupy, Leave, vars
<1> HIDE DEF IsMade
<1>9. QED
  BY <1>1, <1>2, <1>3, <1>4, <1>5, <1>6, <1>7, <1>8 DEF Next, Script

LEMMA MakeNumbers ==
  ASSUME OneClass, Inv, PortsInv, MakeSwitch
  PROVE  PortsInv'
<1>0. /\ setup \in Setups /\ UNCHANGED <<setup, process, occupied, intruded>> /\ at \in Nat \ {0}
      /\ at \in DOMAIN setup.made /\ phase = "make"
      /\ {thriftPort, grpcPort} \subseteq [Switch -> Nat]
      /\ deviceId \in [Switch -> Nat \cup {-1}]
      /\ Len(setup.made) \in Nat /\ DOMAIN setup.made = 1..Len(setup.made)
      /\ \A i \in DOMAIN setup.made : setup.made[i] \in Switch
      /\ \A i, k \in DOMAIN setup.made : setup.made[i] = setup.made[k] => i = k
  BY SetupFacts DEF Inv, Types, LoopInv, TypeOK, MakeSwitch, processVars, otherVars
<1> DEFINE s == setup.made[at]
<1>1. NextThriftPort(s) = FirstThriftPort + (at - 1) /\ NextGrpcPort = FirstGrpcPort + (at - 1)
  BY <1>0, PortsAreCounted
<1>2. /\ thriftPort' = [thriftPort EXCEPT ![s] = FirstThriftPort + (at - 1)]
      /\ grpcPort' = [grpcPort EXCEPT ![s] = IF setup.grpc THEN FirstGrpcPort + (at - 1) ELSE NoPort]
      /\ deviceId' = deviceId \/ deviceId' = [deviceId EXCEPT ![s] = at - 1]
  BY <1>1 DEF MakeSwitch, Current
<1>3. \A j : \/ IsMade(j)' => process[setup.made[j]] # "none"
             \/ /\ (IsMade(j)' => j = at \/ IsMade(j) \/ j \notin DOMAIN setup.made)
                /\ (IF setup.grpc THEN FirstGrpcPort + (at - 1) ELSE FirstThriftPort + (at - 1))
                     \notin occupied
  <2>1. CASE phase' = "failed"
    BY <1>0, <2>1 DEF IsMade
  <2>2. CASE ~CheckListeningOnPort(CheckedPort(s))
             /\ Advance(setup.made, "make", "start")
    <3>1. (IF setup.grpc THEN FirstGrpcPort + (at - 1) ELSE FirstThriftPort + (at - 1))
            \notin occupied
      BY <1>1, <2>2 DEF CheckListeningOnPort, CheckedPort
    <3>2. \A j \in DOMAIN setup.made : IsMade(j)' => j = at \/ IsMade(j)
      BY <1>0, <2>2 DEF IsMade, Advance
    <3>3. QED
      BY <3>1, <3>2
  <2>3. QED
    BY <2>1, <2>2 DEF MakeSwitch, Fail, Current
<1>4. process[s] = "none"
  BY <1>0 DEF Inv, ProcessInv, NotStarted
<1> HIDE DEF s
<1>5. ASSUME NEW j \in DOMAIN setup.made, j # at PROVE PortsOf(j)'
  <2>1. PortsOf(j) /\ setup.made[j] # s /\ setup.made[j] \in Switch
    BY <1>0, <1>5 DEF PortsInv, s
  <2> DEFINE r == setup.made[j]
  <2>2. thriftPort'[r] = thriftPort[r] /\ grpcPort'[r] = grpcPort[r] /\ deviceId'[r] = deviceId[r]
    BY <1>0, <1>2, <2>1
  <2>3. IsMade(j)' => IsMade(j)
    BY <1>3, <1>5 DEF IsMade
  <2>4. QED
    BY <1>0, <2>1, <2>2, <2>3 DEF PortsOf, PortOfNone, Numbered, FreeOrIntruded, LookedAt
<1>6. PortsOf(at)
  BY <1>0 DEF PortsInv
<1>7. ASSUME NEW j \in DOMAIN setup.made, j = at PROVE PortsOf(j)'
  <2>1. /\ setup.made[j] = s /\ s \in Switch
        /\ thriftPort'[s] = FirstThriftPort + (j - 1)
        /\ grpcPort'[s] = IF setup.grpc THEN FirstGrpcPort + (j - 1) ELSE NoPort
        /\ deviceId'[s] \in {-1, j - 1}
    BY <1>0, <1>2, <1>6, <1>7 DEF s, PortsOf
  <2>2. Numbered(j)'
    BY <1>0, <2>1 DEF Numbered
  <2>3. IsMade(j)' => FreeOrIntruded(setup.made[j])'
    BY <1>0, <1>3, <1>4, <1>7, <2>1 DEF FreeOrIntruded, LookedAt
  <2>4. QED
    BY <1>0, <2>1, <2>2, <2>3 DEF PortsOf
<1>8. ASSUME NEW r \in Switch \ InNetwork PROVE PortOfNone(r)' /\ deviceId'[r] = -1
  <2>1. r # s
    BY <1>0, <1>8 DEF s, InNetwork, Elements
  <2>2. QED
    BY <1>0, <1>2, <1>8, <2>1 DEF PortsInv, PortOfNone
<1>9. QED
  BY <1>0, <1>5, <1>7, <1>8 DEF PortsInv, InNetwork

LEMMA StepPorts ==
  ASSUME OneClass
  PROVE  Inv /\ PromptInv /\ StartInv /\ PortsInv /\ [Next]_vars => PortsInv'
<1> SUFFICES ASSUME Inv, PromptInv, StartInv, PortsInv, [Next]_vars, ~MakeSwitch PROVE PortsInv'
  BY MakeNumbers
<1>1. UNCHANGED setup
  BY StepNetwork DEF PromptInv
<1>2. UNCHANGED <<thriftPort, grpcPort, deviceId>>
  BY OthersKeepPorts
<1>3. \A j \in DOMAIN setup.made : IsMade(j)' => IsMade(j)
  BY <1>1, OthersMakeNone
<1>4. ASSUME NEW j \in DOMAIN setup.made, FreeOrIntruded(setup.made[j])
      PROVE  FreeOrIntruded(setup.made[j])'
  <2>1. setup.made[j] \in Switch
    BY SetupFacts DEF Inv, Types, LoopInv
  <2>2. CASE UNCHANGED <<setup, otherVars>>
    BY <1>2, <1>4, <2>2 DEF FreeOrIntruded, LookedAt, otherVars
  <2>3. CASE OtherPrograms
    BY <1>1, <1>2, <1>4, <2>1, <2>3 DEF OtherPrograms, Occupy, Leave, FreeOrIntruded, LookedAt
  <2>4. QED
    BY <2>2, <2>3, OnlyOthersOccupy
<1>5. \A j \in DOMAIN setup.made : PortsOf(j) => PortsOf(j)'
  BY <1>1, <1>2, <1>3, <1>4 DEF PortsOf, PortOfNone, Numbered
<1>6. QED
  BY <1>1, <1>2, <1>5 DEF PortsInv, PortOfNone, InNetwork

NetworkInv == Inv /\ PromptInv /\ StartInv /\ PortsInv

LEMMA NetworkAlways == ASSUME OneClass PROVE Spec => []NetworkInv
<1>1. Init => NetworkInv
  BY InitInv, InitPrompt, InitStart, InitPorts DEF NetworkInv
<1>2. NetworkInv /\ [Next]_vars => NetworkInv'
  BY StepInv, StepPrompt, StepStart, StepPorts DEF NetworkInv
<1>3. QED
  BY <1>1, <1>2, PTL DEF Spec

\* No other switch listens on a port of one that has been started.
LEMMA ListenersOfOwn ==
  ASSUME PortsForAll, NetworkInv, NEW s \in Switch, process[s] # "none",
         NEW port \in {thriftPort[s], LookedAt(s)}
  PROVE  Listeners(port) \subseteq {s}
<1> SUFFICES ASSUME NEW r \in Switch, process[r] = "serving", port \in {thriftPort[r], grpcPort[r]}
             PROVE  r = s
  BY DEF Listeners
<1>1. setup \in Setups /\ DOMAIN setup.made = 1..Len(setup.made) /\ Len(setup.made) \in Nat
      /\ Len(setup.made) <= FirstGrpcPort - FirstThriftPort
  BY SetupFacts DEF NetworkInv, Inv, Types, LoopInv, PortsForAll
<1>2. PICK j \in DOMAIN setup.made : s = setup.made[j]
  BY DEF NetworkInv, PromptInv, InNetwork, Elements
<1>3. PICK k \in DOMAIN setup.made : r = setup.made[k]
  BY DEF NetworkInv, PromptInv, InNetwork, Elements
<1>4. Numbered(j) /\ Numbered(k)
  BY <1>2, <1>3 DEF NetworkInv, PortsInv, PortsOf, IsMade
<1>5. /\ thriftPort[s] = FirstThriftPort + (j - 1) /\ thriftPort[r] = FirstThriftPort + (k - 1)
      /\ grpcPort[s] = IF setup.grpc THEN FirstGrpcPort + (j - 1) ELSE NoPort
      /\ grpcPort[r] = IF setup.grpc THEN FirstGrpcPort + (k - 1) ELSE NoPort
  BY <1>2, <1>3, <1>4 DEF Numbered
<1>6. j \in Nat /\ k \in Nat /\ 1 <= j /\ 1 <= k /\ j <= 40961 /\ k <= 40961
  BY <1>1 DEF FirstGrpcPort, FirstThriftPort
<1>7. j = k
  <2>1. CASE port = FirstThriftPort + (j - 1)
    BY <1>5, <1>6, <2>1 DEF FirstThriftPort, FirstGrpcPort, NoPort
  <2>2. CASE setup.grpc /\ port = FirstGrpcPort + (j - 1)
    BY <1>5, <1>6, <2>2 DEF FirstThriftPort, FirstGrpcPort
  <2>3. QED
    BY <1>5, <2>1, <2>2 DEF LookedAt
<1>8. QED
  BY <1>2, <1>3, <1>7

\* A switch taken as started that has not its port yet has been taken for another
\* program, which took the port behind the constructor's back.
StartedInv == \A s \in Started : process[s] = "booting" => LookedAt(s) \in intruded

LEMMA StartedAreBegun ==
  ASSUME NetworkInv, NEW s \in Started
  PROVE  /\ s \in Switch /\ process[s] # "none"
         /\ \E j \in DOMAIN setup.made : s = setup.made[j] /\ Begun(j)
<1>1. /\ setup \in Setups /\ at \in Nat /\ DOMAIN setup.made = 1..Len(setup.made)
      /\ Len(setup.made) \in Nat /\ LoopInv
      /\ \A i \in DOMAIN setup.made : setup.made[i] \in Switch
  BY SetupFacts DEF NetworkInv, Inv, Types, LoopInv, TypeOK
<1>2. PICK j \in DOMAIN setup.made : s = setup.made[j] /\ Begun(j)
  <2>1. CASE phase \in {"start", "await"}
    <3>1. PICK i \in 1..(at - 1) : s = setup.made[i]
      BY <2>1 DEF Started, Made
    <3>2. i \in DOMAIN setup.made /\ Begun(i)
      BY <1>1, <2>1 DEF LoopInv, Begun
    <3>3. QED
      BY <3>1, <3>2
  <2>2. CASE phase \in {"hosts", "program", "cli"}
    BY <2>2 DEF Started, InNetwork, Elements, Begun
  <2>3. QED
    BY <2>1, <2>2 DEF Started
<1>3. s \in Switch /\ process[s] # "none"
  BY <1>1, <1>2 DEF NetworkInv, StartInv
<1>4. QED
  BY <1>2, <1>3

\* check_switch_started takes the switch it looks at, if anyone, and no other.
LEMMA OnlyCheckTakes ==
  ASSUME NetworkInv, [Next]_vars, NEW s \in Started'
  PROVE  \/ s \in Started
         \/ /\ CheckSwitchStarted /\ s = Current /\ ~Gone /\ CheckListeningOnPort(AwaitedPort)
<1> DEFINE Goal == \/ s \in Started
                   \/ CheckSwitchStarted /\ s = Current /\ ~Gone /\ CheckListeningOnPort(AwaitedPort)
<1>0. /\ setup \in Setups /\ LoopInv /\ at \in Nat \ {0} /\ UNCHANGED setup
      /\ DOMAIN setup.made = 1..Len(setup.made) /\ Len(setup.made) \in Nat
  BY SetupFacts, StepNetwork DEF NetworkInv, Inv, Types, LoopInv, TypeOK, PromptInv
<1> USE DEF Started, Made, runnerVars
<1>1. Compile \/ ReadTopology \/ MakeSwitch => Goal
  BY <1>0 DEF Compile, ReadTopology, MakeSwitch, Advance, Fail
<1>2. StartSwitch => Goal
  BY <1>0 DEF StartSwitch
<1>3. CheckSwitchStarted => Goal
  <2> SUFFICES ASSUME CheckSwitchStarted PROVE Goal
    OBVIOUS
  <2>1. phase = "await" /\ at \in DOMAIN setup.made
    BY <1>0 DEF CheckSwitchStarted, LoopInv
  <2>2. CASE Fail
    BY <1>0, <2>1, <2>2 DEF Fail
  <2>3. CASE phase' = phase /\ at' = at
    BY <1>0, <2>1, <2>3
  <2>4. CASE /\ ~Gone /\ CheckListeningOnPort(AwaitedPort)
             /\ Advance(setup.made, "start", "hosts")
    <3>1. CASE at < Len(setup.made)
      BY <1>0, <2>1, <2>4, <3>1 DEF Advance, Current
    <3>2. CASE at = Len(setup.made)
      <4>1. phase' = "hosts"
        BY <1>0, <2>4, <3>2 DEF Advance
      <4>2. PICK i \in 1..Len(setup.made) : s = setup.made[i]
        BY <1>0, <4>1 DEF InNetwork, Elements
      <4>3. i \in 1..(at - 1) \/ i = at
        BY <1>0, <3>2, <4>2
      <4>4. QED
        BY <2>1, <2>4, <4>2, <4>3 DEF Current
    <3>3. QED
      BY <1>0, <2>1, <3>1, <3>2
  <2>5. QED
    BY <2>2, <2>3, <2>4 DEF CheckSwitchStarted
<1>4. ProgramHosts \/ ProgramExerciseSwitch \/ ProgramNext \/ LeaveCli => Goal
  BY <1>0 DEF ProgramHosts, ProgramExerciseSwitch, ProgramNext, LeaveCli, Advance, Fail, InNetwork
<1>5. CallProgramSwitch \/ InProgramSwitch => Goal
  BY <1>0 DEF CallProgramSwitch, InProgramSwitch, InNetwork
<1>6. StopSwitch => Goal
  BY <1>0 DEF StopSwitch, Advance
<1>7. ASSUME NEW r \in Switch, Bind(r) \/ Die(r) \/ RunCli(r) PROVE Goal
  BY <1>0, <1>7 DEF Bind, Die, RunCli, InNetwork
<1>8. OtherPrograms \/ UNCHANGED vars => Goal
  BY <1>0 DEF OtherPrograms, Occupy, Leave, vars, InNetwork
<1> HIDE DEF Goal, Started, Made
<1>9. Goal
  BY <1>1, <1>2, <1>3, <1>4, <1>5, <1>6, <1>7, <1>8 DEF Next, Script
<1>10. QED
  BY <1>9 DEF Goal

\* A process that has been started does not start again.
LEMMA BootsOnce ==
  ASSUME NetworkInv, [Next]_vars, NEW s \in Started, process'[s] = "booting"
  PROVE  process[s] = "booting"
<1>0. /\ process \in [Switch -> {"none", "booting", "serving", "dead"}] /\ LoopInv /\ at \in Nat
      /\ setup \in Setups /\ ProcessInv /\ s \in Switch /\ process[s] # "none"
  BY StartedAreBegun DEF NetworkInv, Inv, Types, TypeOK, LoopInv
<1> USE DEF processVars
<1>1. Compile \/ ReadTopology \/ MakeSwitch \/ CheckSwitchStarted \/ ProgramHosts => UNCHANGED process
  BY DEF Compile, ReadTopology, MakeSwitch, CheckSwitchStarted, ProgramHosts
<1>2. ProgramExerciseSwitch \/ CallProgramSwitch \/ InProgramSwitch \/ ProgramNext \/ LeaveCli
        => UNCHANGED process
  BY DEF ProgramExerciseSwitch, CallProgramSwitch, InProgramSwitch, ProgramNext, LeaveCli
<1>3. StartSwitch => process[s] = "booting"
  <2> SUFFICES ASSUME StartSwitch PROVE process[s] = "booting"
    OBVIOUS
  <2>1. phase = "start" /\ at \in DOMAIN setup.made
    BY <1>0 DEF StartSwitch, LoopInv
  <2>2. process[Current] = "none"
    BY <1>0, <2>1 DEF ProcessInv, NotStarted, Current
  <2>3. s # Current
    BY <1>0, <2>2
  <2>4. QED
    BY <1>0, <2>3 DEF StartSwitch
<1>4. StopSwitch => process[s] = "booting"
  BY <1>0 DEF StopSwitch
<1>5. ASSUME NEW r \in Switch, Bind(r) \/ Die(r) \/ RunCli(r) PROVE process[s] = "booting"
  BY <1>0, <1>5 DEF Bind, Die, RunCli
<1>6. OtherPrograms \/ UNCHANGED vars => UNCHANGED process
  BY DEF OtherPrograms, Occupy, Leave, vars
<1>7. QED
  BY <1>1, <1>2, <1>3, <1>4, <1>5, <1>6 DEF Next, Script

LEMMA StepStarted ==
  ASSUME PortsForAll, NetworkInv, StartedInv, [Next]_vars
  PROVE  StartedInv'
<1> SUFFICES ASSUME NEW s \in Started', process'[s] = "booting" PROVE LookedAt(s)' \in intruded'
  BY DEF StartedInv
<1>1. UNCHANGED setup
  BY StepNetwork DEF NetworkInv, PromptInv
<1>2. intruded \subseteq intruded'
  BY OnlyOthersOccupy DEF OtherPrograms, Occupy, Leave, otherVars
<1>3. ~MakeSwitch
  BY DEF MakeSwitch, Advance, Fail, Started, Made
<1>4. LookedAt(s)' = LookedAt(s)
  BY <1>1, <1>3, OthersKeepPorts DEF LookedAt
<1>5. CASE s \in Started
  BY <1>2, <1>4, <1>5, BootsOnce DEF StartedInv
<1>6. CASE CheckSwitchStarted /\ s = Current /\ ~Gone /\ CheckListeningOnPort(AwaitedPort)
  <2>1. PICK j \in DOMAIN setup.made : j = at /\ s = setup.made[j] /\ phase = "await"
    BY <1>6 DEF CheckSwitchStarted, Current, NetworkInv, Inv, Types, LoopInv
  <2>2. s \in Switch /\ process[s] # "none" /\ at \in Nat
    BY <2>1, SetupFacts DEF NetworkInv, Inv, Types, TypeOK, LoopInv, StartInv, Begun
  <2>3. process[s] = "booting"
    BY <1>6 DEF CheckSwitchStarted, processVars
  <2>4. Listeners(LookedAt(s)) = {}
    BY <2>2, <2>3, ListenersOfOwn DEF Listeners
  <2>5. AwaitedPort = LookedAt(s)
    BY <1>6 DEF AwaitedPort, LookedAt
  <2>6. LookedAt(s) \in occupied
    BY <1>6, <2>4, <2>5 DEF CheckListeningOnPort
  <2>7. FreeOrIntruded(s)
    BY <2>1 DEF NetworkInv, PortsInv, PortsOf, IsMade
  <2>8. QED
    BY <1>2, <1>4, <2>6, <2>7 DEF FreeOrIntruded
<1>7. QED
  BY <1>5, <1>6, OnlyCheckTakes

\* Once check_switch_started has taken a switch as started, the port it looked
\* at is no other switch's, and the switch has had it, unless another program has
\* taken it since the constructor found it free.
THEOREM NoImpostors ==
  ASSUME OneClass, PortsForAll
  PROVE  Spec => []NoImpostor
<1>1. NetworkInv /\ StartedInv => NoImpostor
  <2> SUFFICES ASSUME NetworkInv, StartedInv, NEW s \in Started
               PROVE  /\ Listeners(LookedAt(s)) \subseteq {s}
                      /\ LookedAt(s) \in occupied \/ process[s] = "booting" => LookedAt(s) \in intruded
    BY DEF NoImpostor
  <2>1. PICK j \in DOMAIN setup.made : s = setup.made[j]
    BY StartedAreBegun
  <2>2. s \in Switch /\ process[s] # "none"
    BY StartedAreBegun
  <2>3. FreeOrIntruded(s)
    BY <2>1, <2>2 DEF NetworkInv, PortsInv, PortsOf, IsMade
  <2>4. QED
    BY <2>2, <2>3, ListenersOfOwn DEF StartedInv, FreeOrIntruded
<1>2. Init => StartedInv
  BY DEF Init, StartedInv, Started
<1>3. NetworkInv /\ StartedInv /\ [Next]_vars => StartedInv'
  BY StepStarted
<1>4. Spec => []NetworkInv
  BY NetworkAlways
<1>5. QED
  BY <1>1, <1>2, <1>3, <1>4, PTL DEF Spec

\* The ports and the device of a switch are nobody else's, if no two
\* simple_switch objects are of different classes.
THEOREM PortsAreOwn == ASSUME OneClass PROVE Spec => []OwnPorts
<1>1. NetworkInv => OwnPorts
  <2> SUFFICES ASSUME NetworkInv, NEW s \in Switch, NEW r \in Switch, s # r
               PROVE  /\ thriftPort[s] # NoPort => thriftPort[s] # thriftPort[r]
                      /\ grpcPort[s] # NoPort => grpcPort[s] # grpcPort[r]
                      /\ deviceId[s] >= 0 => deviceId[s] # deviceId[r]
    BY DEF OwnPorts
  <2>1. setup \in Setups /\ DOMAIN setup.made = 1..Len(setup.made) /\ Len(setup.made) \in Nat
    BY SetupFacts DEF NetworkInv, Inv, Types, LoopInv
  <2>2. CASE s \notin InNetwork
    BY <2>2 DEF NetworkInv, PortsInv, PortOfNone
  <2>3. CASE s \in InNetwork
    <3>1. PICK j \in DOMAIN setup.made : s = setup.made[j] /\ PortsOf(j)
      BY <2>3 DEF NetworkInv, PortsInv, InNetwork, Elements
    <3>2. CASE r \notin InNetwork
      <4>1. PortOfNone(r) /\ deviceId[r] = -1
        BY <3>2 DEF NetworkInv, PortsInv
      <4>2. QED
        BY <4>1 DEF PortOfNone
    <3>3. CASE r \in InNetwork
      <4>1. PICK k \in DOMAIN setup.made : r = setup.made[k] /\ PortsOf(k)
        BY <3>3 DEF NetworkInv, PortsInv, InNetwork, Elements
      <4>2. j # k /\ j \in Nat /\ k \in Nat
        BY <2>1, <3>1, <4>1
      <4>3. QED
        BY <3>1, <4>1, <4>2 DEF PortsOf, PortOfNone, Numbered, NoPort, FirstThriftPort, FirstGrpcPort
    <3>4. QED
      BY <3>2, <3>3
  <2>4. QED
    BY <2>2, <2>3
<1>2. QED
  BY <1>1, NetworkAlways, PTL

-----------------------------------------------------------------------------
(***************************************************************************)
(* Commands.                                                               *)
(***************************************************************************)
LEMMA OnlyCliCommands ==
  ASSUME [Next]_vars
  PROVE  \/ UNCHANGED commanded
         \/ \E s \in Switch : /\ cli[s] = "running"
                              /\ commanded' = commanded \cup {<<s, r>> : r \in Listeners(thriftPort[s])}
<1> DEFINE Goal == \/ UNCHANGED commanded
                   \/ \E s \in Switch :
                        /\ cli[s] = "running"
                        /\ commanded' = commanded \cup {<<s, r>> : r \in Listeners(thriftPort[s])}
<1> USE DEF processVars
<1>1. Compile \/ ReadTopology \/ MakeSwitch \/ StartSwitch \/ CheckSwitchStarted \/ ProgramHosts
        => UNCHANGED commanded
  BY DEF Compile, ReadTopology, MakeSwitch, StartSwitch, CheckSwitchStarted, ProgramHosts
<1>2. ProgramExerciseSwitch \/ CallProgramSwitch \/ InProgramSwitch \/ ProgramNext \/ LeaveCli
        \/ StopSwitch => UNCHANGED commanded
  BY DEF ProgramExerciseSwitch, CallProgramSwitch, InProgramSwitch, ProgramNext, LeaveCli, StopSwitch
<1>3. ASSUME NEW s \in Switch, Bind(s) \/ Die(s) \/ RunCli(s) PROVE Goal
  BY <1>3 DEF Bind, Die, RunCli
<1>4. OtherPrograms \/ UNCHANGED vars => UNCHANGED commanded
  BY DEF OtherPrograms, Occupy, Leave, vars
<1>5. Goal
  BY <1>1, <1>2, <1>3, <1>4 DEF Next, Script
<1>6. QED
  BY <1>5

\* What a CLI was given for a switch goes to that switch, or to none.
THEOREM CommandsReach ==
  ASSUME OneClass, PortsForAll
  PROVE  Spec => []CommandsReachTheirSwitch
<1>1. Init => CommandsReachTheirSwitch
  BY DEF Init, CommandsReachTheirSwitch
<1>2. NetworkInv /\ CommandsReachTheirSwitch /\ [Next]_vars => CommandsReachTheirSwitch'
  <2> SUFFICES ASSUME NetworkInv, CommandsReachTheirSwitch, [Next]_vars, NEW c \in commanded'
               PROVE  c[1] = c[2]
    BY DEF CommandsReachTheirSwitch
  <2>1. CASE c \in commanded
    BY <2>1 DEF CommandsReachTheirSwitch
  <2>2. CASE c \notin commanded
    <3>1. PICK s \in Switch : cli[s] = "running" /\ c \in {<<s, r>> : r \in Listeners(thriftPort[s])}
      BY <2>2, OnlyCliCommands
    <3>2. Listeners(thriftPort[s]) \subseteq {s}
      BY <3>1, ListenersOfOwn DEF NetworkInv, StartInv
    <3>3. QED
      BY <3>1, <3>2
  <2>3. QED
    BY <2>1, <2>2
<1>3. QED
  BY <1>1, <1>2, NetworkAlways, PTL DEF Spec
=============================================================================
