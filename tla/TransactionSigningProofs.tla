---------------------- MODULE TransactionSigningProofs ----------------------
(***************************************************************************)
(* What leaves the connector as a signature, for every set of requests,    *)
(* every odd order and every answer a backend may give; and that what is   *)
(* encoded is read back, for every number, string, list and transaction    *)
(* that a header of nine bytes has room for.  The encodings are functions  *)
(* defined by recursion: that they exist, and what they compute, is proved *)
(* from the least number that would make a difference (Least).             *)
(***************************************************************************)
EXTENDS TransactionSigning, FiniteSetTheorems, SequenceTheorems, TLAPS

-----------------------------------------------------------------------------
(* Induction *)

\* A set of numbers that is not empty has a least one.  This is the induction
\* of every lemma below: a property that failed would fail first somewhere.
LEMMA Least ==
    ASSUME NEW T \in SUBSET Nat, T # {}
    PROVE  \E k \in T : \A j \in T : k <= j
<1>1. PICK n \in T : TRUE
      OBVIOUS
<1> DEFINE S == 0..n
           F == {0..k : k \in T \cap S}
           R == StrictSubsetOrdering(S)
<1>2. IsFiniteSet(S)
  <2>1. 0 \in Int /\ n \in Int
        OBVIOUS
  <2>2. QED  BY <2>1, FS_Interval
<1>3. IsWellFoundedOn(R, SUBSET S)
  <2> HIDE DEF S
  <2>1. FiniteSubsetsOf(S) = SUBSET S
        BY <1>2, FS_FiniteSubsetsOfFinite
  <2>2. IsWellFoundedOn(R, FiniteSubsetsOf(S))
        BY FS_StrictSubsetOrderingWellFounded
  <2>3. QED  BY <2>1, <2>2
<1>4. F \subseteq SUBSET S /\ 0..n \in F
      OBVIOUS
<1>5. PICK x \in F : \A y \in F : <<y, x>> \notin R
  <2> HIDE DEF F, R, S
  <2>1. F \subseteq SUBSET S /\ F # {}
        BY <1>4
  <2>2. \E x \in F : \A y \in F : ~(<<y, x>> \in R)
        BY <1>3, <2>1, WFMin, Zenon
  <2>3. QED  BY <2>2
<1>6. PICK k \in T \cap S : x = 0..k
      BY <1>5
<1>7. ASSUME NEW j \in T, j < k PROVE FALSE
  <2>1. 0..j \in F /\ 0..j \subseteq 0..k /\ 0..j # 0..k
        BY <1>6, <1>7
  <2>2. 0..j \subseteq S /\ 0..k \subseteq S
        BY <1>6, <1>7
  <2>3. <<0..j, 0..k>> \in R
        BY <2>1, <2>2 DEF StrictSubsetOrdering
  <2>4. QED  BY <1>5, <1>6, <2>1, <2>3
<1>8. k \in T /\ \A j \in T : k <= j
      BY <1>6, <1>7
<1>9. QED  BY <1>8

-----------------------------------------------------------------------------
(* Numbers *)

Digits(g, n) == g = [k \in 0..n |-> IF k = 0 THEN <<>> ELSE Append(g[k \div 256], k % 256)]

\* The quotient of a number by 256 is smaller than the number, and is a number.
LEMMA Quotient ==
    ASSUME NEW k \in Nat
    PROVE  /\ k \div 256 \in Nat /\ k % 256 \in Byte
           /\ k = 256 * (k \div 256) + (k % 256)
           /\ k > 0 => k \div 256 < k
BY DEF Byte

\* ToBinary is a function by recursion on the quotient: such a function exists.
LEMMA DigitsExist == ASSUME NEW n \in Nat PROVE \E g : Digits(g, n)
<1> DEFINE T == {m \in Nat : ~\E g : Digits(g, m)}
<1>1. SUFFICES ASSUME T # {} PROVE FALSE
      OBVIOUS
<1>2. PICK m \in T : \A j \in T : m <= j
      BY <1>1, Least
<1>3. CASE m = 0
  <2>1. Digits([k \in 0..m |-> <<>>], m)
        BY <1>3 DEF Digits
  <2>2. QED  BY <2>1, <1>2
<1>4. CASE m # 0
  <2>1. m - 1 \in Nat /\ m - 1 \notin T /\ m \in Nat
        BY <1>2, <1>4
  <2>2. PICK g : Digits(g, m - 1)
        BY <2>1
  <2> DEFINE h == [k \in 0..m |-> IF k = m THEN Append(g[k \div 256], k % 256) ELSE g[k]]
  <2>3. \A k \in 0..m - 1 : g[k] = IF k = 0 THEN <<>> ELSE Append(g[k \div 256], k % 256)
        BY <2>2 DEF Digits
  <2>4. \A k \in 0..m - 1 : h[k] = g[k]
        BY <2>1
  <2>5. h[m] = Append(g[m \div 256], m % 256)
        BY <2>1
  <2>6. \A k \in 0..m : k # 0 => k \div 256 \in 0..k - 1
        BY <2>1, Quotient
  <2>7. h = [k \in 0..m |-> h[k]]
        OBVIOUS
  <2> HIDE DEF h
  <2>8. \A k \in 0..m : h[k] = IF k = 0 THEN <<>> ELSE Append(h[k \div 256], k % 256)
    <3>1. TAKE k \in 0..m
    <3>2. CASE k = m
      <4>1. m \div 256 \in 0..m - 1
            BY <2>1, <2>6, <1>4
      <4>2. QED  BY <3>2, <2>4, <2>5, <1>4, <4>1
    <3>3. CASE k # m
      <4>1. k \in 0..m - 1 /\ (k # 0 => k \div 256 \in 0..m - 1)
            BY <3>3, <2>1, <2>6
      <4>2. QED  BY <4>1, <2>3, <2>4
    <3>4. QED  BY <3>2, <3>3
  <2>9. Digits(h, m)
        BY <2>7, <2>8 DEF Digits
  <2>10. QED  BY <2>9, <1>2
<1>5. QED  BY <1>3, <1>4

\* Two such functions agree wherever both are defined.
LEMMA DigitsAgree ==
    ASSUME NEW n \in Nat, NEW m \in Nat, NEW g, NEW h, Digits(g, n), Digits(h, m),
           NEW i \in 0..n, i \in 0..m
    PROVE  g[i] = h[i]
<1> DEFINE T == {k \in Nat : k <= n /\ k <= m /\ g[k] # h[k]}
<1>1. SUFFICES ASSUME T # {} PROVE FALSE
      OBVIOUS
<1>2. PICK k \in T : \A j \in T : k <= j
      BY <1>1, Least
<1>3. /\ g[k] = IF k = 0 THEN <<>> ELSE Append(g[k \div 256], k % 256)
      /\ h[k] = IF k = 0 THEN <<>> ELSE Append(h[k \div 256], k % 256)
  <2>1. k \in 0..n /\ k \in 0..m
        BY <1>2
  <2>2. QED  BY <2>1 DEF Digits
<1>4. k # 0
      BY <1>2, <1>3
<1>5. k \div 256 \in Nat /\ k \div 256 < k
      BY <1>2, <1>4, Quotient
<1>6. k \div 256 \notin T
      BY <1>2, <1>5
<1>7. g[k \div 256] = h[k \div 256]
      BY <1>2, <1>5, <1>6
<1>8. QED  BY <1>2, <1>3, <1>7

\* ToBinary is what such a function says.
LEMMA BinaryDigits == ASSUME NEW n \in Nat PROVE \E g : Digits(g, n) /\ ToBinary(n) = g[n]
<1> DEFINE g == CHOOSE d : d = [k \in 0..n |-> IF k = 0 THEN <<>> ELSE Append(d[k \div 256], k % 256)]
<1>1. \E d : d = [k \in 0..n |-> IF k = 0 THEN <<>> ELSE Append(d[k \div 256], k % 256)]
      BY DigitsExist DEF Digits
<1>2. g = [k \in 0..n |-> IF k = 0 THEN <<>> ELSE Append(g[k \div 256], k % 256)]
      BY <1>1, Zenon
<1>3. ToBinary(n) = g[n]
      BY DEF ToBinary
<1> HIDE DEF g
<1>4. QED  BY <1>2, <1>3 DEF Digits

\* The digits of a number are those of its quotient and the last.
LEMMA BinaryStep ==
    ASSUME NEW n \in Nat
    PROVE  ToBinary(n) = IF n = 0 THEN <<>> ELSE Append(ToBinary(n \div 256), n % 256)
<1>1. PICK g : Digits(g, n) /\ ToBinary(n) = g[n]
      BY BinaryDigits
<1>2. n \in 0..n
      OBVIOUS
<1>3. g[n] = IF n = 0 THEN <<>> ELSE Append(g[n \div 256], n % 256)
      BY <1>1, <1>2 DEF Digits
<1>4. CASE n # 0
  <2>1. n \div 256 \in Nat /\ n \div 256 \in 0..n /\ n \div 256 \in 0..n \div 256
        BY <1>4, Quotient
  <2>2. PICK h : Digits(h, n \div 256) /\ ToBinary(n \div 256) = h[n \div 256]
        BY <2>1, BinaryDigits
  <2>3. g[n \div 256] = h[n \div 256]
        BY <1>1, <2>1, <2>2, DigitsAgree
  <2>4. QED  BY <1>1, <1>3, <1>4, <2>2, <2>3
<1>5. QED  BY <1>1, <1>3, <1>4

\* The digits are bytes, and the first is not zero.
LEMMA BinaryType ==
    ASSUME NEW n \in Nat
    PROVE  /\ ToBinary(n) \in Seq(Byte)
           /\ n # 0 => ToBinary(n) # <<>> /\ ToBinary(n)[1] # 0
<1> DEFINE P(m) == /\ ToBinary(m) \in Seq(Byte)
                   /\ m # 0 => Len(ToBinary(m)) # 0 /\ ToBinary(m)[1] # 0
           T == {m \in Nat : ~P(m)}
<1>1. T = {}
  <2>1. SUFFICES ASSUME T # {} PROVE FALSE
        OBVIOUS
  <2>2. PICK m \in T : \A j \in T : m <= j
        BY <2>1, Least
  <2>3. m # 0
    <3>1. 0 \in Nat
          OBVIOUS
    <3>2. ToBinary(0) = <<>>
          BY <3>1, BinaryStep
    <3>3. <<>> \in Seq(Byte)
          BY EmptySeq
    <3>4. P(0)
          BY <3>2, <3>3
    <3>5. QED  BY <2>2, <3>4
  <2> DEFINE q == m \div 256
  <2>4. q \in Nat /\ q < m /\ m % 256 \in Byte /\ m = 256 * q + (m % 256)
        BY <2>2, <2>3, Quotient
  <2>5. P(q)
        BY <2>2, <2>4
  <2>6. ToBinary(m) = Append(ToBinary(q), m % 256)
        BY <2>2, <2>3, BinaryStep
  <2> DEFINE b == ToBinary(q)
  <2>7. b \in Seq(Byte)
        BY <2>5
  <2> HIDE DEF q, b
  <2>8. /\ Append(b, m % 256) \in Seq(Byte) /\ Len(Append(b, m % 256)) # 0
        /\ Append(b, m % 256)[1] = IF Len(b) = 0 THEN m % 256 ELSE b[1]
        BY <2>4, <2>7
  <2>9. Len(b) = 0 => q = 0
        BY <2>5 DEF b
  <2>10. P(m)
    <3>1. CASE q = 0
      <4>1. ToBinary(q) = <<>>
            BY <3>1, BinaryStep, 0 \in Nat
      <4>2. Len(b) = 0
            BY <4>1 DEF b
      <4>3. QED  BY <2>3, <2>4, <2>6, <2>8, <3>1, <4>2 DEF b
    <3>2. CASE q # 0
          BY <2>5, <2>6, <2>8, <2>9, <3>2 DEF b
    <3>3. QED  BY <3>1, <3>2
  <2>11. QED  BY <2>2, <2>10
<1>2. P(n)
      BY <1>1
<1>3. ToBinary(n) = <<>> => Len(ToBinary(n)) = 0
      OBVIOUS
<1>4. QED  BY <1>2, <1>3

\* A longer number has no fewer digits.
LEMMA BinaryLonger ==
    ASSUME NEW n \in Nat, NEW k \in Nat, k <= n
    PROVE  Len(ToBinary(k)) <= Len(ToBinary(n))
<1> DEFINE T == {m \in Nat : ~\A j \in 0..m : Len(ToBinary(j)) <= Len(ToBinary(m))}
<1>1. T = {}
  <2>1. SUFFICES ASSUME T # {} PROVE FALSE
        OBVIOUS
  <2>2. PICK m \in T : \A j \in T : m <= j
        BY <2>1, Least
  <2>3. PICK j \in 0..m : ~(Len(ToBinary(j)) <= Len(ToBinary(m)))
        BY <2>2
  <2>4. m \in Nat /\ j \in Nat
        BY <2>2, <2>3
  <2>5. ToBinary(m) \in Seq(Byte) /\ ToBinary(j) \in Seq(Byte)
        BY <2>4, BinaryType
  <2>6. j # 0
    <3>1. CASE j = 0
      <4>1. ToBinary(j) = <<>>
            BY <2>4, <3>1, BinaryStep
      <4>2. Len(ToBinary(j)) = 0
            BY <4>1
      <4>3. QED  BY <2>3, <2>5, <4>2
    <3>2. QED  BY <3>1
  <2>7. m # 0
        BY <2>3, <2>6
  <2> DEFINE x == m \div 256  y == j \div 256
  <2>8. /\ x \in Nat /\ y \in Nat /\ x < m /\ y <= x
        /\ m % 256 \in Byte /\ j % 256 \in Byte
        BY <2>3, <2>4, <2>6, <2>7, Quotient DEF Byte
  <2>9. Len(ToBinary(y)) <= Len(ToBinary(x))
    <3> HIDE DEF x, y
    <3>1. x \notin T /\ y \in 0..x
          BY <2>2, <2>8
    <3>2. QED  BY <2>8, <3>1
  <2>10. ToBinary(m) = Append(ToBinary(x), m % 256) /\ ToBinary(j) = Append(ToBinary(y), j % 256)
        BY <2>4, <2>6, <2>7, BinaryStep
  <2> HIDE DEF x, y
  <2>11. ToBinary(x) \in Seq(Byte) /\ ToBinary(y) \in Seq(Byte)
        BY <2>8, BinaryType
  <2>12. /\ Len(ToBinary(m)) = Len(ToBinary(x)) + 1
         /\ Len(ToBinary(j)) = Len(ToBinary(y)) + 1
        BY <2>8, <2>10, <2>11, AppendProperties
  <2>13. QED  BY <2>3, <2>9, <2>11, <2>12, LenProperties
<1>2. QED  BY <1>1

Values(g, bytes) == g = [k \in 0..Len(bytes) |-> IF k = 0 THEN 0 ELSE 256 * g[k - 1] + bytes[k]]

\* ToInt is a function by recursion on the length: such a function exists.
LEMMA ValuesExist == ASSUME NEW b \in Seq(Byte) PROVE \E g : Values(g, b)
<1> DEFINE at(g, k) == IF k = 0 THEN 0 ELSE 256 * g[k - 1] + b[k]
           Upto(g, m) == g = [k \in 0..m |-> at(g, k)]
           T == {m \in Nat : ~\E g : Upto(g, m)}
<1>1. T = {}
  <2>1. SUFFICES ASSUME T # {} PROVE FALSE
        OBVIOUS
  <2>2. PICK m \in T : \A j \in T : m <= j
        BY <2>1, Least
  <2>3. m # 0
    <3>1. Upto([k \in 0..0 |-> 0], 0)
          OBVIOUS
    <3>2. QED  BY <2>2, <3>1
  <2>4. m \in Nat /\ m - 1 \in Nat /\ m - 1 \notin T
    <3> HIDE DEF Upto
    <3>1. m \in Nat
          BY <2>2
    <3> HIDE DEF T
    <3>2. QED  BY <2>2, <2>3, <3>1
  <2>5. PICK g : Upto(g, m - 1)
    <3> HIDE DEF Upto
    <3>1. QED  BY <2>4
  <2> DEFINE h == [k \in 0..m |-> IF k = m THEN at(g, m) ELSE g[k]]
  <2>6. \A k \in 0..m - 1 : g[k] = at(g, k)
        BY <2>5
  <2>7. h[m] = at(g, m) /\ \A k \in 0..m - 1 : h[k] = g[k]
        BY <2>4
  <2>8. h = [k \in 0..m |-> h[k]]
        OBVIOUS
  <2> HIDE DEF h
  <2>9. \A k \in 0..m : h[k] = at(h, k)
    <3>1. TAKE k \in 0..m
    <3>2. CASE k = m
      <4>1. m - 1 \in 0..m - 1
            BY <2>4
      <4>2. QED  BY <3>2, <2>7, <4>1
    <3>3. CASE k # m
      <4>1. k \in 0..m - 1 /\ (k # 0 => k - 1 \in 0..m - 1)
            BY <3>3, <2>4
      <4>2. QED  BY <4>1, <2>6, <2>7
    <3>4. QED  BY <3>2, <3>3
  <2>10. Upto(h, m)
        BY <2>8, <2>9
  <2>11. QED  BY <2>2, <2>10
<1>2. Len(b) \in Nat
      OBVIOUS
<1>3. \E g : Upto(g, Len(b))
      BY <1>1, <1>2
<1>4. QED  BY <1>3 DEF Values

\* ToInt is what such a function says.
LEMMA IntValues == ASSUME NEW b \in Seq(Byte) PROVE \E g : Values(g, b) /\ ToInt(b) = g[Len(b)]
<1> DEFINE g == CHOOSE d : d = [k \in 0..Len(b) |-> IF k = 0 THEN 0 ELSE 256 * d[k - 1] + b[k]]
<1>1. \E d : d = [k \in 0..Len(b) |-> IF k = 0 THEN 0 ELSE 256 * d[k - 1] + b[k]]
      BY ValuesExist DEF Values
<1>2. g = [k \in 0..Len(b) |-> IF k = 0 THEN 0 ELSE 256 * g[k - 1] + b[k]]
      BY <1>1, Zenon
<1>3. ToInt(b) = g[Len(b)]
      BY DEF ToInt
<1> HIDE DEF g
<1>4. QED  BY <1>2, <1>3 DEF Values

\* The number of no bytes is 0.
LEMMA IntOfNothing == ToInt(<<>>) = 0
<1>1. <<>> \in Seq(Byte) /\ Len(<<>>) = 0
      BY EmptySeq
<1>2. PICK g : Values(g, <<>>) /\ ToInt(<<>>) = g[Len(<<>>)]
      BY <1>1, IntValues
<1>3. g[0] = 0
      BY <1>1, <1>2 DEF Values
<1>4. QED  BY <1>1, <1>2, <1>3

\* A byte more is a digit more.
LEMMA IntStep ==
    ASSUME NEW b \in Seq(Byte), NEW x \in Byte
    PROVE  ToInt(Append(b, x)) = 256 * ToInt(b) + x
<1> DEFINE c == Append(b, x)  n == Len(b)
<1>1. /\ c \in Seq(Byte) /\ Len(c) = n + 1 /\ n \in Nat
      /\ c[n + 1] = x /\ \A k \in 1..n : c[k] = b[k]
      BY AppendProperties
<1>2. PICK g : Values(g, b) /\ ToInt(b) = g[n]
      BY IntValues
<1> HIDE DEF c
<1>3. PICK h : Values(h, c) /\ ToInt(c) = h[n + 1]
      BY <1>1, IntValues
<1> HIDE DEF n
<1>4. /\ \A k \in 0..n : g[k] = IF k = 0 THEN 0 ELSE 256 * g[k - 1] + b[k]
      /\ \A k \in 0..n + 1 : h[k] = IF k = 0 THEN 0 ELSE 256 * h[k - 1] + c[k]
      BY <1>1, <1>2, <1>3 DEF Values, n
<1> DEFINE T == {k \in Nat : k <= n /\ g[k] # h[k]}
<1>5. T = {}
  <2>1. SUFFICES ASSUME T # {} PROVE FALSE
        OBVIOUS
  <2>2. PICK k \in T : \A j \in T : k <= j
        BY <2>1, Least
  <2>3. k \in 0..n /\ k \in 0..n + 1
        BY <1>1, <2>2
  <2>4. k # 0
        BY <1>4, <2>2, <2>3
  <2>5. k - 1 \in Nat /\ k - 1 \notin T
        BY <2>2, <2>4
  <2>6. g[k - 1] = h[k - 1] /\ b[k] = c[k]
        BY <1>1, <2>3, <2>4, <2>5
  <2>7. QED  BY <1>4, <2>2, <2>3, <2>4, <2>6
<1>6. g[n] = h[n]
      BY <1>1, <1>5
<1>7. h[n + 1] = 256 * h[n] + x
  <2>1. n + 1 \in 0..n + 1 /\ n + 1 # 0 /\ n + 1 - 1 = n
        BY <1>1
  <2>2. QED  BY <1>1, <1>4, <2>1
<1>8. QED  BY <1>2, <1>3, <1>6, <1>7 DEF c

(* A number is read back from its digits (IntToBytes, rlp.go). *)
LEMMA NumberBack == ASSUME NEW n \in Nat PROVE ToInt(ToBinary(n)) = n
<1> DEFINE T == {m \in Nat : ToInt(ToBinary(m)) # m}
<1>1. T = {}
  <2>1. SUFFICES ASSUME T # {} PROVE FALSE
        OBVIOUS
  <2>2. PICK m \in T : \A j \in T : m <= j
        BY <2>1, Least
  <2>3. m # 0
    <3>1. 0 \in Nat
          OBVIOUS
    <3>2. ToBinary(0) = <<>>
          BY <3>1, BinaryStep
    <3>3. QED  BY <2>2, <3>2, IntOfNothing
  <2> DEFINE q == m \div 256
  <2>4. q \in Nat /\ q < m /\ m % 256 \in Byte /\ m = 256 * q + (m % 256)
        BY <2>2, <2>3, Quotient
  <2>5. ToBinary(m) = Append(ToBinary(q), m % 256)
        BY <2>2, <2>3, BinaryStep
  <2> HIDE DEF q
  <2>6. ToInt(ToBinary(q)) = q
        BY <2>2, <2>4
  <2>7. ToInt(ToBinary(m)) = 256 * q + (m % 256)
        BY <2>4, <2>5, <2>6, BinaryType, IntStep
  <2>8. QED  BY <2>2, <2>4, <2>7
<1>2. QED  BY <1>1

-----------------------------------------------------------------------------
(* Lists *)

Flattens(g, ss) == g = [i \in 1..Len(ss) |-> IF i = 1 THEN ss[i] ELSE g[i - 1] \o ss[i]]

\* So is FlattenSeq, on the elements: such a function exists.
LEMMA FlattensExist ==
    ASSUME NEW S, NEW ss \in Seq(Seq(S)) PROVE \E g : Flattens(g, ss)
<1> DEFINE at(g, i) == IF i = 1 THEN ss[i] ELSE g[i - 1] \o ss[i]
           Upto(g, m) == g = [i \in 1..m |-> at(g, i)]
           T == {m \in Nat : ~\E g : Upto(g, m)}
<1>1. T = {}
  <2>1. SUFFICES ASSUME T # {} PROVE FALSE
        OBVIOUS
  <2>2. PICK m \in T : \A j \in T : m <= j
        BY <2>1, Least
  <2>3. m # 0
    <3>1. Upto([i \in 1..0 |-> <<>>], 0)
          OBVIOUS
    <3>2. QED  BY <2>2, <3>1
  <2>4. m \in Nat /\ m - 1 \in Nat /\ m - 1 \notin T
    <3> HIDE DEF Upto
    <3>1. m \in Nat
          BY <2>2
    <3> HIDE DEF T
    <3>2. QED  BY <2>2, <2>3, <3>1
  <2>5. PICK g : Upto(g, m - 1)
    <3> HIDE DEF Upto
    <3>1. QED  BY <2>4
  <2> DEFINE h == [i \in 1..m |-> IF i = m THEN at(g, m) ELSE g[i]]
  <2>6. \A i \in 1..m - 1 : g[i] = at(g, i)
        BY <2>5
  <2>7. h[m] = at(g, m) /\ \A i \in 1..m - 1 : h[i] = g[i]
    <3> HIDE DEF at
    <3>1. m \in 1..m /\ \A i \in 1..m - 1 : i \in 1..m /\ i # m
          BY <2>3, <2>4
    <3>2. QED  BY <3>1
  <2>8. h = [i \in 1..m |-> h[i]]
        OBVIOUS
  <2> HIDE DEF h
  <2>9. \A i \in 1..m : h[i] = at(h, i)
    <3>1. TAKE i \in 1..m
    <3>2. CASE i = m
      <4>1. m # 1 => m - 1 \in 1..m - 1
            BY <2>4
      <4>2. QED  BY <3>2, <2>7, <4>1
    <3>3. CASE i # m
      <4>1. i \in 1..m - 1 /\ (i # 1 => i - 1 \in 1..m - 1)
            BY <3>3, <2>4
      <4>2. QED  BY <4>1, <2>6, <2>7
    <3>4. QED  BY <3>2, <3>3
  <2>10. Upto(h, m)
        BY <2>8, <2>9
  <2>11. QED  BY <2>2, <2>10
<1>2. Len(ss) \in Nat
      OBVIOUS
<1>3. \E g : Upto(g, Len(ss))
      BY <1>1, <1>2
<1>4. QED  BY <1>3 DEF Flattens

\* FlattenSeq is what such a function says.
LEMMA FlattenedBy ==
    ASSUME NEW S, NEW ss \in Seq(Seq(S)), ss # <<>>
    PROVE  \E g : Flattens(g, ss) /\ FlattenSeq(ss) = g[Len(ss)]
<1> DEFINE g == CHOOSE d : d = [i \in 1..Len(ss) |-> IF i = 1 THEN ss[i] ELSE d[i - 1] \o ss[i]]
<1>1. \E d : d = [i \in 1..Len(ss) |-> IF i = 1 THEN ss[i] ELSE d[i - 1] \o ss[i]]
      BY FlattensExist DEF Flattens
<1>2. g = [i \in 1..Len(ss) |-> IF i = 1 THEN ss[i] ELSE g[i - 1] \o ss[i]]
      BY <1>1, Zenon
<1>3. Len(ss) # 0
      BY EmptySeq
<1>4. FlattenSeq(ss) = g[Len(ss)]
      BY <1>3 DEF FlattenSeq
<1> HIDE DEF g
<1>5. QED  BY <1>2, <1>4 DEF Flattens

\* Of no elements, nothing.
LEMMA FlattenNothing == FlattenSeq(<<>>) = <<>>
<1>1. Len(<<>>) = 0
      OBVIOUS
<1>2. QED  BY <1>1 DEF FlattenSeq

\* What is flattened so far is a sequence of the elements' elements.
LEMMA FlattensType ==
    ASSUME NEW S, NEW ss \in Seq(Seq(S)), NEW g, Flattens(g, ss), NEW i \in 1..Len(ss)
    PROVE  g[i] \in Seq(S)
<1> DEFINE T == {m \in Nat : m \in 1..Len(ss) /\ g[m] \notin Seq(S)}
<1>1. SUFFICES ASSUME T # {} PROVE FALSE
      BY LenProperties
<1>2. PICK m \in T : \A j \in T : m <= j
      BY <1>1, Least
<1>3. m \in 1..Len(ss) /\ g[m] \notin Seq(S) /\ Len(ss) \in Nat
      BY <1>2
<1>4. g[m] = IF m = 1 THEN ss[m] ELSE g[m - 1] \o ss[m]
      BY <1>3 DEF Flattens
<1>5. ss[m] \in Seq(S)
      BY <1>3, ElementOfSeq
<1>6. m - 1 \in 1..Len(ss) /\ m - 1 \notin T
      BY <1>2, <1>3, <1>4, <1>5
<1>7. g[m - 1] \in Seq(S)
      BY <1>6
<1>8. g[m - 1] \o ss[m] \in Seq(S)
      BY <1>5, <1>7, ConcatProperties
<1>9. QED  BY <1>3, <1>4, <1>5, <1>8

\* An element more comes after all the others.
LEMMA FlattenStep ==
    ASSUME NEW S, NEW ss \in Seq(Seq(S)), NEW s \in Seq(S)
    PROVE  FlattenSeq(ss) \in Seq(S) /\ FlattenSeq(Append(ss, s)) = FlattenSeq(ss) \o s
<1> DEFINE tt == Append(ss, s)  n == Len(ss)
<1>1. /\ tt \in Seq(Seq(S)) /\ tt # <<>> /\ Len(tt) = n + 1 /\ n \in Nat
      /\ tt[n + 1] = s /\ \A i \in 1..n : tt[i] = ss[i]
      BY AppendProperties
<1> HIDE DEF tt
<1>2. PICK h : Flattens(h, tt) /\ FlattenSeq(tt) = h[n + 1]
      BY <1>1, FlattenedBy
<1>3. \A i \in 1..n + 1 : h[i] = IF i = 1 THEN tt[i] ELSE h[i - 1] \o tt[i]
      BY <1>1, <1>2 DEF Flattens
<1>4. CASE ss = <<>>
  <2>1. n = 0 /\ FlattenSeq(ss) = <<>> /\ <<>> \in Seq(S)
        BY <1>4, FlattenNothing, EmptySeq
  <2>2. h[1] = s
        BY <1>1, <1>3, <2>1
  <2>3. <<>> \o s = s
        BY ConcatEmptySeq
  <2>4. QED  BY <1>2, <2>1, <2>2, <2>3 DEF tt
<1>5. CASE ss # <<>>
  <2>1. PICK g : Flattens(g, ss) /\ FlattenSeq(ss) = g[n]
        BY <1>5, FlattenedBy
  <2>2. n # 0
        BY <1>5, EmptySeq
  <2> HIDE DEF n
  <2>3. \A i \in 1..n : g[i] = IF i = 1 THEN ss[i] ELSE g[i - 1] \o ss[i]
        BY <2>1 DEF Flattens, n
  <2> DEFINE T == {i \in Nat : i \in 1..n /\ g[i] # h[i]}
  <2>4. T = {}
    <3>1. SUFFICES ASSUME T # {} PROVE FALSE
          OBVIOUS
    <3>2. PICK i \in T : \A j \in T : i <= j
          BY <3>1, Least
    <3>3. i \in 1..n /\ i \in 1..n + 1 /\ g[i] # h[i] /\ tt[i] = ss[i]
          BY <1>1, <3>2
    <3>4. i # 1
          BY <1>3, <2>3, <3>3
    <3>5. i - 1 \in Nat /\ i - 1 \in 1..n /\ i - 1 \notin T
          BY <1>1, <3>2, <3>3, <3>4
    <3>6. g[i - 1] = h[i - 1]
          BY <3>5
    <3>7. QED  BY <1>3, <2>3, <3>3, <3>4, <3>6
  <2>5. n \in 1..n
        BY <1>1, <2>2
  <2>6. g[n] = h[n]
        BY <1>1, <2>4, <2>5
  <2>7. h[n + 1] = h[n] \o s
    <3>1. \A i \in 1..n + 1 : i # 1 => h[i] = h[i - 1] \o tt[i]
          BY <1>3
    <3>2. PICK i : i = n + 1
          OBVIOUS
    <3>3. i \in 1..n + 1 /\ i # 1 /\ i - 1 = n
          BY <1>1, <2>2, <3>2
    <3>4. h[i] = h[i - 1] \o tt[i]
          BY <3>1, <3>3, Zenon
    <3>5. h[i] = h[n] \o tt[i]
          BY <3>3, <3>4, Zenon
    <3>6. tt[i] = s
          BY <1>1, <3>2
    <3>7. QED  BY <3>2, <3>5, <3>6, Zenon
  <2>8. g[n] \in Seq(S)
        BY <2>1, <2>5, FlattensType DEF n
  <2>9. QED  BY <1>2, <2>1, <2>6, <2>7, <2>8 DEF tt
<1>6. QED  BY <1>4, <1>5

\* The first i elements are the first i - 1, and then the i-th.
LEMMA FlattenGoesOn ==
    ASSUME NEW S, NEW ss \in Seq(Seq(S)), NEW i \in 1..Len(ss)
    PROVE  /\ FlattenSeq(SubSeq(ss, 1, i - 1)) \in Seq(S) /\ ss[i] \in Seq(S)
           /\ FlattenSeq(SubSeq(ss, 1, i)) = FlattenSeq(SubSeq(ss, 1, i - 1)) \o ss[i]
<1> DEFINE front == SubSeq(ss, 1, i - 1)
<1>1. ss[i] \in Seq(S)
      BY ElementOfSeq
<1>2. front \in Seq(Seq(S))
  <2>1. 1 \in Int /\ i - 1 \in Int /\ \A k \in 1..i - 1 : ss[k] \in Seq(S)
        BY ElementOfSeq
  <2>2. QED  BY <2>1, SubSeqProperties
<1>3. SubSeq(ss, 1, i) = front \o <<ss[i]>>
  <2>1. 1 \in 1..Len(ss) /\ i \in 1..Len(ss)
        OBVIOUS
  <2>2. QED  BY <2>1, SubSeqRecursiveSecond
<1>4. SubSeq(ss, 1, i) = Append(front, ss[i])
      BY <1>1, <1>2, <1>3, AppendIsConcat
<1> HIDE DEF front
<1>5. FlattenSeq(front) \in Seq(S) /\ FlattenSeq(SubSeq(ss, 1, i)) = FlattenSeq(front) \o ss[i]
      BY <1>1, <1>2, <1>4, FlattenStep
<1>6. QED  BY <1>1, <1>5 DEF front

\* What is flattened is a sequence of the elements' elements.
LEMMA FlattenType == ASSUME NEW S, NEW ss \in Seq(Seq(S)) PROVE FlattenSeq(ss) \in Seq(S)
<1>1. <<>> \in Seq(S)
      BY EmptySeq
<1>2. QED  BY <1>1, FlattenStep

\* What comes after the first elements of a list.
LEMMA FlattenRest ==
    ASSUME NEW S, NEW ss \in Seq(Seq(S)), NEW i \in 0..Len(ss)
    PROVE  \E rest \in Seq(S) : FlattenSeq(ss) = FlattenSeq(SubSeq(ss, 1, i)) \o rest
<1> DEFINE n == Len(ss)
           front(k) == FlattenSeq(SubSeq(ss, 1, k))
           Splits(k) == \E rest \in Seq(S) : FlattenSeq(ss) = front(k) \o rest
           T == {m \in Nat : m <= n /\ ~Splits(n - m)}
<1>0. n \in Nat
      OBVIOUS
<1>1. T = {}
  <2>1. SUFFICES ASSUME T # {} PROVE FALSE
        OBVIOUS
  <2>2. PICK m \in T : \A j \in T : m <= j
    <3> HIDE DEF Splits
    <3>1. T \in SUBSET Nat
          OBVIOUS
    <3> HIDE DEF T
    <3>2. QED  BY <2>1, <3>1, Least
  <2>3. Splits(n)
    <3>1. front(n) = FlattenSeq(ss) /\ FlattenSeq(ss) \in Seq(S)
          BY SubSeqFull, FlattenType
    <3>2. FlattenSeq(ss) = front(n) \o <<>> /\ <<>> \in Seq(S)
          BY <3>1, ConcatEmptySeq, EmptySeq
    <3>3. QED  BY <3>2
  <2> HIDE DEF Splits
  <2>4. m \in Nat /\ m <= n /\ ~Splits(n - m)
        BY <2>2
  <2>5. m # 0
        BY <1>0, <2>3, <2>4
  <2> DEFINE k == n - m + 1
  <2>6. k \in 1..n /\ m - 1 \in Nat /\ n - (m - 1) = k /\ n - m = k - 1
    <3> HIDE DEF n
    <3>1. QED  BY <1>0, <2>4, <2>5
  <2>7. m - 1 \notin T
    <3>1. m - 1 < m
          BY <2>4
    <3> HIDE DEF n, T, k
    <3>2. QED  BY <2>2, <2>4, <2>6, <3>1
  <2> HIDE DEF k
  <2>8. Splits(k)
    <3> HIDE DEF n
    <3>1. QED  BY <1>0, <2>4, <2>6, <2>7
  <2>9. PICK rest \in Seq(S) : FlattenSeq(ss) = front(k) \o rest
        BY <2>8 DEF Splits
  <2>10. front(k - 1) \in Seq(S) /\ ss[k] \in Seq(S) /\ front(k) = front(k - 1) \o ss[k]
        BY <2>6, FlattenGoesOn
  <2>11. PICK a, e : a = front(k - 1) /\ e = ss[k]
        OBVIOUS
  <2> HIDE DEF front
  <2>12. a \in Seq(S) /\ e \in Seq(S) /\ FlattenSeq(ss) = (a \o e) \o rest
        BY <2>9, <2>10, <2>11
  <2>13. FlattenSeq(ss) = a \o (e \o rest) /\ e \o rest \in Seq(S)
    <3>1. e \o rest \in Seq(S)
          BY <2>12, ConcatProperties
    <3>2. (a \o e) \o rest = a \o (e \o rest)
          BY <2>12, ConcatAssociative
    <3>3. QED  BY <2>12, <3>1, <3>2
  <2>14. Splits(k - 1)
        BY <2>11, <2>13 DEF Splits
  <2>15. QED  BY <2>4, <2>6, <2>14
<1>2. n - i \in Nat /\ n - i <= n /\ n - (n - i) = i
      BY <1>0
<1>3. Splits(i)
  <2> HIDE DEF Splits, n
  <2>1. QED BY <1>1, <1>2
<1>4. QED  BY <1>3

\* No element is longer than the list.
LEMMA ElementShorter ==
    ASSUME NEW S, NEW ss \in Seq(Seq(S)), NEW i \in 1..Len(ss)
    PROVE  Len(ss[i]) <= Len(FlattenSeq(ss))
<1> DEFINE front == FlattenSeq(SubSeq(ss, 1, i - 1))  upto == FlattenSeq(SubSeq(ss, 1, i))
<1>1. front \in Seq(S) /\ ss[i] \in Seq(S) /\ upto = front \o ss[i]
      BY FlattenGoesOn
<1>2. i \in 0..Len(ss)
      BY LenProperties
<1>3. PICK rest \in Seq(S) : FlattenSeq(ss) = upto \o rest
      BY <1>2, FlattenRest
<1> HIDE DEF front, upto
<1>4. upto \in Seq(S) /\ Len(upto) = Len(front) + Len(ss[i])
      BY <1>1, ConcatProperties
<1>5. Len(FlattenSeq(ss)) = Len(upto) + Len(rest)
      BY <1>3, <1>4, ConcatProperties
<1>6. QED  BY <1>1, <1>3, <1>4, <1>5, LenProperties

-----------------------------------------------------------------------------
(* Headers *)

LongHeader(input, kind, size) ==
    IF Len(input) <= 1 + size THEN TooShort
    ELSE Header(kind, 1 + size, ToInt(SubSeq(input, 2, 1 + size)))

\* The first byte says which of the five headers of decodeLength it begins.
LEMMA HeaderOf ==
    ASSUME NEW input, NEW x \in Byte, input[1] = x
    PROVE  /\ x \in 0..127 => DecodeLength(input) = Header("string", 0, 1)
           /\ x \in 128..183 => DecodeLength(input) = Header("string", 1, x - 128)
           /\ x \in 184..191 => DecodeLength(input) = LongHeader(input, "string", x - 183)
           /\ x \in 192..247 => DecodeLength(input) = Header("list", 1, x - 192)
           /\ x \in 248..255 => DecodeLength(input) = LongHeader(input, "list", x - 247)
<1>1. DecodeLength(input) =
        CASE x <= 127 -> Header("string", 0, 1)
          [] x \in 128..183 -> Header("string", 1, x - 128)
          [] x \in 184..191 -> LongHeader(input, "string", x - 183)
          [] x \in 192..247 -> Header("list", 1, x - 192)
          [] x > 247 -> LongHeader(input, "list", x - 247)
      BY DEF DecodeLength, LongHeader
<1>2. x \in 0..255
      BY DEF Byte
<1>3. ASSUME x \in 0..127 PROVE DecodeLength(input) = Header("string", 0, 1)
  <2>1. /\ x <= 127 /\ ~(x \in 128..183) /\ ~(x \in 184..191) /\ ~(x \in 192..247) /\ ~(x > 247)
        BY <1>3
  <2>2. QED  BY <1>1, <2>1
<1>4. ASSUME x \in 128..183 PROVE DecodeLength(input) = Header("string", 1, x - 128)
  <2>1. /\ ~(x <= 127) /\ x \in 128..183 /\ ~(x \in 184..191) /\ ~(x \in 192..247) /\ ~(x > 247)
        BY <1>4
  <2>2. QED  BY <1>1, <2>1
<1>5. ASSUME x \in 184..191 PROVE DecodeLength(input) = LongHeader(input, "string", x - 183)
  <2>1. /\ ~(x <= 127) /\ ~(x \in 128..183) /\ x \in 184..191 /\ ~(x \in 192..247) /\ ~(x > 247)
        BY <1>5
  <2>2. QED  BY <1>1, <2>1
<1>6. ASSUME x \in 192..247 PROVE DecodeLength(input) = Header("list", 1, x - 192)
  <2>1. /\ ~(x <= 127) /\ ~(x \in 128..183) /\ ~(x \in 184..191) /\ x \in 192..247 /\ ~(x > 247)
        BY <1>6
  <2>2. QED  BY <1>1, <2>1
<1>7. ASSUME x \in 248..255 PROVE DecodeLength(input) = LongHeader(input, "list", x - 247)
  <2>1. /\ ~(x <= 127) /\ ~(x \in 128..183) /\ ~(x \in 184..191) /\ ~(x \in 192..247) /\ x > 247
        BY <1>7
  <2>2. QED  BY <1>1, <2>1
<1>8. QED  BY <1>3, <1>4, <1>5, <1>6, <1>7

\* Lengths of at most eight bytes, which is what a header has room for.
Short(n) == Len(ToBinary(n)) <= 8

KindOf(offset) == IF offset = 128 THEN "string" ELSE "list"

\* A header says how long it is, and what it is the header of.
LEMMA LengthEncoded ==
    ASSUME NEW n \in Nat, Short(n), NEW offset \in {128, 192}, NEW tail \in Seq(Byte), n <= Len(tail)
    PROVE  /\ EncodeLength(n, offset) \in Seq(Byte)
           /\ EncodeLength(n, offset) # <<>>
           /\ DecodeLength(EncodeLength(n, offset) \o tail) = Header(KindOf(offset), Len(EncodeLength(n, offset)), n)
<1> DEFINE head == EncodeLength(n, offset)  input == head \o tail
<1>1. CASE n < 56
  <2> DEFINE x == n + offset
  <2>1. head = <<x>> /\ x \in Byte
        BY <1>1 DEF EncodeLength, Byte
  <2>2. offset = 128 => x \in 128..183 /\ x - 128 = n
        BY <1>1
  <2>3. offset = 192 => x \in 192..247 /\ x - 192 = n
        BY <1>1
  <2> HIDE DEF x
  <2>4. head \in Seq(Byte) /\ Len(head) = 1 /\ head[1] = x
        BY <2>1
  <2> HIDE DEF head
  <2>5. input[1] = x
        BY <2>4, ConcatProperties, LenProperties
  <2> HIDE DEF input
  <2>6. DecodeLength(input) = Header(KindOf(offset), 1, n)
    <3>1. CASE offset = 128
      <4>1. DecodeLength(input) = Header("string", 1, x - 128)
            BY <2>1, <2>2, <2>5, <3>1, HeaderOf
      <4>2. QED  BY <2>2, <3>1, <4>1 DEF KindOf
    <3>2. CASE offset = 192
      <4>1. DecodeLength(input) = Header("list", 1, x - 192)
            BY <2>1, <2>3, <2>5, <3>2, HeaderOf
      <4>2. QED  BY <2>3, <3>2, <4>1 DEF KindOf
    <3>3. QED  BY <3>1, <3>2
  <2>7. head # <<>>
        BY <2>4, EmptySeq
  <2>8. QED  BY <2>4, <2>6, <2>7 DEF input, head
<1>2. CASE ~(n < 56)
  <2>1. PICK d, size, x : d = ToBinary(n) /\ size = Len(d) /\ x = size + offset + 55
        OBVIOUS
  <2>2. d \in Seq(Byte) /\ d # <<>> /\ ToInt(d) = n
        BY <1>2, <2>1, BinaryType, NumberBack
  <2>3. size \in 1..8
    <3>1. size \in Nat /\ size # 0
          BY <2>1, <2>2, EmptySeq, LenProperties
    <3>2. size <= 8
          BY <2>1 DEF Short
    <3>3. QED  BY <3>1, <3>2
  <2>4. /\ x \in Byte
        /\ offset = 128 => x \in 184..191 /\ x - 183 = size
        /\ offset = 192 => x \in 248..255 /\ x - 247 = size
    <3>1. offset = 128 \/ offset = 192
          OBVIOUS
    <3>2. x = size + offset + 55
          BY <2>1
    <3>3. QED  BY <2>3, <3>1, <3>2 DEF Byte
  <2>5. head = <<x>> \o d
        BY <1>2, <2>1 DEF EncodeLength
  <2>6. <<x>> \in Seq(Byte) /\ Len(<<x>>) = 1 /\ <<x>>[1] = x
        BY <2>4
  <2> HIDE DEF head
  <2>7. /\ head \in Seq(Byte) /\ Len(head) = 1 + size
        /\ head[1] = x /\ \A k \in 1..size : head[1 + k] = d[k]
    <3>1. \A k \in 1..1 + size : head[k] = IF k <= 1 THEN <<x>>[k] ELSE d[k - 1]
          BY <2>1, <2>2, <2>5, <2>6, ConcatProperties
    <3>2. head \in Seq(Byte) /\ Len(head) = 1 + size
          BY <2>1, <2>2, <2>5, <2>6, ConcatProperties
    <3>3. QED  BY <2>3, <2>6, <3>1, <3>2
  <2>8. /\ input \in Seq(Byte) /\ Len(input) = 1 + size + Len(tail)
        /\ input[1] = x /\ \A k \in 1..size : input[1 + k] = d[k]
    <3>a. head \in Seq(Byte) /\ tail \in Seq(Byte)
          BY <2>7
    <3>1. /\ input \in Seq(Byte) /\ Len(input) = Len(head) + Len(tail)
          /\ \A k \in 1..Len(head) + Len(tail) : input[k] = IF k <= Len(head) THEN head[k] ELSE tail[k - Len(head)]
          BY <3>a, ConcatProperties
    <3>2. Len(tail) \in Nat
          OBVIOUS
    <3> HIDE DEF input
    <3>3. QED  BY <2>3, <2>7, <3>1, <3>2
  <2> HIDE DEF input
  <2>9. SubSeq(input, 2, 1 + size) = d
    <3>1. 2 \in Int /\ 1 + size \in Int /\ \A k \in 2..1 + size : input[k] \in Byte
          BY <2>3, <2>8, ElementOfSeq, LenProperties
    <3>2. /\ SubSeq(input, 2, 1 + size) \in Seq(Byte) /\ Len(SubSeq(input, 2, 1 + size)) = size
          /\ \A k \in 1..size : SubSeq(input, 2, 1 + size)[k] = input[1 + k]
          BY <2>3, <3>1, SubSeqProperties
    <3>3. QED  BY <2>1, <2>2, <2>8, <3>2, SeqEqual
  <2>10. ~(Len(input) <= 1 + size)
        BY <1>2, <2>3, <2>8, LenProperties
  <2>11. \A kind : LongHeader(input, kind, size) = Header(kind, 1 + size, n)
        BY <2>2, <2>9, <2>10 DEF LongHeader
  <2>12. DecodeLength(input) = Header(KindOf(offset), 1 + size, n)
    <3>1. CASE offset = 128
          BY <2>4, <2>8, <2>11, <3>1, HeaderOf DEF KindOf
    <3>2. CASE offset = 192
          BY <2>4, <2>8, <2>11, <3>2, HeaderOf DEF KindOf
    <3>3. QED  BY <3>1, <3>2
  <2>13. head # <<>>
        BY <2>3, <2>7, EmptySeq
  <2>14. QED  BY <2>7, <2>12, <2>13 DEF input, head
<1>3. QED  BY <1>1, <1>2
-----------------------------------------------------------------------------
(* Items *)
LEMMA IntType == ASSUME NEW b \in Seq(Byte) PROVE ToInt(b) \in Nat
<1>1. PICK g : Values(g, b) /\ ToInt(b) = g[Len(b)]
      BY IntValues
<1> DEFINE n == Len(b)
           T == {k \in Nat : k <= n /\ g[k] \notin Nat}
<1>2. n \in Nat
      BY LenProperties
<1>3. T = {}
  <2>1. SUFFICES ASSUME T # {} PROVE FALSE
        OBVIOUS
  <2>2. PICK k \in T : \A j \in T : k <= j
        BY <2>1, Least
  <2>3. k \in 0..n /\ g[k] \notin Nat
        BY <2>2
  <2>4. g[k] = IF k = 0 THEN 0 ELSE 256 * g[k - 1] + b[k]
        BY <1>1, <2>3 DEF Values
  <2>5. k # 0
        BY <2>3, <2>4
  <2>6. k - 1 \in Nat /\ k - 1 \notin T /\ k \in 1..n
        BY <2>2, <2>3, <2>5
  <2>7. g[k - 1] \in Nat /\ b[k] \in Nat
    <3>1. g[k - 1] \in Nat
          BY <2>6
    <3>2. b[k] \in Byte
          BY <2>6, ElementOfSeq
    <3>3. \A x \in Byte : x \in Nat
          BY DEF Byte
    <3>4. QED  BY <3>1, <3>2, <3>3, Zenon
  <2>8. 256 * g[k - 1] + b[k] \in Nat
        BY <2>7
  <2>9. QED  BY <2>3, <2>4, <2>8
<1>4. n \notin T
      BY <1>3
<1> HIDE DEF n
<1>5. g[n] \in Nat
      BY <1>2, <1>4
<1>6. QED  BY <1>1, <1>5 DEF n

Items == [kind : {"string", "list"}, content : Seq(Byte)]

\* e is the encoding of item, whatever comes after it.
Encodes(e, item) ==
    /\ e \in Seq(Byte) /\ item \in Items
    /\ \E offset \in Nat :
         /\ offset + Len(item.content) >= 1
         /\ Len(e) = offset + Len(item.content)
         /\ \A k \in 1..Len(item.content) : e[offset + k] = item.content[k]
         /\ \A rest \in Seq(Byte) : DecodeLength(e \o rest) = Header(item.kind, offset, Len(item.content))

\* A header before its content.
LEMMA HeaderEncodes ==
    ASSUME NEW content \in Seq(Byte), Short(Len(content)), NEW offset \in {128, 192}
    PROVE  Encodes(EncodeLength(Len(content), offset) \o content, [kind |-> KindOf(offset), content |-> content])
<1> DEFINE item == [kind |-> KindOf(offset), content |-> content]
<1>1. PICK head, n : head = EncodeLength(Len(content), offset) /\ n = Len(content)
      OBVIOUS
<1>2. n \in Nat /\ item \in Items /\ item.content = content /\ item.kind = KindOf(offset)
      BY <1>1, LenProperties DEF Items, KindOf
<1> HIDE DEF item
<1>3. \A tail \in Seq(Byte) : n <= Len(tail) =>
        /\ head \in Seq(Byte) /\ head # <<>>
        /\ DecodeLength(head \o tail) = Header(KindOf(offset), Len(head), n)
      BY <1>1, <1>2, LengthEncoded
<1>4. head \in Seq(Byte) /\ head # <<>>
      BY <1>1, <1>2, <1>3
<1>5. Len(head) \in Nat /\ Len(head) >= 1
      BY <1>4, EmptySeq
<1>6. /\ head \o content \in Seq(Byte) /\ Len(head \o content) = Len(head) + n
      /\ \A k \in 1..n : (head \o content)[Len(head) + k] = content[k]
  <2>1. /\ head \o content \in Seq(Byte) /\ Len(head \o content) = Len(head) + Len(content)
        /\ \A k \in 1..Len(head) + Len(content) :
             (head \o content)[k] = IF k <= Len(head) THEN head[k] ELSE content[k - Len(head)]
        BY <1>4, ConcatProperties
  <2>2. ASSUME NEW k \in 1..n PROVE (head \o content)[Len(head) + k] = content[k]
    <3>1. Len(head) + k \in 1..Len(head) + Len(content) /\ ~(Len(head) + k <= Len(head)) /\ Len(head) + k - Len(head) = k
          BY <1>1, <1>2, <1>5
    <3>2. QED  BY <2>1, <3>1
  <2>3. QED  BY <1>1, <2>1, <2>2
<1>7. ASSUME NEW rest \in Seq(Byte)
      PROVE  DecodeLength((head \o content) \o rest) = Header(KindOf(offset), Len(head), n)
  <2>1. (head \o content) \o rest = head \o (content \o rest)
        BY <1>4, ConcatAssociative
  <2>2. content \o rest \in Seq(Byte) /\ Len(content \o rest) = n + Len(rest)
        BY <1>1, ConcatProperties
  <2>3. n <= Len(content \o rest)
        BY <1>2, <2>2, LenProperties
  <2>4. QED  BY <1>3, <2>1, <2>2, <2>3
<1>8. Len(head) + n >= 1
      BY <1>2, <1>5
<1>9. Encodes(head \o content, item)
      BY <1>1, <1>2, <1>5, <1>6, <1>7, <1>8 DEF Encodes
<1>10. QED  BY <1>1, <1>9 DEF item

String(content) == [kind |-> "string", content |-> content]
List(content) == [kind |-> "list", content |-> content]

\* encodeBytes: the string is found at the start of its encoding.
LEMMA BytesEncoded ==
    ASSUME NEW b \in Seq(Byte), Short(Len(b))
    PROVE  Encodes(EncodeBytes(b), String(b))
<1>1. CASE Len(b) = 1 /\ b[1] < 128
  <2>1. b[1] \in Byte /\ b[1] \in 0..127
    <3>1. 1 \in 1..Len(b)
          BY <1>1
    <3>2. b[1] \in Byte
          BY <3>1, ElementOfSeq
    <3>3. \A x \in Byte : x < 128 => x \in 0..127
          BY DEF Byte
    <3>4. QED  BY <1>1, <3>2, <3>3, Zenon
  <2>2. EncodeBytes(b) = b
        BY <1>1 DEF EncodeBytes
  <2>3. ASSUME NEW rest \in Seq(Byte) PROVE DecodeLength(b \o rest) = Header("string", 0, 1)
    <3>1. 1 \in 1..Len(b) + Len(rest) /\ 1 <= Len(b)
          BY <1>1, LenProperties
    <3>2. (b \o rest)[1] = b[1]
          BY <3>1, ConcatProperties
    <3>3. QED  BY <2>1, <3>2, HeaderOf
  <2>4. String(b) \in Items /\ String(b).content = b /\ String(b).kind = "string"
        BY DEF String, Items
  <2>5. \A k \in 1..Len(b) : b[0 + k] = b[k]
        BY <1>1
  <2>6. 0 \in Nat /\ 0 + Len(b) >= 1 /\ Len(b) = 0 + Len(b)
        BY <1>1
  <2>7. Encodes(b, String(b))
        BY <1>1, <2>3, <2>4, <2>5, <2>6 DEF Encodes
  <2>8. QED  BY <2>2, <2>7
<1>2. CASE ~(Len(b) = 1 /\ b[1] < 128)
  <2>1. EncodeBytes(b) = EncodeLength(Len(b), 128) \o b
        BY <1>2 DEF EncodeBytes
  <2>2. KindOf(128) = "string"
        BY DEF KindOf
  <2>3. QED  BY <2>1, <2>2, HeaderEncodes DEF String
<1>3. QED  BY <1>1, <1>2

\* encodeList: so is the list, and its content is that of its elements.
LEMMA ListEncoded ==
    ASSUME NEW ss \in Seq(Seq(Byte)), Short(Len(FlattenSeq(ss)))
    PROVE  Encodes(EncodeList(ss), List(FlattenSeq(ss)))
<1>1. PICK p : p = FlattenSeq(ss)
      OBVIOUS
<1>2. EncodeList(ss) = EncodeLength(Len(p), 192) \o p
      BY <1>1 DEF EncodeList
<1>3. p \in Seq(Byte) /\ Short(Len(p))
      BY <1>1, FlattenType
<1>4. KindOf(192) = "list"
      BY DEF KindOf
<1>5. QED  BY <1>1, <1>2, <1>3, <1>4, HeaderEncodes DEF List

\* What an item that is alone is decoded to.
LEMMA DecodeBack ==
    ASSUME NEW e, NEW item, Encodes(e, item)
    PROVE  Decode(e) = item
<1>1. PICK c, n : c = item.content /\ n = Len(c)
      OBVIOUS
<1>2. e \in Seq(Byte) /\ c \in Seq(Byte) /\ n \in Nat /\ item = [kind |-> item.kind, content |-> c]
      BY <1>1, LenProperties DEF Encodes, Items
<1>3. PICK offset \in Nat :
         /\ Len(e) = offset + n
         /\ \A k \in 1..n : e[offset + k] = c[k]
         /\ \A rest \in Seq(Byte) : DecodeLength(e \o rest) = Header(item.kind, offset, n)
      BY <1>1 DEF Encodes
<1>4. DecodeLength(e) = Header(item.kind, offset, n)
  <2>1. e \o <<>> = e /\ <<>> \in Seq(Byte)
        BY <1>2, ConcatEmptySeq, EmptySeq
  <2>2. QED  BY <1>3, <2>1
<1>5. PICK m : m = 1 + offset + n - 1
      OBVIOUS
<1>6. m \in Int /\ 1 + offset \in Int /\ m - (1 + offset) + 1 = n /\ m = Len(e)
      BY <1>2, <1>3, <1>5
<1>7. SubSeq(e, 1 + offset, m) = c
  <2>1. \A i \in 1 + offset..m : e[i] \in Byte
        BY <1>2, <1>6, ElementOfSeq
  <2>2. /\ SubSeq(e, 1 + offset, m) \in Seq(Byte)
        /\ Len(SubSeq(e, 1 + offset, m)) = IF 1 + offset <= m THEN m - (1 + offset) + 1 ELSE 0
        /\ \A i \in 1..m - (1 + offset) + 1 : SubSeq(e, 1 + offset, m)[i] = e[1 + offset + i - 1]
        BY <1>6, <2>1, SubSeqProperties
  <2>3. Len(SubSeq(e, 1 + offset, m)) = n
        BY <1>2, <1>6, <2>2
  <2>4. \A i \in 1..n : SubSeq(e, 1 + offset, m)[i] = c[i]
    <3>1. TAKE i \in 1..n
    <3>2. SubSeq(e, 1 + offset, m)[i] = e[1 + offset + i - 1]
          BY <1>6, <2>2
    <3>3. 1 + offset + i - 1 = offset + i
          OBVIOUS
    <3>4. QED  BY <1>3, <3>2, <3>3
  <2>5. QED  BY <1>1, <1>2, <2>2, <2>3, <2>4, SeqEqual
<1>8. Item(Header(item.kind, offset, n), e, 1) = [kind |-> item.kind, content |-> SubSeq(e, 1 + offset, m)]
      BY <1>5 DEF Item, Header
<1>9. QED  BY <1>2, <1>4, <1>7, <1>8 DEF Decode

\* Whatever a sequence of bytes begins with, its header takes the decoder on.
LEMMA HeaderForward ==
    ASSUME NEW input \in Seq(Byte), input # <<>>
    PROVE  LET h == DecodeLength(input) IN
           h.kind # "error" => h.offset \in Nat /\ h.length \in Nat /\ h.offset + h.length >= 1
<1>1. PICK x : x = input[1]
      OBVIOUS
<1>2. x \in Byte
  <2>1. 1 \in 1..Len(input)
        BY EmptySeq
  <2>2. QED  BY <1>1, <2>1, ElementOfSeq
<1>3. input[1] = x
      BY <1>1
<1>4. x \in 0..127 \/ x \in 128..183 \/ x \in 184..191 \/ x \in 192..247 \/ x \in 248..255
      BY <1>2 DEF Byte
<1> DEFINE Onward(h) == h.kind # "error" => h.offset \in Nat /\ h.length \in Nat /\ h.offset + h.length >= 1
<1>5. ASSUME NEW kind, NEW size \in Nat PROVE Onward(LongHeader(input, kind, size))
  <2>1. CASE Len(input) <= 1 + size
        BY <2>1 DEF LongHeader, TooShort, Header
  <2>2. CASE ~(Len(input) <= 1 + size)
    <3>1. \A i \in 2..1 + size : input[i] \in Byte
          BY <2>2, ElementOfSeq, LenProperties
    <3>2. 2 \in Int /\ 1 + size \in Int
          OBVIOUS
    <3>3. SubSeq(input, 2, 1 + size) \in Seq(Byte)
          BY <3>1, <3>2, SubSeqProperties
    <3>4. PICK v : v = ToInt(SubSeq(input, 2, 1 + size))
          OBVIOUS
    <3>5. v \in Nat
          BY <3>3, <3>4, IntType
    <3>6. LongHeader(input, kind, size) = [kind |-> kind, offset |-> 1 + size, length |-> v]
          BY <2>2, <3>4 DEF LongHeader, Header
    <3>7. QED  BY <3>5, <3>6
  <2>3. QED  BY <2>1, <2>2
<1>6. ASSUME NEW kind, NEW size \in Nat PROVE Onward(Header(kind, 1, size))
      BY DEF Header
<1>7. Onward(Header("string", 0, 1))
      BY DEF Header
<1> HIDE DEF Onward
<1>8. Onward(DecodeLength(input))
  <2>1. CASE x \in 0..127
    <3>1. DecodeLength(input) = Header("string", 0, 1)
          BY <1>2, <1>3, <2>1, HeaderOf
    <3>2. QED  BY <1>7, <3>1
  <2>2. CASE x \in 128..183
    <3>1. x - 128 \in Nat
          BY <2>2
    <3>2. DecodeLength(input) = Header("string", 1, x - 128)
          BY <1>2, <1>3, <2>2, HeaderOf
    <3>3. QED  BY <1>6, <3>1, <3>2
  <2>3. CASE x \in 184..191
    <3>1. x - 183 \in Nat
          BY <2>3
    <3>2. DecodeLength(input) = LongHeader(input, "string", x - 183)
          BY <1>2, <1>3, <2>3, HeaderOf
    <3>3. QED  BY <1>5, <3>1, <3>2
  <2>4. CASE x \in 192..247
    <3>1. x - 192 \in Nat
          BY <2>4
    <3>2. DecodeLength(input) = Header("list", 1, x - 192)
          BY <1>2, <1>3, <2>4, HeaderOf
    <3>3. QED  BY <1>6, <3>1, <3>2
  <2>5. CASE x \in 248..255
    <3>1. x - 247 \in Nat
          BY <2>5
    <3>2. DecodeLength(input) = LongHeader(input, "list", x - 247)
          BY <1>2, <1>3, <2>5, HeaderOf
    <3>3. QED  BY <1>5, <3>1, <3>2
  <2>6. QED  BY <1>4, <2>1, <2>2, <2>3, <2>4, <2>5
<1>9. QED  BY <1>8 DEF Onward

HeaderAt(input, i) == DecodeLength(SubSeq(input, i, Len(input)))
NextAt(input, i) == i + HeaderAt(input, i).offset + HeaderAt(input, i).length

ItemsAt(g, input, i) ==
    IF i > Len(input) THEN <<>>
    ELSE IF HeaderAt(input, i).kind = "error" \/ NextAt(input, i) > Len(input) + 1
         THEN << [kind |-> "error", content |-> <<>>] >>
         ELSE <<Item(HeaderAt(input, i), input, i)>> \o g[NextAt(input, i)]

\* The decoder goes on to a later place, or reports an error.
LEMMA NextForward ==
    ASSUME NEW input \in Seq(Byte), NEW i \in 1..Len(input), HeaderAt(input, i).kind # "error"
    PROVE  NextAt(input, i) \in Nat /\ NextAt(input, i) >= i + 1
<1>1. PICK s : s = SubSeq(input, i, Len(input))
      OBVIOUS
<1>2. s \in Seq(Byte) /\ s # <<>>
  <2>1. i \in Int /\ Len(input) \in Int /\ i <= Len(input)
        BY LenProperties
  <2>2. \A k \in i..Len(input) : input[k] \in Byte
        BY ElementOfSeq, LenProperties
  <2>3. s \in Seq(Byte) /\ Len(s) = Len(input) - i + 1
        BY <1>1, <2>1, <2>2, SubSeqProperties
  <2>4. Len(s) # 0
        BY <2>1, <2>3
  <2>5. QED  BY <2>3, <2>4, EmptySeq
<1>3. PICK h : h = DecodeLength(s)
      OBVIOUS
<1>4. HeaderAt(input, i) = h
      BY <1>1, <1>3 DEF HeaderAt
<1>5. h.offset \in Nat /\ h.length \in Nat /\ h.offset + h.length >= 1
      BY <1>2, <1>3, <1>4, HeaderForward
<1>6. QED  BY <1>4, <1>5 DEF NextAt

\* DecodeList is a function by recursion on the place: such a function exists.
LEMMA ItemsExist ==
    ASSUME NEW input \in Seq(Byte)
    PROVE  \E g : g = [i \in 1..(Len(input) + 1) |-> ItemsAt(g, input, i)]
<1>1. PICK n : n = Len(input) + 1
      OBVIOUS
<1>2. n \in Nat /\ n >= 1 /\ n - 1 = Len(input)
      BY <1>1, LenProperties
<1> DEFINE From(g, k) == g = [i \in k..n |-> ItemsAt(g, input, i)]
           T == {m \in Nat : m < n /\ ~\E g : From(g, n - m)}
<1>3. T = {}
  <2>1. SUFFICES ASSUME T # {} PROVE FALSE
        OBVIOUS
  <2>2. PICK m \in T : \A j \in T : m <= j
    <3>1. T \in SUBSET Nat
          OBVIOUS
    <3> HIDE DEF T
    <3>2. QED  BY <2>1, <3>1, Least
  <2>3. m \in Nat /\ m < n /\ ~\E g : From(g, n - m)
        BY <2>2
  <2>4. PICK k : k = n - m
        OBVIOUS
  <2>5. k \in 1..n
        BY <1>2, <2>3, <2>4
  <2>6. k # n
    <3>1. ItemsAt(<<>>, input, n) = <<>> /\ \A g : ItemsAt(g, input, n) = <<>>
          BY <1>2 DEF ItemsAt
    <3>2. From([i \in n..n |-> <<>>], n)
          BY <3>1
    <3> HIDE DEF From
    <3>3. QED  BY <2>3, <2>4, <3>2
  <2>7. m - 1 \in Nat /\ m - 1 < n /\ n - (m - 1) = k + 1
        BY <1>2, <2>3, <2>4, <2>5, <2>6
  <2>8. PICK g : From(g, k + 1)
    <3> HIDE DEF From
    <3>1. m - 1 \notin T
      <4>1. m - 1 < m
            BY <2>3
      <4> HIDE DEF T
      <4>2. QED  BY <2>2, <2>3, <2>7, <4>1
    <3>2. QED  BY <2>7, <3>1
  <2>9. \A i \in k + 1..n : g[i] = ItemsAt(g, input, i)
        BY <2>8
  <2> DEFINE h == [i \in k..n |-> IF i = k THEN ItemsAt(g, input, k) ELSE g[i]]
  <2>10. h[k] = ItemsAt(g, input, k) /\ \A i \in k + 1..n : h[i] = g[i]
        BY <2>5
  <2>11. h = [i \in k..n |-> h[i]]
        OBVIOUS
  <2> HIDE DEF h, From
  <2>12. ASSUME NEW i \in k..n PROVE ItemsAt(g, input, i) = ItemsAt(h, input, i)
    <3>1. CASE i > Len(input)
          BY <3>1 DEF ItemsAt
    <3>2. CASE ~(i > Len(input)) /\ (HeaderAt(input, i).kind = "error" \/ NextAt(input, i) > Len(input) + 1)
          BY <3>2 DEF ItemsAt
    <3>3. CASE ~(i > Len(input)) /\ HeaderAt(input, i).kind # "error" /\ ~(NextAt(input, i) > Len(input) + 1)
      <4>1. i \in 1..Len(input)
            BY <1>2, <2>5, <3>3
      <4>2. NextAt(input, i) \in Nat /\ NextAt(input, i) >= i + 1
            BY <3>3, <4>1, NextForward
      <4>3. NextAt(input, i) \in k + 1..n
            BY <1>1, <2>5, <3>3, <4>2
      <4>4. h[NextAt(input, i)] = g[NextAt(input, i)]
            BY <2>10, <4>3
      <4>5. QED  BY <3>3, <4>4 DEF ItemsAt
    <3>4. QED  BY <3>1, <3>2, <3>3
  <2>13. \A i \in k..n : h[i] = ItemsAt(h, input, i)
    <3>1. TAKE i \in k..n
    <3>2. CASE i = k
          BY <2>10, <2>12, <3>2
    <3>3. CASE i # k
      <4>1. i \in k + 1..n
            BY <2>5, <3>3
      <4>2. QED  BY <2>9, <2>10, <2>12, <4>1
    <3>4. QED  BY <3>2, <3>3
  <2>14. From(h, k)
        BY <2>11, <2>13 DEF From
  <2>15. QED  BY <2>3, <2>4, <2>14
<1>4. n - 1 \in Nat /\ n - 1 < n /\ n - (n - 1) = 1
      BY <1>2
<1>5. \E g : From(g, 1)
  <2> HIDE DEF From
  <2>1. QED  BY <1>3, <1>4
<1>6. QED  BY <1>1, <1>5

\* DecodeList is what such a function says.
LEMMA ListItems ==
    ASSUME NEW input \in Seq(Byte)
    PROVE  \E g : /\ \A i \in 1..(Len(input) + 1) : g[i] = ItemsAt(g, input, i)
                  /\ DecodeList(input) = g[1]
<1> DEFINE g == CHOOSE f : f = [i \in 1..(Len(input) + 1) |-> ItemsAt(f, input, i)]
<1>1. g = [i \in 1..(Len(input) + 1) |-> ItemsAt(g, input, i)]
      BY ItemsExist, Zenon
<1>2. DecodeList(input) = g[1]
      BY DEF DecodeList, ItemsAt, HeaderAt, NextAt
<1> HIDE DEF g
<1>3. QED  BY <1>1, <1>2

\* The item that the decoder finds at the start of an encoding.
LEMMA ItemInPlace ==
    ASSUME NEW a \in Seq(Byte), NEW rest \in Seq(Byte), NEW e, NEW item, Encodes(e, item)
    PROVE  LET input == (a \o e) \o rest
               i == Len(a) + 1
           IN /\ i \in 1..Len(input)
              /\ HeaderAt(input, i).kind # "error"
              /\ NextAt(input, i) = i + Len(e)
              /\ Item(HeaderAt(input, i), input, i) = item
<1>0. PICK input, i : input = (a \o e) \o rest /\ i = Len(a) + 1
      OBVIOUS
<1>1. PICK c, n : c = item.content /\ n = Len(c)
      OBVIOUS
<1>2. e \in Seq(Byte) /\ c \in Seq(Byte) /\ n \in Nat /\ item = [kind |-> item.kind, content |-> c] /\ item.kind # "error"
      BY <1>1, LenProperties DEF Encodes, Items
<1>3. PICK offset \in Nat :
         /\ offset + n >= 1
         /\ Len(e) = offset + n
         /\ \A k \in 1..n : e[offset + k] = c[k]
         /\ \A tail \in Seq(Byte) : DecodeLength(e \o tail) = Header(item.kind, offset, n)
      BY <1>1 DEF Encodes
<1>4. PICK b, x, y, z : b = e \o rest /\ x = Len(a) /\ y = Len(e) /\ z = Len(rest)
      OBVIOUS
<1>5. /\ x \in Nat /\ y \in Nat /\ z \in Nat /\ n \in Nat /\ offset \in Nat /\ y >= 1 /\ i = x + 1 /\ y = offset + n
      BY <1>0, <1>2, <1>3, <1>4, LenProperties
<1>6. b \in Seq(Byte) /\ Len(b) = y + z /\ \A k \in 1..y : b[k] = e[k]
  <2>1. b \in Seq(Byte) /\ Len(b) = Len(e) + Len(rest)
        BY <1>2, <1>4, ConcatProperties
  <2>2. \A k \in 1..Len(e) + Len(rest) : b[k] = IF k <= Len(e) THEN e[k] ELSE rest[k - Len(e)]
        BY <1>2, <1>4, ConcatProperties
  <2>3. QED  BY <1>4, <1>5, <2>1, <2>2
<1>7. input = a \o b
  <2>1. (a \o e) \o rest = a \o (e \o rest)
        BY <1>2, ConcatAssociative
  <2>2. QED  BY <1>0, <1>4, <2>1
<1>8. input \in Seq(Byte) /\ Len(input) = x + y + z /\ \A k \in 1..y + z : input[x + k] = b[k]
  <2>1. input \in Seq(Byte) /\ Len(input) = Len(a) + Len(b)
        BY <1>6, <1>7, ConcatProperties
  <2>2. \A k \in 1..Len(a) + Len(b) : input[k] = IF k <= Len(a) THEN a[k] ELSE b[k - Len(a)]
        BY <1>6, <1>7, ConcatProperties
  <2>3. ASSUME NEW k \in 1..y + z PROVE input[x + k] = b[k]
    <3>1. PICK m : m = x + k
          OBVIOUS
    <3>2. m \in 1..x + (y + z) /\ ~(m <= x) /\ m - x = k
          BY <1>5, <3>1
    <3>3. m \in 1..Len(a) + Len(b) => input[m] = IF m <= Len(a) THEN a[m] ELSE b[m - Len(a)]
          BY <2>2, Zenon
    <3>4. input[m] = IF m <= x THEN a[m] ELSE b[m - x]
          BY <1>4, <1>6, <3>2, <3>3, Zenon
    <3>5. QED  BY <3>1, <3>2, <3>4, Zenon
  <2>4. Len(input) = x + y + z
        BY <1>4, <1>5, <1>6, <2>1
  <2>5. QED  BY <2>1, <2>3, <2>4
<1>9. i \in 1..Len(input)
      BY <1>5, <1>8
<1>10. SubSeq(input, i, Len(input)) = b
  <2>1. PICK m : m = x + y + z
        OBVIOUS
  <2>2. i \in Int /\ m \in Int /\ m - i + 1 = y + z /\ i <= m /\ m = Len(input)
        BY <1>5, <1>8, <2>1
  <2>3. \A k \in i..m : input[k] \in Byte
    <3>1. TAKE k \in i..m
    <3>2. k \in 1..Len(input)
          BY <1>5, <2>2
    <3>3. QED  BY <1>8, <3>2, ElementOfSeq
  <2>4. /\ SubSeq(input, i, m) \in Seq(Byte)
        /\ Len(SubSeq(input, i, m)) = IF i <= m THEN m - i + 1 ELSE 0
        /\ \A k \in 1..m - i + 1 : SubSeq(input, i, m)[k] = input[i + k - 1]
        BY <2>2, <2>3, SubSeqProperties
  <2>5. Len(SubSeq(input, i, m)) = Len(b)
        BY <1>6, <2>2, <2>4
  <2>6. \A k \in 1..Len(SubSeq(input, i, m)) : SubSeq(input, i, m)[k] = b[k]
    <3>1. TAKE k \in 1..Len(SubSeq(input, i, m))
    <3>2. k \in 1..y + z
          BY <1>6, <2>5
    <3>3. SubSeq(input, i, m)[k] = input[i + k - 1]
          BY <2>2, <2>4, <3>2
    <3>4. i + k - 1 = x + k
          BY <1>5, <3>2
    <3>5. QED  BY <1>8, <3>2, <3>3, <3>4
  <2>7. SubSeq(input, i, m) = b
        BY <1>6, <2>4, <2>5, <2>6, SeqEqual
  <2>8. QED  BY <2>2, <2>7
<1>11. HeaderAt(input, i) = Header(item.kind, offset, n)
      BY <1>3, <1>4, <1>10 DEF HeaderAt
<1>12. NextAt(input, i) = i + y
  <2>1. NextAt(input, i) = i + offset + n
        BY <1>11 DEF NextAt, Header
  <2>2. QED  BY <1>3, <1>2, <1>5, <2>1
<1>13. HeaderAt(input, i).kind # "error"
      BY <1>2, <1>11 DEF Header
<1>14. PICK low, high : low = i + offset /\ high = i + offset + n - 1
      OBVIOUS
<1>15. low \in Int /\ high \in Int /\ high - low + 1 = n
      BY <1>5, <1>14
<1>16. SubSeq(input, low, high) = c
  <2>1. ASSUME NEW k \in 1..n PROVE low + k - 1 \in 1..Len(input) /\ input[low + k - 1] = c[k]
    <3>1. offset + k \in 1..y /\ offset + k \in 1..y + z /\ low + k - 1 = x + (offset + k)
          BY <1>5, <1>14
    <3>2. input[x + (offset + k)] = c[k]
          BY <1>3, <1>6, <1>8, <3>1
    <3>3. x + (offset + k) \in 1..Len(input)
          BY <1>5, <1>8, <3>1
    <3>4. QED  BY <3>1, <3>2, <3>3
  <2>2. \A k \in low..high : input[k] \in Byte
    <3>1. TAKE k \in low..high
    <3>2. k - low + 1 \in 1..n /\ low + (k - low + 1) - 1 = k
          BY <1>2, <1>15
    <3>3. k \in 1..Len(input)
          BY <2>1, <3>2
    <3>4. QED  BY <1>8, <3>3, ElementOfSeq
  <2>3. /\ SubSeq(input, low, high) \in Seq(Byte)
        /\ Len(SubSeq(input, low, high)) = IF low <= high THEN high - low + 1 ELSE 0
        /\ \A k \in 1..high - low + 1 : SubSeq(input, low, high)[k] = input[low + k - 1]
        BY <1>15, <2>2, SubSeqProperties
  <2>4. Len(SubSeq(input, low, high)) = n
        BY <1>2, <1>15, <2>3
  <2>5. \A k \in 1..n : SubSeq(input, low, high)[k] = c[k]
        BY <1>15, <2>1, <2>3
  <2>6. QED  BY <1>1, <1>2, <2>3, <2>4, <2>5, SeqEqual
<1>17. Item(Header(item.kind, offset, n), input, i) = [kind |-> item.kind, content |-> SubSeq(input, low, high)]
      BY <1>14 DEF Item, Header
<1>18. QED  BY <1>0, <1>2, <1>4, <1>8, <1>9, <1>11, <1>12, <1>13, <1>16, <1>17

(* A list is decoded to the items that it was encoded from. *)
LEMMA ListBack ==
    ASSUME NEW ss \in Seq(Seq(Byte)), NEW its \in Seq(Items), Len(its) = Len(ss),
           \A i \in 1..Len(ss) : Encodes(ss[i], its[i])
    PROVE  DecodeList(FlattenSeq(ss)) = its
<1>1. PICK input, n : input = FlattenSeq(ss) /\ n = Len(ss)
      OBVIOUS
<1>2. input \in Seq(Byte) /\ n \in Nat /\ Len(its) = n
      BY <1>1, FlattenType, LenProperties
<1>3. PICK g : /\ \A i \in 1..(Len(input) + 1) : g[i] = ItemsAt(g, input, i)
               /\ DecodeList(input) = g[1]
      BY <1>2, ListItems
<1> DEFINE front(j) == FlattenSeq(SubSeq(ss, 1, j))
           Holds(j) == g[Len(front(j)) + 1] = SubSeq(its, j + 1, n)
           T == {m \in Nat : m <= n /\ ~Holds(n - m)}
<1>4. Holds(n)
  <2>1. front(n) = input
        BY <1>1, SubSeqFull
  <2>2. Len(input) \in Nat
        BY <1>2, LenProperties
  <2>3. g[Len(input) + 1] = ItemsAt(g, input, Len(input) + 1)
        BY <1>3, <2>2
  <2>4. ItemsAt(g, input, Len(input) + 1) = <<>>
        BY <2>2 DEF ItemsAt
  <2>5. SubSeq(its, n + 1, n) = <<>>
    <3>1. n + 1 \in Int /\ n \in Int /\ n < n + 1
          BY <1>2
    <3>2. QED  BY <3>1, SubSeqEmpty
  <2> HIDE DEF front
  <2>6. QED  BY <2>1, <2>3, <2>4, <2>5
<1>5. ASSUME NEW j \in 1..n, Holds(j) PROVE Holds(j - 1)
  <2>1. j \in 1..Len(ss) /\ j \in 0..Len(ss)
        BY <1>1, <1>2
  <2>2. PICK a, e, b : a = front(j - 1) /\ e = ss[j] /\ b = front(j)
        OBVIOUS
  <2>3. a \in Seq(Byte) /\ e \in Seq(Byte) /\ b = a \o e
        BY <2>1, <2>2, FlattenGoesOn
  <2>4. PICK rest \in Seq(Byte) : input = b \o rest
        BY <1>1, <2>1, <2>2, FlattenRest
  <2>5. PICK i, item : i = Len(a) + 1 /\ item = its[j]
        OBVIOUS
  <2>6. Encodes(e, item)
        BY <2>1, <2>2, <2>5
  <2>7. /\ i \in 1..Len(input)
        /\ HeaderAt(input, i).kind # "error"
        /\ NextAt(input, i) = i + Len(e)
        /\ Item(HeaderAt(input, i), input, i) = item
    <3>1. PICK x : x = (a \o e) \o rest
          OBVIOUS
    <3>2. /\ Len(a) + 1 \in 1..Len(x)
          /\ HeaderAt(x, Len(a) + 1).kind # "error"
          /\ NextAt(x, Len(a) + 1) = Len(a) + 1 + Len(e)
          /\ Item(HeaderAt(x, Len(a) + 1), x, Len(a) + 1) = item
          BY <2>3, <2>6, <3>1, ItemInPlace
    <3>3. x = input
          BY <2>3, <2>4, <3>1
    <3>4. QED  BY <2>5, <3>2, <3>3
  <2>8. Len(b) = Len(a) + Len(e) /\ Len(input) = Len(b) + Len(rest)
        BY <2>3, <2>4, ConcatProperties
  <2>9. Len(a) \in Nat /\ Len(e) \in Nat /\ Len(rest) \in Nat /\ Len(input) \in Nat
        BY <1>2, <2>3, LenProperties
  <2>10. NextAt(input, i) = Len(b) + 1 /\ ~(NextAt(input, i) > Len(input) + 1) /\ ~(i > Len(input))
        BY <2>5, <2>7, <2>8, <2>9
  <2>11. g[i] = <<item>> \o g[Len(b) + 1]
    <3>1. ItemsAt(g, input, i) = <<item>> \o g[Len(b) + 1]
          BY <2>7, <2>10 DEF ItemsAt
    <3>2. i \in 1..(Len(input) + 1)
          BY <2>7, <2>9
    <3>3. QED  BY <1>3, <3>1, <3>2
  <2>12. g[Len(b) + 1] = SubSeq(its, j + 1, n)
        BY <1>5, <2>2
  <2>13. SubSeq(its, j, n) = <<its[j]>> \o SubSeq(its, j + 1, n)
    <3>1. j \in 1..Len(its) /\ n \in j..Len(its)
          BY <1>2
    <3>2. QED  BY <3>1, SubSeqRecursiveFirst
  <2>14. g[Len(a) + 1] = SubSeq(its, j, n)
        BY <2>5, <2>11, <2>12, <2>13
  <2>15. (j - 1) + 1 = j
        OBVIOUS
  <2> HIDE DEF front
  <2>16. QED  BY <2>2, <2>14, <2>15
<1> HIDE DEF Holds
<1>6. T = {}
  <2>1. SUFFICES ASSUME T # {} PROVE FALSE
        OBVIOUS
  <2>2. PICK m \in T : \A k \in T : m <= k
    <3>1. T \in SUBSET Nat
          OBVIOUS
    <3> HIDE DEF T
    <3>2. QED  BY <2>1, <3>1, Least
  <2>3. m \in Nat /\ m <= n /\ ~Holds(n - m) /\ m # 0
    <3>1. m \in Nat /\ m <= n /\ ~Holds(n - m)
          BY <2>2
    <3>2. m = 0 => n - m = n
          BY <1>2
    <3>3. QED  BY <1>4, <3>1, <3>2
  <2>4. m - 1 \in Nat /\ m - 1 <= n /\ m - 1 < m /\ n - (m - 1) \in 1..n /\ (n - (m - 1)) - 1 = n - m
        BY <1>2, <2>3
  <2>5. m - 1 \notin T
    <3> HIDE DEF T
    <3>1. QED  BY <2>2, <2>3, <2>4
  <2>6. Holds(n - (m - 1))
        BY <2>4, <2>5
  <2>7. Holds((n - (m - 1)) - 1)
        BY <1>5, <2>4, <2>6
  <2>8. QED  BY <2>3, <2>4, <2>7
<1>7. Holds(0)
  <2>1. n \in Nat /\ n <= n /\ n - n = 0
        BY <1>2
  <2>2. QED  BY <1>6, <2>1
<1>8. Len(front(0)) + 1 = 1
  <2>1. SubSeq(ss, 1, 0) = <<>>
        BY SubSeqEmpty
  <2>2. front(0) = <<>> /\ Len(<<>>) = 0
        BY <2>1, FlattenNothing
  <2> HIDE DEF front
  <2>3. QED  BY <2>2
<1>9. SubSeq(its, 1, n) = its
      BY <1>2, SubSeqFull
<1>10. g[1] = its
  <2>1. g[Len(front(0)) + 1] = SubSeq(its, 0 + 1, n)
        BY <1>7 DEF Holds
  <2> HIDE DEF front
  <2>2. 0 + 1 = 1
        OBVIOUS
  <2>3. QED  BY <1>8, <1>9, <2>1, <2>2, Zenon
<1>11. QED  BY <1>1, <1>3, <1>10
-----------------------------------------------------------------------------
(* What fits in a header *)
\* The encodings of what is no longer than what has a header has one too.
LEMMA ShortLess == ASSUME NEW n \in Nat, NEW m \in Nat, n <= m, Short(m) PROVE Short(n)
<1>1. Len(ToBinary(n)) <= Len(ToBinary(m))
      BY BinaryLonger
<1>2. Len(ToBinary(n)) \in Nat /\ Len(ToBinary(m)) \in Nat
      BY BinaryType, LenProperties
<1>3. QED  BY <1>1, <1>2 DEF Short

\* A header is a sequence of numbers.
LEMMA LengthType ==
    ASSUME NEW n \in Nat, NEW offset \in Nat
    PROVE  EncodeLength(n, offset) \in Seq(Nat)
<1>1. ASSUME NEW x \in Nat PROVE <<x>> \in Seq(Nat)
      OBVIOUS
<1>2. PICK d : d = ToBinary(n)
      OBVIOUS
<1>3. d \in Seq(Nat) /\ Len(d) \in Nat
  <2>1. d \in Seq(Byte)
        BY <1>2, BinaryType
  <2>2. Byte \subseteq Nat
        BY DEF Byte
  <2>3. QED  BY <2>1, <2>2, SeqMonotonic, LenProperties
<1>4. n + offset \in Nat /\ Len(d) + offset + 55 \in Nat
      BY <1>3
<1>5. PICK x, y : x = n + offset /\ y = Len(d) + offset + 55
      OBVIOUS
<1>6. <<x>> \in Seq(Nat) /\ <<y>> \in Seq(Nat)
      BY <1>1, <1>4, <1>5
<1>7. <<y>> \o d \in Seq(Nat)
      BY <1>3, <1>6, ConcatProperties
<1>8. EncodeLength(n, offset) = IF n < 56 THEN <<x>> ELSE <<y>> \o d
      BY <1>2, <1>5 DEF EncodeLength
<1>9. QED  BY <1>6, <1>7, <1>8

\* A header makes nothing shorter.
LEMMA LongerWithHeader ==
    ASSUME NEW c \in Seq(Nat), NEW offset \in Nat
    PROVE  LET e == EncodeLength(Len(c), offset) \o c IN e \in Seq(Nat) /\ Len(c) <= Len(e)
<1>1. PICK h : h = EncodeLength(Len(c), offset)
      OBVIOUS
<1>2. h \in Seq(Nat)
      BY <1>1, LengthType, LenProperties
<1>3. h \o c \in Seq(Nat) /\ Len(h \o c) = Len(h) + Len(c)
      BY <1>2, ConcatProperties
<1>4. Len(h) \in Nat /\ Len(c) \in Nat
      BY <1>2, LenProperties
<1>5. QED  BY <1>1, <1>3, <1>4

\* The encoding of a string is no shorter than the string.
LEMMA BytesLonger ==
    ASSUME NEW b \in Seq(Byte)
    PROVE  EncodeBytes(b) \in Seq(Nat) /\ Len(b) <= Len(EncodeBytes(b))
<1>1. b \in Seq(Nat) /\ Len(b) \in Nat
  <2>1. Byte \subseteq Nat
        BY DEF Byte
  <2>2. QED  BY <2>1, SeqMonotonic, LenProperties
<1>2. PICK e : e = EncodeLength(Len(b), 128) \o b
      OBVIOUS
<1>3. e \in Seq(Nat) /\ Len(b) <= Len(e)
      BY <1>1, <1>2, LongerWithHeader
<1>4. EncodeBytes(b) = b \/ EncodeBytes(b) = e
      BY <1>2 DEF EncodeBytes
<1>5. QED  BY <1>1, <1>3, <1>4

\* The encoding of a list is no shorter than its content.
LEMMA ListLonger ==
    ASSUME NEW ss \in Seq(Seq(Nat))
    PROVE  EncodeList(ss) \in Seq(Nat) /\ Len(FlattenSeq(ss)) <= Len(EncodeList(ss))
<1>1. PICK p : p = FlattenSeq(ss)
      OBVIOUS
<1>2. p \in Seq(Nat)
      BY <1>1, FlattenType
<1>3. PICK e : e = EncodeLength(Len(p), 192) \o p
      OBVIOUS
<1>4. e \in Seq(Nat) /\ Len(p) <= Len(e)
      BY <1>2, <1>3, LongerWithHeader
<1>5. EncodeList(ss) = e
      BY <1>1, <1>3 DEF EncodeList
<1>6. QED  BY <1>1, <1>4, <1>5

\* An item that has room in its header is found at the start of its encoding.
LEMMA EncodedItem ==
    ASSUME NEW item \in Items
    PROVE  /\ Encoded(item) \in Seq(Nat) /\ Len(item.content) <= Len(Encoded(item))
           /\ Short(Len(item.content)) => Encodes(Encoded(item), item)
<1>1. PICK c : c = item.content
      OBVIOUS
<1>2. c \in Seq(Byte) /\ Byte \subseteq Nat
      BY <1>1 DEF Items, Byte
<1>3. c \in Seq(Nat)
      BY <1>2, SeqMonotonic
<1>4. CASE item.kind = "list"
  <2>1. item = [kind |-> KindOf(192), content |-> c]
        BY <1>1, <1>4 DEF Items, KindOf
  <2>2. Encoded(item) = EncodeLength(Len(c), 192) \o c
        BY <1>1, <1>4 DEF Encoded
  <2>3. Short(Len(c)) => Encodes(EncodeLength(Len(c), 192) \o c, [kind |-> KindOf(192), content |-> c])
        BY <1>2, HeaderEncodes
  <2>4. PICK e : e = EncodeLength(Len(c), 192) \o c
        OBVIOUS
  <2>5. e \in Seq(Nat) /\ Len(c) <= Len(e)
        BY <1>3, <2>4, LongerWithHeader
  <2>6. QED  BY <1>1, <2>1, <2>2, <2>3, <2>4, <2>5
<1>5. CASE item.kind = "string"
  <2>1. item = String(c)
        BY <1>1, <1>5 DEF Items, String
  <2>2. Encoded(item) = EncodeBytes(c)
        BY <1>1, <1>5 DEF Encoded
  <2>3. Short(Len(c)) => Encodes(EncodeBytes(c), String(c))
        BY <1>2, BytesEncoded
  <2>4. EncodeBytes(c) \in Seq(Nat) /\ Len(c) <= Len(EncodeBytes(c))
        BY <1>2, BytesLonger
  <2>5. QED  BY <1>1, <2>1, <2>2, <2>3, <2>4
<1>6. item.kind = "list" \/ item.kind = "string"
      BY DEF Items
<1>7. QED  BY <1>4, <1>5, <1>6

\* A list fits when the length of its content is short.
LEMMA FitsIsShort == ASSUME NEW ss PROVE Fits(ss) <=> Short(Len(FlattenSeq(ss)))
BY DEF Fits, Short

\* What is in a list that fits, fits.
LEMMA ElementFits ==
    ASSUME NEW ss \in Seq(Seq(Nat)), Fits(ss), NEW i \in 1..Len(ss), NEW n \in Nat, n <= Len(ss[i])
    PROVE  Short(n)
<1>1. PICK m, k : m = Len(FlattenSeq(ss)) /\ k = Len(ss[i])
      OBVIOUS
<1>2. k \in Nat /\ m \in Nat /\ k <= m
  <2>1. ss[i] \in Seq(Nat) /\ FlattenSeq(ss) \in Seq(Nat)
        BY ElementOfSeq, FlattenType
  <2>2. Len(ss[i]) <= Len(FlattenSeq(ss))
        BY ElementShorter
  <2>3. QED  BY <1>1, <2>1, <2>2, LenProperties
<1>3. n <= m
      BY <1>1, <1>2
<1>4. Short(m)
      BY <1>1, FitsIsShort
<1>5. QED  BY <1>2, <1>3, <1>4, ShortLess

\* Encoded from the encodings of items, a list is decoded to them.
LEMMA ListRead ==
    ASSUME NEW its \in Seq(Items), NEW ss, ss = [i \in 1..Len(its) |-> Encoded(its[i])], Fits(ss)
    PROVE  /\ ss \in Seq(Seq(Nat)) /\ FlattenSeq(ss) \in Seq(Byte)
           /\ List(FlattenSeq(ss)) \in Items /\ EncodeList(ss) = Encoded(List(FlattenSeq(ss)))
           /\ DecodeList(FlattenSeq(ss)) = its
           /\ Decode(EncodeList(ss)).content = FlattenSeq(ss)
<1>1. PICK n : n = Len(its)
      OBVIOUS
<1>2. n \in Nat /\ \A i \in 1..n : its[i] \in Items
      BY <1>1, LenProperties, ElementOfSeq
<1>3. \A i \in 1..n : ss[i] = Encoded(its[i])
      BY <1>1
<1>4. ss \in Seq(Seq(Nat)) /\ Len(ss) = n
  <2>1. \A i \in 1..n : Encoded(its[i]) \in Seq(Nat)
        BY <1>2, EncodedItem
  <2>2. ss = [i \in 1..n |-> Encoded(its[i])]
        BY <1>1
  <2>3. ss \in [1..n -> Seq(Nat)]
        BY <2>1, <2>2
  <2>4. QED  BY <1>2, <2>3
<1>5. ASSUME NEW i \in 1..n PROVE Encodes(ss[i], its[i])
  <2>1. its[i] \in Items /\ ss[i] = Encoded(its[i])
        BY <1>2, <1>3
  <2>2. Len(its[i].content) \in Nat /\ Len(its[i].content) <= Len(ss[i])
    <3>1. its[i].content \in Seq(Byte)
          BY <2>1 DEF Items
    <3>2. QED  BY <2>1, <3>1, EncodedItem, LenProperties
  <2>3. i \in 1..Len(ss)
        BY <1>4
  <2>4. Short(Len(its[i].content))
        BY <1>4, <2>2, <2>3, ElementFits
  <2>5. QED  BY <2>1, <2>4, EncodedItem
<1>6. ss \in Seq(Seq(Byte))
  <2>1. \A i \in 1..n : ss[i] \in Seq(Byte)
        BY <1>5 DEF Encodes
  <2>2. ss \in [1..n -> Seq(Byte)]
    <3>1. ss \in [1..n -> Seq(Nat)]
          BY <1>4, LenProperties
    <3>2. QED  BY <2>1, <3>1
  <2>3. QED  BY <1>2, <2>2
<1>7. PICK p : p = FlattenSeq(ss)
      OBVIOUS
<1>8. p \in Seq(Byte)
      BY <1>6, <1>7, FlattenType
<1>9. List(p) \in Items /\ List(p).content = p
      BY <1>8 DEF List, Items
<1>10. EncodeList(ss) = Encoded(List(p))
       BY <1>7 DEF EncodeList, Encoded, List
<1>11. DecodeList(p) = its
  <2>1. Len(its) = Len(ss) /\ \A i \in 1..Len(ss) : Encodes(ss[i], its[i])
        BY <1>1, <1>4, <1>5
  <2>2. QED  BY <1>6, <1>7, <2>1, ListBack
<1>12. Decode(EncodeList(ss)) = List(p)
  <2>1. Short(Len(FlattenSeq(ss)))
        BY FitsIsShort
  <2>2. Encodes(EncodeList(ss), List(p))
        BY <1>6, <1>7, <2>1, ListEncoded
  <2>3. QED  BY <2>2, DecodeBack
<1>13. QED  BY <1>4, <1>7, <1>8, <1>9, <1>10, <1>11, <1>12

\* The item of a string is encoded as the string.
LEMMA StringEncoded ==
    ASSUME NEW b \in Seq(Byte)
    PROVE  String(b) \in Items /\ Encoded(String(b)) = EncodeBytes(b) /\ String(b).content = b /\ String(b).kind = "string"
BY DEF String, Items, Encoded

-----------------------------------------------------------------------------
(* The access list *)

KeyFields(keys) == [k \in DOMAIN keys |-> EncodeBytes(keys[k])]
KeyItems(keys) == [k \in DOMAIN keys |-> String(keys[k])]
EntryFields(e) == <<EncodeBytes(e.address), EncodeList(KeyFields(e.keys))>>
Entries == [address : Bytes, keys : Seq(Bytes)]

\* The storage keys of an entry, encoded one by one.
LEMMA KeyFieldsType ==
    ASSUME NEW keys \in Seq(Bytes)
    PROVE  /\ KeyFields(keys) \in Seq(Seq(Nat)) /\ KeyItems(keys) \in Seq(Items)
           /\ Len(KeyItems(keys)) = Len(keys)
           /\ KeyFields(keys) = [k \in 1..Len(keys) |-> Encoded(KeyItems(keys)[k])]
<1>1. PICK n : n = Len(keys)
      OBVIOUS
<1>2. n \in Nat /\ DOMAIN keys = 1..n /\ \A k \in 1..n : keys[k] \in Seq(Byte)
      BY <1>1, LenProperties, ElementOfSeq DEF Bytes
<1>3. \A k \in 1..n : /\ EncodeBytes(keys[k]) \in Seq(Nat)
                      /\ String(keys[k]) \in Items /\ Encoded(String(keys[k])) = EncodeBytes(keys[k])
      BY <1>2, BytesLonger, StringEncoded
<1>4. KeyFields(keys) = [k \in 1..n |-> EncodeBytes(keys[k])] /\ KeyItems(keys) = [k \in 1..n |-> String(keys[k])]
      BY <1>2 DEF KeyFields, KeyItems
<1>5. KeyFields(keys) \in [1..n -> Seq(Nat)] /\ KeyItems(keys) \in [1..n -> Items]
      BY <1>3, <1>4
<1>6. KeyFields(keys) \in Seq(Seq(Nat)) /\ KeyItems(keys) \in Seq(Items) /\ Len(KeyItems(keys)) = n
      BY <1>2, <1>5
<1>7. \A k \in 1..n : Encoded(KeyItems(keys)[k]) = EncodeBytes(keys[k])
      BY <1>3, <1>4
<1>8. KeyFields(keys) = [k \in 1..n |-> Encoded(KeyItems(keys)[k])]
      BY <1>4, <1>7
<1>9. QED  BY <1>1, <1>6, <1>8

\* The storage keys of an entry are decoded to themselves.
LEMMA KeysRead ==
    ASSUME NEW keys \in Seq(Bytes), Fits(KeyFields(keys))
    PROVE  /\ List(FlattenSeq(KeyFields(keys))) \in Items
           /\ EncodeList(KeyFields(keys)) = Encoded(List(FlattenSeq(KeyFields(keys))))
           /\ DecodeList(FlattenSeq(KeyFields(keys))) = KeyItems(keys)
<1>1. PICK ss, its : ss = KeyFields(keys) /\ its = KeyItems(keys)
      OBVIOUS
<1>2. its \in Seq(Items) /\ ss = [i \in 1..Len(its) |-> Encoded(its[i])] /\ Fits(ss)
      BY <1>1, KeyFieldsType
<1>3. /\ List(FlattenSeq(ss)) \in Items /\ EncodeList(ss) = Encoded(List(FlattenSeq(ss)))
      /\ DecodeList(FlattenSeq(ss)) = its
      BY <1>2, ListRead
<1>4. QED  BY <1>1, <1>3

\* An entry is an address and its keys, and its keys fit when it does.
LEMMA EntryFieldsType ==
    ASSUME NEW e \in Entries
    PROVE  /\ EntryFields(e) \in Seq(Seq(Nat)) /\ EncodeList(EntryFields(e)) \in Seq(Nat)
           /\ Fits(EntryFields(e)) => Fits(KeyFields(e.keys))
<1>1. PICK a, ks : a = EncodeBytes(e.address) /\ ks = KeyFields(e.keys)
      OBVIOUS
<1>2. PICK l : l = EncodeList(ks)
      OBVIOUS
<1>3. a \in Seq(Nat) /\ ks \in Seq(Seq(Nat))
      BY <1>1, BytesLonger, KeyFieldsType DEF Entries, Bytes
<1>4. l \in Seq(Nat) /\ Len(FlattenSeq(ks)) <= Len(l)
      BY <1>2, <1>3, ListLonger
<1>5. PICK ss : ss = <<a, l>>
      OBVIOUS
<1>6. ss \in Seq(Seq(Nat)) /\ Len(ss) = 2 /\ ss[2] = l
      BY <1>3, <1>4, <1>5
<1>7. EntryFields(e) = ss
      BY <1>1, <1>2, <1>5 DEF EntryFields
<1>8. EncodeList(ss) \in Seq(Nat)
      BY <1>6, ListLonger
<1>9. ASSUME Fits(ss) PROVE Fits(ks)
  <2>1. PICK n : n = Len(FlattenSeq(ks))
        OBVIOUS
  <2>2. FlattenSeq(ks) \in Seq(Nat)
        BY <1>3, FlattenType
  <2>3. n \in Nat
        BY <2>1, <2>2, LenProperties
  <2>4. 2 \in 1..Len(ss) /\ n <= Len(ss[2])
        BY <1>4, <1>6, <2>1
  <2>5. Short(n)
        BY <1>6, <1>9, <2>3, <2>4, ElementFits
  <2>6. QED  BY <2>1, <2>5, FitsIsShort
<1>10. QED  BY <1>1, <1>6, <1>7, <1>8, <1>9

\* An entry is decoded to its address and the list of its keys.
LEMMA EntryRead ==
    ASSUME NEW e \in Entries, Fits(EntryFields(e))
    PROVE  /\ List(FlattenSeq(EntryFields(e))) \in Items
           /\ EncodeList(EntryFields(e)) = Encoded(List(FlattenSeq(EntryFields(e))))
           /\ DecodeList(FlattenSeq(EntryFields(e))) = <<String(e.address), List(FlattenSeq(KeyFields(e.keys)))>>
<1>1. PICK x, y : x = String(e.address) /\ y = List(FlattenSeq(KeyFields(e.keys)))
      OBVIOUS
<1>2. PICK ss, its : ss = EntryFields(e) /\ its = <<x, y>>
      OBVIOUS
<1>3. x \in Items /\ Encoded(x) = EncodeBytes(e.address)
      BY <1>1, StringEncoded DEF Entries, Bytes
<1>4. y \in Items /\ Encoded(y) = EncodeList(KeyFields(e.keys))
  <2>1. e.keys \in Seq(Bytes) /\ Fits(KeyFields(e.keys))
        BY EntryFieldsType DEF Entries
  <2>2. QED  BY <1>1, <2>1, KeysRead
<1>5. its \in Seq(Items) /\ Len(its) = 2 /\ its[1] = x /\ its[2] = y
      BY <1>2, <1>3, <1>4
<1>6. ss \in Seq(Seq(Nat)) /\ Len(ss) = 2 /\ ss[1] = Encoded(x) /\ ss[2] = Encoded(y)
  <2>1. ss = <<Encoded(x), Encoded(y)>> /\ ss \in Seq(Seq(Nat))
        BY <1>2, <1>3, <1>4, EntryFieldsType DEF EntryFields
  <2>2. QED  BY <2>1
<1>7. ss = [i \in 1..Len(its) |-> Encoded(its[i])]
  <2>1. \A i \in 1..2 : ss[i] = Encoded(its[i])
    <3>1. TAKE i \in 1..2
    <3>2. i = 1 \/ i = 2
          OBVIOUS
    <3>3. QED  BY <1>5, <1>6, <3>2
  <2>2. ss \in [1..2 -> Seq(Nat)]
        BY <1>6, LenProperties
  <2>3. ss = [i \in 1..2 |-> ss[i]]
        BY <2>2
  <2>4. QED  BY <1>5, <2>1, <2>3
<1>8. /\ List(FlattenSeq(ss)) \in Items /\ EncodeList(ss) = Encoded(List(FlattenSeq(ss)))
      /\ DecodeList(FlattenSeq(ss)) = its
      BY <1>2, <1>5, <1>7, ListRead
<1>9. QED  BY <1>1, <1>2, <1>8

AccessItem(list) == List(FlattenSeq(AccessListItems(list)))

\* An access list is encoded entry by entry.
LEMMA AccessListOf ==
    ASSUME NEW list \in AccessList
    PROVE  /\ Len(list) \in Nat /\ \A i \in 1..Len(list) : list[i] \in Entries
           /\ AccessListItems(list) = [i \in 1..Len(list) |-> EncodeList(EntryFields(list[i]))]
           /\ AccessListItems(list) \in Seq(Seq(Nat))
<1>1. PICK n : n = Len(list)
      OBVIOUS
<1>2. n \in Nat /\ DOMAIN list = 1..n /\ \A i \in 1..n : list[i] \in Entries
      BY <1>1, LenProperties, ElementOfSeq DEF AccessList, Entries
<1>3. AccessListItems(list) = [i \in 1..n |-> EncodeList(EntryFields(list[i]))]
      BY <1>2 DEF AccessListItems, EntryFields, KeyFields
<1>4. \A i \in 1..n : EncodeList(EntryFields(list[i])) \in Seq(Nat)
      BY <1>2, EntryFieldsType
<1>5. AccessListItems(list) \in [1..n -> Seq(Nat)]
      BY <1>3, <1>4
<1>6. QED  BY <1>1, <1>2, <1>3, <1>5

(* The access list is read back as it was given (accessListToRLPInterface,
   types.go). *)
LEMMA AccessListRead ==
    ASSUME NEW list \in AccessList, Fits(AccessListItems(list))
    PROVE  /\ AccessItem(list) \in Items
           /\ Encoded(AccessItem(list)) = EncodeList(AccessListItems(list))
           /\ ReadAccessList(AccessItem(list)) = list
<1>1. PICK n, ss : n = Len(list) /\ ss = AccessListItems(list)
      OBVIOUS
<1>2. /\ n \in Nat /\ \A i \in 1..n : list[i] \in Entries
      /\ ss = [i \in 1..n |-> EncodeList(EntryFields(list[i]))] /\ ss \in Seq(Seq(Nat)) /\ Fits(ss)
      BY <1>1, AccessListOf
<1>3. Len(ss) = n
      BY <1>2
<1> DEFINE read(i) == List(FlattenSeq(EntryFields(list[i])))
<1>4. ASSUME NEW i \in 1..n
      PROVE  /\ Fits(EntryFields(list[i])) /\ Fits(KeyFields(list[i].keys))
             /\ read(i) \in Items /\ ss[i] = Encoded(read(i))
             /\ DecodeList(read(i).content) = <<String(list[i].address), List(FlattenSeq(KeyFields(list[i].keys)))>>
  <2>1. PICK e, f : e = list[i] /\ f = EntryFields(list[i])
        OBVIOUS
  <2>2. e \in Entries /\ f = EntryFields(e) /\ ss[i] = EncodeList(f)
        BY <1>2, <2>1
  <2>3. f \in Seq(Seq(Nat))
        BY <2>2, EntryFieldsType
  <2>4. PICK m : m = Len(FlattenSeq(f))
        OBVIOUS
  <2>5. m \in Nat /\ m <= Len(ss[i]) /\ i \in 1..Len(ss)
    <3>1. FlattenSeq(f) \in Seq(Nat)
          BY <2>3, FlattenType
    <3>2. m \in Nat
          BY <2>4, <3>1, LenProperties
    <3>3. m <= Len(EncodeList(f))
          BY <2>3, <2>4, ListLonger
    <3>4. QED  BY <1>3, <2>2, <3>2, <3>3
  <2>6. Short(m)
        BY <1>2, <2>5, ElementFits
  <2>7. Fits(f)
        BY <2>4, <2>6, FitsIsShort
  <2>8. Fits(KeyFields(e.keys))
        BY <2>2, <2>7, EntryFieldsType
  <2>9. /\ List(FlattenSeq(f)) \in Items /\ EncodeList(f) = Encoded(List(FlattenSeq(f)))
        /\ DecodeList(FlattenSeq(f)) = <<String(e.address), List(FlattenSeq(KeyFields(e.keys)))>>
        BY <2>2, <2>7, EntryRead
  <2>10. List(FlattenSeq(f)).content = FlattenSeq(f)
         BY DEF List
  <2>11. QED  BY <2>1, <2>2, <2>7, <2>8, <2>9, <2>10
<1> HIDE DEF read
<1>5. PICK its : its = [i \in 1..n |-> read(i)]
      OBVIOUS
<1>6. its \in Seq(Items) /\ Len(its) = n
  <2>1. \A i \in 1..n : read(i) \in Items
        BY <1>4
  <2>2. its \in [1..n -> Items]
        BY <1>5, <2>1
  <2>3. QED  BY <1>2, <1>5, <2>2
<1>7. ss = [i \in 1..Len(its) |-> Encoded(its[i])]
  <2>1. \A i \in 1..n : ss[i] = Encoded(its[i])
        BY <1>4, <1>5
  <2>2. ss = [i \in 1..n |-> ss[i]]
        BY <1>2
  <2>3. QED  BY <1>6, <2>1, <2>2
<1>8. /\ List(FlattenSeq(ss)) \in Items /\ EncodeList(ss) = Encoded(List(FlattenSeq(ss)))
      /\ DecodeList(FlattenSeq(ss)) = its
      BY <1>2, <1>6, <1>7, ListRead
<1>9. AccessItem(list) = List(FlattenSeq(ss)) /\ AccessItem(list).content = FlattenSeq(ss)
      BY <1>1 DEF AccessItem, List
<1> DEFINE entry(i) == DecodeList(its[i].content)
           back(i) == [address |-> entry(i)[1].content,
                       keys |-> [k \in DOMAIN DecodeList(entry(i)[2].content) |-> DecodeList(entry(i)[2].content)[k].content]]
<1>10. ASSUME NEW i \in 1..n PROVE back(i) = list[i]
  <2>1. PICK e, x, y : e = list[i] /\ x = String(list[i].address) /\ y = List(FlattenSeq(KeyFields(list[i].keys)))
        OBVIOUS
  <2>2. PICK p : p = entry(i)
        OBVIOUS
  <2>3. p = <<x, y>>
        BY <1>4, <1>5, <2>1, <2>2
  <2>4. p[1] = x /\ p[2] = y
        BY <2>3
  <2>5. e \in Entries /\ x.content = e.address /\ y.content = FlattenSeq(KeyFields(e.keys)) /\ Fits(KeyFields(e.keys))
        BY <1>2, <1>4, <2>1 DEF String, List
  <2>6. PICK ks, m : ks = e.keys /\ m = Len(e.keys)
        OBVIOUS
  <2>7. ks \in Seq(Bytes) /\ m \in Nat /\ DOMAIN ks = 1..m /\ e = [address |-> e.address, keys |-> ks]
        BY <2>5, <2>6, LenProperties DEF Entries
  <2>8. DecodeList(y.content) = KeyItems(ks)
        BY <2>5, <2>6, <2>7, KeysRead
  <2>9. DOMAIN KeyItems(ks) = 1..m /\ \A k \in 1..m : KeyItems(ks)[k].content = ks[k]
        BY <2>7 DEF KeyItems, String
  <2>10. [k \in DOMAIN KeyItems(ks) |-> KeyItems(ks)[k].content] = ks
    <3>1. ks = [k \in 1..m |-> ks[k]]
          BY <2>6, <2>7, LenProperties
    <3>2. QED  BY <2>9, <3>1
  <2>11. back(i) = [address |-> p[1].content,
                    keys |-> [k \in DOMAIN DecodeList(p[2].content) |-> DecodeList(p[2].content)[k].content]]
         BY <2>2
  <2>12. back(i) = [address |-> e.address, keys |-> ks]
         BY <2>4, <2>5, <2>8, <2>10, <2>11
  <2>13. QED  BY <2>1, <2>7, <2>12
<1>11. DOMAIN its = 1..n
       BY <1>5
<1>12. ReadAccessList(AccessItem(list)) = [i \in DOMAIN its |-> back(i)]
       BY <1>8, <1>9 DEF ReadAccessList
<1> HIDE DEF back
<1>13. list = [i \in 1..n |-> list[i]]
       BY <1>1, LenProperties DEF AccessList
<1>14. ReadAccessList(AccessItem(list)) = list
       BY <1>10, <1>11, <1>12, <1>13
<1>15. QED  BY <1>1, <1>8, <1>9, <1>14

-----------------------------------------------------------------------------
(* The fields of a transaction *)

\* A number that is not 0 has the same bytes in each of the three encodings.
LEMMA HexType ==
    ASSUME NEW n \in Nat
    PROVE  /\ HexBytes(n) \in Seq(Byte) /\ NonceBytes(n) = ToBinary(n) /\ ToBinary(n) \in Seq(Byte)
           /\ n # 0 => HexBytes(n) = ToBinary(n)
<1>1. ToBinary(n) \in Seq(Byte)
      BY BinaryType
<1>2. <<0>> \in Seq(Byte)
  <2>1. 0 \in Byte
        BY DEF Byte
  <2>2. QED  BY <2>1
<1>3. n = 0 => ToBinary(n) = <<>>
      BY BinaryStep
<1>4. QED  BY <1>1, <1>2, <1>3 DEF HexBytes, NonceBytes

\* A field that is not given has the default, which is of its type.
LEMMA Defaults ==
    ASSUME NEW t \in Transaction
    PROVE  /\ t.nonce \in Nat /\ t.chainID \in Nat
           /\ Or(t.gasPrice, 0) \in Nat /\ Or(t.gas, DefaultGas) \in Nat /\ Or(t.value, 0) \in Nat
           /\ ToBytes(t) \in Seq(Byte) /\ t.data \in Seq(Byte)
<1>1. DefaultGas \in Nat /\ 0 \in Nat
      BY DEF DefaultGas
<1>2. <<>> \in Seq(Byte)
      BY EmptySeq
<1>3. QED  BY <1>1, <1>2 DEF Transaction, Optional, Or, Given, ToBytes, Bytes

\* Three elements more.
LEMMA ThreeMore ==
    ASSUME NEW S, NEW x \in Seq(S), NEW a \in S, NEW b \in S, NEW c \in S
    PROVE  LET s == x \o <<a>> \o <<b, c>> IN
           /\ s \in Seq(S) /\ Len(s) = Len(x) + 3
           /\ \A i \in 1..Len(x) : s[i] = x[i]
           /\ s[Len(x) + 1] = a /\ s[Len(x) + 2] = b /\ s[Len(x) + 3] = c
<1>1. PICK n, y, z, u, v : n = Len(x) /\ u = <<a>> /\ v = <<b, c>> /\ y = x \o u /\ z = y \o v
      OBVIOUS
<1>2. n \in Nat /\ u \in Seq(S) /\ Len(u) = 1 /\ u[1] = a /\ v \in Seq(S) /\ Len(v) = 2 /\ v[1] = b /\ v[2] = c
      BY <1>1, LenProperties
<1>3. y \in Seq(S) /\ Len(y) = n + 1 /\ \A i \in 1..n + 1 : y[i] = IF i <= n THEN x[i] ELSE u[i - n]
      BY <1>1, <1>2, ConcatProperties
<1>4. z \in Seq(S) /\ Len(z) = n + 3 /\ \A i \in 1..n + 3 : z[i] = IF i <= n + 1 THEN y[i] ELSE v[i - (n + 1)]
      BY <1>1, <1>2, <1>3, ConcatProperties
<1>5. ASSUME NEW i \in 1..n PROVE z[i] = x[i]
  <2>1. i \in 1..n + 3 /\ i \in 1..n + 1 /\ i <= n + 1 /\ i <= n
        BY <1>2
  <2>2. QED  BY <1>3, <1>4, <2>1
<1>6. z[n + 1] = a
  <2>1. n + 1 \in 1..n + 3 /\ n + 1 \in 1..n + 1 /\ n + 1 <= n + 1 /\ ~(n + 1 <= n) /\ n + 1 - n = 1
        BY <1>2
  <2>2. QED  BY <1>2, <1>3, <1>4, <2>1
<1>7. z[n + 2] = b /\ z[n + 3] = c
  <2>1. PICK m, k : m = n + 2 /\ k = n + 3
        OBVIOUS
  <2>2. m \in 1..n + 3 /\ k \in 1..n + 3 /\ ~(m <= n + 1) /\ ~(k <= n + 1) /\ m - (n + 1) = 1 /\ k - (n + 1) = 2
        BY <1>2, <2>1
  <2>3. z[m] = v[m - (n + 1)] /\ z[k] = v[k - (n + 1)]
        BY <1>4, <2>2
  <2>4. QED  BY <1>2, <2>1, <2>2, <2>3
<1>8. QED  BY <1>1, <1>4, <1>5, <1>6, <1>7

LegacyItems(t, v, r, s) ==
    << String(ToBinary(t.nonce)), String(ToBinary(Or(t.gasPrice, 0))), String(HexBytes(Or(t.gas, DefaultGas))),
       String(ToBytes(t)), String(ToBinary(Or(t.value, 0))), String(t.data),
       String(ToBinary(EthereumV(t, v))), String(ToBinary(r)), String(ToBinary(s)) >>

\* The fields of a legacy transaction are encodings of its items, and the
\* first six are those that are hashed.
LEMMA LegacyList ==
    ASSUME NEW t \in Transaction, NEW v \in {27, 28}, NEW r \in Nat, NEW s \in Nat
    PROVE  /\ LegacyItems(t, v, r, s) \in Seq(Items) /\ Len(LegacyItems(t, v, r, s)) = 9
           /\ FieldsWithSignature(t, "0", v, r, s) = First(LegacyItems(t, v, r, s), 9)
           /\ LegacyFields(t) = First(LegacyItems(t, v, r, s), 6)
<1>1. EthereumV(t, v) \in Nat
      BY Defaults DEF EthereumV, YParity
<1>2. PICK b1, b2, b3, b4, b5, b6, b7, b8, b9 :
         /\ b1 = ToBinary(t.nonce) /\ b2 = ToBinary(Or(t.gasPrice, 0)) /\ b3 = HexBytes(Or(t.gas, DefaultGas))
         /\ b4 = ToBytes(t) /\ b5 = ToBinary(Or(t.value, 0)) /\ b6 = t.data
         /\ b7 = ToBinary(EthereumV(t, v)) /\ b8 = ToBinary(r) /\ b9 = ToBinary(s)
      OBVIOUS
<1>3. /\ b1 \in Seq(Byte) /\ b2 \in Seq(Byte) /\ b3 \in Seq(Byte) /\ b4 \in Seq(Byte) /\ b5 \in Seq(Byte)
      /\ b6 \in Seq(Byte) /\ b7 \in Seq(Byte) /\ b8 \in Seq(Byte) /\ b9 \in Seq(Byte)
  <2>1. b1 \in Seq(Byte) /\ b2 \in Seq(Byte) /\ b3 \in Seq(Byte) /\ b4 \in Seq(Byte) /\ b5 \in Seq(Byte) /\ b6 \in Seq(Byte)
        BY <1>2, Defaults, HexType
  <2>2. b7 \in Seq(Byte) /\ b8 \in Seq(Byte) /\ b9 \in Seq(Byte)
        BY <1>1, <1>2, HexType
  <2>3. QED  BY <2>1, <2>2
<1>4. PICK i1, i2, i3, i4, i5, i6, i7, i8, i9 :
         /\ i1 = String(b1) /\ i2 = String(b2) /\ i3 = String(b3) /\ i4 = String(b4) /\ i5 = String(b5)
         /\ i6 = String(b6) /\ i7 = String(b7) /\ i8 = String(b8) /\ i9 = String(b9)
      OBVIOUS
<1>5. /\ i1 \in Items /\ i2 \in Items /\ i3 \in Items /\ i4 \in Items /\ i5 \in Items
      /\ i6 \in Items /\ i7 \in Items /\ i8 \in Items /\ i9 \in Items
      BY <1>3, <1>4, StringEncoded
<1>6. /\ Encoded(i1) = EncodeBytes(b1) /\ Encoded(i2) = EncodeBytes(b2) /\ Encoded(i3) = EncodeBytes(b3)
      /\ Encoded(i4) = EncodeBytes(b4) /\ Encoded(i5) = EncodeBytes(b5) /\ Encoded(i6) = EncodeBytes(b6)
      /\ Encoded(i7) = EncodeBytes(b7) /\ Encoded(i8) = EncodeBytes(b8) /\ Encoded(i9) = EncodeBytes(b9)
      BY <1>3, <1>4, StringEncoded
<1>7. PICK its : its = <<i1, i2, i3, i4, i5, i6, i7, i8, i9>>
      OBVIOUS
<1>8. LegacyItems(t, v, r, s) = its
      BY <1>2, <1>4, <1>7 DEF LegacyItems
<1>9. /\ its \in Seq(Items) /\ Len(its) = 9
      /\ its[1] = i1 /\ its[2] = i2 /\ its[3] = i3 /\ its[4] = i4 /\ its[5] = i5
      /\ its[6] = i6 /\ its[7] = i7 /\ its[8] = i8 /\ its[9] = i9
      BY <1>5, <1>7
<1>10. PICK e1, e2, e3, e4, e5, e6, e7, e8, e9 :
         /\ e1 = Encoded(i1) /\ e2 = Encoded(i2) /\ e3 = Encoded(i3) /\ e4 = Encoded(i4) /\ e5 = Encoded(i5)
         /\ e6 = Encoded(i6) /\ e7 = Encoded(i7) /\ e8 = Encoded(i8) /\ e9 = Encoded(i9)
      OBVIOUS
<1>11. /\ e1 \in Seq(Nat) /\ e2 \in Seq(Nat) /\ e3 \in Seq(Nat) /\ e4 \in Seq(Nat) /\ e5 \in Seq(Nat)
       /\ e6 \in Seq(Nat) /\ e7 \in Seq(Nat) /\ e8 \in Seq(Nat) /\ e9 \in Seq(Nat)
       BY <1>5, <1>10, EncodedItem
<1>12. PICK x : x = <<e1, e2, e3, e4, e5, e6>>
       OBVIOUS
<1>13. /\ x \in Seq(Seq(Nat)) /\ Len(x) = 6
       /\ x[1] = e1 /\ x[2] = e2 /\ x[3] = e3 /\ x[4] = e4 /\ x[5] = e5 /\ x[6] = e6
       BY <1>11, <1>12
<1>14. LegacyFields(t) = x
  <2>1. NonceBytes(t.nonce) = b1
        BY <1>2, Defaults, HexType
  <2>2. QED  BY <1>2, <1>6, <1>10, <1>12, <2>1 DEF LegacyFields, EncodeBigInt
<1>15. FieldsWithSignature(t, "0", v, r, s) = x \o <<e7>> \o <<e8, e9>>
       BY <1>2, <1>6, <1>10, <1>14 DEF FieldsWithSignature, EncodeBigInt
<1>16. PICK ss : ss = x \o <<e7>> \o <<e8, e9>>
       OBVIOUS
<1>17. /\ ss \in Seq(Seq(Nat)) /\ Len(ss) = 9
       /\ ss[1] = e1 /\ ss[2] = e2 /\ ss[3] = e3 /\ ss[4] = e4 /\ ss[5] = e5 /\ ss[6] = e6
       /\ ss[7] = e7 /\ ss[8] = e8 /\ ss[9] = e9
  <2>1. /\ ss \in Seq(Seq(Nat)) /\ Len(ss) = Len(x) + 3
        /\ \A i \in 1..Len(x) : ss[i] = x[i]
        /\ ss[Len(x) + 1] = e7 /\ ss[Len(x) + 2] = e8 /\ ss[Len(x) + 3] = e9
    <3>1. x \in Seq(Seq(Nat))
          BY <1>13
    <3>2. e7 \in Seq(Nat) /\ e8 \in Seq(Nat) /\ e9 \in Seq(Nat)
          BY <1>11
    <3>3. QED  BY <1>16, <3>1, <3>2, ThreeMore
  <2>2. QED  BY <1>13, <2>1
<1>18. ss = First(its, 9)
  <2>1. \A i \in 1..9 : ss[i] = Encoded(its[i])
    <3>1. TAKE i \in 1..9
    <3>2. i = 1 \/ i = 2 \/ i = 3 \/ i = 4 \/ i = 5 \/ i = 6 \/ i = 7 \/ i = 8 \/ i = 9
          OBVIOUS
    <3>3. QED  BY <1>9, <1>10, <1>17, <3>2
  <2>2. ss \in [1..9 -> Seq(Nat)]
        BY <1>17, LenProperties
  <2>3. ss = [i \in 1..9 |-> ss[i]]
        BY <2>2
  <2>4. QED  BY <2>1, <2>3 DEF First
<1>19. x = First(its, 6)
  <2>1. \A i \in 1..6 : x[i] = Encoded(its[i])
    <3>1. TAKE i \in 1..6
    <3>2. i = 1 \/ i = 2 \/ i = 3 \/ i = 4 \/ i = 5 \/ i = 6
          OBVIOUS
    <3>3. QED  BY <1>9, <1>10, <1>13, <3>2
  <2>2. x \in [1..6 -> Seq(Nat)]
        BY <1>13, LenProperties
  <2>3. x = [i \in 1..6 |-> x[i]]
        BY <2>2
  <2>4. QED  BY <2>1, <2>3 DEF First
<1>20. QED  BY <1>8, <1>9, <1>14, <1>15, <1>16, <1>18, <1>19

EIP1559Items(t, v, r, s) ==
    << String(HexBytes(t.chainID)), String(ToBinary(t.nonce)), String(ToBinary(t.maxPriority)), String(ToBinary(t.maxFee)),
       String(HexBytes(Or(t.gas, DefaultGas))), String(ToBytes(t)), String(ToBinary(Or(t.value, 0))), String(t.data),
       AccessItem(t.accessList), String(ToBinary(YParity(v))), String(ToBinary(r)), String(ToBinary(s)) >>

\* The fields of a transaction of type 2 are encodings of its items, the first
\* nine are those that are hashed, and its access list fits when it does.
LEMMA EIP1559List ==
    ASSUME NEW t \in Transaction, t.maxPriority \in Nat, t.maxFee \in Nat, t.accessList \in AccessList,
           NEW v \in {27, 28}, NEW r \in Nat, NEW s \in Nat, Fits(FieldsWithSignature(t, "2", v, r, s))
    PROVE  /\ EIP1559Items(t, v, r, s) \in Seq(Items) /\ Len(EIP1559Items(t, v, r, s)) = 12
           /\ FieldsWithSignature(t, "2", v, r, s) = First(EIP1559Items(t, v, r, s), 12)
           /\ EIP1559Fields(t) = First(EIP1559Items(t, v, r, s), 9)
           /\ Fits(AccessListItems(t.accessList))
<1>1. YParity(v) \in Nat
      BY DEF YParity
<1>2. PICK b1, b2, b3, b4, b5, b6, b7, b8, b10, b11, b12 :
         /\ b1 = HexBytes(t.chainID) /\ b2 = ToBinary(t.nonce) /\ b3 = ToBinary(t.maxPriority)
         /\ b4 = ToBinary(t.maxFee) /\ b5 = HexBytes(Or(t.gas, DefaultGas)) /\ b6 = ToBytes(t)
         /\ b7 = ToBinary(Or(t.value, 0)) /\ b8 = t.data /\ b10 = ToBinary(YParity(v))
         /\ b11 = ToBinary(r) /\ b12 = ToBinary(s)
      OBVIOUS
<1>3. /\ b1 \in Seq(Byte) /\ b2 \in Seq(Byte) /\ b3 \in Seq(Byte) /\ b4 \in Seq(Byte) /\ b5 \in Seq(Byte)
      /\ b6 \in Seq(Byte) /\ b7 \in Seq(Byte) /\ b8 \in Seq(Byte) /\ b10 \in Seq(Byte) /\ b11 \in Seq(Byte)
      /\ b12 \in Seq(Byte)
  <2>1. b1 \in Seq(Byte) /\ b2 \in Seq(Byte) /\ b5 \in Seq(Byte) /\ b6 \in Seq(Byte) /\ b7 \in Seq(Byte) /\ b8 \in Seq(Byte)
        BY <1>2, Defaults, HexType
  <2>2. b3 \in Seq(Byte) /\ b4 \in Seq(Byte) /\ b10 \in Seq(Byte) /\ b11 \in Seq(Byte) /\ b12 \in Seq(Byte)
        BY <1>1, <1>2, HexType
  <2>3. QED  BY <2>1, <2>2
<1>4. PICK i1, i2, i3, i4, i5, i6, i7, i8, i9, i10, i11, i12 :
         /\ i1 = String(b1) /\ i2 = String(b2) /\ i3 = String(b3) /\ i4 = String(b4) /\ i5 = String(b5)
         /\ i6 = String(b6) /\ i7 = String(b7) /\ i8 = String(b8) /\ i10 = String(b10) /\ i11 = String(b11)
         /\ i12 = String(b12)
         /\ i9 = AccessItem(t.accessList)
      OBVIOUS
<1>5. /\ i1 \in Items /\ i2 \in Items /\ i3 \in Items /\ i4 \in Items /\ i5 \in Items
      /\ i6 \in Items /\ i7 \in Items /\ i8 \in Items /\ i10 \in Items /\ i11 \in Items
      /\ i12 \in Items
      BY <1>3, <1>4, StringEncoded
<1>6. PICK l : l = EncodeList(AccessListItems(t.accessList))
      OBVIOUS
<1>7. /\ Encoded(i1) = EncodeBytes(b1) /\ Encoded(i2) = EncodeBytes(b2) /\ Encoded(i3) = EncodeBytes(b3)
      /\ Encoded(i4) = EncodeBytes(b4) /\ Encoded(i5) = EncodeBytes(b5) /\ Encoded(i6) = EncodeBytes(b6)
      /\ Encoded(i7) = EncodeBytes(b7) /\ Encoded(i8) = EncodeBytes(b8) /\ Encoded(i10) = EncodeBytes(b10)
      /\ Encoded(i11) = EncodeBytes(b11) /\ Encoded(i12) = EncodeBytes(b12)
      BY <1>3, <1>4, StringEncoded
<1>8. PICK e1, e2, e3, e4, e5, e6, e7, e8, e9, e10, e11, e12 :
         /\ e1 = Encoded(i1) /\ e2 = Encoded(i2) /\ e3 = Encoded(i3) /\ e4 = Encoded(i4) /\ e5 = Encoded(i5)
         /\ e6 = Encoded(i6) /\ e7 = Encoded(i7) /\ e8 = Encoded(i8) /\ e10 = Encoded(i10) /\ e11 = Encoded(i11)
         /\ e12 = Encoded(i12)
         /\ e9 = l
      OBVIOUS
<1>9. AccessListItems(t.accessList) \in Seq(Seq(Nat))
      BY AccessListOf
<1>10. /\ e1 \in Seq(Nat) /\ e2 \in Seq(Nat) /\ e3 \in Seq(Nat) /\ e4 \in Seq(Nat) /\ e5 \in Seq(Nat)
       /\ e6 \in Seq(Nat) /\ e7 \in Seq(Nat) /\ e8 \in Seq(Nat) /\ e9 \in Seq(Nat) /\ e10 \in Seq(Nat)
       /\ e11 \in Seq(Nat) /\ e12 \in Seq(Nat)
  <2>1. l \in Seq(Nat)
        BY <1>6, <1>9, ListLonger
  <2>2. QED  BY <1>5, <1>8, <2>1, EncodedItem
<1>11. PICK x : x = <<e1, e2, e3, e4, e5, e6, e7, e8, e9>>
       OBVIOUS
<1>12. /\ x \in Seq(Seq(Nat)) /\ Len(x) = 9
       /\ x[1] = e1 /\ x[2] = e2 /\ x[3] = e3 /\ x[4] = e4 /\ x[5] = e5
       /\ x[6] = e6 /\ x[7] = e7 /\ x[8] = e8 /\ x[9] = e9
       BY <1>10, <1>11
<1>13. EIP1559Fields(t) = x
  <2>1. NonceBytes(t.nonce) = b2
        BY <1>2, Defaults, HexType
  <2>2. QED  BY <1>2, <1>6, <1>7, <1>8, <1>11, <2>1 DEF EIP1559Fields, EncodeBigInt
<1>14. FieldsWithSignature(t, "2", v, r, s) = x \o <<e10>> \o <<e11, e12>>
       BY <1>2, <1>7, <1>8, <1>13 DEF FieldsWithSignature, EncodeBigInt
<1>15. PICK ss : ss = x \o <<e10>> \o <<e11, e12>>
       OBVIOUS
<1>16. /\ ss \in Seq(Seq(Nat)) /\ Len(ss) = 12
       /\ ss[1] = e1 /\ ss[2] = e2 /\ ss[3] = e3 /\ ss[4] = e4 /\ ss[5] = e5 /\ ss[6] = e6
       /\ ss[7] = e7 /\ ss[8] = e8 /\ ss[9] = e9 /\ ss[10] = e10 /\ ss[11] = e11 /\ ss[12] = e12
  <2>1. /\ ss \in Seq(Seq(Nat)) /\ Len(ss) = Len(x) + 3
        /\ \A i \in 1..Len(x) : ss[i] = x[i]
        /\ ss[Len(x) + 1] = e10 /\ ss[Len(x) + 2] = e11 /\ ss[Len(x) + 3] = e12
    <3>1. x \in Seq(Seq(Nat))
          BY <1>12
    <3>2. e10 \in Seq(Nat) /\ e11 \in Seq(Nat) /\ e12 \in Seq(Nat)
          BY <1>10
    <3>3. QED  BY <1>15, <3>1, <3>2, ThreeMore
  <2>2. QED  BY <1>12, <2>1
<1>17. Fits(ss)
       BY <1>14, <1>15
<1>18. Fits(AccessListItems(t.accessList))
  <2>1. PICK as, m : as = AccessListItems(t.accessList) /\ m = Len(FlattenSeq(as))
        OBVIOUS
  <2>2. as \in Seq(Seq(Nat))
        BY <1>9, <2>1
  <2>3. m \in Nat
    <3>1. FlattenSeq(as) \in Seq(Nat)
          BY <2>2, FlattenType
    <3>2. QED  BY <2>1, <3>1, LenProperties
  <2>4. m <= Len(l)
        BY <1>6, <2>1, <2>2, ListLonger
  <2>5. 9 \in 1..Len(ss) /\ m <= Len(ss[9])
        BY <1>8, <1>16, <2>4
  <2>6. Short(m)
        BY <1>16, <1>17, <2>3, <2>5, ElementFits
  <2>7. QED  BY <2>1, <2>6, FitsIsShort
<1>19. i9 \in Items /\ e9 = Encoded(i9)
       BY <1>4, <1>6, <1>8, <1>18, AccessListRead
<1>20. PICK its : its = <<i1, i2, i3, i4, i5, i6, i7, i8, i9, i10, i11, i12>>
       OBVIOUS
<1>21. EIP1559Items(t, v, r, s) = its
       BY <1>2, <1>4, <1>20 DEF EIP1559Items
<1>22. /\ its \in Seq(Items) /\ Len(its) = 12
       /\ its[1] = i1 /\ its[2] = i2 /\ its[3] = i3 /\ its[4] = i4 /\ its[5] = i5
       /\ its[6] = i6 /\ its[7] = i7 /\ its[8] = i8 /\ its[9] = i9 /\ its[10] = i10
       /\ its[11] = i11 /\ its[12] = i12
       BY <1>5, <1>19, <1>20
<1>23. ss = First(its, 12)
  <2>1. \A i \in 1..12 : ss[i] = Encoded(its[i])
    <3>1. TAKE i \in 1..12
    <3>2. i = 1 \/ i = 2 \/ i = 3 \/ i = 4 \/ i = 5 \/ i = 6 \/ i = 7 \/ i = 8 \/ i = 9 \/ i = 10 \/ i = 11 \/ i = 12
          OBVIOUS
    <3>3. QED  BY <1>8, <1>16, <1>19, <1>22, <3>2
  <2>2. ss \in [1..12 -> Seq(Nat)]
        BY <1>16, LenProperties
  <2>3. ss = [i \in 1..12 |-> ss[i]]
        BY <2>2
  <2>4. QED  BY <2>1, <2>3 DEF First
<1>24. x = First(its, 9)
  <2>1. \A i \in 1..9 : x[i] = Encoded(its[i])
    <3>1. TAKE i \in 1..9
    <3>2. i = 1 \/ i = 2 \/ i = 3 \/ i = 4 \/ i = 5 \/ i = 6 \/ i = 7 \/ i = 8 \/ i = 9
          OBVIOUS
    <3>3. QED  BY <1>8, <1>12, <1>19, <1>22, <3>2
  <2>2. x \in [1..9 -> Seq(Nat)]
        BY <1>12, LenProperties
  <2>3. x = [i \in 1..9 |-> x[i]]
        BY <2>2
  <2>4. QED  BY <2>1, <2>3 DEF First
<1>25. QED  BY <1>13, <1>14, <1>15, <1>18, <1>21, <1>22, <1>23, <1>24

-----------------------------------------------------------------------------
(* Words *)

\* Zeros before a number do not change it.
LEMMA ZerosBefore ==
    ASSUME NEW z \in Seq(Byte), ToInt(z) = 0, NEW b \in Seq(Byte)
    PROVE  ToInt(z \o b) = ToInt(b)
<1> DEFINE Same(c) == ToInt(z \o c) = ToInt(c)
           T == {m \in Nat : \E c \in Seq(Byte) : Len(c) = m /\ ~Same(c)}
<1>1. T = {}
  <2>1. SUFFICES ASSUME T # {} PROVE FALSE
        OBVIOUS
  <2>2. PICK m \in T : \A j \in T : m <= j
    <3>1. T \in SUBSET Nat
          OBVIOUS
    <3> HIDE DEF T
    <3>2. QED  BY <2>1, <3>1, Least
  <2>3. PICK c \in Seq(Byte) : Len(c) = m /\ ~Same(c)
        BY <2>2
  <2>4. c # <<>>
    <3>1. z \o <<>> = z
          BY ConcatEmptySeq
    <3>2. Same(<<>>)
          BY <3>1, IntOfNothing
    <3> HIDE DEF Same
    <3>3. QED  BY <2>3, <3>2
  <2>5. PICK d \in Seq(Byte), x \in Byte : c = Append(d, x)
        BY <2>4, SequenceEmptyOrAppend
  <2>6. Len(d) \in Nat /\ Len(d) < m
    <3>1. Len(d) \in Nat /\ Len(c) = Len(d) + 1
          BY <2>5, AppendProperties, LenProperties
    <3>2. QED  BY <2>3, <3>1
  <2>7. Same(d)
    <3> HIDE DEF Same
    <3>1. Len(d) \notin T
      <4> HIDE DEF T
      <4>1. m \in Nat
            BY <2>2 DEF T
      <4>2. QED  BY <2>2, <2>6, <4>1
    <3>2. QED  BY <2>6, <3>1
  <2>8. z \o c = Append(z \o d, x)
    <3>1. <<x>> \in Seq(Byte) /\ c = d \o <<x>>
          BY <2>5, AppendIsConcat
    <3>2. z \o (d \o <<x>>) = (z \o d) \o <<x>>
          BY <3>1, ConcatAssociative
    <3>3. z \o d \in Seq(Byte)
          BY ConcatProperties
    <3>4. (z \o d) \o <<x>> = Append(z \o d, x)
          BY <3>3, AppendIsConcat
    <3>5. QED  BY <3>1, <3>2, <3>4
  <2>9. ToInt(z \o c) = 256 * ToInt(z \o d) + x
    <3>1. PICK a : a = z \o d
          OBVIOUS
    <3>2. a \in Seq(Byte)
          BY <3>1, ConcatProperties
    <3>3. ToInt(Append(a, x)) = 256 * ToInt(a) + x
          BY <3>2, IntStep
    <3>4. QED  BY <2>8, <3>1, <3>3
  <2>10. ToInt(c) = 256 * ToInt(d) + x
         BY <2>5, IntStep
  <2>11. QED  BY <2>3, <2>7, <2>9, <2>10
<1>2. Len(b) \in Nat /\ Len(b) \notin T
      BY <1>1, LenProperties
<1>3. Same(b)
  <2> HIDE DEF Same
  <2>1. QED  BY <1>2
<1>4. QED  BY <1>3

Zeros(n) == [i \in 1..n |-> 0]

\* Zeros are bytes, and the number 0.
LEMMA ZerosAreZero == ASSUME NEW n \in Nat PROVE Zeros(n) \in Seq(Byte) /\ Len(Zeros(n)) = n /\ ToInt(Zeros(n)) = 0
<1>1. ASSUME NEW m \in Nat PROVE Zeros(m) \in Seq(Byte) /\ Len(Zeros(m)) = m
  <2>1. Zeros(m) \in [1..m -> Byte]
        BY DEF Zeros, Byte
  <2>2. QED  BY <2>1 DEF Zeros
<1> DEFINE T == {m \in Nat : ToInt(Zeros(m)) # 0}
<1>2. T = {}
  <2>1. SUFFICES ASSUME T # {} PROVE FALSE
        OBVIOUS
  <2>2. PICK m \in T : \A j \in T : m <= j
        BY <2>1, Least
  <2>3. m # 0
    <3>1. Zeros(0) \in Seq(Byte) /\ Len(Zeros(0)) = 0
          BY <1>1
    <3>2. Zeros(0) = <<>>
          BY <3>1, EmptySeq
    <3>3. QED  BY <2>2, <3>2, IntOfNothing
  <2>4. PICK k : k = m - 1
        OBVIOUS
  <2>5. k \in Nat /\ k < m /\ m = k + 1
        BY <2>2, <2>3, <2>4
  <2>6. ToInt(Zeros(k)) = 0
        BY <2>2, <2>5
  <2>7. Zeros(m) = Append(Zeros(k), 0)
    <3>1. 0 \in Byte
          BY DEF Byte
    <3>2. /\ Zeros(k) \in Seq(Byte) /\ Len(Zeros(k)) = k /\ Zeros(m) \in Seq(Byte) /\ Len(Zeros(m)) = m
          BY <1>1, <2>5
    <3>3. PICK a : a = Append(Zeros(k), 0)
          OBVIOUS
    <3>4. a \in Seq(Byte) /\ Len(a) = m /\ (\A i \in 1..k : a[i] = Zeros(k)[i]) /\ a[m] = 0
          BY <2>5, <3>1, <3>2, <3>3, AppendProperties
    <3>5. \A i \in 1..m : a[i] = Zeros(m)[i]
      <4>1. TAKE i \in 1..m
      <4>2. Zeros(m)[i] = 0
            BY DEF Zeros
      <4>3. CASE i = m
            BY <3>4, <4>2, <4>3
      <4>4. CASE i # m
        <5>1. i \in 1..k
              BY <2>5, <4>4
        <5>2. Zeros(k)[i] = 0
              BY <5>1 DEF Zeros
        <5>3. QED  BY <3>4, <4>2, <5>1, <5>2
      <4>5. QED  BY <4>3, <4>4
    <3>6. QED  BY <3>2, <3>3, <3>4, <3>5, SeqEqual
  <2>8. ToInt(Zeros(m)) = 256 * 0 + 0
    <3>1. 0 \in Byte
          BY DEF Byte
    <3>2. Zeros(k) \in Seq(Byte)
          BY <1>1, <2>5
    <3>3. QED  BY <2>6, <2>7, <3>1, <3>2, IntStep
  <2>9. QED  BY <2>2, <2>8
<1>3. QED  BY <1>1, <1>2

\* A number below the order has a word, and is read back from it.
LEMMA WordBack ==
    ASSUME NEW n \in 0..(Order - 1)
    PROVE  Word(n) \in Seq(Byte) /\ Len(Word(n)) = WordLength /\ ToInt(Word(n)) = n
<1>1. PICK d, k, z : d = ToBinary(n) /\ k = WordLength - Len(d) /\ z = Zeros(k)
      OBVIOUS
<1>2. n \in Nat /\ Order - 1 \in Nat /\ n <= Order - 1
      BY OrderAssumption
<1>3. d \in Seq(Byte) /\ ToInt(d) = n
      BY <1>1, <1>2, BinaryType, NumberBack
<1>4. Len(d) \in Nat /\ Len(d) <= WordLength
  <2>1. Len(ToBinary(n)) <= Len(ToBinary(Order - 1))
        BY <1>2, BinaryLonger
  <2>2. Len(ToBinary(Order - 1)) \in Nat /\ Len(d) \in Nat
        BY <1>2, <1>3, BinaryType, LenProperties
  <2>3. QED  BY <1>1, <2>1, <2>2, WordAssumption
<1>5. k \in Nat /\ k + Len(d) = WordLength
      BY <1>1, <1>4, WordAssumption
<1>6. z \in Seq(Byte) /\ Len(z) = k /\ ToInt(z) = 0
      BY <1>1, <1>5, ZerosAreZero
<1>7. Word(n) = z \o d
      BY <1>1 DEF Word, Zeros
<1>8. z \o d \in Seq(Byte) /\ Len(z \o d) = Len(z) + Len(d)
      BY <1>3, <1>6, ConcatProperties
<1>9. ToInt(z \o d) = n
      BY <1>3, <1>6, ZerosBefore
<1>10. QED  BY <1>5, <1>6, <1>7, <1>8, <1>9

-----------------------------------------------------------------------------
(* What a signed transaction is read as *)

\* identifyTxType: a legacy transaction has no fee of type 2, nor anything else
\* besides a gas price, and one of type 2 has all the fields it is encoded from
\* and no others.
LEMMA TypeOfTransaction ==
    ASSUME NEW t
    PROVE  /\ IdentifyTxType(t) = "0" => ~Given(t.maxFee) /\ ~Given(t.maxPriority)
           /\ IdentifyTxType(t) = "0" /\ Given(t.gasPrice) => ~Given(t.accessList) /\ ~Given(t.blobFee) /\ ~t.others
           /\ IdentifyTxType(t) = "2" => /\ Given(t.maxFee) /\ Given(t.maxPriority) /\ Given(t.accessList)
                                         /\ ~Given(t.gasPrice) /\ ~Given(t.blobFee) /\ ~t.others
<1>1. PICK p, m, q, a, b \in BOOLEAN :
         /\ p = Given(t.gasPrice) /\ m = Given(t.maxFee) /\ q = Given(t.maxPriority) /\ a = Given(t.accessList)
         /\ b = Given(t.blobFee)
      BY DEF Given
<1>2. IdentifyTxType(t) =
        CASE p /\ ((m \/ q) \/ (b \/ t.others)) -> "ambiguous"
          [] p /\ ~((m \/ q) \/ (b \/ t.others)) -> IF a THEN "1" ELSE "0"
          [] ~p /\ (m \/ q) -> IF ~(m /\ q /\ a) THEN "missing" ELSE IF b \/ t.others THEN "3" ELSE "2"
          [] OTHER -> "0"
      BY <1>1 DEF IdentifyTxType
<1>3. CASE p /\ ((m \/ q) \/ (b \/ t.others))
  <2>1. IdentifyTxType(t) = "ambiguous"
        BY <1>2, <1>3
  <2>2. QED  BY <2>1
<1>4. CASE p /\ ~((m \/ q) \/ (b \/ t.others))
  <2>1. IdentifyTxType(t) = IF a THEN "1" ELSE "0"
        BY <1>2, <1>4
  <2>2. QED  BY <1>1, <1>4, <2>1
<1>5. CASE ~p /\ (m \/ q)
  <2>1. IdentifyTxType(t) = IF ~(m /\ q /\ a) THEN "missing" ELSE IF b \/ t.others THEN "3" ELSE "2"
        BY <1>2, <1>5
  <2>2. QED  BY <1>1, <1>5, <2>1
<1>6. CASE ~p /\ ~(m \/ q)
  <2>1. IdentifyTxType(t) = "0"
        BY <1>2, <1>6
  <2>2. QED  BY <1>1, <1>6, <2>1
<1>7. QED  BY <1>3, <1>4, <1>5, <1>6

\* A number is read back from its item, which has no leading zero.
LEMMA NumberItem ==
    ASSUME NEW n \in Nat
    PROVE  Number(String(ToBinary(n))) = n /\ Canonical(String(ToBinary(n)))
<1>1. PICK d : d = ToBinary(n)
      OBVIOUS
<1>2. ToInt(d) = n /\ (d # <<>> => d[1] # 0)
  <2>1. n = 0 => d = <<>>
        BY <1>1, BinaryStep
  <2>2. QED  BY <1>1, <2>1, NumberBack, BinaryType
<1>3. QED  BY <1>1, <1>2 DEF Number, Canonical, String

\* So is a number from its hexadecimal digits, where 0 alone has a leading zero.
LEMMA HexItem ==
    ASSUME NEW n \in Nat
    PROVE  Number(String(HexBytes(n))) = n /\ (n # 0 => Canonical(String(HexBytes(n))))
<1>1. CASE n = 0
  <2>1. HexBytes(n) = <<0>>
        BY <1>1 DEF HexBytes
  <2>2. ToInt(<<0>>) = 0
    <3>1. 0 \in Byte /\ <<>> \in Seq(Byte) /\ Append(<<>>, 0) = <<0>>
          BY EmptySeq DEF Byte
    <3>2. ToInt(Append(<<>>, 0)) = 256 * ToInt(<<>>) + 0
          BY <3>1, IntStep
    <3>3. QED  BY <3>1, <3>2, IntOfNothing
  <2>3. QED  BY <1>1, <2>1, <2>2 DEF Number, String
<1>2. CASE n # 0
  <2>1. HexBytes(n) = ToBinary(n)
        BY <1>2 DEF HexBytes
  <2>2. QED  BY <2>1, NumberItem
<1>3. QED  BY <1>1, <1>2

\* EIP-155: the chain and the recovery bit are read back from the v.
LEMMA ParityArithmetic ==
    ASSUME NEW y \in {0, 1}, NEW c \in Nat
    PROVE  (y + 35 + 2 * c - 35) \div 2 = c /\ (y + 35 + 2 * c - 35) % 2 = y
OBVIOUS

\* A legacy transaction is read as its fields, and what was hashed is encoded
\* again from them.
LEMMA LegacyRead ==
    ASSUME NEW t \in Transaction, t.chainID >= 1, NEW v \in {27, 28}, NEW r \in Nat, NEW s \in Nat,
           Fits(FieldsWithSignature(t, "0", v, r, s)),
           NEW f, f = Fields(EncodeList(FieldsWithSignature(t, "0", v, r, s)))
    PROVE  /\ f = LegacyItems(t, v, r, s) /\ Len(f) = 9
           /\ Number(f[8]) = r /\ Number(f[9]) = s
           /\ ReadLegacy(f) = [size |-> 9, chainID |-> t.chainID, y |-> v - 27, signed |-> Hash(t, "0")]
<1>1. PICK its, ss : its = LegacyItems(t, v, r, s) /\ ss = FieldsWithSignature(t, "0", v, r, s)
      OBVIOUS
<1>2. /\ its \in Seq(Items) /\ Len(its) = 9 /\ ss = First(its, 9)
      /\ LegacyFields(t) = First(its, 6) /\ Fits(ss)
  <2>1. /\ LegacyItems(t, v, r, s) \in Seq(Items) /\ Len(LegacyItems(t, v, r, s)) = 9
        /\ FieldsWithSignature(t, "0", v, r, s) = First(LegacyItems(t, v, r, s), 9)
        /\ LegacyFields(t) = First(LegacyItems(t, v, r, s), 6)
        BY LegacyList
  <2>2. QED  BY <1>1, <2>1
<1>3. f = its
  <2>1. ss = [i \in 1..Len(its) |-> Encoded(its[i])]
        BY <1>2 DEF First
  <2>2. DecodeList(FlattenSeq(ss)) = its /\ Decode(EncodeList(ss)).content = FlattenSeq(ss)
        BY <1>2, <2>1, ListRead
  <2>3. QED  BY <1>1, <2>2 DEF Fields
<1>4. PICK n, c : n = EthereumV(t, v) /\ c = t.chainID
      OBVIOUS
<1>5. c \in Nat /\ c # 0 /\ n = (v - 27) + 35 + 2 * c /\ n \in Nat
      BY <1>4, Defaults DEF EthereumV, YParity
<1>6. its[7] = String(ToBinary(n)) /\ its[8] = String(ToBinary(r)) /\ its[9] = String(ToBinary(s))
      BY <1>1, <1>4 DEF LegacyItems
<1>7. Number(f[7]) = n /\ Number(f[8]) = r /\ Number(f[9]) = s
      BY <1>3, <1>5, <1>6, NumberItem
<1>8. (n - 35) \div 2 = c /\ (n - 35) % 2 = v - 27
  <2>1. PICK y : y = v - 27
        OBVIOUS
  <2>2. y \in {0, 1} /\ n = y + 35 + 2 * c
        BY <1>5, <2>1
  <2>3. QED  BY <1>5, <2>1, <2>2, ParityArithmetic
<1>9. First(f, 6) = LegacyFields(t)
      BY <1>2, <1>3
<1>10. EncodeBytes(HexBytes(t.chainID)) = EncodeBigInt(c)
  <2>1. HexBytes(c) = ToBinary(c)
        BY <1>4, <1>5, HexType
  <2>2. QED  BY <1>4, <2>1 DEF EncodeBigInt
<1>11. Hash(t, "0") = EncodeList(First(f, 6) \o <<EncodeBigInt(c), EncodeBigInt(0), EncodeBigInt(0)>>)
       BY <1>9, <1>10 DEF Hash
<1>12. ReadLegacy(f) = [size |-> 9, chainID |-> c, y |-> v - 27, signed |-> Hash(t, "0")]
       BY <1>7, <1>8, <1>11 DEF ReadLegacy
<1>13. QED  BY <1>1, <1>2, <1>3, <1>4, <1>7, <1>12

\* What is read from the fields f of an encoded transaction t of type 2.
EIP1559Says(f, t, v, r, s) ==
    /\ f = EIP1559Items(t, v, r, s) /\ Len(f) = 12
    /\ Number(f[11]) = r /\ Number(f[12]) = s
    /\ ReadEIP1559(f) = [size |-> 12, chainID |-> t.chainID, y |-> v - 27, signed |-> Hash(t, "2")]
    /\ ReadAccessList(f[9]) = t.accessList

\* So is a transaction of type 2, with its access list.
LEMMA EIP1559Read ==
    ASSUME NEW t \in Transaction, t.chainID >= 1, t.maxPriority \in Nat, t.maxFee \in Nat, t.accessList \in AccessList,
           NEW v, v \in {27, 28}, NEW r \in Nat, NEW s \in Nat, Fits(FieldsWithSignature(t, "2", v, r, s))
    PROVE  /\ EIP1559Says(Fields(EncodeList(FieldsWithSignature(t, "2", v, r, s))), t, v, r, s)
           /\ EncodeList(FieldsWithSignature(t, "2", v, r, s)) \in Seq(Nat)
<1>0. PICK f : f = Fields(EncodeList(FieldsWithSignature(t, "2", v, r, s)))
      OBVIOUS
<1>1. PICK its, ss : its = EIP1559Items(t, v, r, s) /\ ss = FieldsWithSignature(t, "2", v, r, s)
      OBVIOUS
<1>2. /\ its \in Seq(Items) /\ Len(its) = 12 /\ ss = First(its, 12)
      /\ EIP1559Fields(t) = First(its, 9) /\ Fits(ss)
      /\ Fits(AccessListItems(t.accessList))
  <2>1. /\ EIP1559Items(t, v, r, s) \in Seq(Items) /\ Len(EIP1559Items(t, v, r, s)) = 12
        /\ FieldsWithSignature(t, "2", v, r, s) = First(EIP1559Items(t, v, r, s), 12)
        /\ EIP1559Fields(t) = First(EIP1559Items(t, v, r, s), 9)
        /\ Fits(AccessListItems(t.accessList))
        BY EIP1559List
  <2>2. QED  BY <1>1, <2>1
<1>3. f = its /\ EncodeList(ss) \in Seq(Nat)
  <2>1. ss = [i \in 1..Len(its) |-> Encoded(its[i])]
        BY <1>2 DEF First
  <2>2. /\ DecodeList(FlattenSeq(ss)) = its /\ Decode(EncodeList(ss)).content = FlattenSeq(ss)
        /\ ss \in Seq(Seq(Nat))
        BY <1>2, <2>1, ListRead
  <2>3. QED  BY <1>0, <1>1, <2>2, ListLonger DEF Fields
<1>4. PICK c, y : c = t.chainID /\ y = v - 27
      OBVIOUS
<1>5. c \in Nat /\ c # 0 /\ y \in Nat /\ YParity(v) = y
      BY <1>4, Defaults DEF YParity
<1>6. /\ its[1] = String(HexBytes(c)) /\ its[9] = AccessItem(t.accessList) /\ its[10] = String(ToBinary(y))
      /\ its[11] = String(ToBinary(r)) /\ its[12] = String(ToBinary(s))
      BY <1>1, <1>4, <1>5 DEF EIP1559Items
<1>7. Number(f[1]) = c /\ Number(f[10]) = y /\ Number(f[11]) = r /\ Number(f[12]) = s
      BY <1>3, <1>5, <1>6, NumberItem, HexItem
<1>8. First(f, 9) = EIP1559Fields(t)
      BY <1>2, <1>3
<1>9. Hash(t, "2") = <<2>> \o EncodeList(First(f, 9))
      BY <1>8 DEF Hash
<1>10. ReadEIP1559(f) = [size |-> 12, chainID |-> c, y |-> y, signed |-> Hash(t, "2")]
       BY <1>7, <1>9 DEF ReadEIP1559
<1>11. ReadAccessList(f[9]) = t.accessList
       BY <1>2, <1>3, <1>6, AccessListRead
<1>12. /\ f = EIP1559Items(t, v, r, s) /\ Len(f) = 12
       /\ Number(f[11]) = r /\ Number(f[12]) = s
       /\ ReadEIP1559(f) = [size |-> 12, chainID |-> t.chainID, y |-> v - 27, signed |-> Hash(t, "2")]
       /\ ReadAccessList(f[9]) = t.accessList
       BY <1>1, <1>2, <1>3, <1>4, <1>7, <1>10, <1>11
<1>13. EIP1559Says(f, t, v, r, s)
       BY <1>12 DEF EIP1559Says
<1>14. QED  BY <1>0, <1>1, <1>3, <1>13

\* A byte before a list is taken off again.
LEMMA TailOf == ASSUME NEW S, NEW x \in S, NEW l \in Seq(S) PROVE Tail(<<x>> \o l) = l
<1>1. PICK u, z, n : u = <<x>> /\ z = u \o l /\ n = Len(l)
      OBVIOUS
<1>2. u \in Seq(S) /\ Len(u) = 1 /\ n \in Nat
      BY <1>1, LenProperties
<1>3. z \in Seq(S) /\ Len(z) = 1 + n /\ \A i \in 1..1 + n : z[i] = IF i <= 1 THEN u[i] ELSE l[i - 1]
      BY <1>1, <1>2, ConcatProperties
<1>4. z # <<>>
      BY <1>2, <1>3, EmptySeq
<1>5. Tail(z) \in Seq(S) /\ Len(Tail(z)) = n /\ \A i \in 1..n : Tail(z)[i] = z[i + 1]
      BY <1>2, <1>3, <1>4, HeadTailProperties
<1>6. \A i \in 1..n : Tail(z)[i] = l[i]
  <2>1. TAKE i \in 1..n
  <2>2. i + 1 \in 1..1 + n /\ ~(i + 1 <= 1) /\ i + 1 - 1 = i
        BY <1>2
  <2>3. QED  BY <1>3, <1>5, <2>2
<1>7. Tail(z) = l
      BY <1>1, <1>5, <1>6, SeqEqual
<1>8. QED  BY <1>1, <1>7

\* r and s are read from the bytes, each from a word, and v after them.
WordsSay(bytes, v, r, s) ==
    /\ Len(bytes) = 2 * WordLength + 1 /\ bytes[2 * WordLength + 1] = v
    /\ ToInt(SubSeq(bytes, 1, WordLength)) = r
    /\ ToInt(SubSeq(bytes, WordLength + 1, 2 * WordLength)) = s

\* r, s and v are read from the bytes they are put in (ToHex, utils.go:121).
LEMMA WordsRead ==
    ASSUME NEW v, v \in {27, 28}, NEW r \in 0..(Order - 1), NEW s \in 0..(Order - 1)
    PROVE  WordsSay(Word(r) \o Word(s) \o <<v>>, v, r, s)
<1>0. PICK bytes : bytes = Word(r) \o Word(s) \o <<v>>
      OBVIOUS
<1>1. PICK a, b, u, w : a = Word(r) /\ b = Word(s) /\ u = <<v>> /\ w = WordLength
      OBVIOUS
<1>2. /\ a \in Seq(Byte) /\ Len(a) = w /\ ToInt(a) = r
      /\ b \in Seq(Byte) /\ Len(b) = w /\ ToInt(b) = s
      /\ u \in Seq(Byte) /\ Len(u) = 1 /\ u[1] = v /\ w \in Nat
  <2>1. v \in Byte
        BY DEF Byte
  <2>2. QED  BY <1>1, <2>1, WordBack, WordAssumption
<1>3. PICK c : c = a \o b
      OBVIOUS
<1>4. c \in Seq(Byte) /\ Len(c) = w + w /\ \A i \in 1..w + w : c[i] = IF i <= w THEN a[i] ELSE b[i - w]
  <2>1. a \in Seq(Byte) /\ b \in Seq(Byte)
        BY <1>2
  <2>2. /\ c \in Seq(Byte) /\ Len(c) = Len(a) + Len(b)
        /\ \A i \in 1..Len(a) + Len(b) : c[i] = IF i <= Len(a) THEN a[i] ELSE b[i - Len(a)]
        BY <1>3, <2>1, ConcatProperties
  <2>3. QED  BY <1>2, <2>2
<1>5. PICK z : z = c \o u
      OBVIOUS
<1>6. z \in Seq(Byte) /\ Len(z) = w + w + 1 /\ \A i \in 1..w + w + 1 : z[i] = IF i <= w + w THEN c[i] ELSE u[i - (w + w)]
  <2>1. c \in Seq(Byte) /\ u \in Seq(Byte)
        BY <1>2, <1>4
  <2>2. /\ z \in Seq(Byte) /\ Len(z) = Len(c) + Len(u)
        /\ \A i \in 1..Len(c) + Len(u) : z[i] = IF i <= Len(c) THEN c[i] ELSE u[i - Len(c)]
        BY <1>5, <2>1, ConcatProperties
  <2>3. QED  BY <1>2, <1>4, <2>2
<1>7. bytes = z
      BY <1>0, <1>1, <1>3, <1>5
<1>8. z[2 * w + 1] = v
  <2>1. PICK m : m = 2 * w + 1
        OBVIOUS
  <2>2. m \in 1..w + w + 1 /\ ~(m <= w + w) /\ m - (w + w) = 1
        BY <1>2, <2>1
  <2>3. QED  BY <1>2, <1>6, <2>1, <2>2
<1>9. SubSeq(z, 1, w) = a
  <2>1. 1 \in Int /\ w \in Int /\ \A i \in 1..w : z[i] \in Byte
        BY <1>2, <1>6, ElementOfSeq
  <2>2. /\ SubSeq(z, 1, w) \in Seq(Byte) /\ Len(SubSeq(z, 1, w)) = IF 1 <= w THEN w - 1 + 1 ELSE 0
        /\ \A i \in 1..w - 1 + 1 : SubSeq(z, 1, w)[i] = z[1 + i - 1]
        BY <2>1, SubSeqProperties
  <2>3. Len(SubSeq(z, 1, w)) = Len(a)
        BY <1>2, <2>2
  <2>4. \A i \in 1..Len(SubSeq(z, 1, w)) : SubSeq(z, 1, w)[i] = a[i]
    <3>1. TAKE i \in 1..Len(SubSeq(z, 1, w))
    <3>2. i \in 1..w /\ i \in 1..w - 1 + 1 /\ 1 + i - 1 = i /\ i \in 1..w + w + 1 /\ i \in 1..w + w /\ i <= w + w /\ i <= w
          BY <1>2, <2>3
    <3>3. SubSeq(z, 1, w)[i] = z[i]
          BY <2>2, <3>2
    <3>4. z[i] = c[i] /\ c[i] = a[i]
          BY <1>4, <1>6, <3>2
    <3>5. QED  BY <3>3, <3>4
  <2>5. QED  BY <1>2, <2>2, <2>3, <2>4, SeqEqual
<1>10. SubSeq(z, w + 1, 2 * w) = b
  <2>1. PICK m, k : m = w + 1 /\ k = 2 * w
        OBVIOUS
  <2>2. m \in Int /\ k \in Int /\ k - m + 1 = w /\ k = w + w /\ m >= 1
        BY <1>2, <2>1
  <2>3. \A i \in m..k : z[i] \in Byte
    <3>1. TAKE i \in m..k
    <3>2. i \in 1..Len(z)
          BY <1>2, <1>6, <2>2
    <3>3. QED  BY <1>6, <3>2, ElementOfSeq
  <2>4. /\ SubSeq(z, m, k) \in Seq(Byte) /\ Len(SubSeq(z, m, k)) = IF m <= k THEN k - m + 1 ELSE 0
        /\ \A i \in 1..k - m + 1 : SubSeq(z, m, k)[i] = z[m + i - 1]
        BY <2>2, <2>3, SubSeqProperties
  <2>5. Len(SubSeq(z, m, k)) = Len(b)
        BY <1>2, <2>2, <2>4
  <2>6. \A i \in 1..Len(SubSeq(z, m, k)) : SubSeq(z, m, k)[i] = b[i]
    <3>1. TAKE i \in 1..Len(SubSeq(z, m, k))
    <3>2. PICK j : j = m + i - 1
          OBVIOUS
    <3>3. i \in 1..w /\ i \in 1..k - m + 1
          BY <1>2, <2>2, <2>5
    <3>4. j \in 1..w + w + 1 /\ j \in 1..w + w /\ j <= w + w /\ ~(j <= w) /\ j - w = i
          BY <1>2, <2>1, <3>2, <3>3
    <3>5. SubSeq(z, m, k)[i] = z[j]
          BY <2>4, <3>2, <3>3
    <3>6. z[j] = c[j] /\ c[j] = b[i]
          BY <1>4, <1>6, <3>4
    <3>7. QED  BY <3>5, <3>6
  <2>7. SubSeq(z, m, k) = b
        BY <1>2, <2>4, <2>5, <2>6, SeqEqual
  <2>8. QED  BY <2>1, <2>7
<1>11. Len(z) = 2 * w + 1
       BY <1>2, <1>6
<1>12. /\ Len(bytes) = 2 * WordLength + 1 /\ bytes[2 * WordLength + 1] = v
       /\ ToInt(SubSeq(bytes, 1, WordLength)) = r
       /\ ToInt(SubSeq(bytes, WordLength + 1, 2 * WordLength)) = s
       BY <1>1, <1>2, <1>7, <1>8, <1>9, <1>10, <1>11
<1>13. WordsSay(bytes, v, r, s)
       BY <1>12 DEF WordsSay
<1>14. QED  BY <1>0, <1>13
-----------------------------------------------------------------------------
(* The signature *)
\* The answer is there from the moment the backend has given it until the
\* next request, and not before.
AnswerOnTime ==
    /\ pc \in {"idle", "sign"} => answer = Nothing
    /\ pc \in {"assemble", "encode", "done"} => answer \in Answers
    /\ answer # Nothing => answer \in Answers

IInv == AnswerOnTime /\ SignaturesLowAndOwn /\ GoodAnswersSign

\* An answer is a record of numbers.
LEMMA AnswerFields ==
    ASSUME NEW a \in Answers
    PROVE  a.r \in Nat /\ a.s \in Nat /\ a.v \in {27, 28} /\ a.by \in Account
BY InputAssumption DEF Answer

\* signatureToLowS: s is at most half of the order afterwards, and the point it
\* stands for is the one it stood for or its opposite.
LEMMA LowS ==
    ASSUME NEW s \in 1..(Order - 1)
    PROVE  /\ SignatureToLowS(s) \in 1..HalfOrder
           /\ SignatureToLowS(s) \in {s, Order - s}
BY OrderAssumption DEF SignatureToLowS, HalfOrder

\* recoverV finds the recovery byte of a normalised signature of the account
\* that was asked for.
LEMMA RecoverVFinds ==
    ASSUME answer \in Answers, answer.s \in 1..(Order - 1), answer.by = request.from
    PROVE  RecoverV(SignatureToLowS(answer.s)) # {}
<1> DEFINE low == SignatureToLowS(answer.s)
<1>1. answer.v \in {27, 28} /\ low \in {answer.s, Order - answer.s}
      BY AnswerFields, LowS
<1>2. CASE low = answer.s
  <2>1. RecoverCompact(answer.v, answer.r, low, payload) = request.from
        BY <1>2 DEF RecoverCompact
  <2>2. answer.v \in 27..28
        BY <1>1
  <2>3. QED  BY <2>1, <2>2 DEF RecoverV
<1>3. CASE low = Order - answer.s
  <2>1. 55 - answer.v \in 27..28 /\ 55 - answer.v \in Nat /\ answer.v = 55 - (55 - answer.v)
        BY <1>1
  <2>2. RecoverCompact(55 - answer.v, answer.r, low, payload) = request.from
        BY <1>3 DEF RecoverCompact
  <2>3. QED  BY <2>1, <2>2 DEF RecoverV
<1>4. QED  BY <1>1, <1>2, <1>3

\* The invariant holds to begin with.
LEMMA InitHolds == ASSUME Init PROVE IInv
BY DEF Init, IInv, AnswerOnTime, SignaturesLowAndOwn, GoodAnswersSign, Nothing

\* The whole of the step that normalises and checks: its signature is low and
\* recovers, and it turns no good answer down.
LEMMA AssembleHolds == ASSUME IInv, AssembleRecoverableSignature PROVE IInv'
<1> DEFINE low == SignatureToLowS(answer.s)
           Good == ValidateBackendSignature(answer) /\ RecoverV(low) # {}
<1>1. /\ pc = "assemble" /\ answer \in Answers
      /\ UNCHANGED <<request, payload, answer>>
      BY DEF IInv, AnswerOnTime, AssembleRecoverableSignature
<1>2. CASE Good
  <2>1. pc' = "encode" /\ signature' = [v |-> IF 27 \in RecoverV(low) THEN 27 ELSE 28, r |-> answer.r, s |-> low]
        BY <1>2 DEF AssembleRecoverableSignature
  <2>2. answer.r \in 1..(Order - 1) /\ answer.s \in 1..(Order - 1)
        BY <1>2 DEF ValidateBackendSignature
  <2>3. signature'.v \in RecoverV(low)
        BY <1>2, <2>1 DEF RecoverV
  <2>4. RecoverCompact(signature'.v, answer.r, low, payload) = request.from
        BY <2>3 DEF RecoverV
  <2>5. RecoverCompact(signature.v, signature.r, signature.s, payload)' = request.from'
        BY <1>1, <2>1, <2>4 DEF RecoverCompact
  <2>6. low \in 1..HalfOrder
        BY <2>2, LowS
  <2>7. SignaturesLowAndOwn'
        BY <2>1, <2>2, <2>5, <2>6 DEF SignaturesLowAndOwn, HalfOrder
  <2>8. QED  BY <1>1, <2>1, <2>7 DEF IInv, AnswerOnTime, GoodAnswersSign
<1>3. CASE ~Good
  <2>1. pc' = "error"
        BY <1>3 DEF AssembleRecoverableSignature
  <2>2. ~(/\ answer.by = request.from
          /\ answer.size = 2 * WordLength
          /\ {answer.r, answer.s} \subseteq 1..(Order - 1))
        BY <1>1, <1>3, RecoverVFinds DEF ValidateBackendSignature
  <2>3. QED  BY <1>1, <2>1, <2>2 DEF IInv, AnswerOnTime, SignaturesLowAndOwn, GoodAnswersSign
<1>4. QED  BY <1>2, <1>3

\* No step breaks the invariant.
LEMMA StepHolds == ASSUME IInv, [Next]_vars PROVE IInv'
<1> USE DEF IInv, AnswerOnTime, SignaturesLowAndOwn, GoodAnswersSign
<1>1. CASE SignTx
      BY <1>1 DEF SignTx, Nothing
<1>2. CASE SignTypedData
      BY <1>2 DEF SignTypedData, Nothing
<1>3. CASE BackendSigns
      BY <1>3 DEF BackendSigns
<1>4. CASE AssembleRecoverableSignature
      BY <1>4, AssembleHolds
<1>5. CASE RLPEncode
      BY <1>5 DEF RLPEncode, RecoverCompact
<1>6. CASE ToHex
      BY <1>6 DEF ToHex, RecoverCompact
<1>7. CASE Reply
      BY <1>7 DEF Reply, Nothing
<1>8. CASE UNCHANGED vars
      BY <1>8 DEF vars, RecoverCompact
<1>9. QED  BY <1>1, <1>2, <1>3, <1>4, <1>5, <1>6, <1>7, <1>8 DEF Next

\* The invariant holds throughout.
LEMMA Invariance == Spec => []IInv
<1>1. Init => IInv
      BY InitHolds
<1>2. IInv /\ [Next]_vars => IInv'
      BY StepHolds
<1>3. QED  BY <1>1, <1>2, PTL DEF Spec

(* Whatever the backend answers, a signature that leaves the connector is low
   and recovers the account it was asked for, over the payload that was to be
   signed (assembleRecoverableSignature, hsm_connector.go:397). *)
THEOREM LowAndOwn == Spec => []SignaturesLowAndOwn
<1>1. IInv => SignaturesLowAndOwn
      BY DEF IInv
<1>2. QED  BY <1>1, Invariance, PTL

(* No signature of the right account is turned down, high or low and with
   either recovery byte (recoverV, hsm_connector.go:369). *)
THEOREM GoodAnswersAccepted == Spec => []GoodAnswersSign
<1>1. IInv => GoodAnswersSign
      BY DEF IInv
<1>2. QED  BY <1>1, Invariance, PTL
-----------------------------------------------------------------------------
(* From the request to the answer *)
\* What is signed is what was asked for, from the request to the answer.
PayloadAsAsked ==
    pc \in {"sign", "assemble", "encode", "done"} =>
        \/ request.type = "typed" /\ request.asked \in TypedData /\ payload = request.asked.hash
        \/ /\ request.type \in {"0", "2"} /\ request.asked \in Transactions /\ request.asked.chainID >= 1
           /\ request.type = IdentifyTxType(request.asked)
           /\ payload = Hash(request.asked, request.type)

SignatureOfAnswer ==
    pc \in {"encode", "done"} =>
        signature.v \in {27, 28} /\ signature.r = answer.r /\ signature.s \in {answer.s, Order - answer.s}

OutputOfSignature ==
    pc = "done" =>
        LET list == EncodeList(FieldsWithSignature(request.asked, request.type, signature.v, signature.r, signature.s)) IN
        output = CASE request.type = "typed" -> Word(signature.r) \o Word(signature.s) \o <<signature.v>>
                   [] request.type = "0" -> list
                   [] request.type = "2" -> <<2>> \o list

EncodedAsAsked == PayloadAsAsked /\ SignatureOfAnswer /\ OutputOfSignature

\* Nothing is asked for to begin with.
LEMMA EncodedStart == ASSUME Init PROVE EncodedAsAsked
BY DEF Init, EncodedAsAsked, PayloadAsAsked, SignatureOfAnswer, OutputOfSignature

\* No step signs, or answers with, another thing than what was asked for.
LEMMA EncodedStep == ASSUME IInv, EncodedAsAsked, [Next]_vars PROVE EncodedAsAsked'
<1> USE DEF EncodedAsAsked
<1>1. CASE SignTx
  <2>1. pc' \in {"sign", "error"}
        BY <1>1 DEF SignTx
  <2>2. ASSUME pc' = "sign" PROVE PayloadAsAsked'
    <3>1. PICK t \in Transactions :
            /\ request' = [type |-> IdentifyTxType(t), from |-> t.from, asked |-> t]
            /\ t.chainID >= 1 /\ IdentifyTxType(t) \in {"0", "2"} /\ payload' = Hash(t, IdentifyTxType(t))
          BY <1>1, <2>2 DEF SignTx
    <3>2. request'.type = IdentifyTxType(t) /\ request'.asked = t
          BY <3>1
    <3>3. QED  BY <3>1, <3>2 DEF PayloadAsAsked
  <2>3. QED  BY <2>1, <2>2 DEF PayloadAsAsked, SignatureOfAnswer, OutputOfSignature
<1>2. CASE SignTypedData
  <2>1. pc' \in {"sign", "error"}
        BY <1>2 DEF SignTypedData
  <2>2. ASSUME pc' = "sign" PROVE PayloadAsAsked'
    <3>1. PICK t \in TypedData : request' = [type |-> "typed", from |-> t.from, asked |-> t] /\ payload' = t.hash
          BY <1>2, <2>2 DEF SignTypedData
    <3>2. QED  BY <3>1 DEF PayloadAsAsked
  <2>3. QED  BY <2>1, <2>2 DEF PayloadAsAsked, SignatureOfAnswer, OutputOfSignature
<1>3. CASE BackendSigns
  <2>1. pc = "sign" /\ pc' \in {"assemble", "error"} /\ UNCHANGED <<request, payload>>
        BY <1>3 DEF BackendSigns
  <2>2. QED  BY <2>1 DEF PayloadAsAsked, SignatureOfAnswer, OutputOfSignature
<1>4. CASE AssembleRecoverableSignature
  <2>1. pc = "assemble" /\ pc' \in {"encode", "error"} /\ UNCHANGED <<request, payload, answer>>
        BY <1>4 DEF AssembleRecoverableSignature
  <2>2. ASSUME pc' = "encode" PROVE SignatureOfAnswer'
    <3> DEFINE low == SignatureToLowS(answer.s)
    <3>1. /\ ValidateBackendSignature(answer)
          /\ signature' = [v |-> IF 27 \in RecoverV(low) THEN 27 ELSE 28, r |-> answer.r, s |-> low]
          BY <1>4, <2>2 DEF AssembleRecoverableSignature
    <3>2. answer.s \in 1..(Order - 1)
          BY <3>1 DEF ValidateBackendSignature
    <3>3. low \in {answer.s, Order - answer.s}
          BY <3>2, LowS
    <3> HIDE DEF low
    <3>4. signature'.v \in {27, 28} /\ signature'.r = answer.r /\ signature'.s = low
          BY <3>1
    <3>5. QED  BY <2>1, <3>3, <3>4 DEF SignatureOfAnswer
  <2>3. QED  BY <2>1, <2>2 DEF PayloadAsAsked, SignatureOfAnswer, OutputOfSignature
<1>5. CASE RLPEncode
  <2> DEFINE list == EncodeList(FieldsWithSignature(request.asked, request.type, signature.v, signature.r, signature.s))
  <2>1. /\ pc = "encode" /\ pc' = "done" /\ UNCHANGED <<request, payload, answer, signature>>
        /\ request.type \in {"0", "2"}
        /\ output' = IF request.type = "0" THEN list ELSE <<2>> \o list
        BY <1>5 DEF RLPEncode
  <2>2. list' = list
        BY <2>1
  <2> HIDE DEF list
  <2>3. output' = CASE request.type = "typed" -> Word(signature.r) \o Word(signature.s) \o <<signature.v>>
                    [] request.type = "0" -> list
                    [] request.type = "2" -> <<2>> \o list
        BY <2>1
  <2>4. OutputOfSignature'
        BY <2>1, <2>2, <2>3 DEF OutputOfSignature, list
  <2>5. QED  BY <2>1, <2>4 DEF PayloadAsAsked, SignatureOfAnswer
<1>6. CASE ToHex
  <2>1. /\ pc = "encode" /\ pc' = "done" /\ UNCHANGED <<request, payload, answer, signature>>
        /\ request.type = "typed"
        /\ output' = Word(signature.r) \o Word(signature.s) \o <<signature.v>>
        BY <1>6 DEF ToHex
  <2>2. QED  BY <2>1 DEF PayloadAsAsked, SignatureOfAnswer, OutputOfSignature
<1>7. CASE Reply
      BY <1>7 DEF Reply, PayloadAsAsked, SignatureOfAnswer, OutputOfSignature
<1>8. CASE UNCHANGED vars
      BY <1>8 DEF vars, PayloadAsAsked, SignatureOfAnswer, OutputOfSignature
<1>9. QED  BY <1>1, <1>2, <1>3, <1>4, <1>5, <1>6, <1>7, <1>8 DEF Next

\* So the payload, the signature and the answer are those of the request.
LEMMA EncodedThroughout == Spec => []EncodedAsAsked
<1>1. Init => EncodedAsAsked
      BY EncodedStart
<1>2. IInv /\ IInv' /\ EncodedAsAsked /\ [Next]_vars => EncodedAsAsked'
      BY EncodedStep
<1>3. QED  BY <1>1, <1>2, Invariance, PTL DEF Spec

\* The numbers of a signature that is answered, and the room for them.
LEMMA SignatureNumbers ==
    ASSUME IInv, EncodedAsAsked, pc = "done"
    PROVE  /\ signature.v \in {27, 28} /\ signature.r \in 1..(Order - 1) /\ signature.s \in 1..(Order - 1)
           /\ signature.r \in Nat /\ signature.s \in Nat
           /\ RecoverCompact(signature.v, signature.r, signature.s, payload) = request.from
           /\ request.type \in {"0", "2"} =>
                Fits(FieldsWithSignature(request.asked, request.type, signature.v, signature.r, signature.s))
<1>1. /\ signature.s \in 1..HalfOrder /\ signature.r \in 1..(Order - 1)
      /\ RecoverCompact(signature.v, signature.r, signature.s, payload) = request.from
      BY DEF IInv, SignaturesLowAndOwn
<1>2. signature.v \in {27, 28} /\ signature.r = answer.r /\ signature.s \in {answer.s, Order - answer.s}
      BY DEF EncodedAsAsked, SignatureOfAnswer
<1>3. answer \in Answers
      BY DEF IInv, AnswerOnTime
<1>4. signature.s \in 1..(Order - 1)
      BY <1>1, OrderAssumption DEF HalfOrder
<1>5. ASSUME request.type \in {"0", "2"}
      PROVE  Fits(FieldsWithSignature(request.asked, request.type, signature.v, signature.r, signature.s))
  <2>1. PICK t, a, v, r, s :
          t = request.asked /\ a = answer /\ v = signature.v /\ r = signature.r /\ s = signature.s
        OBVIOUS
  <2>2. t \in Transactions /\ t.chainID >= 1 /\ request.type = IdentifyTxType(t)
        BY <1>5, <2>1 DEF EncodedAsAsked, PayloadAsAsked
  <2>3. a \in Answers /\ v \in {27, 28} /\ s \in {a.s, Order - a.s} /\ s \in 1..(Order - 1) /\ r = a.r
        BY <1>2, <1>3, <1>4, <2>1
  <2>4. Fits(FieldsWithSignature(t, IdentifyTxType(t), v, a.r, s))
        BY <1>5, <2>2, <2>3, SizeAssumption
  <2>5. QED  BY <2>1, <2>2, <2>3, <2>4
<1>6. signature.r \in Nat /\ signature.s \in Nat
      BY <1>1, <1>4, OrderAssumption
<1>7. QED  BY <1>1, <1>2, <1>4, <1>5, <1>6
-----------------------------------------------------------------------------
(* What the network makes of it *)
\* The fields of what is answered, whose transaction they are of.
LEMMA FieldsOfLegacy ==
    ASSUME IInv, EncodedAsAsked, pc = "done", request.type = "0"
    PROVE  LET t == request.asked IN
           /\ t \in Transaction /\ t.chainID >= 1 /\ IdentifyTxType(t) = "0" /\ payload = Hash(t, "0")
           /\ SignedFields = LegacyItems(t, signature.v, signature.r, signature.s) /\ Len(SignedFields) = 9
           /\ Number(SignedFields[8]) = signature.r /\ Number(SignedFields[9]) = signature.s
           /\ ReadLegacy(SignedFields)
                = [size |-> 9, chainID |-> t.chainID, y |-> signature.v - 27, signed |-> Hash(t, "0")]
<1>1. PICK t, v, r, s : t = request.asked /\ v = signature.v /\ r = signature.r /\ s = signature.s
      OBVIOUS
<1>2. t \in Transactions /\ t.chainID >= 1 /\ IdentifyTxType(t) = "0" /\ payload = Hash(t, "0")
      BY <1>1 DEF EncodedAsAsked, PayloadAsAsked
<1>3. t \in Transaction
      BY <1>2, InputAssumption
<1>4. v \in {27, 28} /\ r \in Nat /\ s \in Nat /\ Fits(FieldsWithSignature(t, "0", v, r, s))
      BY <1>1, SignatureNumbers
<1>5. PICK list : list = EncodeList(FieldsWithSignature(t, "0", v, r, s))
      OBVIOUS
<1>6. output = list
  <2>1. output = CASE request.type = "typed" -> Word(signature.r) \o Word(signature.s) \o <<signature.v>>
                   [] request.type = "0" -> list
                   [] request.type = "2" -> <<2>> \o list
        BY <1>1, <1>5 DEF EncodedAsAsked, OutputOfSignature
  <2>2. QED  BY <2>1
<1>7. PICK f : f = SignedFields
      OBVIOUS
<1>8. f = Fields(EncodeList(FieldsWithSignature(t, "0", v, r, s)))
      BY <1>5, <1>6, <1>7 DEF SignedFields
<1>9. /\ f = LegacyItems(t, v, r, s) /\ Len(f) = 9
      /\ Number(f[8]) = r /\ Number(f[9]) = s
      /\ ReadLegacy(f) = [size |-> 9, chainID |-> t.chainID, y |-> v - 27, signed |-> Hash(t, "0")]
      BY <1>2, <1>3, <1>4, <1>8, LegacyRead
<1>10. QED  BY <1>1, <1>2, <1>3, <1>7, <1>9

\* The same, of a transaction of type 2.
LEMMA FieldsOfEIP1559 ==
    ASSUME IInv, EncodedAsAsked, pc = "done", request.type = "2"
    PROVE  LET t == request.asked IN
           /\ t \in Transaction /\ t.chainID >= 1 /\ IdentifyTxType(t) = "2" /\ payload = Hash(t, "2")
           /\ t.maxPriority \in Nat /\ t.maxFee \in Nat
           /\ SignedFields = EIP1559Items(t, signature.v, signature.r, signature.s) /\ Len(SignedFields) = 12
           /\ Number(SignedFields[11]) = signature.r /\ Number(SignedFields[12]) = signature.s
           /\ ReadEIP1559(SignedFields)
                = [size |-> 12, chainID |-> t.chainID, y |-> signature.v - 27, signed |-> Hash(t, "2")]
           /\ ReadAccessList(SignedFields[9]) = t.accessList
<1>1. PICK t, v, r, s : t = request.asked /\ v = signature.v /\ r = signature.r /\ s = signature.s
      OBVIOUS
<1>2. t \in Transactions /\ t.chainID >= 1 /\ IdentifyTxType(t) = "2" /\ payload = Hash(t, "2")
      BY <1>1 DEF EncodedAsAsked, PayloadAsAsked
<1>3. t \in Transaction
      BY <1>2, InputAssumption
<1>4. t.maxPriority \in Nat /\ t.maxFee \in Nat /\ t.accessList \in AccessList
  <2>1. Given(t.maxFee) /\ Given(t.maxPriority) /\ Given(t.accessList)
        BY <1>2, TypeOfTransaction
  <2>2. QED  BY <1>3, <2>1 DEF Transaction, Optional, Given
<1>5. v \in {27, 28} /\ r \in Nat /\ s \in Nat /\ Fits(FieldsWithSignature(t, "2", v, r, s))
      BY <1>1, SignatureNumbers
<1>6. PICK list : list = EncodeList(FieldsWithSignature(t, "2", v, r, s))
      OBVIOUS
<1>7. output = <<2>> \o list
  <2>1. output = CASE request.type = "typed" -> Word(signature.r) \o Word(signature.s) \o <<signature.v>>
                   [] request.type = "0" -> list
                   [] request.type = "2" -> <<2>> \o list
        BY <1>1, <1>6 DEF EncodedAsAsked, OutputOfSignature
  <2>2. QED  BY <2>1
<1>8. PICK f : f = Fields(EncodeList(FieldsWithSignature(t, "2", v, r, s)))
      OBVIOUS
<1>9. EIP1559Says(f, t, v, r, s) /\ EncodeList(FieldsWithSignature(t, "2", v, r, s)) \in Seq(Nat)
  <2>1. t.chainID >= 1 /\ t.maxPriority \in Nat /\ t.maxFee \in Nat /\ t.accessList \in AccessList
        BY <1>2, <1>4
  <2>2. v \in {27, 28} /\ r \in Nat /\ s \in Nat /\ Fits(FieldsWithSignature(t, "2", v, r, s))
        BY <1>5
  <2>3. /\ EIP1559Says(Fields(EncodeList(FieldsWithSignature(t, "2", v, r, s))), t, v, r, s)
        /\ EncodeList(FieldsWithSignature(t, "2", v, r, s)) \in Seq(Nat)
        BY <1>3, <2>1, <2>2, EIP1559Read
  <2>4. QED  BY <1>8, <2>3
<1>10. SignedFields = f
  <2>1. Tail(<<2>> \o list) = list
        BY <1>6, <1>9, TailOf
  <2>2. QED  BY <1>6, <1>7, <1>8, <2>1 DEF SignedFields
<1>11. QED  BY <1>1, <1>2, <1>3, <1>4, <1>9, <1>10 DEF EIP1559Says

\* The state invariants say that the account is recovered.
LEMMA Recovered == ASSUME IInv, EncodedAsAsked PROVE SenderRecovers
<1>1. SUFFICES ASSUME pc = "done" PROVE IF request.type = "typed" THEN TypedDataRecovers ELSE TransactionRecovers
      BY DEF SenderRecovers
<1>2. /\ signature.v \in {27, 28} /\ signature.r \in 1..(Order - 1) /\ signature.s \in 1..(Order - 1)
      /\ RecoverCompact(signature.v, signature.r, signature.s, payload) = request.from
      BY <1>1, SignatureNumbers
<1>3. CASE request.type = "typed"
  <2>1. payload = request.asked.hash
        BY <1>1, <1>3 DEF EncodedAsAsked, PayloadAsAsked
  <2>2. PICK v, r, s : v = signature.v /\ r = signature.r /\ s = signature.s
        OBVIOUS
  <2>3. output = Word(r) \o Word(s) \o <<v>>
    <3>1. PICK list : list = EncodeList(FieldsWithSignature(request.asked, request.type, signature.v, signature.r, signature.s))
          OBVIOUS
    <3>2. output = CASE request.type = "typed" -> Word(signature.r) \o Word(signature.s) \o <<signature.v>>
                     [] request.type = "0" -> list
                     [] request.type = "2" -> <<2>> \o list
          BY <1>1, <3>1 DEF EncodedAsAsked, OutputOfSignature
    <3>3. QED  BY <1>3, <2>2, <3>2
  <2>4. v \in {27, 28} /\ r \in 0..(Order - 1) /\ s \in 0..(Order - 1)
        BY <1>2, <2>2, OrderAssumption
  <2>5. /\ Len(output) = 2 * WordLength + 1 /\ output[2 * WordLength + 1] = v
        /\ ToInt(SubSeq(output, 1, WordLength)) = r
        /\ ToInt(SubSeq(output, WordLength + 1, 2 * WordLength)) = s
    <3>1. WordsSay(Word(r) \o Word(s) \o <<v>>, v, r, s)
          BY <2>4, WordsRead
    <3>2. WordsSay(output, v, r, s)
          BY <2>3, <3>1
    <3>3. QED  BY <3>2 DEF WordsSay
  <2>6. RecoverCompact(v, r, s, request.asked.hash) = request.from
        BY <1>2, <2>1, <2>2
  <2>7. QED  BY <1>3, <2>5, <2>6 DEF TypedDataRecovers
<1>4. CASE request.type = "0"
  <2>1. PICK t, f, v : t = request.asked /\ f = SignedFields /\ v = signature.v
        OBVIOUS
  <2>2. /\ payload = Hash(t, "0") /\ Len(f) = 9 /\ Number(f[8]) = signature.r /\ Number(f[9]) = signature.s
        /\ ReadLegacy(f) = [size |-> 9, chainID |-> t.chainID, y |-> v - 27, signed |-> Hash(t, "0")]
        BY <1>1, <1>4, <2>1, FieldsOfLegacy
  <2>3. PICK read : read = ReadLegacy(f)
        OBVIOUS
  <2>4. /\ read.size = 9 /\ read.chainID = t.chainID /\ read.signed = payload /\ 27 + read.y = v
        /\ read.size - 1 = 8
        BY <1>2, <2>1, <2>2, <2>3
  <2>5. RecoverCompact(27 + read.y, Number(f[read.size - 1]), Number(f[read.size]), read.signed) = request.from
        BY <1>2, <2>1, <2>2, <2>4
  <2>6. Len(f) = read.size
        BY <2>2, <2>4
  <2>7. TransactionRecovers
        BY <1>4, <2>1, <2>3, <2>4, <2>5, <2>6 DEF TransactionRecovers
  <2>8. QED  BY <1>4, <2>7
<1>5. CASE request.type = "2"
  <2>1. PICK t, f, v : t = request.asked /\ f = SignedFields /\ v = signature.v
        OBVIOUS
  <2>2. /\ payload = Hash(t, "2") /\ Len(f) = 12 /\ Number(f[11]) = signature.r /\ Number(f[12]) = signature.s
        /\ ReadEIP1559(f) = [size |-> 12, chainID |-> t.chainID, y |-> v - 27, signed |-> Hash(t, "2")]
        BY <1>1, <1>5, <2>1, FieldsOfEIP1559
  <2>3. PICK read : read = ReadEIP1559(f)
        OBVIOUS
  <2>4. /\ read.size = 12 /\ read.chainID = t.chainID /\ read.signed = payload /\ 27 + read.y = v
        /\ read.size - 1 = 11
        BY <1>2, <2>1, <2>2, <2>3
  <2>5. RecoverCompact(27 + read.y, Number(f[read.size - 1]), Number(f[read.size]), read.signed) = request.from
        BY <1>2, <2>1, <2>2, <2>4
  <2>6. Len(f) = read.size
        BY <2>2, <2>4
  <2>7. TransactionRecovers
        BY <1>5, <2>1, <2>3, <2>4, <2>5, <2>6 DEF TransactionRecovers
  <2>8. QED  BY <1>5, <2>7
<1>6. request.type \in {"typed", "0", "2"}
      BY <1>1 DEF EncodedAsAsked, PayloadAsAsked
<1>7. QED  BY <1>3, <1>4, <1>5, <1>6

\* The numbers of a transaction, in the fields they are sent in.
Sent(item, n) == Number(item) = n /\ Canonical(item)

\* The gas limit is sent as a number, with a leading zero when it is 0.
LEMMA GasSent ==
    ASSUME NEW t \in Transaction
    PROVE  LET item == String(HexBytes(Or(t.gas, DefaultGas))) IN
           Number(item) = Or(t.gas, DefaultGas) /\ (Canonical(item) \/ t.gas = 0)
<1>1. PICK n : n = Or(t.gas, DefaultGas)
      OBVIOUS
<1>2. n \in Nat
      BY <1>1, Defaults
<1>3. n = 0 => t.gas = 0
      BY <1>1 DEF Or, DefaultGas
<1>4. QED  BY <1>1, <1>2, <1>3, HexItem

\* The fields of a legacy transaction are those that the client gave.
LEMMA LegacySent ==
    ASSUME NEW t \in Transaction, NEW v, NEW r, NEW s
    PROVE  LET f == LegacyItems(t, v, r, s) IN
           /\ Sent(f[1], t.nonce) /\ Sent(f[2], Or(t.gasPrice, 0)) /\ Sent(f[5], Or(t.value, 0))
           /\ Number(f[3]) = Or(t.gas, DefaultGas) /\ (Canonical(f[3]) \/ t.gas = 0)
           /\ f[4].content = ToBytes(t) /\ f[6].content = t.data
<1>1. PICK f : f = LegacyItems(t, v, r, s)
      OBVIOUS
<1>2. /\ f[1] = String(ToBinary(t.nonce)) /\ f[2] = String(ToBinary(Or(t.gasPrice, 0)))
      /\ f[3] = String(HexBytes(Or(t.gas, DefaultGas))) /\ f[4] = String(ToBytes(t))
      /\ f[5] = String(ToBinary(Or(t.value, 0))) /\ f[6] = String(t.data)
      BY <1>1 DEF LegacyItems
<1>3. Sent(f[1], t.nonce) /\ Sent(f[2], Or(t.gasPrice, 0)) /\ Sent(f[5], Or(t.value, 0))
      BY <1>2, Defaults, NumberItem DEF Sent
<1>4. Number(f[3]) = Or(t.gas, DefaultGas) /\ (Canonical(f[3]) \/ t.gas = 0)
      BY <1>2, GasSent
<1>5. f[4].content = ToBytes(t) /\ f[6].content = t.data
      BY <1>2 DEF String
<1>6. QED  BY <1>1, <1>3, <1>4, <1>5

\* The fields of a transaction of type 2 are those that the client gave.
LEMMA EIP1559Sent ==
    ASSUME NEW t \in Transaction, t.chainID >= 1, t.maxPriority \in Nat, t.maxFee \in Nat, NEW v, NEW r, NEW s
    PROVE  LET f == EIP1559Items(t, v, r, s) IN
           /\ Sent(f[1], t.chainID) /\ Sent(f[2], t.nonce) /\ Sent(f[3], t.maxPriority) /\ Sent(f[4], t.maxFee)
           /\ Number(f[5]) = Or(t.gas, DefaultGas) /\ (Canonical(f[5]) \/ t.gas = 0)
           /\ f[6].content = ToBytes(t) /\ Sent(f[7], Or(t.value, 0)) /\ f[8].content = t.data
<1>1. PICK f : f = EIP1559Items(t, v, r, s)
      OBVIOUS
<1>2. /\ f[1] = String(HexBytes(t.chainID)) /\ f[2] = String(ToBinary(t.nonce))
      /\ f[3] = String(ToBinary(t.maxPriority)) /\ f[4] = String(ToBinary(t.maxFee))
      /\ f[5] = String(HexBytes(Or(t.gas, DefaultGas))) /\ f[6] = String(ToBytes(t))
      /\ f[7] = String(ToBinary(Or(t.value, 0))) /\ f[8] = String(t.data)
      BY <1>1 DEF EIP1559Items
<1>3. Sent(f[2], t.nonce) /\ Sent(f[3], t.maxPriority) /\ Sent(f[4], t.maxFee) /\ Sent(f[7], Or(t.value, 0))
      BY <1>2, Defaults, NumberItem DEF Sent
<1>4. Sent(f[1], t.chainID)
  <2>1. t.chainID \in Nat /\ t.chainID # 0
        BY Defaults
  <2>2. QED  BY <1>2, <2>1, HexItem DEF Sent
<1>5. Number(f[5]) = Or(t.gas, DefaultGas) /\ (Canonical(f[5]) \/ t.gas = 0)
      BY <1>2, GasSent
<1>6. f[6].content = ToBytes(t) /\ f[8].content = t.data
      BY <1>2 DEF String
<1>7. QED  BY <1>1, <1>3, <1>4, <1>5, <1>6

\* The state invariants say that the request is read from what is answered.
LEMMA SentAsAsked == ASSUME IInv, EncodedAsAsked PROVE SignedAsAsked
<1>1. SUFFICES ASSUME pc = "done", request.type \in {"0", "2"} PROVE SignedAsAsked
      BY DEF SignedAsAsked
<1>2. PICK t, f : t = request.asked /\ f = SignedFields
      OBVIOUS
<1>3. CASE request.type = "0"
  <2>1. /\ t \in Transaction /\ IdentifyTxType(t) = "0"
        /\ f = LegacyItems(t, signature.v, signature.r, signature.s)
        BY <1>1, <1>2, <1>3, FieldsOfLegacy
  <2>2. /\ Sent(f[1], t.nonce) /\ Sent(f[2], Or(t.gasPrice, 0)) /\ Sent(f[5], Or(t.value, 0))
        /\ Number(f[3]) = Or(t.gas, DefaultGas) /\ (Canonical(f[3]) \/ t.gas = 0)
        /\ f[4].content = ToBytes(t) /\ f[6].content = t.data
        BY <2>1, LegacySent
  <2>3. /\ ~Given(t.maxFee) /\ ~Given(t.maxPriority)
        /\ Given(t.gasPrice) => ~Given(t.accessList) /\ ~Given(t.blobFee) /\ ~t.others
        BY <2>1, TypeOfTransaction
  <2>4. request.type # "2"
        BY <1>3
  <2>5. QED  BY <1>1, <1>2, <1>3, <2>2, <2>3, <2>4 DEF SignedAsAsked, Sent
<1>4. CASE request.type = "2"
  <2>1. /\ t \in Transaction /\ t.chainID >= 1 /\ t.maxPriority \in Nat /\ t.maxFee \in Nat /\ IdentifyTxType(t) = "2"
        /\ f = EIP1559Items(t, signature.v, signature.r, signature.s)
        /\ ReadAccessList(f[9]) = t.accessList
        BY <1>1, <1>2, <1>4, FieldsOfEIP1559
  <2>2. /\ Sent(f[1], t.chainID) /\ Sent(f[2], t.nonce) /\ Sent(f[3], t.maxPriority) /\ Sent(f[4], t.maxFee)
        /\ Number(f[5]) = Or(t.gas, DefaultGas) /\ (Canonical(f[5]) \/ t.gas = 0)
        /\ f[6].content = ToBytes(t) /\ Sent(f[7], Or(t.value, 0)) /\ f[8].content = t.data
        BY <2>1, EIP1559Sent
  <2>3. ~Given(t.gasPrice) /\ ~Given(t.blobFee) /\ ~t.others
        BY <2>1, TypeOfTransaction
  <2>4. request.type # "0"
        BY <1>4
  <2>5. QED  BY <1>1, <1>2, <1>4, <2>1, <2>2, <2>3, <2>4 DEF SignedAsAsked, Sent
<1>5. QED  BY <1>1, <1>3, <1>4

(* Whoever receives what was signed recovers the account that was to sign it,
   on its chain, whatever is asked for and whatever the backend answers: the
   encoding with the signature (RLPEncode, types.go:278) is decoded to fields
   whose payload is the one that was hashed (Hash, types.go:357), the v of the
   transaction gives back the recovery byte (generateEthereumSignature,
   utils.go:14), and r and s come back from their words (ToHex, utils.go:121). *)
THEOREM NetworkRecoversSender == Spec => []SenderRecovers
<1>1. IInv /\ EncodedAsAsked => SenderRecovers
      BY Recovered
<1>2. QED  BY <1>1, Invariance, EncodedThroughout, PTL

(* The network reads from a signed transaction the fields of its kind as the
   client gave them, in numbers without a leading zero but for a gas limit of
   0, and nothing the client gave besides is missing from it, unless it is a
   legacy transaction without a gas price: that one misses no fee of type 2
   (RLPEncode, types.go:278, and identifyTxType, hsm_connector.go:656). *)
THEOREM NetworkReadsRequest == Spec => []SignedAsAsked
<1>1. IInv /\ EncodedAsAsked => SignedAsAsked
      BY SentAsAsked
<1>2. QED  BY <1>1, Invariance, EncodedThroughout, PTL
=============================================================================
