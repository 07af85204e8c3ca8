-------------------------- MODULE ImageLayout_proofs --------------------------
(***************************************************************************)
(* The images of ImageLayout, for any files: the size that is computed     *)
(* first is the one that is filled, the table leads from each file's first *)
(* cluster to its last, and nothing is written over.                       *)
(***************************************************************************)
EXTENDS ImageLayout, TLAPS, WellFoundedInduction

-----------------------------------------------------------------------------
(* Numbers and sums.                                                       *)

Below == {p \in Nat \X Nat : p[1] < p[2]}

(* What holds of some number holds of a least one.                         *)
LEMMA LeastExists ==
    ASSUME NEW S, S \subseteq Nat, S # {}
    PROVE  \E x \in S : \A y \in S : x <= y
<1>1. IsWellFoundedOn(Below, Nat)
  BY NatLessThanWellFounded DEF OpToRel, Below
<1>2. PICK x \in S : \A y \in S : ~ (<<y, x>> \in Below)
  BY <1>1, WFMin
<1>3. ASSUME NEW y \in S PROVE x <= y
  <2>1. x \in Nat /\ y \in Nat /\ <<y, x>> \in Nat \X Nat
    OBVIOUS
  <2> QED
    BY <1>2, <2>1 DEF Below
<1> QED
  BY <1>3

(* The sums up to n, one added to the other.                               *)
Adds(g, s, n) ==
    /\ g \in [0 .. n -> Nat] /\ g[0] = 0
    /\ \A k \in 1 .. n : g[k] = g[k - 1] + s[k]

(* There are such sums, so that Sums is one.                               *)
LEMMA SumsExist ==
    ASSUME NEW s \in Seq(Nat), NEW n \in 0 .. Len(s)
    PROVE  \E g : Adds(g, s, n)
<1>1. PICK Bad : Bad = {m \in 0 .. Len(s) : \A g : ~ Adds(g, s, m)}
  OBVIOUS
<1>2. SUFFICES ASSUME Bad # {} PROVE FALSE
  BY <1>1
<1>3. Bad \subseteq Nat
  BY <1>1
<1>4. PICK m \in Bad : \A y \in Bad : m <= y
  BY <1>2, <1>3, LeastExists
<1>5. m \in 0 .. Len(s) /\ \A g : ~ Adds(g, s, m)
  BY <1>1
<1>6. CASE m = 0
  <2>1. PICK g : g = [k \in 0 .. 0 |-> 0]
    OBVIOUS
  <2>2. Adds(g, s, 0)
    BY <2>1 DEF Adds
  <2> QED
    BY <1>5, <1>6, <2>2
<1>7. CASE m # 0
  <2>1. m - 1 \in 0 .. Len(s) /\ m - 1 \notin Bad
    BY <1>3, <1>4, <1>5, <1>7
  <2>2. PICK g : Adds(g, s, m - 1)
    BY <1>1, <2>1
  <2>3. PICK h : h = [k \in 0 .. m |-> IF k = m THEN g[m - 1] + s[m] ELSE g[k]]
    OBVIOUS
  <2>4. s[m] \in Nat /\ g[m - 1] \in Nat /\ m \in Nat
    BY <1>5, <1>7, <2>1, <2>2 DEF Adds
  <2>5. h \in [0 .. m -> Nat]
    BY <2>2, <2>3, <2>4 DEF Adds
  <2>6. h[0] = 0
    BY <1>5, <1>7, <2>2, <2>3 DEF Adds
  <2>7. ASSUME NEW k \in 1 .. m PROVE h[k] = h[k - 1] + s[k]
    <3>1. CASE k = m
      BY <2>3, <2>4, <3>1
    <3>2. CASE k # m
      <4>1. k \in 1 .. m - 1 /\ k - 1 \in 0 .. m - 1 /\ k - 1 # m
        BY <2>4, <3>2
      <4> QED
        BY <2>2, <2>3, <2>4, <3>2, <4>1 DEF Adds
    <3> QED
      BY <3>1, <3>2
  <2>8. Adds(h, s, m)
    BY <2>5, <2>6, <2>7 DEF Adds
  <2> QED
    BY <1>5, <2>8
<1> QED
  BY <1>6, <1>7

LEMMA SumsAdd ==
    ASSUME NEW s \in Seq(Nat)
    PROVE  Adds(Sums(s), s, Len(s))
<1>1. Len(s) \in 0 .. Len(s)
  OBVIOUS
<1>2. PICK g : Adds(g, s, Len(s))
  BY <1>1, SumsExist
<1>3. g = [k \in 0 .. Len(s) |-> IF k = 0 THEN 0 ELSE g[k - 1] + s[k]]
  <2>1. g = [k \in 0 .. Len(s) |-> g[k]]
    BY <1>2 DEF Adds
  <2>2. \A k \in 0 .. Len(s) : g[k] = IF k = 0 THEN 0 ELSE g[k - 1] + s[k]
    BY <1>2 DEF Adds
  <2> QED
    BY <2>1, <2>2
<1>4. Sums(s) = [k \in 0 .. Len(s) |-> IF k = 0 THEN 0 ELSE Sums(s)[k - 1] + s[k]]
  BY <1>3, Zenon DEF Sums
<1>5. PICK f : f = Sums(s)
  OBVIOUS
<1>6. f = [k \in 0 .. Len(s) |-> IF k = 0 THEN 0 ELSE f[k - 1] + s[k]]
  BY <1>4, <1>5
<1>7. PICK D : D = {k \in 0 .. Len(s) : f[k] # g[k]}
  OBVIOUS
<1>8. D = {}
  <2>1. SUFFICES ASSUME D # {} PROVE FALSE
    OBVIOUS
  <2>0. D \subseteq Nat
    BY <1>7
  <2>2. PICK k \in D : \A y \in D : k <= y
    BY <2>0, <2>1, LeastExists
  <2>3. k \in 0 .. Len(s) /\ f[k] # g[k]
    BY <1>7
  <2>4. k # 0
    BY <1>2, <1>6, <2>3 DEF Adds
  <2>5. k - 1 \in 0 .. Len(s) /\ k - 1 \notin D
    BY <2>2, <2>3, <2>4
  <2>6. f[k - 1] = g[k - 1]
    BY <1>7, <2>5
  <2>7. f[k] = f[k - 1] + s[k] /\ g[k] = g[k - 1] + s[k]
    <3>1. k \in 1 .. Len(s)
      BY <2>3, <2>4
    <3>2. g[k] = g[k - 1] + s[k]
      BY <1>2, <3>1 DEF Adds
    <3> QED
      BY <1>6, <2>3, <2>4, <3>2
  <2> QED
    BY <2>3, <2>6, <2>7
<1>9. f = [k \in 0 .. Len(s) |-> f[k]] /\ g = [k \in 0 .. Len(s) |-> g[k]]
  BY <1>2, <1>6 DEF Adds
<1>10. \A k \in 0 .. Len(s) : f[k] = g[k]
  BY <1>7, <1>8
<1>11. f = g
  BY <1>9, <1>10
<1> QED
  BY <1>2, <1>5, <1>11

(* They grow, since nothing that is added is negative.                     *)
LEMMA SumsGrow ==
    ASSUME NEW s \in Seq(Nat), NEW j \in 0 .. Len(s), NEW k \in 0 .. Len(s), j <= k
    PROVE  Sums(s)[j] <= Sums(s)[k]
<1>0. PICK f : f = Sums(s) /\ Adds(f, s, Len(s))
  BY SumsAdd
<1>1. PICK D : D = {m \in 0 .. Len(s) : j <= m /\ ~ (f[j] <= f[m])}
  OBVIOUS
<1>2. SUFFICES ASSUME D # {} PROVE FALSE
  BY <1>0, <1>1
<1>3. D \subseteq Nat
  BY <1>1
<1>4. PICK m \in D : \A y \in D : m <= y
  BY <1>2, <1>3, LeastExists
<1>5. m \in 0 .. Len(s) /\ j <= m /\ ~ (f[j] <= f[m])
  BY <1>1
<1>6. m # j
  <2>1. f[j] \in Nat
    BY <1>0 DEF Adds
  <2> QED
    BY <1>5, <2>1
<1>7. m - 1 \in 0 .. Len(s) /\ j <= m - 1 /\ m - 1 \notin D
  BY <1>4, <1>5, <1>6
<1>8. f[j] <= f[m - 1]
  BY <1>1, <1>7
<1>9. f[m] = f[m - 1] + s[m] /\ s[m] \in Nat /\ f[m - 1] \in Nat /\ f[j] \in Nat
  <2>1. m \in 1 .. Len(s)
    BY <1>5, <1>6
  <2> QED
    <3>1. f[m] = f[m - 1] + s[m] /\ f \in [0 .. Len(s) -> Nat]
      BY <1>0, <2>1 DEF Adds
    <3>2. s[m] \in Nat
      BY <2>1
    <3> QED
      BY <1>7, <3>1, <3>2
<1>10. f[j] <= f[m]
  BY <1>8, <1>9
<1> QED
  BY <1>5, <1>10

-----------------------------------------------------------------------------
(* Bytes.                                                                  *)

LEMMA FunctionIsSeq ==
    ASSUME NEW S, NEW n \in Nat, NEW f \in [1 .. n -> S]
    PROVE  f \in Seq(S) /\ Len(f) = n
OBVIOUS

LEMMA SeqElement ==
    ASSUME NEW S, NEW s \in Seq(S), NEW k \in 1 .. Len(s)
    PROVE  s[k] \in S
OBVIOUS

(* Or adds up the eight bits of a byte.                                    *)
LEMMA SumOfEight ==
    ASSUME NEW s \in Seq(Nat), Len(s) = 8
    PROVE  Total(s) = s[1] + s[2] + s[3] + s[4] + s[5] + s[6] + s[7] + s[8]
<1>1. PICK f : f = Sums(s) /\ Adds(f, s, 8)
  BY SumsAdd
<1>2. /\ f[0] = 0 /\ f[1] = f[0] + s[1] /\ f[2] = f[1] + s[2] /\ f[3] = f[2] + s[3]
      /\ f[4] = f[3] + s[4] /\ f[5] = f[4] + s[5] /\ f[6] = f[5] + s[6]
      /\ f[7] = f[6] + s[7] /\ f[8] = f[7] + s[8]
  <2>1. \A k \in 1 .. 8 : f[k] = f[k - 1] + s[k]
    BY <1>1 DEF Adds
  <2> QED
    BY <1>1, <2>1 DEF Adds
<1>3. ASSUME NEW k \in 1 .. 8 PROVE s[k] \in Nat
  <2>1. k \in 1 .. Len(s)
    OBVIOUS
  <2> QED
    BY <2>1, SeqElement
<1> QED
  BY <1>1, <1>2, <1>3 DEF Total

(* A byte that nothing has been put into becomes what is put into it.      *)
LEMMA OrOfZero ==
    ASSUME NEW n \in 0 .. 255
    PROVE  Or(0, n) = n
<1>1. PICK s : s = [k \in 1 .. 8 |-> IF Bit(0, k - 1) + Bit(n, k - 1) > 0 THEN 2 ^ (k - 1) ELSE 0]
  OBVIOUS
<1>2. /\ s[1] = IF n % 2 > 0 THEN 1 ELSE 0
      /\ s[2] = IF (n \div 2) % 2 > 0 THEN 2 ELSE 0
      /\ s[3] = IF (n \div 4) % 2 > 0 THEN 4 ELSE 0
      /\ s[4] = IF (n \div 8) % 2 > 0 THEN 8 ELSE 0
      /\ s[5] = IF (n \div 16) % 2 > 0 THEN 16 ELSE 0
      /\ s[6] = IF (n \div 32) % 2 > 0 THEN 32 ELSE 0
      /\ s[7] = IF (n \div 64) % 2 > 0 THEN 64 ELSE 0
      /\ s[8] = IF (n \div 128) % 2 > 0 THEN 128 ELSE 0
  BY <1>1 DEF Bit
<1>3. s \in Seq(Nat) /\ Len(s) = 8
  <2>1. \A k \in 1 .. 8 : s[k] \in Nat
    BY <1>2
  <2>2. s \in [1 .. 8 -> Nat]
    BY <1>1, <2>1
  <2> QED
    BY <2>2, FunctionIsSeq
<1>4. Or(0, n) = s[1] + s[2] + s[3] + s[4] + s[5] + s[6] + s[7] + s[8]
  BY <1>1, <1>3, SumOfEight DEF Or
<1> QED
  BY <1>2, <1>4

(* Bits of different halves of a byte add up.                              *)
LEMMA OrOfHalves ==
    ASSUME NEW m \in 0 .. 15, NEW n \in 0 .. 15
    PROVE  Or(m, n * 16) = m + n * 16
<1>1. PICK s : s = [k \in 1 .. 8 |-> IF Bit(m, k - 1) + Bit(n * 16, k - 1) > 0 THEN 2 ^ (k - 1) ELSE 0]
  OBVIOUS
<1>2. /\ s[1] = IF m % 2 > 0 THEN 1 ELSE 0
      /\ s[2] = IF (m \div 2) % 2 > 0 THEN 2 ELSE 0
      /\ s[3] = IF (m \div 4) % 2 > 0 THEN 4 ELSE 0
      /\ s[4] = IF (m \div 8) % 2 > 0 THEN 8 ELSE 0
      /\ s[5] = IF n % 2 > 0 THEN 16 ELSE 0
      /\ s[6] = IF (n \div 2) % 2 > 0 THEN 32 ELSE 0
      /\ s[7] = IF (n \div 4) % 2 > 0 THEN 64 ELSE 0
      /\ s[8] = IF (n \div 8) % 2 > 0 THEN 128 ELSE 0
  BY <1>1 DEF Bit
<1>3. s \in Seq(Nat) /\ Len(s) = 8
  <2>1. \A k \in 1 .. 8 : s[k] \in Nat
    BY <1>2
  <2>2. s \in [1 .. 8 -> Nat]
    BY <1>1, <2>1
  <2> QED
    BY <2>2, FunctionIsSeq
<1>4. Or(m, n * 16) = s[1] + s[2] + s[3] + s[4] + s[5] + s[6] + s[7] + s[8]
  BY <1>1, <1>3, SumOfEight DEF Or
<1> QED
  BY <1>2, <1>4

(* An entry of a table: two bytes as a number, and the bits of it.         *)
Byte == 0 .. 255

Bytes(N) == [0 .. N - 1 -> Byte]

Short(lo, hi) == lo + 256 * hi

Field(x, from, n) == (x \div 2 ^ from) % 2 ^ n

EntryIn(t, n) ==
    LET byte == (n * bits) \div 8
    IN Field(Short(t[byte], t[byte + 1]), (n * bits) % 8, bits)

(* The first of the two bytes of an entry of 12 bits with an odd number is *)
(* shared with the entry before, which has its lower half.                 *)
HalfFree(t, n) == bits = 12 /\ n % 2 = 1 => t[(n * bits) \div 8] < 16

(* What goes into the bytes of an entry of 16 bits, of one of 12 bits with *)
(* an even number, and of one with an odd number.                          *)
Low(v) == v % 256

High(v) == (v \div 256) % 256

HighHalf(v) == (v \div 256) % 16

LowHalf(v) == (v % 16) * 16

Upper(v) == (v \div 16) % 256

(* What putFATEnt does to the table: for 16 bits, for 12 bits with an even *)
(* number, and for 12 bits with an odd one.                                *)
LEMMA PutSixteen ==
    ASSUME bits = 16, NEW t, NEW n \in Nat, NEW v \in Nat
    PROVE  putFATEnt(t, n, v) = [t EXCEPT ![2 * n] = Low(v), ![2 * n + 1] = High(v)]
<1>1. PICK byte : byte = 2 * n
  OBVIOUS
<1>2. PICK first : first = Low(v)
  OBVIOUS
<1>3. PICK second : second = High(v)
  OBVIOUS
<1>4. PICK bit : bit = 0
  OBVIOUS
<1>5. byte = (n * bits) \div 8 /\ bit = (n * bits) % 8
  BY <1>4, <1>1
<1>6. first = Or(0, (v % 2 ^ (8 - bit)) * 2 ^ bit)
  <2>1. v % 256 \in 0 .. 255 /\ (v % 2 ^ (8 - bit)) * 2 ^ bit = v % 256
    BY <1>4
  <2> QED
    BY <2>1, <1>2, OrOfZero DEF Low
<1>7. first = Or(IF bit > 0 THEN t[byte] ELSE 0, (v % 2 ^ (8 - bit)) * 2 ^ bit)
  BY <1>4, <1>6
<1>8. second = (v \div 2 ^ (8 - bit)) % 2 ^ (IF bits - (8 - bit) < 8 THEN bits - (8 - bit) ELSE 8)
  BY <1>4, <1>3 DEF High
<1>9. putFATEnt(t, n, v) = [t EXCEPT ![byte] = first, ![byte + 1] = second]
  BY <1>5, <1>7, <1>8, Zenon DEF putFATEnt
<1> QED
  BY <1>1, <1>2, <1>3, <1>9, Zenon

LEMMA PutEven ==
    ASSUME bits = 12, NEW t, NEW k \in Nat, NEW v \in Nat
    PROVE  putFATEnt(t, 2 * k, v) = [t EXCEPT ![3 * k] = Low(v), ![3 * k + 1] = HighHalf(v)]
<1>1. PICK byte : byte = 3 * k
  OBVIOUS
<1>2. PICK first : first = Low(v)
  OBVIOUS
<1>3. PICK second : second = HighHalf(v)
  OBVIOUS
<1>4. PICK bit : bit = 0
  OBVIOUS
<1>5. byte = ((2 * k) * bits) \div 8 /\ bit = ((2 * k) * bits) % 8
  BY <1>4, <1>1
<1>6. first = Or(0, (v % 2 ^ (8 - bit)) * 2 ^ bit)
  <2>1. v % 256 \in 0 .. 255 /\ (v % 2 ^ (8 - bit)) * 2 ^ bit = v % 256
    BY <1>4
  <2> QED
    BY <2>1, <1>2, OrOfZero DEF Low
<1>7. first = Or(IF bit > 0 THEN t[byte] ELSE 0, (v % 2 ^ (8 - bit)) * 2 ^ bit)
  BY <1>4, <1>6
<1>8. second = (v \div 2 ^ (8 - bit)) % 2 ^ (IF bits - (8 - bit) < 8 THEN bits - (8 - bit) ELSE 8)
  BY <1>4, <1>3 DEF HighHalf
<1>9. putFATEnt(t, 2 * k, v) = [t EXCEPT ![byte] = first, ![byte + 1] = second]
  BY <1>5, <1>7, <1>8, Zenon DEF putFATEnt
<1> QED
  BY <1>1, <1>2, <1>3, <1>9, Zenon

LEMMA PutOdd ==
    ASSUME bits = 12, NEW t, NEW k \in Nat, t[3 * k + 1] \in 0 .. 15, NEW v \in Nat
    PROVE  putFATEnt(t, 2 * k + 1, v) 
             = [t EXCEPT ![3 * k + 1] = t[3 * k + 1] + LowHalf(v), ![(3 * k + 1) + 1] = Upper(v)]
<1>1. PICK byte : byte = 3 * k + 1
  OBVIOUS
<1>2. PICK first : first = t[byte] + LowHalf(v)
  OBVIOUS
<1>3. PICK second : second = Upper(v)
  OBVIOUS
<1>4. PICK bit : bit = 4
  OBVIOUS
<1>5. byte = ((2 * k + 1) * bits) \div 8 /\ bit = ((2 * k + 1) * bits) % 8
  BY <1>4, <1>1
<1>6. first = Or(t[byte], (v % 2 ^ (8 - bit)) * 2 ^ bit)
  <2>1. v % 16 \in 0 .. 15 /\ (v % 2 ^ (8 - bit)) * 2 ^ bit = (v % 16) * 16
    BY <1>4
  <2> QED
    BY <2>1, <1>1, <1>2, OrOfHalves DEF LowHalf
<1>7. first = Or(IF bit > 0 THEN t[byte] ELSE 0, (v % 2 ^ (8 - bit)) * 2 ^ bit)
  BY <1>4, <1>6
<1>8. second = (v \div 2 ^ (8 - bit)) % 2 ^ (IF bits - (8 - bit) < 8 THEN bits - (8 - bit) ELSE 8)
  BY <1>4, <1>3 DEF Upper
<1>9. putFATEnt(t, 2 * k + 1, v) = [t EXCEPT ![byte] = first, ![byte + 1] = second]
  BY <1>5, <1>7, <1>8, Zenon DEF putFATEnt
<1> QED
  BY <1>1, <1>2, <1>3, <1>9, Zenon

(* What is read of the table, in the same three cases.                     *)
LEMMA EntrySixteen ==
    ASSUME bits = 16, NEW t, NEW n \in Nat
    PROVE  EntryIn(t, n) = Field(Short(t[2 * n], t[2 * n + 1]), 0, 16)
<1>1. (n * bits) \div 8 = 2 * n /\ (n * bits) % 8 = 0
  OBVIOUS
<1> QED
  BY <1>1, Zenon DEF EntryIn

LEMMA EntryEven ==
    ASSUME bits = 12, NEW t, NEW k \in Nat
    PROVE  EntryIn(t, 2 * k) = Field(Short(t[3 * k], t[3 * k + 1]), 0, 12)
<1>1. ((2 * k) * bits) \div 8 = 3 * k /\ ((2 * k) * bits) % 8 = 0
  OBVIOUS
<1> QED
  BY <1>1, Zenon DEF EntryIn

LEMMA EntryOdd ==
    ASSUME bits = 12, NEW t, NEW k \in Nat
    PROVE  EntryIn(t, 2 * k + 1) = Field(Short(t[3 * k + 1], t[3 * k + 2]), 4, 12)
<1>1. ((2 * k + 1) * bits) \div 8 = 3 * k + 1 /\ ((2 * k + 1) * bits) % 8 = 4
      /\ (3 * k + 1) + 1 = 3 * k + 2
  OBVIOUS
<1> QED
  BY <1>1, Zenon DEF EntryIn

(* What is read of bytes as putFATEnt leaves them.                         *)
LEMMA FieldSixteen ==
    ASSUME NEW v \in Nat
    PROVE  Field(Short(Low(v), High(v)), 0, 16) = v % 2 ^ 16
<1>1. 2 ^ 0 = 1 /\ 2 ^ 16 = 65536
  BY SMT
<1>2. (v % 256) + 256 * ((v \div 256) % 256) = v % 65536
  BY SMT
<1> QED
  BY <1>1, <1>2, SMT DEF Field, Short, Low, High

LEMMA FieldEven ==
    ASSUME NEW v \in Nat
    PROVE  Field(Short(Low(v), HighHalf(v)), 0, 12) = v % 2 ^ 12
<1>1. 2 ^ 0 = 1 /\ 2 ^ 12 = 4096
  OBVIOUS
<1>2. (v % 256) + 256 * ((v \div 256) % 16) = v % 4096
  OBVIOUS
<1> QED
  BY <1>1, <1>2 DEF Field, Short, Low, HighHalf

LEMMA FieldOdd ==
    ASSUME NEW v \in Nat, NEW low \in 0 .. 15
    PROVE  Field(Short(low + LowHalf(v), Upper(v)), 4, 12) = v % 2 ^ 12
<1>1. 2 ^ 4 = 16 /\ 2 ^ 12 = 4096
  OBVIOUS
<1>2. (v % 16) + 16 * ((v \div 16) % 256) = v % 4096
  OBVIOUS
<1>3. low + (v % 16) * 16 + 256 * ((v \div 16) % 256) = low + 16 * (v % 4096)
  BY <1>2
<1>4. (low + 16 * (v % 4096)) \div 16 = v % 4096
  OBVIOUS
<1> QED
  BY <1>1, <1>3, <1>4 DEF Field, Short, LowHalf, Upper

(* What goes into the upper half of the byte that two entries share leaves *)
(* the entry before it alone.                                              *)
LEMMA FieldShared ==
    ASSUME NEW lo \in Byte, NEW low \in 0 .. 15, NEW v \in Nat
    PROVE  Field(Short(lo, low + LowHalf(v)), 0, 12) = Field(Short(lo, low), 0, 12)
<1>1. 2 ^ 0 = 1 /\ 2 ^ 12 = 4096
  OBVIOUS
<1>2. (lo + 256 * (low + LowHalf(v))) % 4096 = (lo + 256 * low) % 4096
  BY DEF Byte, LowHalf
<1> QED
  BY <1>1, <1>2 DEF Field, Short, Byte, LowHalf

TwoAre(N, t, b, x, y, u) ==
    /\ u \in Bytes(N) /\ u[b] = x /\ u[b + 1] = y
    /\ \A c \in 0 .. N - 1 : c # b /\ c # b + 1 => u[c] = t[c]

LEMMA TwoWritten ==
    ASSUME NEW N \in Nat, NEW t \in Bytes(N), NEW b \in Nat, b + 1 < N,
           NEW x \in Byte, NEW y \in Byte
    PROVE  TwoAre(N, t, b, x, y, [t EXCEPT ![b] = x, ![b + 1] = y])
<1>1. b \in 0 .. N - 1 /\ b + 1 \in 0 .. N - 1 /\ b # b + 1
  OBVIOUS
<1> QED
  BY <1>1 DEF Bytes, TwoAre

LEMMA WhatGoesIn ==
    ASSUME NEW v \in Nat
    PROVE  /\ Low(v) \in Byte /\ High(v) \in Byte /\ HighHalf(v) \in Byte /\ Upper(v) \in Byte
           /\ HighHalf(v) \in 0 .. 15
           /\ \A low \in 0 .. 15 : low + LowHalf(v) \in Byte
BY DEF Low, High, HighHalf, LowHalf, Upper, Byte

(* What putFATEnt writes can be read, and the entries before it are as     *)
(* they were: of an entry of 12 bits with an odd number the first byte has *)
(* room, and keeps what it had.                                            *)
Puts(N, t, n, v, u) ==
    /\ u \in Bytes(N)
    /\ HalfFree(u, n + 1)
    /\ EntryIn(u, n) = v % 2 ^ bits
    /\ \A m \in 0 .. n - 1 : EntryIn(u, m) = EntryIn(t, m)

(* The three cases of PutEntry.                                            *)
LEMMA PutsSixteen ==
    ASSUME bits = 16, NEW N \in Nat, NEW t \in Bytes(N), NEW n \in Nat, 2 * n + 1 < N, NEW v \in Nat
    PROVE  Puts(N, t, n, v, putFATEnt(t, n, v))
<1>1. PICK u : u = putFATEnt(t, n, v)
  OBVIOUS
<1>2. PICK b : b = 2 * n
  OBVIOUS
<1>3. u = [t EXCEPT ![b] = Low(v), ![b + 1] = High(v)]
  <2>1. putFATEnt(t, n, v) = [t EXCEPT ![2 * n] = Low(v), ![2 * n + 1] = High(v)]
    BY PutSixteen
  <2> QED
    BY <1>1, <1>2, <2>1, Zenon
<1>4. b \in Nat /\ b + 1 < N /\ Low(v) \in Byte /\ High(v) \in Byte
  BY <1>2, WhatGoesIn
<1>5. /\ u \in Bytes(N) /\ u[b] = Low(v) /\ u[b + 1] = High(v)
      /\ \A c \in 0 .. N - 1 : c # b /\ c # b + 1 => u[c] = t[c]
  <2>1. TwoAre(N, t, b, Low(v), High(v), [t EXCEPT ![b] = Low(v), ![b + 1] = High(v)])
    BY <1>4, TwoWritten
  <2>2. TwoAre(N, t, b, Low(v), High(v), u)
    BY <1>3, <2>1, Zenon
  <2> QED
    BY <2>2, Zenon DEF TwoAre
<1>6. HalfFree(u, n + 1)
  BY DEF HalfFree
<1>7. EntryIn(u, n) = v % 2 ^ bits
  BY <1>2, <1>5, EntrySixteen, FieldSixteen
<1>8. ASSUME NEW m \in 0 .. n - 1 PROVE EntryIn(u, m) = EntryIn(t, m)
  <2>1. u[2 * m] = t[2 * m] /\ u[2 * m + 1] = t[2 * m + 1]
    BY <1>2, <1>4, <1>5
  <2>2. m \in Nat
    OBVIOUS
  <2> QED
    BY <2>1, <2>2, EntrySixteen, Zenon
<1> QED
  BY <1>1, <1>5, <1>6, <1>7, <1>8, Zenon DEF Puts

LEMMA PutsEven ==
    ASSUME bits = 12, NEW N \in Nat, NEW t \in Bytes(N), NEW k \in Nat, 3 * k + 1 < N, NEW v \in Nat
    PROVE  Puts(N, t, 2 * k, v, putFATEnt(t, 2 * k, v))
<1>1. PICK u : u = putFATEnt(t, 2 * k, v)
  OBVIOUS
<1>2. PICK b : b = 3 * k
  OBVIOUS
<1>3. u = [t EXCEPT ![b] = Low(v), ![b + 1] = HighHalf(v)]
  <2>1. putFATEnt(t, 2 * k, v) = [t EXCEPT ![3 * k] = Low(v), ![3 * k + 1] = HighHalf(v)]
    BY PutEven
  <2> QED
    BY <1>1, <1>2, <2>1, Zenon
<1>4. b \in Nat /\ b + 1 < N /\ Low(v) \in Byte /\ HighHalf(v) \in Byte
  BY <1>2, WhatGoesIn
<1>5. /\ u \in Bytes(N) /\ u[b] = Low(v) /\ u[b + 1] = HighHalf(v)
      /\ \A c \in 0 .. N - 1 : c # b /\ c # b + 1 => u[c] = t[c]
  <2>1. TwoAre(N, t, b, Low(v), HighHalf(v), [t EXCEPT ![b] = Low(v), ![b + 1] = HighHalf(v)])
    BY <1>4, TwoWritten
  <2>2. TwoAre(N, t, b, Low(v), HighHalf(v), u)
    BY <1>3, <2>1, Zenon
  <2> QED
    BY <2>2, Zenon DEF TwoAre
<1>6. HalfFree(u, 2 * k + 1)
  <2>1. ((2 * k + 1) * 12) \div 8 = b + 1
    BY <1>2
  <2>2. u[b + 1] \in 0 .. 15
    BY <1>5, WhatGoesIn
  <2>3. u[b + 1] < 16
    BY <2>2
  <2> QED
    BY <2>1, <2>3, Zenon DEF HalfFree
<1>7. EntryIn(u, 2 * k) = v % 2 ^ bits
  <2>1. EntryIn(u, 2 * k) = Field(Short(u[b], u[b + 1]), 0, 12)
    BY <1>2, EntryEven, Zenon
  <2> QED
    BY <1>5, <2>1, FieldEven, Zenon
<1>8. ASSUME NEW m \in 0 .. 2 * k - 1 PROVE EntryIn(u, m) = EntryIn(t, m)
  <2>1. CASE m % 2 = 0
    <3>1. PICK j \in Nat : m = 2 * j /\ j < k
      <4>1. m = 2 * (m \div 2) /\ m \div 2 \in Nat /\ m \div 2 < k
        BY <2>1
      <4> QED
        BY <4>1
    <3>2. u[3 * j] = t[3 * j] /\ u[3 * j + 1] = t[3 * j + 1]
      BY <1>2, <1>4, <1>5, <3>1
    <3> QED
      BY <3>1, <3>2, EntryEven, Zenon
  <2>2. CASE m % 2 # 0
    <3>1. PICK j \in Nat : m = 2 * j + 1 /\ j < k
      <4>1. m = 2 * (m \div 2) + 1 /\ m \div 2 \in Nat /\ m \div 2 < k
        BY <2>2
      <4> QED
        BY <4>1
    <3>2. u[3 * j + 1] = t[3 * j + 1] /\ u[3 * j + 2] = t[3 * j + 2]
      BY <1>2, <1>4, <1>5, <3>1
    <3> QED
      BY <3>1, <3>2, EntryOdd, Zenon
  <2> QED
    BY <2>1, <2>2
<1> QED
  BY <1>1, <1>5, <1>6, <1>7, <1>8, Zenon DEF Puts

LEMMA PutsOdd ==
    ASSUME bits = 12, NEW N \in Nat, NEW t \in Bytes(N), NEW k \in Nat, 3 * k + 2 < N, NEW v \in Nat,
           t[3 * k + 1] \in 0 .. 15
    PROVE  Puts(N, t, 2 * k + 1, v, putFATEnt(t, 2 * k + 1, v))
<1>1. PICK u : u = putFATEnt(t, 2 * k + 1, v)
  OBVIOUS
<1>2. PICK b : b = 3 * k + 1
  OBVIOUS
<1>3. PICK low : low = t[b]
  OBVIOUS
<1>4. low \in 0 .. 15
  BY <1>2, <1>3
<1>5. u = [t EXCEPT ![b] = low + LowHalf(v), ![b + 1] = Upper(v)]
  <2>1. putFATEnt(t, 2 * k + 1, v)
          = [t EXCEPT ![3 * k + 1] = t[3 * k + 1] + LowHalf(v), ![(3 * k + 1) + 1] = Upper(v)]
    BY PutOdd
  <2> QED
    BY <1>1, <1>2, <1>3, <2>1, Zenon
<1>6. b \in Nat /\ b + 1 < N /\ low + LowHalf(v) \in Byte /\ Upper(v) \in Byte
  <2>1. low + LowHalf(v) \in Byte /\ Upper(v) \in Byte
    BY <1>4, WhatGoesIn
  <2> QED
    BY <1>2, <2>1
<1>7. /\ u \in Bytes(N) /\ u[b] = low + LowHalf(v) /\ u[b + 1] = Upper(v)
      /\ \A c \in 0 .. N - 1 : c # b /\ c # b + 1 => u[c] = t[c]
  <2>1. TwoAre(N, t, b, low + LowHalf(v), Upper(v), [t EXCEPT ![b] = low + LowHalf(v), ![b + 1] = Upper(v)])
    BY <1>6, TwoWritten
  <2>2. TwoAre(N, t, b, low + LowHalf(v), Upper(v), u)
    BY <1>5, <2>1, Zenon
  <2> QED
    BY <2>2, Zenon DEF TwoAre
<1>8. HalfFree(u, (2 * k + 1) + 1)
  <2>1. ((2 * k + 1) + 1) % 2 # 1
    OBVIOUS
  <2> QED
    BY <2>1, Zenon DEF HalfFree
<1>9. EntryIn(u, 2 * k + 1) = v % 2 ^ bits
  <2>1. EntryIn(u, 2 * k + 1) = Field(Short(u[b], u[b + 1]), 4, 12)
    <3>1. b + 1 = 3 * k + 2
      BY <1>2
    <3> QED
      BY <1>2, <3>1, EntryOdd, Zenon
  <2>2. Field(Short(low + LowHalf(v), Upper(v)), 4, 12) = v % 2 ^ 12
    BY <1>4, FieldOdd
  <2> QED
    BY <1>7, <2>1, <2>2, Zenon
<1>10. ASSUME NEW m \in 0 .. (2 * k + 1) - 1 PROVE EntryIn(u, m) = EntryIn(t, m)
  <2>1. CASE m = 2 * k
    <3>1. u[3 * k] = t[3 * k] /\ t[3 * k] \in Byte
      <4>1. 3 * k \in 0 .. N - 1 /\ 3 * k # b /\ 3 * k # b + 1
        BY <1>2
      <4> QED
        BY <1>7, <4>1 DEF Bytes
    <3>2. Field(Short(t[3 * k], low + LowHalf(v)), 0, 12) = Field(Short(t[3 * k], low), 0, 12)
      BY <1>4, <3>1, FieldShared
    <3>3. EntryIn(u, 2 * k) = Field(Short(u[3 * k], u[b]), 0, 12)
      BY <1>2, EntryEven, Zenon
    <3>4. EntryIn(t, 2 * k) = Field(Short(t[3 * k], t[b]), 0, 12)
      BY <1>2, EntryEven, Zenon
    <3> QED
      BY <1>3, <1>7, <2>1, <3>1, <3>2, <3>3, <3>4, Zenon
  <2>2. CASE m # 2 * k /\ m % 2 = 0
    <3>1. PICK j \in Nat : m = 2 * j /\ j < k
      <4>1. m = 2 * (m \div 2) /\ m \div 2 \in Nat /\ m \div 2 < k
        BY <2>2
      <4> QED
        BY <4>1
    <3>2. u[3 * j] = t[3 * j] /\ u[3 * j + 1] = t[3 * j + 1]
      BY <1>2, <1>6, <1>7, <3>1
    <3> QED
      BY <3>1, <3>2, EntryEven, Zenon
  <2>3. CASE m % 2 # 0
    <3>1. PICK j \in Nat : m = 2 * j + 1 /\ j < k
      <4>1. m = 2 * (m \div 2) + 1 /\ m \div 2 \in Nat /\ m \div 2 < k
        BY <2>3
      <4> QED
        BY <4>1
    <3>2. u[3 * j + 1] = t[3 * j + 1] /\ u[3 * j + 2] = t[3 * j + 2]
      BY <1>2, <1>6, <1>7, <3>1
    <3> QED
      BY <3>1, <3>2, EntryOdd, Zenon
  <2> QED
    BY <2>1, <2>2, <2>3
<1> QED
  BY <1>1, <1>7, <1>8, <1>9, <1>10, Zenon DEF Puts

(* The entry that is put is there, the ones before it are as they were,    *)
(* and the next one finds its half of a byte free (putFATEnt).             *)
LEMMA PutEntry ==
    ASSUME bits \in {12, 16}, NEW N \in Nat, NEW t \in Bytes(N), NEW n \in Nat,
           (n * bits) \div 8 + 1 < N, HalfFree(t, n), NEW v \in Nat
    PROVE  Puts(N, t, n, v, putFATEnt(t, n, v))
<1>1. CASE bits = 16
  <2>1. 2 * n + 1 < N
    BY <1>1
  <2> QED
    BY <1>1, <2>1, PutsSixteen
<1>2. CASE bits = 12 /\ n % 2 = 0
  <2>1. PICK k \in Nat : n = 2 * k
    <3>1. n = 2 * (n \div 2) /\ n \div 2 \in Nat
      BY <1>2
    <3> QED
      BY <3>1
  <2>2. 3 * k + 1 < N
    BY <1>2, <2>1
  <2> QED
    BY <1>2, <2>1, <2>2, PutsEven
<1>3. CASE bits = 12 /\ n % 2 = 1
  <2>1. PICK k \in Nat : n = 2 * k + 1
    <3>1. n = 2 * (n \div 2) + 1 /\ n \div 2 \in Nat
      BY <1>3
    <3> QED
      BY <3>1
  <2>2. (n * bits) \div 8 = 3 * k + 1
    BY <1>3, <2>1
  <2>3. 3 * k + 2 < N /\ 3 * k + 1 \in 0 .. N - 1
    BY <2>2
  <2>4. t[3 * k + 1] \in 0 .. 15
    <3>1. t[3 * k + 1] \in Byte
      BY <2>3 DEF Bytes
    <3>2. t[3 * k + 1] < 16
      BY <1>3, <2>2, Zenon DEF HalfFree
    <3> QED
      BY <3>1, <3>2 DEF Byte
  <2> QED
    BY <1>3, <2>1, <2>3, <2>4, PutsOdd
<1> QED
  BY <1>1, <1>2, <1>3

-----------------------------------------------------------------------------
(* Counts of units, and what the files take up.                            *)

(* As many units hold what they are counted for, and one less does not.    *)
LEMMA UnitsHold ==
    ASSUME NEW n \in Nat, NEW u \in {8, 512, 2048}
    PROVE  /\ Units(n, u) \in Nat /\ Units(n, u) >= 1
           /\ n <= u * Units(n, u)
           /\ n > 0 => u * (Units(n, u) - 1) < n
<1>1. CASE n = 0
  BY <1>1 DEF Units
<1>2. CASE n # 0 /\ u = 8
  BY <1>2 DEF Units
<1>3. CASE n # 0 /\ u = 512
  BY <1>3 DEF Units
<1>4. CASE n # 0 /\ u = 2048
  BY <1>4 DEF Units
<1> QED
  BY <1>1, <1>2, <1>3, <1>4

LEMMA BlocksHold ==
    ASSUME NEW n \in Nat
    PROVE  /\ Units(n, BlockSize) \in Nat /\ Units(n, BlockSize) >= 1
           /\ n <= BlockSize * Units(n, BlockSize)
           /\ n > 0 => BlockSize * (Units(n, BlockSize) - 1) < n
<1>1. CASE n = 0
  BY <1>1, SMT DEF Units, BlockSize, MiB
<1>2. CASE n # 0
  BY <1>2, SMT DEF Units, BlockSize, MiB
<1> QED
  BY <1>1, <1>2

(* The files up to k take up as much as those before k and k itself.       *)
LEMMA BeforeNext ==
    ASSUME NEW s \in Seq(Nat), NEW k \in 1 .. Len(s)
    PROVE  /\ Before(1, s) = 0
           /\ Before(k, s) \in Nat /\ s[k] \in Nat
           /\ Before(k + 1, s) = Before(k, s) + s[k]
<1>1. PICK g : g = Sums(s) /\ Adds(g, s, Len(s))
  BY SumsAdd
<1>2. g[0] = 0 /\ g[k - 1] \in Nat /\ g[k] = g[k - 1] + s[k]
  <2>1. k - 1 \in 0 .. Len(s)
    OBVIOUS
  <2> QED
    BY <1>1, <2>1 DEF Adds
<1>3. (k + 1) - 1 = k /\ 1 - 1 = 0
  OBVIOUS
<1>4. s[k] \in Nat
  BY SeqElement
<1> QED
  BY <1>1, <1>2, <1>3, <1>4 DEF Before

(* A later file does not begin before an earlier one.                      *)
LEMMA BeforeLess ==
    ASSUME NEW s \in Seq(Nat), NEW j \in 1 .. Len(s) + 1, NEW k \in 1 .. Len(s) + 1, j <= k
    PROVE  Before(j, s) <= Before(k, s) /\ Before(j, s) \in Nat
<1>1. j - 1 \in 0 .. Len(s) /\ k - 1 \in 0 .. Len(s) /\ j - 1 <= k - 1
  OBVIOUS
<1>2. Adds(Sums(s), s, Len(s))
  BY SumsAdd
<1>3. Sums(s)[j - 1] \in Nat
  BY <1>1, <1>2 DEF Adds
<1> QED
  BY <1>1, <1>3, SumsGrow DEF Before

LEMMA TotalIs ==
    ASSUME NEW s \in Seq(Nat)
    PROVE  /\ Total(s) \in Nat
           /\ Before(1, s) = 0
           /\ Before(Len(s) + 1, s) = Total(s)
<1>1. Adds(Sums(s), s, Len(s)) /\ Len(s) \in Nat
  BY SumsAdd
<1>2. Sums(s)[Len(s)] \in Nat /\ Sums(s)[0] = 0
  BY <1>1 DEF Adds
<1>3. (Len(s) + 1) - 1 = Len(s) /\ 1 - 1 = 0
  BY <1>1
<1> QED
  BY <1>2, <1>3 DEF Before, Total

(* What JobsAssumption says of the job at hand.                            *)
LEMMA JobFiles ==
    ASSUME job \in Jobs
    PROVE  /\ Len(job.files) \in 0 .. 3
           /\ \A f \in Files : job.files[f].len \in Nat /\ job.files[f].name \in 0 .. 14
           /\ \A f : Contents(f) \in Nat
           /\ Sector \in {512, 2048} /\ (IsFat => Sector = 512) /\ (~ IsFat => Sector = 2048)
<1>1. job.files \in Seq([len : Nat, name : 0 .. 14]) /\ Len(job.files) \in 0 .. 3
  <2>1. job.files \in Seq([len : Nat, name : 0 .. 14])
    BY JobsAssumption
  <2>2. PICK n \in Nat : n = Len(job.files)
    BY <2>1
  <2>3. n <= 3
    BY <2>2, JobsAssumption, Zenon
  <2>4. n \in 0 .. 3
    BY <2>3
  <2> QED
    BY <2>1, <2>2, <2>4, Zenon
<1>2. ASSUME NEW f \in Files PROVE job.files[f].len \in Nat /\ job.files[f].name \in 0 .. 14
  <2>1. job.files[f] \in [len : Nat, name : 0 .. 14]
    BY <1>1, SeqElement DEF Files
  <2> QED
    BY <2>1
<1>3. \A f : Contents(f) \in Nat
  BY <1>2 DEF Contents
<1>4. Sector \in {512, 2048} /\ (IsFat => Sector = 512) /\ (~ IsFat => Sector = 2048)
  BY DEF Sector, SectorSize, IsoSectorSize
<1> QED
  BY <1>1, <1>2, <1>3, <1>4

(* Even an empty file takes a sector.                                      *)
LEMMA SectorsOfFiles ==
    ASSUME job \in Jobs
    PROVE  /\ FileSectors \in Seq(Nat) /\ Len(FileSectors) = Len(job.files)
           /\ \A f \in Files : /\ FileSectors[f] = Units(Contents(f), Sector)
                               /\ FileSectors[f] \in Nat /\ FileSectors[f] >= 1
<1>1. Len(job.files) \in Nat /\ (\A f : Contents(f) \in Nat) /\ Sector \in {512, 2048}
  BY JobFiles
<1>2. ASSUME NEW f \in Files PROVE Units(Contents(f), Sector) \in Nat /\ Units(Contents(f), Sector) >= 1
  <2>1. PICK n \in Nat : n = Contents(f)
    BY <1>1
  <2>2. PICK u : u = Sector
    OBVIOUS
  <2>3. u \in {512, 2048}
    BY <1>1, <2>2
  <2>4. Units(n, u) \in Nat /\ Units(n, u) >= 1
    <3>1. CASE u = 512
      BY <2>1, <3>1, UnitsHold
    <3>2. CASE u = 2048
      BY <2>1, <3>2, UnitsHold
    <3> QED
      BY <1>1, <2>2, <3>1, <3>2
  <2> QED
    BY <2>1, <2>2, <2>4
<1>3. FileSectors \in [1 .. Len(job.files) -> Nat]
  BY <1>2 DEF FileSectors, Files
<1>4. FileSectors \in Seq(Nat) /\ Len(FileSectors) = Len(job.files)
  BY <1>1, <1>3, FunctionIsSeq
<1> QED
  BY <1>2, <1>4 DEF FileSectors

LEMMA EntriesOfFiles ==
    ASSUME job \in Jobs
    PROVE  /\ VfatDirents \in Seq(Nat) /\ Len(VfatDirents) = Len(job.files)
           /\ IsoDirents \in Seq(Nat) /\ Len(IsoDirents) = Len(job.files)
<1>1. Len(job.files) \in Nat /\ \A f \in Files : job.files[f].name \in Nat
  <2>1. Len(job.files) \in 0 .. 3 /\ \A f \in Files : job.files[f].name \in 0 .. 14
    BY JobFiles
  <2> QED
    BY <2>1
<1>2. ASSUME NEW f \in Files PROVE 32 * (Units(job.files[f].name, 13) + 1) \in Nat
  <2>1. PICK n \in Nat : n = job.files[f].name
    BY <1>1
  <2>2. Units(n, 13) \in Nat
    BY <2>1 DEF Units
  <2> QED
    BY <2>1, <2>2
<1>3. VfatDirents \in [1 .. Len(job.files) -> Nat]
  BY <1>2 DEF VfatDirents, Files
<1>4. ASSUME NEW f \in Files PROVE IsoDirentOf(job.files[f].name + 2) \in Nat
  BY <1>1 DEF IsoDirentOf
<1>5. IsoDirents \in [1 .. Len(job.files) -> Nat]
  BY <1>4 DEF IsoDirents, Files
<1> QED
  BY <1>1, <1>3, <1>5, FunctionIsSeq

(* The directory of a FAT has room for its entries.                        *)
LEMMA DirentsHold ==
    ASSUME job \in Jobs
    PROVE  \E d \in Nat : /\ d >= 1 /\ Dirents = 512 * d /\ Dirents \div SectorSize = d
                          /\ Total(VfatDirents) \in Nat /\ 32 + Total(VfatDirents) <= Dirents
<1>1. Total(VfatDirents) \in Nat
  BY EntriesOfFiles, TotalIs
<1>2. PICK n \in Nat : n = 32 + Total(VfatDirents)
  BY <1>1
<1>3. PICK d : d = Units(n, 512)
  OBVIOUS
<1>4. d \in Nat /\ d >= 1 /\ n <= 512 * d
  BY <1>3, UnitsHold
<1>5. Dirents = 512 * d
  BY <1>2, <1>3 DEF Dirents, SectorSize
<1>6. (512 * d) \div 512 = d
  BY <1>4
<1> QED
  BY <1>1, <1>2, <1>4, <1>5, <1>6 DEF SectorSize

-----------------------------------------------------------------------------
(* The size of the file system.                                            *)

(* The sectors that do not depend on the size of the FAT, the bits of an   *)
(* entry when there are s sectors, and the sectors of the FAT that are     *)
(* needed when it has n of them.                                           *)
FixedSectors == 1 + Total(FileSectors) + Dirents \div SectorSize

BitsFor(s) == IF s >= Fat16From THEN 16 ELSE 12

Need(n) == Units(Units(BitsFor(FixedSectors + n) * (FixedSectors + n), 8), SectorSize)

(* The loop ends with the smallest FAT that is large enough.               *)
LeastFat(n) ==
    /\ n \in Nat /\ n >= 1
    /\ Need(n) <= n
    /\ \A m \in 1 .. n - 1 : Need(m) > m

(* What is known of the sectors while they are counted and afterwards, and *)
(* of the size that was returned.                                          *)
Counting ==
    /\ fats \in Nat
    /\ last = FixedSectors + fats
    /\ fats = 0 => needed = 1 /\ bits = 12
    /\ fats > 0 => needed = Need(fats) /\ bits = BitsFor(last) /\ last < Fat32From
    /\ \A m \in 1 .. fats - 1 : Need(m) > m

Counted ==
    IF IsFat
    THEN LeastFat(fats) /\ last = FixedSectors + fats /\ bits = BitsFor(last) /\ last < Fat32From
    ELSE last = 19 + Total(FileSectors)

SizeOfAll(z) ==
    IF IsFat
    THEN z \in Nat /\ z % SectorSize = 0 /\ LeastFat(z \div SectorSize - FixedSectors)
    ELSE z \in Nat /\ z = IsoSectorSize * (19 + Total(FileSectors))

Writing == {"boot", "chain", "dir", "files", "finish", "done"}

SizeInv ==
    /\ job \in Jobs
    /\ ~ IsFat => needed = 0 /\ fats = 0
    /\ measuring \in BOOLEAN /\ (measuring => InVHDX)
    /\ base = IF InVHDX /\ ~ measuring /\ pc # "device" THEN FilesystemStart ELSE 0
    /\ pc \in {"device", "headers"} => (measuring = (pc = "headers"))
    /\ pc \in Writing => ~ measuring
    /\ pc = "size" => IF IsFat THEN Counting ELSE last = 19 + Total(FileSectors)
    /\ pc \in Writing \cup {"headers"} => Counted /\ size = Sector * last
    /\ InVHDX /\ ~ measuring /\ pc # "device" =>
          SizeOfAll(size) /\ blocks = Units(Units(size, SectorSize) * SectorSize, BlockSize)

StartOf(f) == (IF IsFat THEN 2 ELSE 19) + Before(f, FileSectors)

(* Nothing of this changes while the job is the same.                      *)
LEMMA JobSame ==
    ASSUME job' = job
    PROVE  /\ IsFat' = IsFat /\ InVHDX' = InVHDX /\ Sector' = Sector /\ Files' = Files
           /\ FileSectors' = FileSectors /\ VfatDirents' = VfatDirents /\ IsoDirents' = IsoDirents
           /\ Dirents' = Dirents /\ FixedSectors' = FixedSectors
           /\ (\A n : Need(n)' = Need(n)) /\ (\A n : LeastFat(n)' = LeastFat(n))
           /\ (\A z : SizeOfAll(z)' = SizeOfAll(z))
           /\ (\A f : Contents(f)' = Contents(f)) /\ (\A f : StartOf(f)' = StartOf(f))
<1>1. IsFat' = IsFat /\ InVHDX' = InVHDX /\ Files' = Files /\ job.files' = job.files
  BY Zenon DEF IsFat, InVHDX, Files
<1>2. Sector' = Sector
  BY <1>1, Zenon DEF Sector
<1>3. \A f : Contents(f)' = Contents(f)
  BY <1>1, Zenon DEF Contents
<1>4. FileSectors' = FileSectors
  BY <1>1, <1>2, <1>3, Zenon DEF FileSectors
<1>5. VfatDirents' = VfatDirents /\ IsoDirents' = IsoDirents
  BY <1>1, Zenon DEF VfatDirents, IsoDirents
<1>6. Dirents' = Dirents
  BY <1>5, Zenon DEF Dirents
<1>7. FixedSectors' = FixedSectors
  BY <1>4, <1>6, Zenon DEF FixedSectors
<1>8. \A n : Need(n)' = Need(n)
  BY <1>7, Zenon DEF Need
<1>9. \A n : LeastFat(n)' = LeastFat(n)
  BY <1>8, Zenon DEF LeastFat
<1>10. \A z : SizeOfAll(z)' = SizeOfAll(z)
  BY <1>1, <1>4, <1>7, <1>9, Zenon DEF SizeOfAll
<1>11. \A f : StartOf(f)' = StartOf(f)
  BY <1>1, <1>4, Zenon DEF StartOf
<1> QED
  BY <1>1, <1>2, <1>3, <1>4, <1>5, <1>6, <1>7, <1>8, <1>9, <1>10, <1>11

LEMMA FixedIsNat ==
    ASSUME job \in Jobs
    PROVE  FixedSectors \in Nat /\ FixedSectors >= 2
<1>1. Total(FileSectors) \in Nat
  BY SectorsOfFiles, TotalIs
<1>2. PICK d \in Nat : d >= 1 /\ Dirents \div SectorSize = d
  BY DirentsHold
<1> QED
  BY <1>1, <1>2 DEF FixedSectors

(* More never takes fewer units.                                           *)
LEMMA UnitsGrow ==
    ASSUME NEW m \in Nat, NEW n \in Nat, m <= n
    PROVE  Units(m, 8) <= Units(n, 8) /\ Units(m, 512) <= Units(n, 512)
BY DEF Units

(* A larger FAT needs no less.                                             *)
LEMMA NeedGrows ==
    ASSUME job \in Jobs, NEW m \in Nat, NEW n \in Nat, m <= n
    PROVE  Need(m) \in Nat /\ Need(n) \in Nat /\ Need(m) <= Need(n) /\ Need(n) >= 1
<1>1. PICK a \in Nat : a = BitsFor(FixedSectors + m) * (FixedSectors + m)
  BY FixedIsNat DEF BitsFor, Fat16From
<1>2. PICK b \in Nat : b = BitsFor(FixedSectors + n) * (FixedSectors + n)
  BY FixedIsNat DEF BitsFor, Fat16From
<1>3. a <= b
  BY <1>1, <1>2, FixedIsNat DEF BitsFor, Fat16From
<1>4. Units(a, 8) \in Nat /\ Units(b, 8) \in Nat /\ Units(a, 8) <= Units(b, 8)
  BY <1>1, <1>2, <1>3, UnitsHold, UnitsGrow
<1>5. PICK c \in Nat, d \in Nat : c = Units(a, 8) /\ d = Units(b, 8) /\ c <= d
  BY <1>4
<1>6. /\ Units(c, 512) \in Nat /\ Units(d, 512) \in Nat /\ Units(d, 512) >= 1
      /\ Units(c, 512) <= Units(d, 512)
  BY <1>5, UnitsHold, UnitsGrow
<1> QED
  BY <1>1, <1>2, <1>5, <1>6, Zenon DEF Need, SectorSize

(* There is one smallest FAT only.                                         *)
LEMMA LeastUnique ==
    ASSUME job \in Jobs, NEW m, NEW n, LeastFat(m), LeastFat(n)
    PROVE  m = n
<1>1. m \in Nat /\ n \in Nat /\ m >= 1 /\ n >= 1
  BY DEF LeastFat
<1>2. Need(m) \in Nat /\ Need(n) \in Nat
  BY <1>1, NeedGrows
<1>3. ~ (m < n)
  <2>1. ASSUME m < n PROVE FALSE
    <3>1. m \in 1 .. n - 1
      BY <1>1, <2>1
    <3>2. Need(m) > m /\ Need(m) <= m
      BY <3>1 DEF LeastFat
    <3> QED
      BY <1>1, <1>2, <3>2
  <2> QED
    BY <2>1
<1>4. ~ (n < m)
  <2>1. ASSUME n < m PROVE FALSE
    <3>1. n \in 1 .. m - 1
      BY <1>1, <2>1
    <3>2. Need(n) > n /\ Need(n) <= n
      BY <3>1 DEF LeastFat
    <3> QED
      BY <1>1, <1>2, <3>2
  <2> QED
    BY <2>1
<1> QED
  BY <1>1, <1>3, <1>4

(* The size is the same whenever it is asked for.                          *)
LEMMA SizeUnique ==
    ASSUME job \in Jobs, NEW y, NEW z, SizeOfAll(y), SizeOfAll(z)
    PROVE  y = z
<1>1. CASE IsFat
  <2>1. /\ y \in Nat /\ y % 512 = 0 /\ LeastFat(y \div 512 - FixedSectors)
        /\ z \in Nat /\ z % 512 = 0 /\ LeastFat(z \div 512 - FixedSectors)
    BY <1>1 DEF SizeOfAll, SectorSize
  <2>2. y \div 512 - FixedSectors = z \div 512 - FixedSectors
    BY <2>1, LeastUnique, Zenon
  <2> QED
    BY <2>1, <2>2, FixedIsNat
<1>2. CASE ~ IsFat
  BY <1>2, Zenon DEF SizeOfAll
<1> QED
  BY <1>1, <1>2

(* When the loop ends the sectors are those of the smallest FAT.           *)
LEMMA SizeOfCounted ==
    ASSUME job \in Jobs, Counted
    PROVE  last \in Nat /\ SizeOfAll(Sector * last)
<1>1. CASE IsFat
  <2>1. LeastFat(fats) /\ fats \in Nat /\ last = FixedSectors + fats
    BY <1>1 DEF Counted, LeastFat
  <2>2. last \in Nat /\ last - FixedSectors = fats
    BY <2>1, FixedIsNat
  <2>3. (512 * last) % 512 = 0 /\ (512 * last) \div 512 = last /\ 512 * last \in Nat
    BY <2>2
  <2>4. Sector = 512
    BY <1>1, JobFiles
  <2> QED
    BY <1>1, <2>1, <2>2, <2>3, <2>4 DEF SizeOfAll, SectorSize
<1>2. CASE ~ IsFat
  <2>1. Total(FileSectors) \in Nat /\ last = 19 + Total(FileSectors)
    BY <1>2, SectorsOfFiles, TotalIs DEF Counted
  <2>2. Sector = IsoSectorSize /\ IsoSectorSize * last \in Nat
    BY <1>2, <2>1 DEF Sector, IsoSectorSize
  <2> QED
    BY <1>2, <2>1, <2>2 DEF SizeOfAll
<1> QED
  BY <1>1, <1>2

LEMMA SizeInvInit == Init => SizeInv
BY DEF Init, SizeInv, Writing

(* What neither counts nor returns a size.                                 *)
LEMMA SizeInvKept ==
    ASSUME SizeInv, UNCHANGED <<job, measuring, base, sizeVars, size, blocks>>,
           pc \in Writing \cup {"headers"}, pc' \in Writing \cup {"removed"},
           pc = "headers" => pc' = "removed"
    PROVE  SizeInv'
<1>1. /\ job \in Jobs /\ measuring \in BOOLEAN /\ (measuring => InVHDX)
      /\ base = IF InVHDX /\ ~ measuring THEN FilesystemStart ELSE 0
      /\ pc \in Writing => ~ measuring
      /\ Counted /\ size = Sector * last
      /\ InVHDX /\ ~ measuring =>
            SizeOfAll(size) /\ blocks = Units(Units(size, SectorSize) * SectorSize, BlockSize)
  BY DEF SizeInv, Writing
<1>2. /\ IsFat' = IsFat /\ InVHDX' = InVHDX /\ Sector' = Sector
      /\ FileSectors' = FileSectors /\ FixedSectors' = FixedSectors
      /\ (\A n : LeastFat(n)' = LeastFat(n)) /\ (\A z : SizeOfAll(z)' = SizeOfAll(z))
  BY JobSame
<1>3. last' = last /\ fats' = fats /\ bits' = bits /\ needed' = needed /\ size' = size
      /\ blocks' = blocks /\ base' = base /\ job' = job /\ measuring' = measuring
  BY DEF sizeVars
<1>4. Counted' = Counted
  BY <1>2, <1>3, Zenon DEF Counted
<1>5. SizeOfAll(size)' = SizeOfAll(size)
  BY <1>2, <1>3, Zenon DEF SizeOfAll
<1>6. pc' # "device" /\ pc' # "size" /\ pc' # "headers" /\ (pc' \in Writing => pc \in Writing)
  BY DEF Writing
<1>7. job' \in Jobs /\ measuring' \in BOOLEAN /\ (measuring' => InVHDX')
  BY <1>1, <1>2, <1>3
<1>8. base' = IF InVHDX' /\ ~ measuring' /\ pc' # "device" THEN FilesystemStart ELSE 0
  BY <1>1, <1>2, <1>3, <1>6
<1>9. InVHDX' /\ ~ measuring' /\ pc' # "device" =>
         SizeOfAll(size)' /\ blocks' = Units(Units(size', SectorSize) * SectorSize, BlockSize)
  <2>1. InVHDX' /\ ~ measuring' => InVHDX /\ ~ measuring
    BY <1>2, <1>3
  <2>2. blocks = Units(Units(size, SectorSize) * SectorSize, BlockSize) =>
           blocks' = Units(Units(size', SectorSize) * SectorSize, BlockSize)
    BY <1>3, Zenon
  <2> QED
    BY <1>1, <1>5, <2>1, <2>2, Zenon
<1>10. Counted' /\ size' = Sector' * last'
  BY <1>1, <1>2, <1>3, <1>4, Zenon
<1>11. pc' \in Writing => ~ measuring'
  BY <1>1, <1>3, <1>6
<1>12. ~ IsFat' => needed' = 0 /\ fats' = 0
  BY <1>2, <1>3, Zenon DEF SizeInv
<1> QED
  BY <1>6, <1>7, <1>12, <1>8, <1>9, <1>10, <1>11, Zenon DEF SizeInv

(* The steps that count keep it: the FAT never gets larger than the        *)
(* smallest that is large enough, so that both passes over the files stop  *)
(* at that one (writeVFAT).                                                *)
LEMMA SizeInvNext == SizeInv /\ [Next]_vars => SizeInv'
<1> SUFFICES ASSUME SizeInv, [Next]_vars PROVE SizeInv'
  OBVIOUS
<1>j. job' = job
  BY DEF Next, BeginDevice, WriteHeaders, FinishDevice, CountFatSectors, CountIsoSectors, GrowFat,
         SizeKnown, WriteBoot, PutChain, WriteFat, WriteVfatDir, WriteVolume, WriteIsoDir, WriteFile,
         FilesWritten, WriteFails, vars
<1>s. /\ IsFat' = IsFat /\ InVHDX' = InVHDX /\ Sector' = Sector
      /\ FileSectors' = FileSectors /\ FixedSectors' = FixedSectors
      /\ (\A n : Need(n)' = Need(n))
      /\ (\A n : LeastFat(n)' = LeastFat(n)) /\ (\A z : SizeOfAll(z)' = SizeOfAll(z))
  BY <1>j, JobSame
<1>f. job \in Jobs /\ FixedSectors \in Nat /\ Total(FileSectors) \in Nat
  BY FixedIsNat, SectorsOfFiles, TotalIs DEF SizeInv
<1>1. CASE BeginDevice
  <2>1. /\ pc = "device" /\ pc' = "count" /\ measuring' = InVHDX /\ base' = base
        /\ needed' = needed /\ fats' = fats
    BY <1>1 DEF BeginDevice, sizeVars
  <2>2. job \in Jobs /\ base = 0 /\ InVHDX \in BOOLEAN /\ (~ IsFat => needed = 0 /\ fats = 0)
    BY <2>1 DEF SizeInv, InVHDX
  <2> QED
    BY <1>j, <1>s, <2>1, <2>2 DEF SizeInv, Writing
<1>2. CASE WriteHeaders
  <2>1. /\ pc = "headers" /\ pc' = "count" /\ measuring' = FALSE /\ base' = FilesystemStart
        /\ blocks' = Units(Units(size, SectorSize) * SectorSize, BlockSize) /\ size' = size
        /\ needed' = needed /\ fats' = fats
    BY <1>2 DEF WriteHeaders, sizeVars
  <2>2. measuring /\ InVHDX /\ Counted /\ size = Sector * last
    BY <2>1 DEF SizeInv
  <2>3. SizeOfAll(size)
    BY <1>f, <2>2, SizeOfCounted
  <2>4. SizeOfAll(size)'
    BY <1>s, <2>1, <2>3, Zenon DEF SizeOfAll
  <2> QED
    BY <1>f, <1>j, <1>s, <2>1, <2>2, <2>4 DEF SizeInv, Writing
<1>3. CASE FinishDevice
  BY <1>3, SizeInvKept DEF FinishDevice, Writing
<1>4. CASE CountFatSectors
  <2>1. /\ pc = "count" /\ IsFat /\ pc' = "size" /\ last' = FixedSectors /\ bits' = 12
        /\ fats' = 0 /\ needed' = 1
        /\ measuring' = measuring /\ base' = base /\ size' = size /\ blocks' = blocks
    BY <1>4 DEF CountFatSectors, FixedSectors
  <2>2. Counting'
    BY <1>f, <1>s, <2>1 DEF Counting
  <2>3. SizeOfAll(size)' = SizeOfAll(size)
    BY <1>s, <2>1, Zenon DEF SizeOfAll
  <2> QED
    BY <1>j, <1>s, <2>1, <2>2, <2>3 DEF SizeInv, Writing
<1>5. CASE CountIsoSectors
  <2>1. /\ pc = "count" /\ ~ IsFat /\ pc' = "size" /\ last' = 19 + Total(FileSectors)
        /\ measuring' = measuring /\ base' = base /\ size' = size /\ blocks' = blocks
        /\ needed' = needed /\ fats' = fats
    BY <1>5 DEF CountIsoSectors
  <2>2. Total(FileSectors)' = Total(FileSectors)
    BY <1>s, Zenon
  <2>3. SizeOfAll(size)' = SizeOfAll(size)
    BY <1>s, <2>1, Zenon DEF SizeOfAll
  <2> QED
    BY <1>j, <1>s, <2>1, <2>2, <2>3 DEF SizeInv, Writing
<1>6. CASE GrowFat
  <2>1. /\ pc = "size" /\ Grows
        /\ measuring' = measuring /\ base' = base /\ size' = size /\ blocks' = blocks
    BY <1>6 DEF GrowFat
  <2>2. SizeOfAll(size)' = SizeOfAll(size)
    BY <1>s, <2>1, Zenon DEF SizeOfAll
  <2>3. CASE IsFat /\ pc' = "panic"
    BY <1>j, <1>s, <2>1, <2>2, <2>3 DEF SizeInv, Writing
  <2>4. CASE ~ IsFat
    BY <2>1, <2>4 DEF SizeInv, Grows
  <2>5. CASE IsFat /\ pc' # "panic"
    <3>1. Counting
      BY <2>1, <2>5 DEF SizeInv
    <3>2. PICK more : more = last + (needed - fats)
      OBVIOUS
    <3>3. /\ ~ (more >= Fat32From) /\ last' = more /\ fats' = needed /\ pc' = pc
          /\ bits' = IF more >= Fat16From THEN 16 ELSE bits
          /\ needed' = Units(Units(bits' * more, 8), SectorSize)
      BY <1>6, <2>5, <3>2 DEF GrowFat
    <3>4. fats \in Nat /\ needed \in Nat /\ needed > fats /\ needed >= 1
      BY <1>f, <2>1, <3>1, NeedGrows DEF Counting, Grows
    <3>5. more = FixedSectors + needed /\ more \in Nat /\ more < Fat32From
      BY <1>f, <3>1, <3>2, <3>3, <3>4, SMT DEF Counting, Fat32From
    <3>6. bits' = BitsFor(more)
      <4>1. CASE fats = 0
        BY <3>1, <3>3, <4>1 DEF Counting, BitsFor
      <4>2. CASE fats # 0
        <5>1. bits = BitsFor(last) /\ last \in Nat /\ last <= more
          BY <1>f, <3>1, <3>4, <3>5, <4>2 DEF Counting
        <5>2. CASE more >= Fat16From
          BY <3>3, <5>2 DEF BitsFor
        <5>3. CASE ~ (more >= Fat16From)
          <6>1. ~ (last >= Fat16From)
            BY <3>5, <5>1, <5>3 DEF Fat16From
          <6> QED
            BY <3>3, <5>1, <5>3, <6>1, Zenon DEF BitsFor
        <5> QED
          BY <5>2, <5>3
      <4> QED
        BY <4>1, <4>2
    <3>7. needed' = Need(needed)
      BY <3>3, <3>5, <3>6, Zenon DEF Need
    <3>8. ASSUME NEW m \in 1 .. needed - 1 PROVE Need(m) > m
      <4>1. CASE m < fats
        BY <3>1, <3>4, <4>1 DEF Counting
      <4>2. CASE m >= fats
        <5>1. fats > 0
          BY <3>1, <3>4, <4>2 DEF Counting
        <5>2. needed = Need(fats) /\ Need(m) \in Nat /\ Need(fats) <= Need(m)
          BY <1>f, <3>1, <3>4, <4>2, <5>1, NeedGrows DEF Counting
        <5> QED
          BY <3>4, <5>2
      <4> QED
        BY <3>4, <4>1, <4>2
    <3>9. Counting'
      BY <1>s, <3>3, <3>4, <3>5, <3>6, <3>7, <3>8 DEF Counting
    <3> QED
      BY <1>j, <1>s, <2>1, <2>2, <2>5, <3>3, <3>9 DEF SizeInv, Writing
  <2> QED
    BY <2>3, <2>4, <2>5
<1>7. CASE SizeKnown
  <2>1. /\ pc = "size" /\ ~ Grows /\ size' = Sector * last
        /\ pc' = (IF measuring THEN "headers" ELSE "boot")
        /\ measuring' = measuring /\ base' = base /\ blocks' = blocks
        /\ last' = last /\ bits' = bits /\ fats' = fats /\ needed' = needed
    BY <1>7 DEF SizeKnown, sizeVars
  <2>2. Counted
    <3>1. CASE IsFat
      <4>1. Counting
        BY <2>1, <3>1 DEF SizeInv
      <4>2. fats > 0 /\ fats \in Nat /\ needed = Need(fats) /\ Need(fats) \in Nat
        BY <1>f, <2>1, <4>1, NeedGrows DEF Counting, Grows
      <4>3. Need(fats) <= fats
        BY <2>1, <4>2 DEF Grows
      <4> QED
        BY <3>1, <4>1, <4>2, <4>3 DEF Counting, Counted, LeastFat
    <3>2. CASE ~ IsFat
      BY <2>1, <3>2 DEF SizeInv, Counted
    <3> QED
      BY <3>1, <3>2
  <2>3. Counted'
    BY <1>s, <2>1, <2>2, Zenon DEF Counted
  <2>4. SizeOfAll(Sector * last)
    BY <1>f, <2>2, SizeOfCounted
  <2>5. InVHDX /\ ~ measuring => size' = size
    BY <1>f, <2>1, <2>4, SizeUnique DEF SizeInv
  <2>6. InVHDX /\ ~ measuring =>
           SizeOfAll(size') /\ blocks' = Units(Units(size', SectorSize) * SectorSize, BlockSize)
    BY <2>1, <2>4, <2>5 DEF SizeInv
  <2>7. SizeOfAll(size)' = SizeOfAll(size')
    BY <1>s, Zenon DEF SizeOfAll
  <2> QED
    BY <1>f, <1>j, <1>s, <2>1, <2>3, <2>6, <2>7 DEF SizeInv, Writing
<1>8. CASE WriteBoot
  BY <1>8, SizeInvKept DEF WriteBoot, Writing
<1>9. CASE PutChain
  BY <1>9, SizeInvKept DEF PutChain, Writing
<1>10. CASE WriteFat
  BY <1>10, SizeInvKept DEF WriteFat, Writing
<1>11. CASE WriteVfatDir
  BY <1>11, SizeInvKept DEF WriteVfatDir, Writing
<1>12. CASE WriteVolume
  BY <1>12, SizeInvKept DEF WriteVolume, Writing
<1>13. CASE WriteIsoDir
  BY <1>13, SizeInvKept DEF WriteIsoDir, Writing
<1>14. CASE WriteFile
  BY <1>14, SizeInvKept DEF WriteFile, Writing
<1>15. CASE FilesWritten
  <2>1. size' = size
    BY <1>15 DEF FilesWritten, SizeInv, Writing
  <2> QED
    BY <1>15, <2>1, SizeInvKept DEF FilesWritten, Writing
<1>16. CASE WriteFails
  BY <1>16, SizeInvKept DEF WriteFails, Writing
<1>17. CASE UNCHANGED vars
  <2>1. /\ job' = job /\ pc' = pc /\ measuring' = measuring /\ base' = base /\ last' = last
        /\ bits' = bits /\ fats' = fats /\ needed' = needed /\ size' = size /\ blocks' = blocks
    BY <1>17 DEF vars, sizeVars
  <2>2. SizeOfAll(size)' = SizeOfAll(size) /\ Counted' = Counted
    BY <1>s, <2>1, Zenon DEF SizeOfAll, Counted
  <2>3. Counting' = Counting /\ (last' = 19 + Total(FileSectors)') = (last = 19 + Total(FileSectors))
    BY <1>s, <2>1, Zenon DEF Counting
  <2> QED
    BY <1>s, <2>1, <2>2, <2>3, Zenon DEF SizeInv
<1> QED
  BY <1>1, <1>2, <1>3, <1>4, <1>5, <1>6, <1>7, <1>8, <1>9, <1>10, <1>11, <1>12, <1>13, <1>14, <1>15,
     <1>16, <1>17 DEF Next

-----------------------------------------------------------------------------
(* Where the files are.                                                    *)

DataStart == IF IsFat THEN FirstSector ELSE 19

FilePlace(f) == base + Sector * (DataStart + Before(f, FileSectors))

FileExtents(n) == {Extent("file", f, FilePlace(f), Padded(f)) : f \in 1 .. n}

FilesDone ==
    IF pc = "files" THEN i - 1 ELSE IF pc \in {"finish", "done"} THEN Len(job.files) ELSE 0

PlaceInv ==
    /\ pc \in {"device", "count", "size", "headers", "boot"} => i = 1
    /\ pc = "dir" /\ ~ IsFat => i = 1
    /\ pc \in {"chain", "files"} => i \in 1 .. Len(job.files) + 1
    /\ pc = "chain" => IsFat /\ offset = base + SectorSize
    /\ pc = "dir" => offset = base + IF IsFat THEN SectorSize * (1 + fats) ELSE 18 * IsoSectorSize
    /\ pc = "files" => offset = FilePlace(i)
    /\ pc \in {"finish", "done"} => offset = base + Sector * last
    /\ pc # "removed" => {e \in written : e.of = "file"} = FileExtents(FilesDone)

LEMMA PlaceSame ==
    ASSUME job' = job, base' = base, fats' = fats
    PROVE  /\ DataStart' = DataStart
           /\ (\A f : FilePlace(f)' = FilePlace(f)) /\ (\A f : Padded(f)' = Padded(f))
           /\ (\A n : FileExtents(n)' = FileExtents(n))
<1>1. /\ IsFat' = IsFat /\ Sector' = Sector /\ FileSectors' = FileSectors /\ Dirents' = Dirents
      /\ (\A f : Contents(f)' = Contents(f))
  BY JobSame
<1>2. FirstSector' = FirstSector
  BY <1>1, Zenon DEF FirstSector
<1>3. DataStart' = DataStart
  BY <1>1, <1>2, Zenon DEF DataStart
<1>4. \A f : FilePlace(f)' = FilePlace(f)
  BY <1>1, <1>3, Zenon DEF FilePlace
<1>5. \A f : Padded(f)' = Padded(f)
  BY <1>1, Zenon DEF Padded
<1>6. \A n : FileExtents(n)' = FileExtents(n)
  BY <1>4, <1>5, Zenon DEF FileExtents, Extent
<1> QED
  BY <1>3, <1>4, <1>5, <1>6

LEMMA NumbersWhenWriting ==
    ASSUME SizeInv, pc \in Writing
    PROVE  /\ job \in Jobs /\ base \in Nat /\ fats \in Nat /\ last \in Nat
           /\ DataStart \in Nat /\ last = DataStart + Total(FileSectors)
           /\ (IsFat => \E d \in Nat : d >= 1 /\ Dirents = 512 * d /\ DataStart = 1 + fats + d)
<1>1. job \in Jobs /\ base \in Nat /\ Counted
  BY SMT DEF SizeInv, FilesystemStart, MiB
<1>2. Total(FileSectors) \in Nat /\ last \in Nat
  BY <1>1, SectorsOfFiles, TotalIs, SizeOfCounted
<1>3. CASE IsFat
  <2>1. PICK d \in Nat : d >= 1 /\ Dirents = 512 * d /\ Dirents \div SectorSize = d
    BY <1>1, DirentsHold
  <2>2. fats \in Nat /\ last = FixedSectors + fats
    BY <1>1, <1>3 DEF Counted, LeastFat
  <2>3. FixedSectors = 1 + Total(FileSectors) + d /\ DataStart = 1 + fats + d
    BY <1>3, <2>1 DEF FixedSectors, DataStart, FirstSector
  <2> QED
    BY <1>1, <1>2, <2>1, <2>2, <2>3
<1>4. CASE ~ IsFat
  <2>1. last = 19 + Total(FileSectors) /\ DataStart = 19
    BY <1>1, <1>4 DEF Counted, DataStart
  <2>2. fats = 0
    BY <1>4 DEF SizeInv
  <2> QED
    BY <1>1, <1>2, <1>4, <2>1, <2>2
<1> QED
  BY <1>3, <1>4

(* The next file is behind this one.                                       *)
LEMMA PlaceNext ==
    ASSUME SizeInv, pc \in Writing, NEW f \in Files
    PROVE  /\ FilePlace(f) \in Nat /\ Padded(f) \in Nat /\ Padded(f) >= 512
           /\ FilePlace(f + 1) = FilePlace(f) + Padded(f)
<1>1. job \in Jobs /\ base \in Nat /\ DataStart \in Nat
  BY NumbersWhenWriting
<1>2. f \in 1 .. Len(FileSectors) /\ FileSectors \in Seq(Nat)
  BY <1>1, SectorsOfFiles DEF Files
<1>3. PICK b \in Nat, s \in Nat : /\ b = Before(f, FileSectors) /\ s = FileSectors[f] /\ s >= 1
                                  /\ Before(f + 1, FileSectors) = b + s
  <2>1. /\ Before(f, FileSectors) \in Nat /\ FileSectors[f] \in Nat
        /\ Before(f + 1, FileSectors) = Before(f, FileSectors) + FileSectors[f]
    BY <1>2, BeforeNext
  <2>2. FileSectors[f] >= 1
    BY <1>1, SectorsOfFiles
  <2> QED
    BY <2>1, <2>2
<1>4. Padded(f) = s * Sector
  BY <1>1, <1>3, SectorsOfFiles DEF Padded
<1>5. FilePlace(f) = base + Sector * (DataStart + b)
      /\ FilePlace(f + 1) = base + Sector * (DataStart + (b + s))
  BY <1>3, Zenon DEF FilePlace
<1>6. CASE Sector = 512
  BY <1>1, <1>3, <1>4, <1>5, <1>6
<1>7. CASE Sector = 2048
  BY <1>1, <1>3, <1>4, <1>5, <1>7
<1> QED
  BY <1>1, <1>6, <1>7, JobFiles

LEMMA ScaleLess ==
    ASSUME NEW x \in Nat, NEW y \in Nat, NEW b \in Nat, NEW c \in Nat, b <= c, NEW unit \in {512, 2048}
    PROVE  /\ x + unit * (y + b) \in Nat /\ x + unit * (y + c) \in Nat
           /\ x + unit * (y + b) <= x + unit * (y + c)
OBVIOUS

LEMMA PlaceLess ==
    ASSUME SizeInv, pc \in Writing, NEW f \in 1 .. Len(job.files) + 1, NEW g \in 1 .. Len(job.files) + 1,
           f <= g
    PROVE  FilePlace(f) \in Nat /\ FilePlace(g) \in Nat /\ FilePlace(f) <= FilePlace(g)
<1>1. job \in Jobs /\ base \in Nat /\ DataStart \in Nat
  BY NumbersWhenWriting
<1>2. FileSectors \in Seq(Nat) /\ Len(FileSectors) = Len(job.files)
  BY <1>1, SectorsOfFiles
<1>3. PICK b \in Nat, c \in Nat :
         b = Before(f, FileSectors) /\ c = Before(g, FileSectors) /\ b <= c
  <2>1. /\ Before(f, FileSectors) \in Nat /\ Before(g, FileSectors) \in Nat
        /\ Before(f, FileSectors) <= Before(g, FileSectors)
    BY <1>2, BeforeLess
  <2> QED
    BY <2>1
<1>4. FilePlace(f) = base + Sector * (DataStart + b) /\ FilePlace(g) = base + Sector * (DataStart + c)
  BY <1>3, Zenon DEF FilePlace
<1>5. Sector \in {512, 2048}
  BY <1>1, JobFiles
<1>6. /\ base + Sector * (DataStart + b) \in Nat /\ base + Sector * (DataStart + c) \in Nat
      /\ base + Sector * (DataStart + b) <= base + Sector * (DataStart + c)
  BY <1>1, <1>3, <1>5, ScaleLess
<1> QED
  BY <1>4, <1>6, Zenon

(* The first file begins where the data do, and what is behind the last    *)
(* one is behind all sectors.                                              *)
LEMMA PlaceEnds ==
    ASSUME SizeInv, pc \in Writing
    PROVE  /\ FilePlace(1) = base + Sector * DataStart
           /\ FilePlace(Len(job.files) + 1) = base + Sector * last
<1>1. job \in Jobs /\ DataStart \in Nat /\ last = DataStart + Total(FileSectors)
  BY NumbersWhenWriting
<1>2. FileSectors \in Seq(Nat) /\ Len(FileSectors) = Len(job.files)
  BY <1>1, SectorsOfFiles
<1>3. Before(1, FileSectors) = 0 /\ Before(Len(job.files) + 1, FileSectors) = Total(FileSectors)
  BY <1>2, TotalIs
<1>4. DataStart + 0 = DataStart
  BY <1>1
<1> QED
  BY <1>1, <1>3, <1>4, Zenon DEF FilePlace

(* The files up to the next one are one more.                              *)
LEMMA FileExtentsGrow ==
    /\ FileExtents(0) = {}
    /\ \A n \in Nat : FileExtents(n + 1) = FileExtents(n) \cup {Extent("file", n + 1, FilePlace(n + 1), Padded(n + 1))}
<1>1. FileExtents(0) = {}
  <2>1. 1 .. 0 = {}
    OBVIOUS
  <2> QED
    BY <2>1, Zenon DEF FileExtents
<1>2. ASSUME NEW n \in Nat
      PROVE FileExtents(n + 1) = FileExtents(n) \cup {Extent("file", n + 1, FilePlace(n + 1), Padded(n + 1))}
  <2>1. 1 .. n + 1 = (1 .. n) \cup {n + 1}
    OBVIOUS
  <2> QED
    BY <2>1, Zenon DEF FileExtents
<1> QED
  BY <1>1, <1>2

LEMMA DirHasNoFiles ==
    ASSUME NEW first, NEW sizes
    PROVE  \A e \in DirExtents(first, sizes) : e.of = "dirent"
BY DEF DirExtents, Extent

LEMMA PlaceInvInit == Init => PlaceInv
<1> SUFFICES ASSUME Init PROVE PlaceInv
  OBVIOUS
<1>1. FileExtents(0) = {}
  BY FileExtentsGrow
<1> QED
  BY <1>1 DEF Init, PlaceInv, FilesDone

(* What writes no file and is not at the files.                            *)
LEMMA NoFiles ==
    ASSUME PlaceInv, pc \notin {"files", "finish", "done", "removed"},
           pc' \notin {"files", "finish", "done"},
           NEW W, written' = written \cup W, \A e \in W : e.of # "file"
    PROVE  pc' # "removed" => {e \in written' : e.of = "file"} = FileExtents(FilesDone)'
<1>1. FilesDone = 0 /\ FilesDone' = 0
  BY DEF FilesDone
<1>2. FileExtents(0) = {}
  BY FileExtentsGrow
<1>3. FileExtents(FilesDone)' = {}
  <2>1. 1 .. 0 = {}
    OBVIOUS
  <2> QED
    BY <1>1, <2>1, Zenon DEF FileExtents
<1>4. {e \in written : e.of = "file"} = {}
  BY <1>1, <1>2 DEF PlaceInv
<1> QED
  BY <1>3, <1>4

(* The order of the steps: places are computed from what SizeInv says.     *)
LEMMA PlaceInvNext == SizeInv /\ SizeInv' /\ PlaceInv /\ [Next]_vars => PlaceInv'
<1> SUFFICES ASSUME SizeInv, SizeInv', PlaceInv, [Next]_vars PROVE PlaceInv'
  OBVIOUS
<1>j. job' = job
  BY DEF Next, BeginDevice, WriteHeaders, FinishDevice, CountFatSectors, CountIsoSectors, GrowFat,
         SizeKnown, WriteBoot, PutChain, WriteFat, WriteVfatDir, WriteVolume, WriteIsoDir, WriteFile,
         FilesWritten, WriteFails, vars
<1>s. IsFat' = IsFat /\ Sector' = Sector /\ Files' = Files
  BY <1>j, JobSame
<1>l. Len(job.files) \in Nat /\ Files = 1 .. Len(job.files) /\ Len(job.files)' = Len(job.files)
  BY <1>j, JobFiles DEF SizeInv, Files
<1>1. CASE \/ BeginDevice \/ CountFatSectors \/ CountIsoSectors \/ GrowFat \/ SizeKnown
  <2>1. /\ pc \in {"device", "count", "size"} /\ pc' \in {"count", "size", "headers", "boot", "panic"}
        /\ i' = i /\ written' = written \cup {}
    BY <1>1 DEF BeginDevice, CountFatSectors, CountIsoSectors, GrowFat, SizeKnown
  <2>2. {e \in written' : e.of = "file"} = FileExtents(FilesDone)'
    <3>1. PICK W : W = {}
      OBVIOUS
    <3>2. written' = written \cup W /\ \A e \in W : e.of # "file"
      BY <2>1, <3>1
    <3> QED
      BY <2>1, <3>2, NoFiles
  <2> QED
    BY <2>1, <2>2 DEF PlaceInv
<1>2. CASE WriteHeaders
  <2>1. pc = "headers" /\ pc' = "count" /\ i' = i
    BY <1>2 DEF WriteHeaders
  <2>2. \A e \in written' : e.of # "file"
    BY <1>2 DEF WriteHeaders, Extent
  <2>3. FileExtents(FilesDone)' = {}
    <3>1. FilesDone' = 0 /\ 1 .. 0 = {}
      BY <2>1 DEF FilesDone
    <3> QED
      BY <3>1, Zenon DEF FileExtents
  <2> QED
    BY <2>1, <2>2, <2>3 DEF PlaceInv
<1>3. CASE WriteBoot
  <2>1. /\ pc = "boot" /\ pc' = "chain" /\ IsFat /\ i' = i /\ offset' = base + SectorSize /\ base' = base
        /\ written' = written \cup {Extent("boot", 0, base, SectorSize)}
    BY <1>3 DEF WriteBoot
  <2>2. {e \in written' : e.of = "file"} = FileExtents(FilesDone)'
    <3>1. \A e \in {Extent("boot", 0, base, SectorSize)} : e.of # "file"
      BY DEF Extent
    <3> QED
      BY <2>1, <3>1, NoFiles
  <2> QED
    BY <1>s, <1>l, <2>1, <2>2 DEF PlaceInv
<1>4. CASE WriteVolume
  <2>1. /\ pc = "boot" /\ pc' = "dir" /\ ~ IsFat /\ i' = i
        /\ offset' = base + 18 * IsoSectorSize /\ base' = base
    BY <1>4 DEF WriteVolume
  <2>2. {e \in written' : e.of = "file"} = FileExtents(FilesDone)'
    <3>1. PICK W : W = {Extent("volume", n, base + (16 + n) * IsoSectorSize, IsoSectorSize) : n \in 0 .. 1}
      OBVIOUS
    <3>2. written' = written \cup W
      BY <1>4, <3>1 DEF WriteVolume
    <3>3. \A e \in W : e.of # "file"
      BY <3>1 DEF Extent
    <3> QED
      BY <2>1, <3>2, <3>3, NoFiles
  <2> QED
    BY <1>s, <2>1, <2>2 DEF PlaceInv
<1>5. CASE PutChain
  <2>1. /\ pc = "chain" /\ pc' = "chain" /\ IsFat /\ i \in Files /\ i' \in {i, i + 1}
        /\ offset' = offset /\ base' = base /\ written' = written \cup {}
    BY <1>5 DEF PutChain, PlaceInv
  <2>2. {e \in written' : e.of = "file"} = FileExtents(FilesDone)'
    <3>1. PICK W : W = {}
      OBVIOUS
    <3>2. written' = written \cup W /\ \A e \in W : e.of # "file"
      BY <2>1, <3>1
    <3> QED
      BY <2>1, <3>2, NoFiles
  <2>3. i' \in 1 .. Len(job.files) + 1 /\ offset = base + SectorSize
    BY <1>l, <2>1 DEF PlaceInv
  <2> QED
    BY <1>s, <1>l, <2>1, <2>2, <2>3 DEF PlaceInv
<1>6. CASE WriteFat
  <2>1. /\ pc = "chain" /\ pc' = "dir" /\ IsFat /\ fats' = fats
        /\ offset = base + SectorSize /\ offset' = offset + SectorSize * fats /\ base' = base
        /\ written' = written \cup {Extent("fat", 0, offset, SectorSize * fats)}
    BY <1>6 DEF WriteFat, PlaceInv, sizeVars
  <2>2. {e \in written' : e.of = "file"} = FileExtents(FilesDone)'
    <3>1. \A e \in {Extent("fat", 0, offset, SectorSize * fats)} : e.of # "file"
      BY DEF Extent
    <3> QED
      BY <2>1, <3>1, NoFiles
  <2>3. offset' = base + SectorSize * (1 + fats)
    BY <2>1, NumbersWhenWriting DEF Writing, SectorSize
  <2> QED
    BY <1>s, <2>1, <2>2, <2>3 DEF PlaceInv
<1>7. CASE WriteVfatDir \/ WriteIsoDir
  <2>1. /\ pc = "dir" /\ pc' = "files" /\ base' = base /\ fats' = fats
    BY <1>7 DEF WriteVfatDir, WriteIsoDir, sizeVars
  <2>2. i' = 1
    BY <1>7, <2>1 DEF WriteVfatDir, WriteIsoDir, PlaceInv
  <2>3. base \in Nat /\ fats \in Nat
    BY <2>1, NumbersWhenWriting DEF Writing
  <2>4. offset' = FilePlace(1)
    <3>1. FilePlace(1) = base + Sector * DataStart
      BY <2>1, PlaceEnds DEF Writing
    <3>2. CASE WriteVfatDir
      <4>1. IsFat /\ offset = base + 512 * (1 + fats) /\ offset' = offset + Dirents
        BY <2>1, <3>2 DEF WriteVfatDir, PlaceInv, SectorSize
      <4>2. PICK d \in Nat : Dirents = 512 * d /\ DataStart = 1 + fats + d
        BY <2>1, <4>1, NumbersWhenWriting DEF Writing
      <4>3. Sector = 512
        BY <4>1 DEF Sector, SectorSize
      <4> QED
        BY <2>3, <3>1, <4>1, <4>2, <4>3
    <3>3. CASE WriteIsoDir
      <4>1. ~ IsFat /\ offset = base + 18 * 2048 /\ offset' = offset + 2048
        BY <2>1, <3>3 DEF WriteIsoDir, PlaceInv, IsoSectorSize
      <4>2. Sector = 2048 /\ DataStart = 19
        BY <4>1 DEF Sector, IsoSectorSize, DataStart
      <4> QED
        BY <2>3, <3>1, <4>1, <4>2
    <3> QED
      BY <1>7, <3>2, <3>3
  <2>5. FilePlace(1)' = FilePlace(1)
    BY <1>j, <2>1, PlaceSame
  <2>6. {e \in written' : e.of = "file"} = {}
    <3>1. PICK first, sizes : written' = written \cup DirExtents(first, sizes)
      BY <1>7 DEF WriteVfatDir, WriteIsoDir
    <3>2. {e \in written : e.of = "file"} = {}
      BY <2>1, FileExtentsGrow DEF PlaceInv, FilesDone
    <3> QED
      BY <3>1, <3>2, DirHasNoFiles
  <2>7. FileExtents(FilesDone)' = {}
    <3>1. FilesDone' = 0 /\ 1 .. 0 = {}
      BY <2>1, <2>2 DEF FilesDone
    <3> QED
      BY <3>1, Zenon DEF FileExtents
  <2>8. offset' = FilePlace(i)'
    BY <2>2, <2>4, <2>5, Zenon DEF FilePlace
  <2> QED
    BY <1>l, <2>1, <2>2, <2>6, <2>7, <2>8 DEF PlaceInv
<1>8. CASE WriteFile
  <2>1. /\ pc = "files" /\ pc' = "files" /\ base' = base /\ fats' = fats /\ i \in Files
        /\ i' = i + 1 /\ offset' = offset + Padded(i)
        /\ written' = written \cup {Extent("file", i, offset, Padded(i))}
    BY <1>8 DEF WriteFile, sizeVars
  <2>2. offset = FilePlace(i) /\ {e \in written : e.of = "file"} = FileExtents(i - 1)
    BY <2>1 DEF PlaceInv, FilesDone
  <2>3. offset' = FilePlace(i + 1)
    BY <2>1, <2>2, PlaceNext DEF Writing
  <2>4. FilePlace(i)' = FilePlace(i')
    <3>1. DataStart' = DataStart /\ FileSectors' = FileSectors
      BY <1>j, <2>1, PlaceSame, JobSame
    <3> QED
      BY <1>s, <2>1, <3>1, Zenon DEF FilePlace
  <2>5. FileExtents(i) = FileExtents(i - 1) \cup {Extent("file", i, FilePlace(i), Padded(i))}
    <3>1. i - 1 \in Nat /\ (i - 1) + 1 = i
      BY <1>l, <2>1
    <3> QED
      BY <3>1, FileExtentsGrow
  <2>6. {e \in written' : e.of = "file"} = FileExtents(i)
    <3>1. Extent("file", i, offset, Padded(i)).of = "file"
      BY DEF Extent
    <3> QED
      BY <2>1, <2>2, <2>5, <3>1
  <2>7. FileExtents(FilesDone)' = FileExtents(i)
    <3>1. FilesDone' = i
      BY <1>l, <2>1 DEF FilesDone
    <3>2. (\A f : FilePlace(f)' = FilePlace(f)) /\ (\A f : Padded(f)' = Padded(f))
      BY <1>j, <2>1, PlaceSame
    <3> QED
      BY <3>1, <3>2, Zenon DEF FileExtents, Extent
  <2>8. offset' = FilePlace(i)'
    BY <2>1, <2>3, <2>4, Zenon
  <2>9. i' \in 1 .. Len(job.files)' + 1
    BY <1>l, <2>1
  <2> QED
    BY <2>1, <2>6, <2>7, <2>8, <2>9 DEF PlaceInv
<1>9. CASE FilesWritten
  <2>1. /\ pc = "files" /\ pc' = "finish" /\ base' = base /\ fats' = fats /\ i \notin Files
        /\ last' = last /\ offset' = offset /\ written' = written
    BY <1>9 DEF FilesWritten, sizeVars
  <2>2. i = Len(job.files) + 1
    BY <1>l, <2>1 DEF PlaceInv
  <2>3. offset = base + Sector * last
    BY <2>1, <2>2, PlaceEnds DEF PlaceInv, Writing
  <2>4. offset' = base' + Sector' * last'
    BY <1>s, <2>1, <2>3, Zenon
  <2>5. {e \in written : e.of = "file"} = FileExtents(Len(job.files))
    <3>1. FilesDone = Len(job.files)
      BY <1>l, <2>1, <2>2 DEF FilesDone
    <3> QED
      BY <2>1, <3>1 DEF PlaceInv
  <2>6. FileExtents(FilesDone)' = FileExtents(Len(job.files))
    <3>1. FilesDone' = Len(job.files)
      BY <1>l, <2>1 DEF FilesDone
    <3>2. (\A f : FilePlace(f)' = FilePlace(f)) /\ (\A f : Padded(f)' = Padded(f))
      BY <1>j, <2>1, PlaceSame
    <3> QED
      BY <3>1, <3>2, Zenon DEF FileExtents, Extent
  <2> QED
    BY <2>1, <2>4, <2>5, <2>6 DEF PlaceInv
<1>10. CASE FinishDevice
  <2>1. /\ pc = "finish" /\ pc' = "done" /\ base' = base /\ fats' = fats /\ last' = last
        /\ offset' = offset
        /\ written' = written \cup
              (IF InVHDX /\ PadOffset > 0 THEN {Extent("pad", 0, base + PadOffset, PadLength)} ELSE {})
    BY <1>10 DEF FinishDevice, sizeVars
  <2>2. {e \in written' : e.of = "file"} = {e \in written : e.of = "file"}
    <3>1. Extent("pad", 0, base + PadOffset, PadLength).of # "file"
      BY DEF Extent
    <3> QED
      BY <2>1, <3>1
  <2>3. {e \in written : e.of = "file"} = FileExtents(Len(job.files)) /\ offset = base + Sector * last
    BY <2>1 DEF PlaceInv, FilesDone
  <2>4. FileExtents(FilesDone)' = FileExtents(Len(job.files))
    <3>1. FilesDone' = Len(job.files)
      BY <1>l, <2>1 DEF FilesDone
    <3>2. (\A f : FilePlace(f)' = FilePlace(f)) /\ (\A f : Padded(f)' = Padded(f))
      BY <1>j, <2>1, PlaceSame
    <3> QED
      BY <3>1, <3>2, Zenon DEF FileExtents, Extent
  <2>5. offset' = base' + Sector' * last'
    BY <1>s, <2>1, <2>3, Zenon
  <2> QED
    BY <2>1, <2>2, <2>3, <2>4, <2>5 DEF PlaceInv
<1>11. CASE WriteFails
  BY <1>11 DEF WriteFails, PlaceInv
<1>12. CASE UNCHANGED vars
  <2>1. /\ job' = job /\ pc' = pc /\ base' = base /\ last' = last /\ fats' = fats
        /\ offset' = offset /\ i' = i /\ written' = written
    BY <1>12 DEF vars, sizeVars
  <2>2. /\ (\A f : FilePlace(f)' = FilePlace(f)) /\ (\A f : Padded(f)' = Padded(f))
        /\ FileSectors' = FileSectors /\ DataStart' = DataStart
    BY <2>1, PlaceSame, JobSame
  <2>3. FilesDone' = FilesDone
    BY <2>1, Zenon DEF FilesDone
  <2>4. FileExtents(FilesDone)' = FileExtents(FilesDone)
    BY <2>2, <2>3, Zenon DEF FileExtents, Extent
  <2>5. FilePlace(i)' = FilePlace(i)
    BY <1>s, <2>1, <2>2, Zenon DEF FilePlace
  <2> QED
    BY <1>s, <2>1, <2>4, <2>5, Zenon DEF PlaceInv
<1> QED
  BY <1>1, <1>2, <1>3, <1>4, <1>5, <1>6, <1>7, <1>8, <1>9, <1>10, <1>11, <1>12 DEF Next

(* Both are kept by all steps together.                                    *)
LEMMA LayoutInductive == Spec => [](SizeInv /\ PlaceInv)
<1>1. Init => SizeInv /\ PlaceInv
  BY SizeInvInit, PlaceInvInit
<1>2. SizeInv /\ PlaceInv /\ [Next]_vars => SizeInv' /\ PlaceInv'
  BY SizeInvNext, PlaceInvNext
<1> QED
  BY <1>1, <1>2, PTL DEF Spec

(* The size that was asked for first, and that the headers of a VHDX are   *)
(* computed from, is what the file system takes in the end, whatever the   *)
(* files are: the FAT grows to the same size both times, each file is in   *)
(* its sectors, and the blocks hold it all (writeVHDX, writeVFAT).         *)
THEOREM LayoutFills == Spec => []FillsItsSize
<1>1. SizeInv /\ PlaceInv => FillsItsSize
  <2> SUFFICES ASSUME SizeInv, PlaceInv, pc = "done"
               PROVE  /\ offset = base + size
                      /\ \A e \in written : e.of = "file" => e.at + e.len <= base + size
                      /\ InVHDX => size <= blocks * BlockSize
    BY DEF FillsItsSize
  <2>1. job \in Jobs /\ base \in Nat /\ last \in Nat /\ size = Sector * last /\ offset = base + size
    BY NumbersWhenWriting DEF SizeInv, PlaceInv, Writing
  <2>2. Len(job.files) \in Nat /\ Files = 1 .. Len(job.files)
    BY <2>1, JobFiles DEF Files
  <2>3. ASSUME NEW e \in written, e.of = "file" PROVE e.at + e.len <= base + size
    <3>1. e \in FileExtents(Len(job.files))
      BY <2>3 DEF PlaceInv, FilesDone
    <3>2. PICK f \in Files : e = Extent("file", f, FilePlace(f), Padded(f))
      BY <2>2, <3>1 DEF FileExtents
    <3>3. e.at = FilePlace(f) /\ e.len = Padded(f)
      BY <3>2 DEF Extent
    <3>4. FilePlace(f) + Padded(f) = FilePlace(f + 1)
      BY PlaceNext DEF Writing
    <3>5. FilePlace(f + 1) <= FilePlace(Len(job.files) + 1)
      <4>1. /\ f + 1 \in 1 .. Len(job.files) + 1 /\ Len(job.files) + 1 \in 1 .. Len(job.files) + 1
            /\ f + 1 <= Len(job.files) + 1
        BY <2>2
      <4> QED
        BY <4>1, PlaceLess DEF Writing
    <3> QED
      BY <2>1, <3>3, <3>4, <3>5, PlaceEnds DEF Writing
  <2>4. ASSUME InVHDX PROVE size <= blocks * BlockSize
    <3>1. blocks = Units(Units(size, 512) * 512, BlockSize) /\ size \in Nat
      <4>1. blocks = Units(Units(size, SectorSize) * SectorSize, BlockSize) /\ SizeOfAll(size)
        BY <2>4 DEF SizeInv, Writing
      <4> QED
        BY <4>1 DEF SizeOfAll, SectorSize
    <3>2. PICK s \in Nat : s = Units(size, 512) /\ size <= 512 * s
      BY <3>1, UnitsHold
    <3>3. PICK n \in Nat : n = s * 512 /\ size <= n
      BY <3>1, <3>2
    <3>4. PICK k \in Nat : k = Units(n, BlockSize) /\ n <= BlockSize * k
      BY <3>3, BlocksHold
    <3>5. size <= k * BlockSize
      BY <3>1, <3>3, <3>4, SMT DEF BlockSize, MiB
    <3> QED
      BY <3>1, <3>2, <3>3, <3>4, <3>5
  <2> QED
    BY <2>1, <2>3, <2>4
<1> QED
  BY LayoutInductive, <1>1, PTL

-----------------------------------------------------------------------------
(* The table.                                                              *)

(* The entries below n lead from each cluster of a file to its next one.   *)
Link(f, c) == IF c - StartOf(f) + 1 = FileSectors[f] THEN 2 ^ bits - 1 ELSE c + 1

Linked(t, n) ==
    \A f \in Files : \A c \in StartOf(f) .. StartOf(f) + FileSectors[f] - 1 :
        c < n => EntryIn(t, c) = Link(f, c)

(* The entries of the current file that have been put.                     *)
PutSoFar == entry - StartOf(i)

StartsUpTo(n) ==
    /\ starts \in Seq(Nat) /\ Len(starts) = n
    /\ \A f \in 1 .. n : starts[f] = StartOf(f)

Chaining ==
    /\ table \in Bytes(SectorSize * fats) /\ entry \in Nat /\ HalfFree(table, entry)
    /\ Linked(table, entry)
    /\ IF i \in Files
       THEN /\ PutSoFar \in 0 .. FileSectors[i] - 1
            /\ left = Contents(i) - SectorSize * PutSoFar
            /\ StartsUpTo(IF PutSoFar = 0 THEN i - 1 ELSE i)
       ELSE PutSoFar = 0 /\ StartsUpTo(i - 1)

ChainInv ==
    /\ pc \in {"device", "count", "size", "headers", "boot"} => starts = <<>>
    /\ pc = "chain" => Chaining
    /\ pc \in {"dir", "files", "finish", "done"} /\ IsFat =>
          table \in Bytes(SectorSize * fats) /\ Linked(table, 2 + Total(FileSectors))
    /\ (pc = "dir" /\ IsFat) \/ pc \in {"files", "finish", "done"} =>
          \A f \in Files : starts[f] = StartOf(f)

(* The table has two bytes for every cluster of the file system, and an    *)
(* entry has room for its number.                                          *)
LEMMA Room ==
    ASSUME SizeInv, pc \in Writing, IsFat, NEW n \in Nat, n < last
    PROVE  /\ bits \in {12, 16} /\ (n * bits) \div 8 + 1 < 512 * fats
           /\ n + 1 < 2 ^ bits
<1>1. /\ job \in Jobs /\ fats \in Nat /\ last \in Nat /\ LeastFat(fats)
      /\ last = FixedSectors + fats /\ bits = BitsFor(last) /\ last < 65525
  BY NumbersWhenWriting, SMT DEF SizeInv, Counted, Fat32From
<1>2. bits \in {12, 16} /\ (bits = 12 => last < 4086)
  BY <1>1 DEF BitsFor, Fat16From
<1>3. PICK w \in Nat : w = bits * last
  BY <1>1, <1>2
<1>4. PICK x \in Nat : x = Units(w, 8) /\ w <= 8 * x
  BY <1>3, UnitsHold
<1>5. x <= 512 * Units(x, 512) /\ Units(x, 512) \in Nat
  BY <1>4, UnitsHold
<1>6. Need(fats) = Units(x, 512)
  <2>1. last = FixedSectors + fats /\ bits = BitsFor(last) /\ w = bits * last /\ x = Units(w, 8)
    BY <1>1, <1>3, <1>4
  <2>2. Need(fats) = Units(x, SectorSize)
    BY <2>1, Zenon DEF Need
  <2> QED
    BY <2>2 DEF SectorSize
<1>7. Need(fats) <= fats
  BY <1>1 DEF LeastFat
<1>8. w <= 4096 * fats
  BY <1>1, <1>3, <1>4, <1>5, <1>6, <1>7
<1>9. CASE bits = 12
  <2>1. n * 12 <= 4096 * fats - 12
    BY <1>1, <1>3, <1>8, <1>9
  <2>2. (n * 12) \div 8 + 1 < 512 * fats
    BY <1>1, <2>1
  <2>3. n + 1 < 2 ^ 12
    BY <1>1, <1>2, <1>9
  <2> QED
    BY <1>2, <1>9, <2>2, <2>3
<1>10. CASE bits = 16
  <2>1. n * 16 <= 4096 * fats - 16
    BY <1>1, <1>3, <1>8, <1>10
  <2>2. (n * 16) \div 8 + 1 < 512 * fats
    BY <1>1, <2>1
  <2>3. n + 1 < 2 ^ 16
    BY <1>1, <1>10
  <2> QED
    BY <1>2, <1>10, <2>2, <2>3
<1> QED
  BY <1>2, <1>9, <1>10

(* The clusters of a file are behind those of the files before it, and     *)
(* before what the table has no room for.                                  *)
LEMMA Clusters ==
    ASSUME SizeInv, pc \in Writing, NEW f \in Files
    PROVE  /\ StartOf(f) \in Nat /\ FileSectors[f] \in Nat /\ FileSectors[f] >= 1
           /\ StartOf(f + 1) = StartOf(f) + FileSectors[f]
           /\ \A g \in f + 1 .. Len(job.files) + 1 : StartOf(g) \in Nat /\ StartOf(f + 1) <= StartOf(g)
<1>1. job \in Jobs /\ Len(job.files) \in Nat /\ f \in 1 .. Len(job.files)
  BY NumbersWhenWriting, JobFiles DEF Files
<1>2. FileSectors \in Seq(Nat) /\ Len(FileSectors) = Len(job.files) /\ FileSectors[f] >= 1
  BY <1>1, SectorsOfFiles
<1>3. PICK first \in Nat : first = IF IsFat THEN 2 ELSE 19
  OBVIOUS
<1>4. \A g : StartOf(g) = first + Before(g, FileSectors)
  BY <1>3, Zenon DEF StartOf
<1>5. /\ Before(f, FileSectors) \in Nat /\ FileSectors[f] \in Nat
      /\ Before(f + 1, FileSectors) = Before(f, FileSectors) + FileSectors[f]
  BY <1>1, <1>2, BeforeNext
<1>6. ASSUME NEW g \in f + 1 .. Len(job.files) + 1
      PROVE  StartOf(g) \in Nat /\ StartOf(f + 1) <= StartOf(g)
  <2>1. /\ f + 1 \in 1 .. Len(FileSectors) + 1 /\ g \in 1 .. Len(FileSectors) + 1
        /\ f + 1 <= g /\ g <= g
    BY <1>1, <1>2
  <2>2. /\ Before(f + 1, FileSectors) <= Before(g, FileSectors)
        /\ Before(f + 1, FileSectors) \in Nat /\ Before(g, FileSectors) \in Nat
    BY <1>2, <2>1, BeforeLess
  <2> QED
    BY <1>3, <1>4, <2>2
<1>7. StartOf(f) \in Nat /\ StartOf(f + 1) = StartOf(f) + FileSectors[f]
  BY <1>3, <1>4, <1>5
<1> QED
  BY <1>2, <1>5, <1>6, <1>7

(* The clusters of the files begin at 2 and end before the last sector.    *)
LEMMA StartEnds ==
    ASSUME SizeInv, pc \in Writing, IsFat
    PROVE  /\ StartOf(1) = 2 /\ StartOf(Len(job.files) + 1) = 2 + Total(FileSectors)
           /\ Total(FileSectors) \in Nat /\ 2 + Total(FileSectors) < last
<1>1. job \in Jobs /\ DataStart \in Nat /\ last = DataStart + Total(FileSectors)
  BY NumbersWhenWriting
<1>2. FileSectors \in Seq(Nat) /\ Len(FileSectors) = Len(job.files)
  BY <1>1, SectorsOfFiles
<1>3. /\ Before(1, FileSectors) = 0 /\ Before(Len(job.files) + 1, FileSectors) = Total(FileSectors)
      /\ Total(FileSectors) \in Nat
  BY <1>2, TotalIs
<1>4. DataStart >= 3
  <2>1. PICK d \in Nat : d >= 1 /\ DataStart = 1 + fats + d
    BY NumbersWhenWriting
  <2>2. fats \in Nat /\ fats >= 1
    BY DEF SizeInv, Counted, LeastFat
  <2> QED
    BY <2>1, <2>2
<1>5. StartOf(1) = 2 + 0 /\ StartOf(Len(job.files) + 1) = 2 + Total(FileSectors)
  BY <1>3, Zenon DEF StartOf
<1> QED
  BY <1>1, <1>3, <1>4, <1>5

(* A cluster of a file is no other file's.                                 *)
LEMMA ClusterOfOne ==
    ASSUME SizeInv, pc \in Writing, NEW f \in Files, NEW g \in Files,
           NEW c \in Int, c >= StartOf(f), c < StartOf(f) + FileSectors[f],
           c >= StartOf(g), c < StartOf(g) + FileSectors[g]
    PROVE  f = g
<1>1. Len(job.files) \in Nat /\ f \in 1 .. Len(job.files) /\ g \in 1 .. Len(job.files)
  BY NumbersWhenWriting, JobFiles DEF Files
<1>2. ~ (f < g)
  <2>1. ASSUME f < g PROVE FALSE
    <3>1. g \in f + 1 .. Len(job.files) + 1
      BY <1>1, <2>1
    <3>2. StartOf(f) + FileSectors[f] <= StartOf(g)
      BY <3>1, Clusters
    <3>3. /\ StartOf(f) \in Nat /\ FileSectors[f] \in Nat /\ StartOf(g) \in Nat
      BY Clusters
    <3> QED
      BY <3>2, <3>3
  <2> QED
    BY <2>1
<1>3. ~ (g < f)
  <2>1. ASSUME g < f PROVE FALSE
    <3>1. f \in g + 1 .. Len(job.files) + 1
      BY <1>1, <2>1
    <3>2. StartOf(g) + FileSectors[g] <= StartOf(f)
      BY <3>1, Clusters
    <3>3. /\ StartOf(g) \in Nat /\ FileSectors[g] \in Nat /\ StartOf(f) \in Nat
      BY Clusters
    <3> QED
      BY <3>2, <3>3
  <2> QED
    BY <2>1
<1> QED
  BY <1>1, <1>2, <1>3

(* What is linked in the table of the next state is linked in the next     *)
(* state: the files and the bits are the same.                             *)
LEMMA LinkedNext ==
    ASSUME job' = job, bits' = bits
    PROVE  /\ Linked(table', entry') => Linked(table, entry)'
           /\ Linked(table', 2 + Total(FileSectors)) => Linked(table, 2 + Total(FileSectors))'
           /\ HalfFree(table', entry') => HalfFree(table, entry)'
<1>1. Files' = Files /\ FileSectors' = FileSectors /\ (\A f : StartOf(f)' = StartOf(f))
  BY JobSame
<1> QED
  BY <1>1, Zenon DEF Linked, Link, EntryIn, HalfFree

(* Whether a cluster is the last of its file.                              *)
LEMMA MoreClusters ==
    ASSUME NEW n \in Nat, NEW k \in Nat, k < Units(n, 512)
    PROVE  n - 512 * k > 512 <=> k + 1 < Units(n, 512)
<1>1. CASE n = 0
  BY <1>1 DEF Units
<1>2. CASE n # 0
  <2>1. PICK q \in Nat : q = (n - 1) \div 512 /\ 512 * q <= n - 1 /\ n - 1 < 512 * q + 512
    <3>1. (n - 1) \div 512 \in Nat /\ 512 * ((n - 1) \div 512) <= n - 1
          /\ n - 1 < 512 * ((n - 1) \div 512) + 512
      BY <1>2
    <3> QED
      BY <3>1
  <2>2. Units(n, 512) = q + 1
    BY <1>2, <2>1 DEF Units
  <2> QED
    BY <1>2, <2>1, <2>2
<1> QED
  BY <1>1, <1>2

(* The bits of a link are the number of the next cluster or all set.       *)
LEMMA LinkValues ==
    ASSUME bits \in {12, 16}, NEW n \in Nat, n + 1 < 2 ^ bits
    PROVE  EndOfChain \in Nat /\ EndOfChain % 2 ^ bits = 2 ^ bits - 1 /\ (n + 1) % 2 ^ bits = n + 1
<1>1. EndOfChain = 65535
  BY SMT DEF EndOfChain
<1>2. CASE bits = 12
  <2>1. 2 ^ bits = 4096
    BY <1>2
  <2>2. n + 1 < 4096
    BY <2>1
  <2> QED
    BY <1>1, <2>1, <2>2, SMT
<1>3. CASE bits = 16
  <2>1. 2 ^ bits = 65536
    BY <1>3, SMT
  <2>2. n + 1 < 65536
    BY <2>1, SMT
  <2> QED
    BY <1>1, <2>1, <2>2, SMT
<1> QED
  BY <1>2, <1>3

(* putFATChain puts the entries of one file behind those of the others.    *)
LEMMA ChainStep ==
    ASSUME SizeInv, PlaceInv, ChainInv, PutChain
    PROVE  Chaining'
<1>1. /\ pc = "chain" /\ pc \in Writing /\ i \in Files /\ Chaining /\ IsFat
      /\ job' = job /\ bits' = bits /\ fats' = fats /\ entry' = entry + 1
  BY DEF PutChain, ChainInv, PlaceInv, Writing, sizeVars
<1>2. /\ table \in Bytes(SectorSize * fats) /\ entry \in Nat /\ HalfFree(table, entry)
      /\ Linked(table, entry)
      /\ PutSoFar \in 0 .. FileSectors[i] - 1 /\ left = Contents(i) - SectorSize * PutSoFar
      /\ StartsUpTo(IF PutSoFar = 0 THEN i - 1 ELSE i)
  BY <1>1, Zenon DEF Chaining
<1>3. job \in Jobs /\ Len(job.files) \in Nat /\ Files = 1 .. Len(job.files) /\ fats \in Nat
  BY <1>1, NumbersWhenWriting, JobFiles DEF Files
<1>4. /\ StartOf(i) \in Nat /\ FileSectors[i] \in Nat /\ FileSectors[i] >= 1
      /\ StartOf(i + 1) = StartOf(i) + FileSectors[i]
      /\ StartOf(i + 1) <= StartOf(Len(job.files) + 1)
  <2>1. Len(job.files) + 1 \in i + 1 .. Len(job.files) + 1
    BY <1>1, <1>3
  <2> QED
    BY <1>1, <2>1, Clusters
<1>5. PICK k \in Nat : k = PutSoFar /\ k < FileSectors[i] /\ entry = StartOf(i) + k
  BY <1>2, <1>4 DEF PutSoFar
<1>6. entry < StartOf(i + 1) /\ entry < last
  <2>1. StartOf(Len(job.files) + 1) = 2 + Total(FileSectors) /\ Total(FileSectors) \in Nat
        /\ 2 + Total(FileSectors) < last /\ last \in Nat
    BY <1>1, StartEnds, NumbersWhenWriting
  <2>2. entry < StartOf(i + 1) /\ StartOf(i + 1) \in Nat
    BY <1>4, <1>5
  <2> QED
    BY <1>2, <1>4, <2>1, <2>2
<1>7. bits \in {12, 16} /\ (entry * bits) \div 8 + 1 < 512 * fats /\ entry + 1 < 2 ^ bits
  BY <1>1, <1>2, <1>6, Room
<1>8. left > SectorSize <=> k + 1 < FileSectors[i]
  <2>1. Contents(i) \in Nat /\ Sector = 512 /\ FileSectors[i] = Units(Contents(i), Sector)
    BY <1>1, <1>3, JobFiles, SectorsOfFiles
  <2>2. FileSectors[i] = Units(Contents(i), 512)
    BY <2>1
  <2>3. Contents(i) - 512 * k > 512 <=> k + 1 < FileSectors[i]
    BY <1>5, <2>1, <2>2, MoreClusters
  <2> QED
    BY <1>2, <1>5, <2>3 DEF SectorSize
<1>9. PICK v : v = IF left > SectorSize THEN entry + 1 ELSE EndOfChain
  OBVIOUS
<1>10. v \in Nat /\ v % 2 ^ bits = Link(i, entry)
  <2>1. EndOfChain \in Nat /\ EndOfChain % 2 ^ bits = 2 ^ bits - 1 /\ (entry + 1) % 2 ^ bits = entry + 1
    BY <1>2, <1>7, LinkValues
  <2>2. entry - StartOf(i) + 1 = k + 1
    BY <1>4, <1>5
  <2>3. k + 1 = FileSectors[i] <=> ~ (left > SectorSize)
    BY <1>4, <1>5, <1>8
  <2>4. Link(i, entry) = IF k + 1 = FileSectors[i] THEN 2 ^ bits - 1 ELSE entry + 1
    BY <2>2, Zenon DEF Link
  <2>5. CASE left > SectorSize
    <3>1. v = entry + 1 /\ Link(i, entry) = entry + 1
      BY <1>9, <2>3, <2>4, <2>5, Zenon
    <3> QED
      BY <1>2, <2>1, <3>1
  <2>6. CASE ~ (left > SectorSize)
    <3>1. v = EndOfChain /\ Link(i, entry) = 2 ^ bits - 1
      BY <1>9, <2>3, <2>4, <2>6, Zenon
    <3> QED
      BY <2>1, <3>1, Zenon
  <2> QED
    BY <2>5, <2>6
<1>11. table' = putFATEnt(table, entry, v)
  <2>1. CASE left > SectorSize
    BY <1>9, <2>1, Zenon DEF PutChain
  <2>2. CASE ~ (left > SectorSize)
    BY <1>9, <2>2, Zenon DEF PutChain
  <2> QED
    BY <2>1, <2>2
<1>12. Puts(512 * fats, table, entry, v, table')
  <2>1. 512 * fats \in Nat /\ table \in Bytes(512 * fats)
    BY <1>2, <1>3 DEF SectorSize
  <2>2. Puts(512 * fats, table, entry, v, putFATEnt(table, entry, v))
    BY <1>2, <1>7, <1>10, <2>1, PutEntry
  <2> QED
    BY <1>11, <2>2, Zenon
<1>13. /\ table' \in Bytes(512 * fats) /\ HalfFree(table', entry + 1)
       /\ EntryIn(table', entry) = Link(i, entry)
       /\ \A m \in 0 .. entry - 1 : EntryIn(table', m) = EntryIn(table, m)
  BY <1>10, <1>12, Zenon DEF Puts
<1>14. Linked(table', entry + 1)
  <2>1. ASSUME NEW f \in Files, NEW c \in StartOf(f) .. StartOf(f) + FileSectors[f] - 1, c < entry + 1
        PROVE  EntryIn(table', c) = Link(f, c)
    <3>1. StartOf(f) \in Nat /\ FileSectors[f] \in Nat
      BY <1>1, Clusters
    <3>2. c \in Nat /\ c >= StartOf(f) /\ c < StartOf(f) + FileSectors[f]
      BY <3>1
    <3>3. CASE c = entry
      <4>1. entry >= StartOf(i) /\ entry < StartOf(i) + FileSectors[i]
        BY <1>4, <1>5
      <4>2. f = i
        BY <1>1, <3>2, <3>3, <4>1, ClusterOfOne
      <4> QED
        BY <1>13, <3>3, <4>2, Zenon
    <3>4. CASE c # entry
      <4>1. c < entry /\ c \in 0 .. entry - 1
        BY <1>2, <2>1, <3>2, <3>4
      <4>2. EntryIn(table, c) = Link(f, c)
        BY <1>2, <4>1, Zenon DEF Linked
      <4> QED
        BY <1>13, <4>1, <4>2, Zenon
    <3> QED
      BY <3>3, <3>4
  <2> QED
    BY <2>1, Zenon DEF Linked
<1>15. starts' \in Seq(Nat) /\ Len(starts') = i /\ \A f \in 1 .. i : starts'[f] = StartOf(f)
  <2>1. starts' = IF Len(starts) < i THEN Append(starts, entry) ELSE starts
    BY DEF PutChain
  <2>2. i \in Nat /\ i >= 1
    BY <1>1, <1>3
  <2>3. CASE k = 0
    <3>1. starts \in Seq(Nat) /\ Len(starts) = i - 1 /\ \A f \in 1 .. i - 1 : starts[f] = StartOf(f)
      BY <1>2, <1>5, <2>3 DEF StartsUpTo
    <3>2. starts' = Append(starts, entry) /\ entry = StartOf(i)
      BY <1>4, <1>5, <2>1, <2>2, <2>3, <3>1
    <3>3. ASSUME NEW f \in 1 .. i PROVE starts'[f] = StartOf(f)
      <4>1. CASE f = i
        BY <1>2, <2>2, <3>1, <3>2, <4>1
      <4>2. CASE f # i
        <5>1. f \in 1 .. i - 1
          BY <2>2, <4>2
        <5>2. starts'[f] = starts[f]
          BY <3>1, <3>2, <5>1
        <5> QED
          BY <3>1, <5>1, <5>2
      <4> QED
        BY <4>1, <4>2
    <3>4. starts' \in Seq(Nat) /\ Len(starts') = i
      BY <1>2, <2>2, <3>1, <3>2
    <3> QED
      BY <3>3, <3>4
  <2>4. CASE k # 0
    <3>1. starts \in Seq(Nat) /\ Len(starts) = i /\ \A f \in 1 .. i : starts[f] = StartOf(f)
      BY <1>2, <1>5, <2>4 DEF StartsUpTo
    <3>2. starts' = starts
      BY <2>1, <2>2, <3>1
    <3> QED
      BY <3>1, <3>2
  <2> QED
    BY <2>3, <2>4
<1>16. /\ Files' = Files /\ FileSectors' = FileSectors /\ (\A f : StartOf(f)' = StartOf(f))
       /\ (\A f : Contents(f)' = Contents(f))
  BY <1>1, JobSame
<1>17. StartOf(i)' = StartOf(i') /\ Contents(i)' = Contents(i') /\ FileSectors[i]' = FileSectors[i']
  <2>1. IsFat' = IsFat /\ job' = job
    BY <1>1, JobSame
  <2> QED
    BY <1>16, <2>1, Zenon DEF StartOf, Contents
<1>18. Linked(table, entry)' /\ HalfFree(table, entry)' /\ table' \in Bytes(SectorSize * fats)' /\ entry' \in Nat
  <2>1. Linked(table', entry') /\ HalfFree(table', entry')
    BY <1>1, <1>13, <1>14, Zenon
  <2>2. table' \in Bytes(SectorSize * fats')
    BY <1>1, <1>13 DEF SectorSize
  <2> QED
    BY <1>1, <1>2, <2>1, <2>2, LinkedNext
<1>19. CASE left > SectorSize
  <2>1. i' = i /\ left' = left - SectorSize
    BY <1>19 DEF PutChain
  <2>2. PutSoFar' = k + 1
    <3>1. PutSoFar' = entry' - StartOf(i')
      BY <1>17, Zenon DEF PutSoFar
    <3>2. StartOf(i') = StartOf(i)
      BY <2>1, Zenon
    <3>3. PutSoFar' = (entry + 1) - StartOf(i)
      BY <1>1, <3>1, <3>2, Zenon
    <3> QED
      BY <1>4, <1>5, <3>3
  <2>3. PutSoFar' \in 0 .. FileSectors[i]' - 1
    BY <1>4, <1>5, <1>8, <1>17, <1>19, <2>1, <2>2
  <2>4. left' = Contents(i)' - SectorSize * PutSoFar'
    <3>1. Contents(i) \in Nat /\ left = Contents(i) - 512 * k
      BY <1>2, <1>3, <1>5, JobFiles DEF SectorSize
    <3> QED
      BY <1>17, <2>1, <2>2, <3>1 DEF SectorSize
  <2>5. StartsUpTo(i)'
    BY <1>15, <1>16, <2>1, Zenon DEF StartsUpTo
  <2>6. i' \in Files' /\ PutSoFar' # 0
    BY <1>1, <1>5, <1>16, <2>1, <2>2
  <2> QED
    BY <1>18, <2>3, <2>4, <2>5, <2>6, Zenon DEF Chaining
<1>20. CASE ~ (left > SectorSize)
  <2>1. i' = i + 1 /\ left' = Contents(i + 1)
    BY <1>20 DEF PutChain
  <2>2. PutSoFar' = 0
    <3>1. entry' = StartOf(i')
      <4>1. StartOf(i') = StartOf(i + 1)
        BY <2>1, Zenon
      <4>2. entry + 1 = StartOf(i + 1)
        <5>1. ~ (k + 1 < FileSectors[i])
          BY <1>8, <1>20, Zenon
        <5>2. k + 1 = FileSectors[i]
          BY <1>4, <1>5, <5>1
        <5> QED
          BY <1>4, <1>5, <5>2
      <4> QED
        BY <1>1, <4>1, <4>2, Zenon
    <3>2. StartOf(i') \in Nat
      BY <1>4, <2>1
    <3> QED
      BY <1>17, <3>1, <3>2 DEF PutSoFar
  <2>3. StartsUpTo(i - 1)'
    <3>1. i' - 1 = i
      BY <1>1, <1>3, <2>1
    <3> QED
      BY <1>15, <1>16, <3>1, Zenon DEF StartsUpTo
  <2>4. CASE i' \in Files
    <3>1. FileSectors[i'] \in Nat /\ FileSectors[i'] >= 1 /\ Contents(i') \in Nat
      BY <1>3, <2>4, SectorsOfFiles, JobFiles
    <3>2. PutSoFar' \in 0 .. FileSectors[i]' - 1
      BY <1>17, <2>2, <3>1
    <3>3. left' = Contents(i)' - SectorSize * PutSoFar'
      BY <1>17, <2>1, <2>2, <3>1 DEF SectorSize
    <3> QED
      BY <1>16, <1>18, <2>2, <2>3, <2>4, <3>2, <3>3, Zenon DEF Chaining
  <2>5. CASE i' \notin Files
    BY <1>16, <1>18, <2>2, <2>3, <2>5, Zenon DEF Chaining
  <2> QED
    BY <2>4, <2>5
<1> QED
  BY <1>19, <1>20

(* The table starts empty, and its first two entries belong to no file.    *)
LEMMA BootStep ==
    ASSUME SizeInv, PlaceInv, ChainInv, WriteBoot
    PROVE  Chaining'
<1>1. /\ pc = "boot" /\ pc \in Writing /\ IsFat /\ i' = i /\ i = 1 /\ starts' = starts /\ starts = <<>>
      /\ job' = job /\ bits' = bits /\ fats' = fats /\ entry' = 2 /\ left' = Contents(1)
  BY DEF WriteBoot, PlaceInv, ChainInv, Writing, sizeVars
<1>2. /\ job \in Jobs /\ fats \in Nat /\ Len(job.files) \in Nat /\ Files = 1 .. Len(job.files)
      /\ last \in Nat /\ 2 + Total(FileSectors) < last /\ Total(FileSectors) \in Nat /\ StartOf(1) = 2
  BY <1>1, NumbersWhenWriting, JobFiles, StartEnds DEF Files
<1>3. PICK t : t = [b \in 0 .. SectorSize * fats - 1 |-> 0]
  OBVIOUS
<1>4. 512 * fats \in Nat /\ t \in Bytes(512 * fats)
  <2>1. 0 \in Byte
    BY DEF Byte
  <2> QED
    BY <1>2, <1>3, <2>1 DEF Bytes, SectorSize
<1>5. bits \in {12, 16} /\ (0 * bits) \div 8 + 1 < 512 * fats /\ (1 * bits) \div 8 + 1 < 512 * fats
  BY <1>1, <1>2, Room
<1>6. HalfFree(t, 0)
  <2>1. 0 % 2 # 1
    OBVIOUS
  <2> QED
    BY <2>1, Zenon DEF HalfFree
<1>7. FatId \in Nat /\ EndOfChain \in Nat
  BY SMT DEF FatId, EndOfChain
<1>8. PICK u : u = putFATEnt(t, 0, FatId)
  OBVIOUS
<1>9. u \in Bytes(512 * fats) /\ HalfFree(u, 1)
  <2>1. Puts(512 * fats, t, 0, FatId, u)
    BY <1>4, <1>5, <1>6, <1>7, <1>8, PutEntry
  <2>2. 0 + 1 = 1
    OBVIOUS
  <2> QED
    BY <2>1, <2>2, Zenon DEF Puts
<1>10. table' = putFATEnt(u, 1, EndOfChain)
  BY <1>3, <1>8, Zenon DEF WriteBoot
<1>11. table' \in Bytes(512 * fats) /\ HalfFree(table', 2)
  <2>1. Puts(512 * fats, u, 1, EndOfChain, table')
    BY <1>4, <1>5, <1>7, <1>9, <1>10, PutEntry
  <2>2. 1 + 1 = 2
    OBVIOUS
  <2> QED
    BY <2>1, <2>2, Zenon DEF Puts
<1>12. Linked(table', 2)
  <2>1. ASSUME NEW f \in Files, NEW c \in StartOf(f) .. StartOf(f) + FileSectors[f] - 1, c < 2
        PROVE  FALSE
    <3>1. StartOf(f) \in Nat /\ FileSectors[f] \in Nat
      BY <1>1, Clusters
    <3>2. StartOf(f) >= 2
      <4>1. Before(f, FileSectors) \in Nat
        BY <1>2, SectorsOfFiles, BeforeNext
      <4> QED
        BY <1>1, <4>1 DEF StartOf
    <3> QED
      BY <2>1, <3>1, <3>2
  <2> QED
    BY <2>1, Zenon DEF Linked
<1>13. Linked(table, entry)' /\ HalfFree(table, entry)' /\ table' \in Bytes(SectorSize * fats)'
  <2>1. Linked(table', entry') /\ HalfFree(table', entry')
    BY <1>1, <1>11, <1>12, Zenon
  <2>2. table' \in Bytes(SectorSize * fats')
    BY <1>1, <1>11 DEF SectorSize
  <2> QED
    BY <1>1, <2>1, <2>2, LinkedNext
<1>14. /\ Files' = Files /\ FileSectors' = FileSectors /\ (\A f : StartOf(f)' = StartOf(f))
       /\ (\A f : Contents(f)' = Contents(f))
  BY <1>1, JobSame
<1>15. StartOf(i)' = 2 /\ Contents(i)' = Contents(1) /\ FileSectors[i]' = FileSectors[1]
  <2>1. IsFat' = IsFat /\ job' = job /\ i' = 1
    BY <1>1, JobSame
  <2> QED
    BY <1>2, <1>14, <2>1, Zenon DEF StartOf, Contents
<1>16. PutSoFar' = 0
  <2>1. PutSoFar' = 2 - 2
    BY <1>1, <1>15, Zenon DEF PutSoFar
  <2> QED
    BY <2>1
<1>17. StartsUpTo(i - 1)'
  <2>1. i' - 1 = 0
    BY <1>1
  <2>2. starts' \in Seq(Nat) /\ Len(starts') = 0
    BY <1>1
  <2>3. 1 .. 0 = {}
    OBVIOUS
  <2> QED
    BY <2>1, <2>2, <2>3, Zenon DEF StartsUpTo
<1>18. CASE i' \in Files
  <2>1. FileSectors[1] \in Nat /\ FileSectors[1] >= 1 /\ Contents(1) \in Nat
    BY <1>1, <1>2, <1>18, SectorsOfFiles, JobFiles
  <2>2. PutSoFar' \in 0 .. FileSectors[i]' - 1
    BY <1>15, <1>16, <2>1
  <2>3. left' = Contents(i)' - SectorSize * PutSoFar'
    BY <1>1, <1>15, <1>16, <2>1 DEF SectorSize
  <2>4. entry' \in Nat
    BY <1>1
  <2> QED
    BY <1>13, <1>14, <1>16, <1>17, <1>18, <2>2, <2>3, <2>4, Zenon DEF Chaining
<1>19. CASE i' \notin Files
  <2>1. entry' \in Nat
    BY <1>1
  <2> QED
    BY <1>13, <1>14, <1>16, <1>17, <1>19, <2>1, Zenon DEF Chaining
<1> QED
  BY <1>18, <1>19

(* What is in place stays so while the table and the starts are the same.  *)
LEMMA ChainKept ==
    ASSUME ChainInv, job' = job, bits' = bits, fats' = fats, table' = table, starts' = starts,
           pc \in {"files", "finish"} \/ (pc = "dir" /\ IsFat),
           pc' \in {"files", "finish", "done"}
    PROVE  ChainInv'
<1>1. /\ Files' = Files /\ FileSectors' = FileSectors /\ (\A f : StartOf(f)' = StartOf(f)) /\ IsFat' = IsFat
  BY JobSame
<1>2. \A f \in Files : starts[f] = StartOf(f)
  BY DEF ChainInv
<1>3. IsFat => table \in Bytes(SectorSize * fats) /\ Linked(table, 2 + Total(FileSectors))
  BY DEF ChainInv
<1>4. IsFat' => table' \in Bytes(SectorSize * fats') /\ Linked(table, 2 + Total(FileSectors))'
  <2>1. ASSUME IsFat PROVE Linked(table', 2 + Total(FileSectors)) /\ table' \in Bytes(SectorSize * fats')
    BY <1>3, <2>1, Zenon
  <2> QED
    BY <1>1, <2>1, LinkedNext
<1>5. \A f \in Files' : starts'[f] = StartOf(f)'
  BY <1>1, <1>2, Zenon
<1> QED
  BY <1>4, <1>5 DEF ChainInv

LEMMA ChainInvInit == Init => ChainInv
BY DEF Init, ChainInv

(* Only WriteBoot and PutChain put entries; the other steps keep the table *)
(* and the starts, or compute the starts of ISO 9660.                      *)
LEMMA ChainInvNext == SizeInv /\ PlaceInv /\ ChainInv /\ [Next]_vars => ChainInv'
<1> SUFFICES ASSUME SizeInv, PlaceInv, ChainInv, [Next]_vars PROVE ChainInv'
  OBVIOUS
<1>1. CASE \/ BeginDevice \/ WriteHeaders \/ CountFatSectors \/ CountIsoSectors \/ GrowFat \/ SizeKnown
  <2>1. /\ pc \in {"device", "count", "size", "headers", "boot"}
        /\ pc' \in {"count", "size", "headers", "boot", "panic"} /\ starts' = starts
    BY <1>1 DEF BeginDevice, WriteHeaders, CountFatSectors, CountIsoSectors, GrowFat, SizeKnown, fatVars
  <2> QED
    BY <2>1 DEF ChainInv
<1>2. CASE WriteBoot
  <2>1. Chaining' /\ pc' = "chain"
    BY <1>2, BootStep DEF WriteBoot
  <2> QED
    BY <2>1 DEF ChainInv
<1>3. CASE WriteVolume
  <2>1. ~ IsFat' /\ pc' = "dir"
    <3>1. ~ IsFat /\ job' = job /\ pc' = "dir"
      BY <1>3 DEF WriteVolume
    <3> QED
      BY <3>1, JobSame
  <2> QED
    BY <2>1 DEF ChainInv
<1>4. CASE PutChain
  <2>1. Chaining' /\ pc' = "chain"
    BY <1>4, ChainStep DEF PutChain
  <2> QED
    BY <2>1 DEF ChainInv
<1>5. CASE WriteFat
  <2>1. /\ pc = "chain" /\ pc' = "dir" /\ pc \in Writing /\ i \notin Files /\ IsFat /\ Chaining
        /\ job' = job /\ bits' = bits /\ fats' = fats /\ table' = table /\ starts' = starts /\ entry' = entry
    BY <1>5 DEF WriteFat, PlaceInv, ChainInv, Writing, sizeVars, fatVars
  <2>2. Len(job.files) \in Nat /\ Files = 1 .. Len(job.files)
    BY JobFiles DEF SizeInv, Files
  <2>3. i = Len(job.files) + 1
    BY <2>1, <2>2 DEF PlaceInv
  <2>4. /\ table \in Bytes(SectorSize * fats) /\ Linked(table, entry)
        /\ PutSoFar = 0 /\ StartsUpTo(i - 1) /\ entry \in Nat
    BY <2>1, Zenon DEF Chaining
  <2>5. entry = 2 + Total(FileSectors)
    <3>1. StartOf(i) = 2 + Total(FileSectors) /\ Total(FileSectors) \in Nat
      BY <2>1, <2>3, StartEnds
    <3> QED
      BY <2>4, <3>1 DEF PutSoFar
  <2>6. \A f \in Files : starts[f] = StartOf(f)
    <3>1. i - 1 = Len(job.files)
      BY <2>2, <2>3
    <3> QED
      BY <2>2, <2>4, <3>1, Zenon DEF StartsUpTo
  <2>7. Linked(table, 2 + Total(FileSectors))' /\ table' \in Bytes(SectorSize * fats')
    <3>1. Linked(table', 2 + Total(FileSectors))
      BY <2>1, <2>4, <2>5, Zenon
    <3>2. table' \in Bytes(SectorSize * fats')
      BY <2>1, <2>4, Zenon
    <3> QED
      BY <2>1, <3>1, <3>2, LinkedNext
  <2>8. \A f \in Files' : starts'[f] = StartOf(f)'
    <3>1. Files' = Files /\ (\A f : StartOf(f)' = StartOf(f))
      BY <2>1, JobSame
    <3> QED
      BY <2>1, <2>6, <3>1, Zenon
  <2> QED
    BY <2>1, <2>7, <2>8 DEF ChainInv
<1>6. CASE WriteIsoDir
  <2>1. /\ pc' = "files" /\ ~ IsFat /\ job' = job
        /\ starts' = [f \in Files |-> 19 + Before(f, FileSectors)]
    BY <1>6 DEF WriteIsoDir
  <2>2. Files' = Files /\ (\A f : StartOf(f)' = StartOf(f)) /\ IsFat' = IsFat
    BY <2>1, JobSame
  <2>3. \A f \in Files : starts'[f] = StartOf(f)
    BY <2>1, Zenon DEF StartOf
  <2> QED
    BY <2>1, <2>2, <2>3 DEF ChainInv
<1>7. CASE WriteVfatDir \/ WriteFile \/ FilesWritten \/ FinishDevice
  <2>1. /\ job' = job /\ bits' = bits /\ fats' = fats /\ table' = table /\ starts' = starts
        /\ pc \in {"files", "finish"} \/ (pc = "dir" /\ IsFat)
    BY <1>7 DEF WriteVfatDir, WriteFile, FilesWritten, FinishDevice, sizeVars, fatVars
  <2>2. pc' \in {"files", "finish", "done"}
    BY <1>7 DEF WriteVfatDir, WriteFile, FilesWritten, FinishDevice
  <2> QED
    BY <2>1, <2>2, ChainKept
<1>8. CASE WriteFails
  BY <1>8 DEF WriteFails, ChainInv
<1>9. CASE UNCHANGED vars
  <2>1. /\ job' = job /\ pc' = pc /\ bits' = bits /\ fats' = fats /\ table' = table /\ starts' = starts
        /\ i' = i /\ left' = left /\ entry' = entry
    BY <1>9 DEF vars, sizeVars, fatVars
  <2>2. /\ Files' = Files /\ FileSectors' = FileSectors /\ (\A f : StartOf(f)' = StartOf(f)) /\ IsFat' = IsFat
        /\ (\A f : Contents(f)' = Contents(f))
    BY <2>1, JobSame
  <2>3. Chaining' = Chaining
    <3>1. PutSoFar' = PutSoFar
      BY <2>1, <2>2, Zenon DEF PutSoFar, StartOf
    <3>2. Linked(table, entry)' = Linked(table, entry) /\ HalfFree(table, entry)' = HalfFree(table, entry)
      BY <2>1, <2>2, Zenon DEF Linked, Link, EntryIn, HalfFree
    <3>3. Contents(i)' = Contents(i) /\ FileSectors[i]' = FileSectors[i]
      BY <2>1, <2>2, Zenon DEF Contents
    <3>4. StartsUpTo(IF PutSoFar = 0 THEN i - 1 ELSE i)' = StartsUpTo(IF PutSoFar = 0 THEN i - 1 ELSE i)
          /\ StartsUpTo(i - 1)' = StartsUpTo(i - 1)
      BY <2>1, <2>2, <3>1, Zenon DEF StartsUpTo
    <3> QED
      BY <2>1, <2>2, <3>1, <3>2, <3>3, <3>4, Zenon DEF Chaining
  <2>4. Linked(table, 2 + Total(FileSectors))' = Linked(table, 2 + Total(FileSectors))
    BY <2>1, <2>2, Zenon DEF Linked, Link, EntryIn
  <2> QED
    BY <2>1, <2>2, <2>3, <2>4, Zenon DEF ChainInv
<1> QED
  BY <1>1, <1>2, <1>3, <1>4, <1>5, <1>6, <1>7, <1>8, <1>9 DEF Next

(* The table is as it should be in every state.                            *)
LEMMA ChainInductive == Spec => [](SizeInv /\ PlaceInv /\ ChainInv)
<1>1. Init => ChainInv
  BY ChainInvInit
<1>2. SizeInv /\ PlaceInv /\ ChainInv /\ [Next]_vars => ChainInv'
  BY ChainInvNext
<1> QED
  BY <1>1, <1>2, LayoutInductive, PTL DEF Spec

(* Whatever the files are, a reader of the image finds them: the start in  *)
(* the directory is where the contents were written, and from there the    *)
(* table leads through as many clusters as the contents have, though of 12 *)
(* bits two entries share a byte and the size of the table was computed    *)
(* before there was one (putFATEnt, putFATChain, writeVFAT,                *)
(* writeISO9660).                                                          *)
THEOREM LayoutReadsBack == Spec => []ReadsBack
<1>1. SizeInv /\ PlaceInv /\ ChainInv => ReadsBack
  <2> SUFFICES ASSUME SizeInv, PlaceInv, ChainInv, pc = "done", NEW f \in Files
               PROVE  IF ~ IsFat
                      THEN At(f) = base + starts[f] * IsoSectorSize
                      ELSE /\ At(f) = base + (FirstSector + starts[f] - 2) * SectorSize
                           /\ \A c \in starts[f] .. starts[f] + Units(Contents(f), SectorSize) - 1 :
                                  /\ (c * bits) \div 8 + 1 \in DOMAIN table
                                  /\ EntryAt(c) = IF c - starts[f] + 1 = Units(Contents(f), SectorSize)
                                                  THEN 2 ^ bits - 1 ELSE c + 1
    BY DEF ReadsBack
  <2>1. /\ pc \in Writing /\ job \in Jobs /\ base \in Nat /\ fats \in Nat /\ DataStart \in Nat
        /\ Len(job.files) \in Nat /\ Files = 1 .. Len(job.files) /\ last \in Nat
    BY NumbersWhenWriting, JobFiles DEF Writing, Files
  <2>2. At(f) = FilePlace(f)
    <3>1. \A e \in written : e.of = "file" =>
             \E g \in Files : e = Extent("file", g, FilePlace(g), Padded(g))
      BY <2>1 DEF PlaceInv, FilesDone, FileExtents
    <3>2. Extent("file", f, FilePlace(f), Padded(f)) \in {e \in written : e.of = "file"}
      BY <2>1 DEF PlaceInv, FilesDone, FileExtents
    <3>3. PICK x : x = CHOOSE e \in written : e.of = "file" /\ e.n = f
      OBVIOUS
    <3>4. x \in written /\ x.of = "file" /\ x.n = f
      <4>1. \E e \in written : e.of = "file" /\ e.n = f
        BY <3>2 DEF Extent
      <4> QED
        BY <3>3, <4>1
    <3>5. x = Extent("file", f, FilePlace(f), Padded(f))
      BY <3>1, <3>4 DEF Extent
    <3> QED
      <4>1. At(f) = x.at
        BY <3>3, Zenon DEF At
      <4>2. x.at = FilePlace(f)
        BY <3>5 DEF Extent
      <4> QED
        BY <4>1, <4>2
  <2>3. starts[f] = StartOf(f)
    BY DEF ChainInv
  <2>4. PICK b \in Nat : b = Before(f, FileSectors)
    BY <2>1, SectorsOfFiles, BeforeNext
  <2>5. CASE ~ IsFat
    <3>1. FilePlace(f) = base + 2048 * (19 + b) /\ starts[f] = 19 + b
      BY <2>3, <2>4, <2>5 DEF FilePlace, DataStart, Sector, IsoSectorSize, StartOf
    <3> QED
      BY <2>1, <2>2, <2>4, <2>5, <3>1 DEF IsoSectorSize
  <2>6. CASE IsFat
    <3>1. FilePlace(f) = base + 512 * (FirstSector + b) /\ starts[f] = 2 + b /\ FirstSector \in Nat
      BY <2>1, <2>3, <2>4, <2>6 DEF FilePlace, DataStart, Sector, SectorSize, StartOf
    <3>2. At(f) = base + (FirstSector + starts[f] - 2) * SectorSize
      BY <2>1, <2>2, <2>4, <3>1 DEF SectorSize
    <3>3. Units(Contents(f), SectorSize) = FileSectors[f]
      BY <2>1, <2>6, SectorsOfFiles DEF Sector
    <3>4. table \in Bytes(SectorSize * fats) /\ Linked(table, 2 + Total(FileSectors))
      BY <2>6 DEF ChainInv
    <3>5. ASSUME NEW c \in StartOf(f) .. StartOf(f) + FileSectors[f] - 1
          PROVE  (c * bits) \div 8 + 1 \in DOMAIN table /\ EntryIn(table, c) = Link(f, c)
      <4>1. StartOf(f) \in Nat /\ FileSectors[f] \in Nat /\ StartOf(f + 1) = StartOf(f) + FileSectors[f]
        BY <2>1, Clusters
      <4>2. StartOf(f + 1) <= 2 + Total(FileSectors)
        <5>1. Len(job.files) + 1 \in f + 1 .. Len(job.files) + 1
          BY <2>1
        <5> QED
          BY <2>1, <2>6, <5>1, Clusters, StartEnds
      <4>3. Total(FileSectors) \in Nat /\ 2 + Total(FileSectors) < last
        BY <2>1, <2>6, StartEnds
      <4>4. c \in Nat /\ c < 2 + Total(FileSectors) /\ c < last
        <5>1. c \in Nat /\ c < StartOf(f + 1) /\ StartOf(f + 1) \in Nat
          BY <4>1
        <5> QED
          BY <2>1, <4>2, <4>3, <5>1
      <4>5. bits \in {12, 16} /\ (c * bits) \div 8 + 1 < 512 * fats
        BY <2>1, <2>6, <4>4, Room
      <4>6. (c * bits) \div 8 + 1 \in 0 .. 512 * fats - 1
        BY <2>1, <4>4, <4>5
      <4>7. DOMAIN table = 0 .. 512 * fats - 1
        BY <3>4 DEF Bytes, SectorSize
      <4>8. EntryIn(table, c) = Link(f, c)
        BY <3>4, <4>4, Zenon DEF Linked
      <4> QED
        BY <4>6, <4>7, <4>8
    <3>6. \A c : EntryAt(c) = EntryIn(table, c)
      BY DEF EntryAt, EntryIn, Field, Short
    <3>7. \A c \in starts[f] .. starts[f] + Units(Contents(f), SectorSize) - 1 :
             /\ (c * bits) \div 8 + 1 \in DOMAIN table
             /\ EntryAt(c) = IF c - starts[f] + 1 = Units(Contents(f), SectorSize)
                             THEN 2 ^ bits - 1 ELSE c + 1
      BY <2>3, <3>3, <3>5, <3>6, Zenon DEF Link
    <3> QED
      BY <2>6, <3>2, <3>7
  <2> QED
    BY <2>5, <2>6
<1> QED
  BY ChainInductive, <1>1, PTL

-----------------------------------------------------------------------------
(* What has been written.                                                  *)

(* A VHDX has room for the zeroes behind the file system: the code takes   *)
(* it for granted and nowhere checks it.                                   *)
Fits == InVHDX => size <= BlockSize - PadSize

(* The entries of three files fit into the one sector that a directory of  *)
(* ISO 9660 is given, so that putDirent refuses none.                      *)
LEMMA DirectoryFits ==
    ASSUME job \in Jobs
    PROVE  2 * IsoDirentOf(1) + Total(IsoDirents) <= IsoSectorSize
<1>1. PICK s : s = IsoDirents
  OBVIOUS
<1>2. s \in Seq(Nat) /\ Len(s) \in 0 .. 3 /\ Files = 1 .. Len(s)
  BY <1>1, JobFiles, EntriesOfFiles DEF Files
<1>3. ASSUME NEW f \in 1 .. Len(s) PROVE s[f] \in 0 .. 50
  <2>1. PICK n \in 0 .. 14 : n = job.files[f].name
    BY <1>2, JobFiles
  <2>2. s[f] = IsoDirentOf(n + 2)
    BY <1>1, <1>2, <2>1 DEF IsoDirents
  <2> QED
    BY <2>2 DEF IsoDirentOf
<1>4. PICK g : g = Sums(s) /\ Adds(g, s, Len(s))
  BY <1>2, SumsAdd
<1>5. g[0] = 0 /\ \A k \in 1 .. Len(s) : g[k] = g[k - 1] + s[k]
  BY <1>4 DEF Adds
<1>6. g[Len(s)] <= 150
  <2>1. CASE Len(s) = 0
    BY <1>5, <2>1
  <2>2. CASE Len(s) = 1
    <3>1. g[1] = g[0] + s[1] /\ s[1] \in 0 .. 50
      BY <1>3, <1>5, <2>2
    <3> QED
      BY <1>5, <2>2, <3>1
  <2>3. CASE Len(s) = 2
    <3>1. g[1] = g[0] + s[1] /\ g[2] = g[1] + s[2] /\ s[1] \in 0 .. 50 /\ s[2] \in 0 .. 50
      BY <1>3, <1>5, <2>3
    <3> QED
      BY <1>5, <2>3, <3>1
  <2>4. CASE Len(s) = 3
    <3>1. /\ g[1] = g[0] + s[1] /\ g[2] = g[1] + s[2] /\ g[3] = g[2] + s[3]
          /\ s[1] \in 0 .. 50 /\ s[2] \in 0 .. 50 /\ s[3] \in 0 .. 50
      BY <1>3, <1>5, <2>4
    <3> QED
      BY <1>5, <2>4, <3>1
  <2> QED
    BY <1>2, <2>1, <2>2, <2>3, <2>4
<1>7. Total(IsoDirents) = g[Len(s)]
  BY <1>1, <1>4 DEF Total
<1>8. Total(IsoDirents) \in Nat
  BY EntriesOfFiles, TotalIs
<1> QED
  BY <1>6, <1>7, <1>8 DEF IsoDirentOf, IsoSectorSize

Overlap(d, e) == d.at < e.at + e.len /\ e.at < d.at + d.len

Disjoint(W) == \A d, e \in W : Overlap(d, e) => d = e

Numbered(W) == \A e \in W : e.at \in Nat /\ e.len \in Nat

UpTo(W, x) == \A e \in W : e.at + e.len <= x

From(W, x) == \A e \in W : x <= e.at

Ends == IF pc \in {"chain", "dir", "files", "finish"} THEN offset ELSE base

ApartInv ==
    /\ pc = "device" \/ measuring => written = {}
    /\ Fits => /\ Numbered(written) /\ Disjoint(written)
               /\ pc \notin {"done", "removed"} => UpTo(written, Ends)

(* Two sets of extents that are apart, one behind the other.               *)
LEMMA Join ==
    ASSUME NEW V, NEW W, NEW x \in Nat, Numbered(V), Numbered(W), Disjoint(V), Disjoint(W),
           UpTo(V, x), From(W, x)
    PROVE  Disjoint(V \cup W) /\ Numbered(V \cup W)
<1>1. ASSUME NEW d \in V, NEW e \in W PROVE ~ Overlap(d, e) /\ ~ Overlap(e, d)
  BY DEF Numbered, UpTo, From, Overlap
<1> QED
  BY <1>1, Zenon DEF Disjoint, Numbered

(* One extent more, behind all others.                                     *)
LEMMA AddOne ==
    ASSUME NEW W, NEW x \in Nat, NEW at \in Nat, x <= at, NEW len \in Nat, NEW of, NEW n,
           Numbered(W), Disjoint(W), UpTo(W, x)
    PROVE  /\ Numbered(W \cup {Extent(of, n, at, len)}) /\ Disjoint(W \cup {Extent(of, n, at, len)})
           /\ UpTo(W \cup {Extent(of, n, at, len)}, at + len)
<1>1. PICK e : e = Extent(of, n, at, len)
  OBVIOUS
<1>2. e.at = at /\ e.len = len
  BY <1>1 DEF Extent
<1>3. Numbered({e}) /\ Disjoint({e}) /\ From({e}, x)
  BY <1>2 DEF Numbered, Disjoint, From
<1>4. Disjoint(W \cup {e}) /\ Numbered(W \cup {e})
  BY <1>3, Join
<1>5. ASSUME NEW d \in W \cup {e} PROVE d.at + d.len <= at + len
  <2>1. CASE d = e
    BY <1>2, <2>1
  <2>2. CASE d \in W
    <3>1. d.at \in Nat /\ d.len \in Nat /\ d.at + d.len <= x
      BY <2>2, Zenon DEF Numbered, UpTo
    <3> QED
      BY <3>1
  <2> QED
    BY <2>1, <2>2
<1> QED
  BY <1>1, <1>4, <1>5, Zenon DEF UpTo

(* What ends there ends before what is behind.                             *)
LEMMA UpToMore ==
    ASSUME NEW W, NEW x \in Nat, NEW y \in Nat, x <= y, Numbered(W), UpTo(W, x)
    PROVE  UpTo(W, y)
BY DEF Numbered, UpTo

LEMMA Behind ==
    ASSUME NEW x \in Nat, NEW y \in Nat, NEW b \in Nat, NEW s \in Nat, NEW c \in Nat, b + s <= c
    PROVE  /\ x + y + b \in Nat /\ x <= x + y + b
           /\ (x + y + b) + s <= x + y + c
           /\ ~ (x + y + c < (x + y + b) + s)
OBVIOUS

(* The entries of a directory follow one another.                          *)
LEMMA DirApart ==
    ASSUME job \in Jobs, offset \in Nat, NEW first \in Nat, NEW sizes \in Seq(Nat),
           Len(sizes) = Len(job.files)
    PROVE  /\ Numbered(DirExtents(first, sizes)) /\ Disjoint(DirExtents(first, sizes))
           /\ From(DirExtents(first, sizes), offset)
           /\ UpTo(DirExtents(first, sizes), offset + first + Total(sizes))
<1>1. Len(job.files) \in Nat /\ Files = 1 .. Len(sizes)
  BY JobFiles DEF Files
<1>2. Total(sizes) \in Nat /\ Before(Len(sizes) + 1, sizes) = Total(sizes)
  BY TotalIs
<1>3. ASSUME NEW f \in Files
      PROVE  /\ Before(f, sizes) \in Nat /\ sizes[f] \in Nat
             /\ Before(f, sizes) + sizes[f] <= Total(sizes)
             /\ \A g \in f + 1 .. Len(sizes) : Before(f, sizes) + sizes[f] <= Before(g, sizes)
  <2>1. /\ Before(f, sizes) \in Nat /\ sizes[f] \in Nat
        /\ Before(f + 1, sizes) = Before(f, sizes) + sizes[f]
    BY <1>1, BeforeNext
  <2>2. ASSUME NEW g \in f + 1 .. Len(sizes) + 1 PROVE Before(f + 1, sizes) <= Before(g, sizes)
    <3>1. f + 1 \in 1 .. Len(sizes) + 1 /\ g \in 1 .. Len(sizes) + 1 /\ f + 1 <= g
      BY <1>1
    <3> QED
      BY <3>1, BeforeLess
  <2>3. Len(sizes) + 1 \in f + 1 .. Len(sizes) + 1
    BY <1>1
  <2>4. \A g \in f + 1 .. Len(sizes) : g \in f + 1 .. Len(sizes) + 1
    BY <1>1
  <2> QED
    BY <1>2, <2>1, <2>2, <2>3, <2>4
<1>4. ASSUME NEW e \in DirExtents(first, sizes)
      PROVE  \/ e.n = 0 /\ e = Extent("dirent", 0, offset, first) /\ e.at = offset /\ e.len = first
             \/ \E f \in Files : /\ e = Extent("dirent", f, offset + first + Before(f, sizes), sizes[f])
                                 /\ e.at = offset + first + Before(f, sizes) /\ e.len = sizes[f]
  BY DEF DirExtents, Extent
<1>5. ASSUME NEW e \in DirExtents(first, sizes)
      PROVE  /\ e.at \in Nat /\ e.len \in Nat /\ offset <= e.at
             /\ e.at + e.len <= offset + first + Total(sizes)
  <2>1. CASE e.at = offset /\ e.len = first
    BY <1>2, <2>1
  <2>2. CASE \E f \in Files : e.at = offset + first + Before(f, sizes) /\ e.len = sizes[f]
    <3>1. PICK f \in Files : e.at = offset + first + Before(f, sizes) /\ e.len = sizes[f]
      BY <2>2
    <3>2. PICK b \in Nat, s \in Nat : b = Before(f, sizes) /\ s = sizes[f] /\ b + s <= Total(sizes)
      BY <1>3
    <3>3. e.at = offset + first + b /\ e.len = s
      BY <3>1, <3>2
    <3>4. PICK all \in Nat : all = Total(sizes)
      BY <1>2
    <3>5. /\ offset + first + b \in Nat /\ offset <= offset + first + b
          /\ (offset + first + b) + s <= offset + first + all
      BY <3>2, <3>4, Behind, Zenon
    <3> QED
      BY <3>2, <3>3, <3>4, <3>5, Zenon
  <2> QED
    BY <1>4, <2>1, <2>2
<1>6. ASSUME NEW d \in DirExtents(first, sizes), NEW e \in DirExtents(first, sizes), Overlap(d, e)
      PROVE  d = e
  <2>1. d.at < e.at + e.len /\ e.at < d.at + d.len
    BY <1>6 DEF Overlap
  <2>2. CASE d = Extent("dirent", 0, offset, first) /\ e = Extent("dirent", 0, offset, first)
    BY <2>2
  <2>3. CASE /\ d.at = offset /\ d.len = first
             /\ \E f \in Files : e.at = offset + first + Before(f, sizes) /\ e.len = sizes[f]
    <3>1. PICK f \in Files : e.at = offset + first + Before(f, sizes)
      BY <2>3
    <3>2. PICK b \in Nat : e.at = offset + first + b
      BY <1>3, <3>1
    <3> QED
      BY <2>1, <2>3, <3>2
  <2>4. CASE /\ e.at = offset /\ e.len = first
             /\ \E f \in Files : d.at = offset + first + Before(f, sizes) /\ d.len = sizes[f]
    <3>1. PICK f \in Files : d.at = offset + first + Before(f, sizes)
      BY <2>4
    <3>2. PICK b \in Nat : d.at = offset + first + b
      BY <1>3, <3>1
    <3> QED
      BY <2>1, <2>4, <3>2
  <2>5. CASE /\ \E f \in Files : /\ d = Extent("dirent", f, offset + first + Before(f, sizes), sizes[f])
                                 /\ d.at = offset + first + Before(f, sizes) /\ d.len = sizes[f]
             /\ \E f \in Files : /\ e = Extent("dirent", f, offset + first + Before(f, sizes), sizes[f])
                                 /\ e.at = offset + first + Before(f, sizes) /\ e.len = sizes[f]
    <3>1. PICK f \in Files : /\ d = Extent("dirent", f, offset + first + Before(f, sizes), sizes[f])
                             /\ d.at = offset + first + Before(f, sizes) /\ d.len = sizes[f]
      BY <2>5, Zenon
    <3>2. PICK g \in Files : /\ e = Extent("dirent", g, offset + first + Before(g, sizes), sizes[g])
                             /\ e.at = offset + first + Before(g, sizes) /\ e.len = sizes[g]
      BY <2>5, Zenon
    <3>3. PICK b \in Nat, s \in Nat : b = Before(f, sizes) /\ s = sizes[f]
                                      /\ d.at = offset + first + b /\ d.len = s
      BY <1>3, <3>1
    <3>4. PICK c \in Nat, t \in Nat : c = Before(g, sizes) /\ t = sizes[g]
                                      /\ e.at = offset + first + c /\ e.len = t
      BY <1>3, <3>2
    <3>5. ~ (f < g)
      <4>1. ASSUME f < g PROVE FALSE
        <5>1. g \in f + 1 .. Len(sizes)
          BY <1>1, <4>1
        <5>2. b + s <= c
          BY <1>3, <3>3, <3>4, <5>1
        <5>3. offset + first + c < offset + first + b + s
          BY <2>1, <3>3, <3>4, Zenon
        <5> QED
          BY <3>3, <3>4, <5>2, <5>3, Behind, Zenon
      <4> QED
        BY <4>1
    <3>6. ~ (g < f)
      <4>1. ASSUME g < f PROVE FALSE
        <5>1. f \in g + 1 .. Len(sizes)
          BY <1>1, <4>1
        <5>2. c + t <= b
          BY <1>3, <3>3, <3>4, <5>1
        <5>3. offset + first + b < offset + first + c + t
          BY <2>1, <3>3, <3>4, Zenon
        <5> QED
          BY <3>3, <3>4, <5>2, <5>3, Behind, Zenon
      <4> QED
        BY <4>1
    <3>7. f = g
      BY <1>1, <3>5, <3>6
    <3> QED
      BY <3>1, <3>2, <3>7, Zenon
  <2> QED
    BY <1>4, <2>2, <2>3, <2>4, <2>5, Zenon
<1> QED
  BY <1>5, <1>6, Zenon DEF Numbered, Disjoint, From, UpTo

(* The headers of a VHDX end where the file system begins, when it takes   *)
(* one block.                                                              *)
LEMMA HeadersApart ==
    ASSUME WriteHeaders, InVHDX, size \in Nat, size <= BlockSize - PadSize
    PROVE  Numbered(written') /\ Disjoint(written') /\ UpTo(written', FilesystemStart)
<1>1. PICK n \in Nat : n = size /\ n <= 1048320
  BY SMT DEF BlockSize, PadSize, MiB
<1>2. PICK s \in Nat : s = Units(n, 512) /\ (n > 0 => 512 * (s - 1) < n) /\ (n = 0 => s = 1)
  <2>1. Units(n, 512) \in Nat /\ (n > 0 => 512 * (Units(n, 512) - 1) < n) /\ (n = 0 => Units(n, 512) = 1)
    BY <1>1, UnitsHold, SMT DEF Units
  <2> QED
    BY <2>1
<1>3. PICK m \in Nat : m = s * 512 /\ m < 1048320 + 512
  BY <1>1, <1>2, SMT
<1>4. PICK k \in Nat : k = Units(m, BlockSize) /\ k <= 2
  <2>1. Units(m, BlockSize) \in Nat /\ (m > 0 => BlockSize * (Units(m, BlockSize) - 1) < m)
        /\ (m = 0 => Units(m, BlockSize) = 1)
    BY <1>3, BlocksHold, SMT DEF Units
  <2> QED
    BY <1>3, <2>1, SMT DEF BlockSize, MiB
<1>5. blocks' = k
  <2>1. blocks' = Units(Units(size, SectorSize) * SectorSize, BlockSize)
    BY DEF WriteHeaders
  <2> QED
    BY <1>1, <1>2, <1>3, <1>4, <2>1, SMT DEF SectorSize, BlockSize, MiB
<1>6. PICK p \in Nat, l \in Nat, q \in Nat, r \in Nat, w \in Nat :
         /\ p = 2 * MiB /\ l = 8 * (blocks' + 1) /\ q = 3 * MiB /\ r = 3 * MiB + 64 * KiB /\ w = 256
         /\ p + l \in Nat /\ p + l <= q /\ q + w \in Nat /\ q + w <= r
         /\ r + w \in Nat /\ r + w <= FilesystemStart /\ FilesystemStart \in Nat /\ p <= p
  BY <1>4, <1>5, SMT DEF MiB, KiB, FilesystemStart
<1>7. PICK H : H = {Extent("head", x, x * 64 * KiB, w) : x \in 0 .. 4}
  BY Zenon
<1>8. ASSUME NEW e \in H
      PROVE  \E x \in 0 .. 4 : e = Extent("head", x, x * 64 * KiB, w) /\ e.at = x * 64 * KiB /\ e.len = w
  BY <1>7 DEF Extent
<1>9. Numbered(H) /\ UpTo(H, p)
  BY <1>6, <1>8, SMT DEF Numbered, UpTo, MiB, KiB
<1>10. Disjoint(H)
  <2>1. ASSUME NEW d \in H, NEW e \in H, Overlap(d, e) PROVE d = e
    <3>1. PICK x \in 0 .. 4 : d = Extent("head", x, x * 64 * KiB, w) /\ d.at = x * 64 * KiB /\ d.len = w
      BY <1>8
    <3>2. PICK y \in 0 .. 4 : e = Extent("head", y, y * 64 * KiB, w) /\ e.at = y * 64 * KiB /\ e.len = w
      BY <1>8
    <3>3. x * 64 * KiB < y * 64 * KiB + w /\ y * 64 * KiB < x * 64 * KiB + w
      BY <2>1, <3>1, <3>2, Zenon DEF Overlap
    <3>4. x = y
      BY <1>6, <3>3 DEF KiB
    <3> QED
      BY <3>1, <3>2, <3>4, Zenon
  <2> QED
    BY <2>1, Zenon DEF Disjoint
<1>11. PICK I : I = H \cup {Extent("blocks", 0, p, l)}
  OBVIOUS
<1>12. Numbered(I) /\ Disjoint(I) /\ UpTo(I, p + l)
  BY <1>6, <1>9, <1>10, <1>11, AddOne
<1>13. PICK J : J = I \cup {Extent("metadata", 0, q, w)}
  OBVIOUS
<1>14. Numbered(J) /\ Disjoint(J) /\ UpTo(J, q + w)
  <2>1. p + l \in Nat /\ q \in Nat /\ p + l <= q /\ w \in Nat
    BY <1>6
  <2> QED
    BY <1>12, <1>13, <2>1, AddOne, Zenon
<1>15. PICK K : K = J \cup {Extent("metadata", 1, r, w)}
  OBVIOUS
<1>16. Numbered(K) /\ Disjoint(K) /\ UpTo(K, r + w)
  <2>1. q + w \in Nat /\ r \in Nat /\ q + w <= r /\ w \in Nat
    BY <1>6
  <2> QED
    BY <1>14, <1>15, <2>1, AddOne, Zenon
<1>17. UpTo(K, FilesystemStart)
  <2>1. r + w \in Nat /\ FilesystemStart \in Nat /\ r + w <= FilesystemStart
    BY <1>6
  <2> QED
    BY <1>16, <2>1, UpToMore, Zenon
<1>18. written' = K
  <2>1. written' = {Extent("head", x, x * 64 * KiB, 256) : x \in 0 .. 4}
                       \cup {Extent("blocks", 0, 2 * MiB, 8 * (blocks' + 1)),
                             Extent("metadata", 0, 3 * MiB, 256),
                             Extent("metadata", 1, 3 * MiB + 64 * KiB, 256)}
    BY Zenon DEF WriteHeaders
  <2>2. p = 2 * MiB /\ l = 8 * (blocks' + 1) /\ q = 3 * MiB /\ r = 3 * MiB + 64 * KiB /\ w = 256
    BY <1>6
  <2>3. written' = H \cup {Extent("blocks", 0, p, l), Extent("metadata", 0, q, w), Extent("metadata", 1, r, w)}
    BY <1>7, <2>1, <2>2
  <2> QED
    BY <1>11, <1>13, <1>15, <2>3
<1> QED
  BY <1>16, <1>17, <1>18, Zenon

LEMMA ApartInvInit == Init => ApartInv
BY DEF Init, ApartInv, Numbered, Disjoint, UpTo

(* Where things are, as numbers.                                           *)
LEMMA OffsetIsNat ==
    ASSUME SizeInv, PlaceInv, pc \in Writing
    PROVE  /\ base \in Nat /\ Ends \in Nat
           /\ pc \in {"chain", "dir", "files", "finish"} => offset \in Nat /\ Ends = offset
           /\ pc = "boot" => Ends = base
<1>1. base \in Nat /\ fats \in Nat /\ last \in Nat /\ job \in Jobs
  BY NumbersWhenWriting
<1>2. CASE pc = "chain"
  BY <1>1, <1>2 DEF PlaceInv, Ends, SectorSize
<1>3. CASE pc = "dir"
  BY <1>1, <1>3 DEF PlaceInv, Ends, SectorSize, IsoSectorSize
<1>4. CASE pc = "files"
  <2>1. offset = FilePlace(i) /\ i \in 1 .. Len(job.files) + 1 /\ i <= i
    BY <1>4 DEF PlaceInv
  <2>2. FilePlace(i) \in Nat
    BY <2>1, PlaceLess
  <2> QED
    BY <1>1, <1>4, <2>1, <2>2 DEF Ends
<1>5. CASE pc = "finish"
  <2>1. offset = base + Sector * last /\ Sector \in {512, 2048}
    BY <1>1, <1>5, JobFiles DEF PlaceInv
  <2>2. offset \in Nat
    BY <1>1, <2>1
  <2> QED
    BY <1>1, <1>5, <2>2 DEF Ends
<1>6. CASE pc \in {"boot", "done"}
  BY <1>1, <1>6 DEF Ends
<1> QED
  BY <1>2, <1>3, <1>4, <1>5, <1>6 DEF Writing

(* What fits now did so before: neither the job nor, in a VHDX, the size   *)
(* changes.                                                                *)
LEMMA FitsBefore ==
    ASSUME job' = job, InVHDX => size' = size, Fits'
    PROVE  Fits
<1>1. InVHDX' = InVHDX
  BY JobSame
<1> QED
  BY <1>1, Zenon DEF Fits

(* What is written while the file system is.                               *)
LEMMA ApartWriting ==
    ASSUME ApartInv, SizeInv, job' = job, InVHDX => size' = size, pc \in Writing, pc # "done",
           pc' \in Writing, measuring' = measuring,
           Numbered(written) /\ Disjoint(written) /\ UpTo(written, Ends) /\ Fits =>
               Numbered(written') /\ Disjoint(written') /\ (pc' # "done" => UpTo(written', Ends'))
    PROVE  ApartInv'
<1>1. ASSUME Fits'
      PROVE  Numbered(written') /\ Disjoint(written') /\ (pc' # "done" => UpTo(written', Ends'))
  <2>1. Fits
    BY <1>1, FitsBefore
  <2>2. Numbered(written) /\ Disjoint(written) /\ UpTo(written, Ends)
    BY <2>1 DEF ApartInv, Writing
  <2> QED
    BY <2>1, <2>2
<1>2. pc' # "device" /\ ~ measuring' /\ pc' # "removed"
  BY DEF SizeInv, Writing
<1> QED
  BY <1>1, <1>2 DEF ApartInv

(* Every step writes behind what is there.                                 *)
LEMMA ApartInvNext ==
    SizeInv /\ SizeInv' /\ PlaceInv /\ PlaceInv' /\ ApartInv /\ [Next]_vars => ApartInv'
<1> SUFFICES ASSUME SizeInv, SizeInv', PlaceInv, PlaceInv', ApartInv, [Next]_vars PROVE ApartInv'
  OBVIOUS
<1>j. job' = job /\ job \in Jobs
  BY DEF Next, BeginDevice, WriteHeaders, FinishDevice, CountFatSectors, CountIsoSectors, GrowFat,
         SizeKnown, WriteBoot, PutChain, WriteFat, WriteVfatDir, WriteVolume, WriteIsoDir, WriteFile,
         FilesWritten, WriteFails, vars, SizeInv
<1>s. IsFat' = IsFat /\ InVHDX' = InVHDX
  BY <1>j, JobSame
<1>e. ASSUME written' = {} PROVE Numbered(written') /\ Disjoint(written') /\ UpTo(written', Ends')
  BY <1>e DEF Numbered, Disjoint, UpTo
<1>1. CASE \/ BeginDevice \/ CountFatSectors \/ CountIsoSectors \/ GrowFat
  <2>1. /\ pc \in {"device", "count", "size"} /\ pc' \in {"count", "size", "panic"}
        /\ written' = written /\ base' = base /\ size' = size
        /\ measuring' = measuring \/ written = {}
    BY <1>1 DEF BeginDevice, CountFatSectors, CountIsoSectors, GrowFat, ApartInv
  <2>2. Ends' = Ends
    BY <2>1 DEF Ends
  <2>3. pc \notin {"done", "removed"} /\ pc' # "device"
    BY <2>1
  <2>4. Fits' => Numbered(written') /\ Disjoint(written') /\ UpTo(written', Ends')
    <3>1. ASSUME Fits' PROVE Numbered(written') /\ Disjoint(written') /\ UpTo(written', Ends')
      <4>1. Fits
        BY <1>j, <2>1, <3>1, FitsBefore
      <4>2. Numbered(written) /\ Disjoint(written) /\ UpTo(written, Ends)
        BY <2>3, <4>1 DEF ApartInv
      <4> QED
        BY <2>1, <2>2, <4>2, Zenon
    <3> QED
      BY <3>1
  <2>5. measuring' => written' = {}
    BY <2>1 DEF ApartInv
  <2> QED
    BY <2>3, <2>4, <2>5 DEF ApartInv
<1>2. CASE SizeKnown
  <2>1. /\ pc = "size" /\ pc' \in {"headers", "boot"} /\ written' = written /\ base' = base
        /\ measuring' = measuring
    BY <1>2 DEF SizeKnown
  <2>2. InVHDX /\ ~ measuring => size' = size
    <3>1. ASSUME InVHDX, ~ measuring PROVE size' = size
      <4>1. SizeOfAll(size) /\ SizeOfAll(size)'
        BY <1>s, <2>1, <3>1 DEF SizeInv
      <4>2. SizeOfAll(size)' => SizeOfAll(size')
        <5>1. /\ IsFat' = IsFat /\ FixedSectors' = FixedSectors /\ FileSectors' = FileSectors
              /\ \A n : LeastFat(n)' = LeastFat(n)
          BY <1>j, JobSame
        <5> QED
          BY <5>1, Zenon DEF SizeOfAll
      <4> QED
        BY <1>j, <4>1, <4>2, SizeUnique
    <3> QED
      BY <3>1
  <2>3. CASE measuring
    <3>1. written' = {}
      BY <2>1, <2>3 DEF ApartInv
    <3> QED
      BY <1>e, <3>1 DEF ApartInv
  <2>4. CASE ~ measuring
    <3>1. Ends' = Ends
      BY <2>1 DEF Ends
    <3>2. Fits' => Numbered(written') /\ Disjoint(written') /\ UpTo(written', Ends')
      <4>1. ASSUME Fits' PROVE Numbered(written') /\ Disjoint(written') /\ UpTo(written', Ends')
        <5>1. Fits
          BY <1>j, <2>2, <2>4, <4>1, FitsBefore
        <5>2. Numbered(written) /\ Disjoint(written) /\ UpTo(written, Ends)
          BY <2>1, <5>1 DEF ApartInv
        <5> QED
          BY <2>1, <3>1, <5>2, Zenon
      <4> QED
        BY <4>1
    <3> QED
      BY <2>1, <2>4, <3>2 DEF ApartInv
  <2> QED
    BY <2>3, <2>4
<1>3. CASE WriteHeaders
  <2>1. pc = "headers" /\ pc' = "count" /\ measuring' = FALSE /\ base' = FilesystemStart /\ size' = size
    BY <1>3 DEF WriteHeaders
  <2>2. InVHDX /\ size \in Nat
    <3>1. measuring /\ InVHDX /\ Counted /\ size = Sector * last
      BY <2>1 DEF SizeInv
    <3>2. SizeOfAll(size)
      BY <1>j, <3>1, SizeOfCounted
    <3> QED
      BY <3>1, <3>2 DEF SizeOfAll
  <2>3. Ends' = FilesystemStart
    BY <2>1 DEF Ends
  <2>4. Fits' => Numbered(written') /\ Disjoint(written') /\ UpTo(written', Ends')
    <3>1. ASSUME Fits' PROVE Numbered(written') /\ Disjoint(written') /\ UpTo(written', Ends')
      <4>1. Fits
        BY <1>j, <2>1, <3>1, FitsBefore
      <4>2. size <= BlockSize - PadSize
        BY <2>2, <4>1 DEF Fits
      <4> QED
        BY <1>3, <2>2, <2>3, <4>2, HeadersApart
    <3> QED
      BY <3>1
  <2> QED
    BY <2>1, <2>4 DEF ApartInv
<1>4. CASE WriteBoot
  <2>1. /\ pc = "boot" /\ pc' = "chain" /\ base' = base /\ size' = size /\ measuring' = measuring
        /\ offset' = base + SectorSize /\ written' = written \cup {Extent("boot", 0, base, SectorSize)}
    BY <1>4 DEF WriteBoot
  <2>2. base \in Nat /\ Ends = base /\ SectorSize \in Nat /\ base <= base /\ Ends' = base + SectorSize
    BY <2>1, OffsetIsNat DEF Writing, SectorSize, Ends
  <2>3. Numbered(written) /\ Disjoint(written) /\ UpTo(written, Ends) =>
           Numbered(written') /\ Disjoint(written') /\ UpTo(written', Ends')
    BY <2>1, <2>2, AddOne
  <2> QED
    BY <1>j, <2>1, <2>3, ApartWriting DEF Writing
<1>5. CASE WriteVolume
  <2>1. /\ pc = "boot" /\ pc' = "dir" /\ base' = base /\ size' = size /\ measuring' = measuring
        /\ offset' = base + 18 * IsoSectorSize
        /\ written' = written \cup
              {Extent("volume", n, base + (16 + n) * IsoSectorSize, IsoSectorSize) : n \in 0 .. 1}
    BY <1>5 DEF WriteVolume
  <2>2. PICK p \in Nat, q \in Nat, l \in Nat :
           /\ p = base + (16 + 0) * IsoSectorSize /\ q = base + (16 + 1) * IsoSectorSize
           /\ l = IsoSectorSize /\ base <= p /\ p + l \in Nat /\ p + l <= q
           /\ q + l = base + 18 * IsoSectorSize
    BY <2>1, OffsetIsNat DEF Writing, IsoSectorSize
  <2>3. base \in Nat /\ Ends = base /\ Ends' = q + l
    BY <2>1, <2>2, OffsetIsNat DEF Writing, Ends
  <2>4. PICK V : V = written \cup {Extent("volume", 0, p, l)}
    OBVIOUS
  <2>5. written' = V \cup {Extent("volume", 1, q, l)}
    <3>1. 0 .. 1 = {0, 1}
      OBVIOUS
    <3>2. {Extent("volume", n, base + (16 + n) * IsoSectorSize, IsoSectorSize) : n \in 0 .. 1}
             = {Extent("volume", 0, p, l), Extent("volume", 1, q, l)}
      BY <2>2, <3>1
    <3> QED
      BY <2>1, <2>4, <3>2
  <2>6. Numbered(written) /\ Disjoint(written) /\ UpTo(written, Ends) =>
           Numbered(V) /\ Disjoint(V) /\ UpTo(V, p + l)
    BY <2>2, <2>3, <2>4, AddOne
  <2>7. Numbered(V) /\ Disjoint(V) /\ UpTo(V, p + l) =>
           Numbered(written') /\ Disjoint(written') /\ UpTo(written', q + l)
    <3>1. p + l \in Nat /\ p + l <= q
      BY <2>2
    <3> QED
      BY <2>5, <3>1, AddOne, Zenon
  <2> QED
    BY <1>j, <2>1, <2>3, <2>6, <2>7, ApartWriting DEF Writing
<1>6. CASE PutChain
  <2>1. /\ pc = "chain" /\ pc' = "chain" /\ base' = base /\ size' = size /\ measuring' = measuring
        /\ offset' = offset /\ written' = written
    BY <1>6 DEF PutChain
  <2>2. Ends' = Ends
    BY <2>1 DEF Ends
  <2>3. Numbered(written) /\ Disjoint(written) /\ UpTo(written, Ends) =>
           Numbered(written') /\ Disjoint(written') /\ UpTo(written', Ends')
    BY <2>1, <2>2, Zenon
  <2> QED
    BY <1>j, <2>1, <2>3, ApartWriting DEF Writing
<1>7. CASE WriteFat
  <2>1. /\ pc = "chain" /\ pc' = "dir" /\ base' = base /\ size' = size /\ measuring' = measuring
        /\ offset' = offset + SectorSize * fats
        /\ written' = written \cup {Extent("fat", 0, offset, SectorSize * fats)}
    BY <1>7 DEF WriteFat
  <2>2. /\ offset \in Nat /\ Ends = offset /\ SectorSize * fats \in Nat /\ offset <= offset
        /\ Ends' = offset + SectorSize * fats
    BY <2>1, OffsetIsNat, NumbersWhenWriting DEF Writing, SectorSize, Ends
  <2>3. Numbered(written) /\ Disjoint(written) /\ UpTo(written, Ends) =>
           Numbered(written') /\ Disjoint(written') /\ UpTo(written', Ends')
    BY <2>1, <2>2, AddOne
  <2> QED
    BY <1>j, <2>1, <2>3, ApartWriting DEF Writing
<1>8. CASE WriteVfatDir
  <2>1. /\ pc = "dir" /\ pc' = "files" /\ base' = base /\ size' = size /\ measuring' = measuring
        /\ offset' = offset + Dirents /\ written' = written \cup DirExtents(32, VfatDirents)
    BY <1>8 DEF WriteVfatDir
  <2>2. offset \in Nat /\ Ends = offset /\ Ends' = offset + Dirents
    BY <2>1, OffsetIsNat DEF Writing, Ends
  <2>3. PICK D : D = DirExtents(32, VfatDirents)
    OBVIOUS
  <2>4. Numbered(D) /\ Disjoint(D) /\ From(D, offset) /\ UpTo(D, offset + 32 + Total(VfatDirents))
    BY <1>j, <2>2, <2>3, EntriesOfFiles, DirApart
  <2>5. /\ Total(VfatDirents) \in Nat /\ Dirents \in Nat /\ 32 + Total(VfatDirents) <= Dirents
    BY <1>j, DirentsHold
  <2>6. offset + 32 + Total(VfatDirents) \in Nat /\ offset + Dirents \in Nat
        /\ offset + 32 + Total(VfatDirents) <= offset + Dirents /\ offset <= offset + Dirents
    BY <2>2, <2>5
  <2>7. UpTo(D, offset + Dirents)
    BY <2>4, <2>6, UpToMore, Zenon
  <2>8. ASSUME Numbered(written), Disjoint(written), UpTo(written, Ends)
        PROVE  Numbered(written') /\ Disjoint(written') /\ UpTo(written', Ends')
    <3>1. Disjoint(written \cup D) /\ Numbered(written \cup D)
      BY <2>2, <2>4, <2>8, Join
    <3>2. UpTo(written, offset + Dirents)
      BY <2>2, <2>6, <2>8, UpToMore
    <3>3. UpTo(written \cup D, offset + Dirents)
      BY <2>7, <3>2, Zenon DEF UpTo
    <3> QED
      BY <2>1, <2>2, <2>3, <3>1, <3>3, Zenon
  <2> QED
    BY <1>j, <2>1, <2>8, ApartWriting DEF Writing
<1>9. CASE WriteIsoDir
  <2>1. /\ pc = "dir" /\ pc' = "files" /\ base' = base /\ size' = size /\ measuring' = measuring
        /\ ~ IsFat /\ offset' = offset + IsoSectorSize
        /\ written' = written \cup DirExtents(2 * IsoDirentOf(1), IsoDirents)
    BY <1>9 DEF WriteIsoDir
  <2>2. offset \in Nat /\ Ends = offset /\ Ends' = offset + IsoSectorSize
    BY <2>1, OffsetIsNat DEF Writing, Ends
  <2>3. PICK D : D = DirExtents(2 * IsoDirentOf(1), IsoDirents)
    OBVIOUS
  <2>4. PICK first \in Nat : first = 2 * IsoDirentOf(1)
    BY DEF IsoDirentOf
  <2>5. Numbered(D) /\ Disjoint(D) /\ From(D, offset) /\ UpTo(D, offset + first + Total(IsoDirents))
    BY <1>j, <2>2, <2>3, <2>4, EntriesOfFiles, DirApart
  <2>6. Total(IsoDirents) \in Nat
    BY <1>j, EntriesOfFiles, TotalIs
  <2>7. ASSUME Numbered(written), Disjoint(written), UpTo(written, Ends)
        PROVE  Numbered(written') /\ Disjoint(written') /\ UpTo(written', Ends')
    <3>1. /\ offset + first + Total(IsoDirents) \in Nat /\ offset + IsoSectorSize \in Nat
          /\ offset + first + Total(IsoDirents) <= offset + IsoSectorSize /\ offset <= offset + IsoSectorSize
      <4>1. first + Total(IsoDirents) <= IsoSectorSize /\ IsoSectorSize \in Nat
        BY <1>j, <2>4, DirectoryFits DEF IsoSectorSize
      <4> QED
        BY <2>2, <2>4, <2>6, <4>1
    <3>2. UpTo(D, offset + IsoSectorSize)
      BY <2>5, <3>1, UpToMore, Zenon
    <3>3. Disjoint(written \cup D) /\ Numbered(written \cup D)
      BY <2>2, <2>5, <2>7, Join
    <3>4. UpTo(written, offset + IsoSectorSize)
      BY <2>2, <2>7, <3>1, UpToMore
    <3>5. UpTo(written \cup D, offset + IsoSectorSize)
      BY <3>2, <3>4, Zenon DEF UpTo
    <3> QED
      BY <2>1, <2>2, <2>3, <3>3, <3>5, Zenon
  <2> QED
    BY <1>j, <2>1, <2>7, ApartWriting DEF Writing
<1>10. CASE WriteFile
  <2>1. /\ pc = "files" /\ pc' = "files" /\ base' = base /\ size' = size /\ measuring' = measuring
        /\ i \in Files /\ offset' = offset + Padded(i)
        /\ written' = written \cup {Extent("file", i, offset, Padded(i))}
    BY <1>10 DEF WriteFile
  <2>2. /\ offset \in Nat /\ Ends = offset /\ Padded(i) \in Nat /\ offset <= offset
        /\ Ends' = offset + Padded(i)
    <3>1. Padded(i) \in Nat
      BY <2>1, PlaceNext DEF Writing
    <3>2. offset \in Nat /\ Ends = offset
      BY <2>1, OffsetIsNat DEF Writing
    <3> QED
      BY <2>1, <3>1, <3>2 DEF Ends
  <2>3. Numbered(written) /\ Disjoint(written) /\ UpTo(written, Ends) =>
           Numbered(written') /\ Disjoint(written') /\ UpTo(written', Ends')
    BY <2>1, <2>2, AddOne
  <2> QED
    BY <1>j, <2>1, <2>3, ApartWriting DEF Writing
<1>11. CASE FilesWritten
  <2>1. /\ pc = "files" /\ pc' = "finish" /\ base' = base /\ size' = size /\ measuring' = measuring
        /\ offset' = offset /\ written' = written
    BY <1>11 DEF FilesWritten, SizeInv, Writing
  <2>2. Ends' = Ends
    BY <2>1 DEF Ends
  <2>3. Numbered(written) /\ Disjoint(written) /\ UpTo(written, Ends) =>
           Numbered(written') /\ Disjoint(written') /\ UpTo(written', Ends')
    BY <2>1, <2>2, Zenon
  <2> QED
    BY <1>j, <2>1, <2>3, ApartWriting DEF Writing
<1>12. CASE FinishDevice
  <2>1. /\ pc = "finish" /\ pc' = "done" /\ size' = size /\ measuring' = measuring
        /\ written' = written \cup
              (IF InVHDX /\ PadOffset > 0 THEN {Extent("pad", 0, base + PadOffset, PadLength)} ELSE {})
    BY <1>12 DEF FinishDevice
  <2>2. offset \in Nat /\ Ends = offset /\ base \in Nat /\ offset = base + size /\ size \in Nat
    <3>1. offset \in Nat /\ Ends = offset /\ base \in Nat /\ offset = base + size /\ size = Sector * last
      BY <2>1, OffsetIsNat DEF Writing, SizeInv, PlaceInv
    <3>2. last \in Nat /\ Sector \in {512, 2048}
      BY <1>j, <2>1, NumbersWhenWriting, JobFiles DEF Writing
    <3> QED
      BY <3>1, <3>2
  <2>3. ASSUME Numbered(written), Disjoint(written), UpTo(written, Ends), Fits
        PROVE  Numbered(written') /\ Disjoint(written')
    <3>1. CASE InVHDX
      <4>1. PadLength = 256
        <5>1. Units(size, BlockSize) \in Nat /\ Units(size, BlockSize) >= 1
          BY <2>2, BlocksHold
        <5>2. Units(size, BlockSize) * BlockSize > 256
          BY <5>1, SMT DEF BlockSize, MiB
        <5> QED
          BY <5>2, SMT DEF PadLength, BlockSize, MiB, PadSize
      <4>2. size <= BlockSize - PadSize
        BY <2>3, <3>1 DEF Fits
      <4>3. PICK at \in Nat : at = base + PadOffset /\ offset <= at
        BY <2>2, <4>1, <4>2, SMT DEF PadOffset, BlockSize, PadSize, MiB
      <4>4. PadOffset > 0 /\ PadLength \in Nat
        BY <4>1, SMT DEF PadOffset, BlockSize, MiB
      <4>5. written' = written \cup {Extent("pad", 0, at, PadLength)}
        BY <2>1, <3>1, <4>3, <4>4
      <4> QED
        BY <2>2, <2>3, <4>3, <4>4, <4>5, AddOne
    <3>2. CASE ~ InVHDX
      <4>1. written' = written
        BY <2>1, <3>2
      <4> QED
        BY <2>3, <4>1
    <3> QED
      BY <3>1, <3>2
  <2> QED
    BY <1>j, <2>1, <2>3, ApartWriting DEF Writing
<1>13. CASE WriteFails
  <2>1. written' = {}
    BY <1>13 DEF WriteFails
  <2> QED
    BY <1>e, <2>1 DEF ApartInv
<1>14. CASE UNCHANGED vars
  <2>1. /\ pc' = pc /\ base' = base /\ size' = size /\ measuring' = measuring
        /\ offset' = offset /\ written' = written
    BY <1>14 DEF vars
  <2>2. Ends' = Ends
    BY <2>1, Zenon DEF Ends
  <2>3. Fits' => Fits
    BY <1>j, <2>1, FitsBefore
  <2> QED
    BY <2>1, <2>2, <2>3, Zenon DEF ApartInv
<1> QED
  BY <1>1, <1>2, <1>3, <1>4, <1>5, <1>6, <1>7, <1>8, <1>9, <1>10, <1>11, <1>12, <1>13, <1>14 DEF Next

(* No extent is written over another one, in no step and for no contents,  *)
(* as long as 256 bytes are left of the first block of a VHDX.  The second *)
(* pass over the files cannot come out longer than the first, which the    *)
(* headers were computed from (writeVHDX, putVfatDirent, putDirent).       *)
THEOREM LayoutApart == Spec => [](Fits => Apart)
<1>1. Init => ApartInv
  BY ApartInvInit
<1>2. SizeInv /\ SizeInv' /\ PlaceInv /\ PlaceInv' /\ ApartInv /\ [Next]_vars => ApartInv'
  BY ApartInvNext
<1>3. ApartInv => (Fits => Apart)
  BY DEF ApartInv, Apart, Disjoint, Overlap
<1> QED
  BY <1>1, <1>2, <1>3, LayoutInductive, PTL DEF Spec

=============================================================================
