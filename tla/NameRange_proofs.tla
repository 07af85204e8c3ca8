--------------------------- MODULE NameRange_proofs ---------------------------
(***************************************************************************)
(* The names of a range are the strings of its shape from start to end, in *)
(* their order: incrementString gives the next string of the shape, and    *)
(* the loop of generateVMName ends after the end.                          *)
(***************************************************************************)
EXTENDS NameRange, SequenceTheorems, TLAPS, WellFoundedInduction

-----------------------------------------------------------------------------
(* The order of strings of the same length.                                *)

Below == {p \in Nat \X Nat : p[1] < p[2]}

LEMMA LeastExists ==
    ASSUME NEW S, S \subseteq Nat, S # {}
    PROVE  \E x \in S : \A y \in S : x <= y
<1>1. IsWellFoundedOn(Below, Nat)
  BY NatLessThanWellFounded DEF OpToRel, Below
<1>2. PICK x \in S : \A y \in S : ~ (<<y, x>> \in Below)
  BY <1>1, WFMin
<1>3. ASSUME NEW y \in S PROVE x <= y
  <2>1. x \in Nat /\ y \in Nat /\ <<y, x>> \in Nat \X Nat
    OBVIOUS
  <2> QED
    BY <1>2, <2>1 DEF Below
<1> QED
  BY <1>3

LEMMA GreatestExists ==
    ASSUME NEW n \in Nat, NEW S, S \subseteq 0 .. n, S # {}
    PROVE  \E x \in S : \A y \in S : y <= x
<1>1. PICK T : T = {n - x : x \in S}
  OBVIOUS
<1>2. T \subseteq Nat /\ T # {}
  <2>1. \A x \in 0 .. n : n - x \in Nat
    OBVIOUS
  <2>2. \A x \in S : n - x \in Nat
    BY <2>1
  <2> QED
    BY <1>1, <2>2, Zenon
<1>3. PICK d \in T : \A e \in T : d <= e
  BY <1>2, LeastExists
<1>4. PICK x \in S : d = n - x
  BY <1>1, <1>3
<1>5. \A y \in S : n - y \in T
  BY <1>1, Zenon
<1>6. ASSUME NEW y \in S PROVE y <= x
  <2>1. d <= n - y
    BY <1>3, <1>5
  <2>2. x \in 0 .. n /\ y \in 0 .. n
    OBVIOUS
  <2> QED
    BY <1>4, <2>1, <2>2
<1> QED
  BY <1>6

(* The first character that differs decides.                               *)
DiffersAt(s, t, i) == i \in DOMAIN s /\ \A j \in DOMAIN s : j < i => s[j] = t[j]

Before(s, t) == \E i \in DOMAIN s : s[i] < t[i] /\ DiffersAt(s, t, i)

LEMMA SamePrefix ==
    ASSUME NEW s \in Seq(Nat), NEW t \in Seq(Nat), Len(s) = Len(t), NEW i \in DOMAIN s
    PROVE  SubSeq(s, 1, i - 1) = SubSeq(t, 1, i - 1) <=> DiffersAt(s, t, i)
<1>1. i \in 1 .. Len(s) /\ DOMAIN s = 1 .. Len(s)
  OBVIOUS
<1>2. /\ SubSeq(s, 1, i - 1) = [j \in 1 .. i - 1 |-> s[j]]
      /\ SubSeq(t, 1, i - 1) = [j \in 1 .. i - 1 |-> t[j]]
  BY <1>1
<1>3. \A j \in DOMAIN s : j < i <=> j \in 1 .. i - 1
  BY <1>1
<1>4. 1 .. i - 1 \subseteq DOMAIN s
  BY <1>1
<1>5. ([j \in 1 .. i - 1 |-> s[j]] = [j \in 1 .. i - 1 |-> t[j]]) <=> \A j \in 1 .. i - 1 : s[j] = t[j]
  OBVIOUS
<1> QED
  BY <1>2, <1>3, <1>4, <1>5 DEF DiffersAt

LEMMA LessIsBefore ==
    ASSUME NEW s \in Seq(Nat), NEW t \in Seq(Nat), Len(s) = Len(t)
    PROVE  Less(s, t) <=> Before(s, t)
<1>1. ~ (Len(s) < Len(t)) /\ DOMAIN s = DOMAIN t
  OBVIOUS
<1> QED
  BY <1>1, SamePrefix DEF Less, Before

LEMMA BeforeTotal ==
    ASSUME NEW s \in Seq(Nat), NEW t \in Seq(Nat), Len(s) = Len(t)
    PROVE  s = t \/ Before(s, t) \/ Before(t, s)
<1> SUFFICES ASSUME s # t PROVE Before(s, t) \/ Before(t, s)
  OBVIOUS
<1>1. PICK D : D = {i \in DOMAIN s : s[i] # t[i]}
  OBVIOUS
<1>2. DOMAIN s = 1 .. Len(s) /\ DOMAIN t = 1 .. Len(s)
  OBVIOUS
<1>3. D \subseteq Nat /\ D # {}
  BY <1>1, <1>2
<1>4. PICK i \in D : \A j \in D : i <= j
  BY <1>3, LeastExists
<1>5. i \in DOMAIN s /\ s[i] # t[i] /\ s[i] \in Nat /\ t[i] \in Nat
  BY <1>1, <1>2
<1>6. ASSUME NEW j \in DOMAIN s, j < i PROVE s[j] = t[j]
  BY <1>1, <1>2, <1>4, <1>5, <1>6
<1>7. DiffersAt(s, t, i) /\ DiffersAt(t, s, i)
  BY <1>2, <1>5, <1>6 DEF DiffersAt
<1>8. s[i] < t[i] \/ t[i] < s[i]
  BY <1>5
<1> QED
  BY <1>2, <1>5, <1>7, <1>8 DEF Before

LEMMA BeforeTransitive ==
    ASSUME NEW s \in Seq(Nat), NEW t \in Seq(Nat), NEW u \in Seq(Nat),
           Len(s) = Len(t), Len(t) = Len(u), Before(s, t), Before(t, u)
    PROVE  Before(s, u)
<1>1. DOMAIN s = 1 .. Len(s) /\ DOMAIN t = DOMAIN s /\ DOMAIN u = DOMAIN s
  OBVIOUS
<1>2. PICK i \in DOMAIN s : s[i] < t[i] /\ DiffersAt(s, t, i)
  BY DEF Before
<1>3. PICK j \in DOMAIN s : t[j] < u[j] /\ DiffersAt(t, u, j)
  BY <1>1 DEF Before
<1>4. ASSUME NEW k \in DOMAIN s PROVE s[k] \in Nat /\ t[k] \in Nat /\ u[k] \in Nat
  <2>1. k \in DOMAIN s /\ k \in DOMAIN t /\ k \in DOMAIN u
    BY <1>1
  <2> QED
    BY <2>1
<1>5. CASE i <= j
  <2>1. s[i] < u[i]
    <3>1. i < j => t[i] = u[i]
      BY <1>1, <1>3 DEF DiffersAt
    <3>2. i = j \/ i < j
      BY <1>1, <1>5
    <3> QED
      BY <1>2, <1>3, <1>4, <3>1, <3>2
  <2>2. DiffersAt(s, u, i)
    BY <1>1, <1>2, <1>3, <1>5 DEF DiffersAt
  <2> QED
    BY <2>1, <2>2 DEF Before
<1>6. CASE j < i
  <2>1. s[j] < u[j]
    BY <1>1, <1>2, <1>3, <1>4, <1>6 DEF DiffersAt
  <2>2. DiffersAt(s, u, j)
    BY <1>1, <1>2, <1>3, <1>6 DEF DiffersAt
  <2> QED
    BY <2>1, <2>2 DEF Before
<1> QED
  BY <1>1, <1>5, <1>6

LEMMA BeforeIrreflexive ==
    ASSUME NEW s \in Seq(Nat)
    PROVE  ~ Before(s, s)
BY DEF Before

-----------------------------------------------------------------------------
(* Shapes.                                                                 *)

LEMMA KindIsOne ==
    ASSUME NEW r \in Nat, NEW k \in KindOf(r)
    PROVE  KindOf(r) = {k} /\ k \in Kinds /\ k.lo \in Nat /\ k.hi \in Nat /\ r \in k.lo .. k.hi
BY RangeAssumption DEF KindOf

LEMMA PlaceCases ==
    ASSUME NEW r \in Nat
    PROVE  /\ KindOf(r) = {} => Place(r) = {r}
           /\ \A k \in KindOf(r) : Place(r) = k.lo .. k.hi
           /\ Place(r) \subseteq Nat /\ r \in Place(r)
<1>1. CASE KindOf(r) = {}
  BY <1>1 DEF Place
<1>2. CASE KindOf(r) # {}
  <2>1. PICK k \in KindOf(r) : TRUE
    BY <1>2
  <2>2. KindOf(r) = {k} /\ k.lo \in Nat /\ k.hi \in Nat /\ r \in k.lo .. k.hi
    BY <2>1, KindIsOne
  <2>3. UNION {l.lo .. l.hi : l \in KindOf(r)} = k.lo .. k.hi
    BY <2>2
  <2>4. Place(r) = k.lo .. k.hi
    BY <2>2, <2>3 DEF Place
  <2> QED
    BY <2>2, <2>4
<1> QED
  BY <1>1, <1>2

LEMMA PlaceSame ==
    ASSUME NEW r \in Nat, NEW q \in Place(r)
    PROVE  Place(q) = Place(r) /\ KindOf(q) = KindOf(r)
<1>1. q \in Nat
  BY PlaceCases
<1>2. CASE KindOf(r) = {}
  BY <1>2, PlaceCases
<1>3. CASE KindOf(r) # {}
  <2>1. PICK k \in KindOf(r) : TRUE
    BY <1>3
  <2>2. Place(r) = k.lo .. k.hi /\ k \in Kinds /\ KindOf(r) = {k}
    BY <2>1, PlaceCases, KindIsOne
  <2>3. k \in KindOf(q)
    BY <2>2 DEF KindOf
  <2> QED
    BY <1>1, <2>2, <2>3, PlaceCases, KindIsOne
<1> QED
  BY <1>2, <1>3

LEMMA InShape ==
    ASSUME NEW s \in Seq(Nat), NEW t
    PROVE  t \in Shape(s) <=>
             t \in Seq(Nat) /\ Len(t) = Len(s) /\ \A i \in DOMAIN s : t[i] \in Place(s[i])
<1>0. DOMAIN s = 1 .. Len(s) /\ Len(s) \in Nat /\ \A i \in DOMAIN s : s[i] \in Nat
  OBVIOUS
<1>1. ASSUME t \in Shape(s)
      PROVE  t \in Seq(Nat) /\ Len(t) = Len(s) /\ \A i \in DOMAIN s : t[i] \in Place(s[i])
  <2>1. t \in [DOMAIN s -> UNION {Place(s[i]) : i \in DOMAIN s}]
    BY <1>1 DEF Shape
  <2>2. \A i \in DOMAIN s : t[i] \in Place(s[i])
    BY <1>1 DEF Shape
  <2>3. UNION {Place(s[i]) : i \in DOMAIN s} \subseteq Nat
    BY <1>0, PlaceCases
  <2>4. t \in [1 .. Len(s) -> Nat]
    BY <1>0, <2>1, <2>3
  <2> QED
    BY <1>0, <2>2, <2>4
<1>2. ASSUME t \in Seq(Nat), Len(t) = Len(s), \A i \in DOMAIN s : t[i] \in Place(s[i])
      PROVE  t \in Shape(s)
  <2>1. t = [i \in DOMAIN s |-> t[i]]
    BY <1>0, <1>2
  <2>2. \A i \in DOMAIN s : t[i] \in UNION {Place(s[j]) : j \in DOMAIN s}
    BY <1>2
  <2> QED
    BY <1>2, <2>1, <2>2 DEF Shape
<1> QED
  BY <1>1, <1>2

LEMMA ShapeSame ==
    ASSUME NEW s \in Seq(Nat), NEW t \in Shape(s)
    PROVE  Shape(t) = Shape(s)
<1>1. t \in Seq(Nat) /\ Len(t) = Len(s) /\ \A i \in DOMAIN s : t[i] \in Place(s[i])
  BY InShape
<1>2. DOMAIN t = DOMAIN s
  BY <1>1
<1>3. \A i \in DOMAIN s : Place(t[i]) = Place(s[i])
  BY <1>1, PlaceSame
<1>4. \A u : u \in Shape(t) <=> u \in Shape(s)
  BY <1>1, <1>2, <1>3, InShape
<1> QED
  BY <1>4

LEMMA ShapeOfItself ==
    ASSUME NEW s \in Seq(Nat)
    PROVE  s \in Shape(s)
BY InShape, PlaceCases

-----------------------------------------------------------------------------
(* What incrementString does.                                              *)

LEMMA LastStep ==
    ASSUME NEW s \in Seq(Nat)
    PROVE  LET l == Max({0} \cup Steps(s))
           IN /\ l \in {0} \cup Steps(s) /\ \A i \in Steps(s) : i <= l
              /\ Steps(s) # {} => l \in Steps(s)
<1>1. Steps(s) \subseteq 1 .. Len(s)
  BY DEF Steps
<1>2. PICK S : S = {0} \cup Steps(s)
  OBVIOUS
<1>3. S \subseteq 0 .. Len(s) /\ S # {} /\ Len(s) \in Nat
  BY <1>1, <1>2
<1>4. \E x \in S : \A y \in S : y <= x
  BY <1>3, GreatestExists
<1>5. \E x \in S : \A y \in S : x >= y
  BY <1>3, <1>4
<1>6. Max(S) \in S /\ \A y \in S : Max(S) >= y
  BY <1>5, Zenon DEF Max
<1>7. Max(S) \in 0 .. Len(s)
  BY <1>3, <1>6
<1>8. \A i \in Steps(s) : i <= Max(S)
  BY <1>1, <1>2, <1>6, <1>7
<1>9. Steps(s) # {} => Max(S) \in Steps(s)
  <2> SUFFICES ASSUME NEW i \in Steps(s), Max(S) \notin Steps(s) PROVE FALSE
    OBVIOUS
  <2>1. Max(S) = 0
    BY <1>2, <1>6
  <2>2. i \in 1 .. Len(s) /\ i <= Max(S)
    BY <1>1, <1>8
  <2> QED
    BY <2>1, <2>2
<1> QED
  BY <1>2, <1>6, <1>8, <1>9

(* Up to the last character that has a successor the string is as it was,  *)
(* that character has its successor, and what follows is the least.        *)
LEMMA Incremented ==
    ASSUME NEW s \in Seq(Nat), Steps(s) # {}
    PROVE  LET n == incrementString(s)
           IN /\ n \in Shape(s)
              /\ \E l \in Steps(s) :
                    /\ DiffersAt(s, n, l) /\ n[l] = s[l] + 1
                    /\ \A i \in Steps(s) : i <= l
                    /\ \A i \in DOMAIN s : l < i => \A q \in Place(s[i]) : n[i] <= q
<1>0. DOMAIN s = 1 .. Len(s) /\ Len(s) \in Nat /\ \A i \in DOMAIN s : s[i] \in Nat
  OBVIOUS
<1>1. PICK l : l = Max({0} \cup Steps(s))
  OBVIOUS
<1>2. l \in Steps(s) /\ \A i \in Steps(s) : i <= l
  BY <1>1, LastStep
<1>3. l \in DOMAIN s
  BY <1>2 DEF Steps
<1>4. PICK n : n = incrementString(s)
  OBVIOUS
<1>5. n = [i \in DOMAIN s |->
             IF i < l \/ KindOf(s[i]) = {} THEN s[i]
             ELSE IF i = l THEN s[i] + 1
             ELSE (CHOOSE k \in KindOf(s[i]) : TRUE).lo]
  BY <1>1, <1>4 DEF incrementString
<1>6. PICK k \in KindOf(s[l]) : s[l] < k.hi
  BY <1>2 DEF Steps
<1>7. Place(s[l]) = k.lo .. k.hi /\ k.hi \in Nat /\ k.lo \in Nat /\ s[l] \in k.lo .. k.hi
  BY <1>0, <1>3, <1>6, PlaceCases, KindIsOne
<1>8. n[l] = s[l] + 1 /\ n[l] \in Place(s[l])
  BY <1>0, <1>3, <1>5, <1>6, <1>7
<1>9. \A i \in DOMAIN s : i < l => n[i] = s[i]
  BY <1>5
<1>10. ASSUME NEW i \in DOMAIN s, l < i
       PROVE  n[i] \in Place(s[i]) /\ \A q \in Place(s[i]) : n[i] <= q
  <2>0. ~ (i < l) /\ i # l
    BY <1>0, <1>3, <1>10
  <2>1. CASE KindOf(s[i]) = {}
    <3>1. n[i] = s[i]
      BY <1>5, <2>1
    <3> QED
      BY <1>0, <2>1, <3>1, PlaceCases
  <2>2. CASE KindOf(s[i]) # {}
    <3>1. PICK e : e = (CHOOSE x \in KindOf(s[i]) : TRUE)
      OBVIOUS
    <3>2. e \in KindOf(s[i])
      BY <2>2, <3>1
    <3>3. n[i] = e.lo
      BY <1>5, <2>0, <2>2, <3>1
    <3>4. Place(s[i]) = e.lo .. e.hi /\ e.lo \in Nat /\ e.hi \in Nat /\ s[i] \in e.lo .. e.hi
      BY <1>0, <3>2, PlaceCases, KindIsOne
    <3> QED
      BY <3>3, <3>4
  <2> QED
    BY <2>1, <2>2
<1>11. n \in Shape(s)
  <2>1. \A i \in DOMAIN s : n[i] \in Place(s[i])
    <3> TAKE i \in DOMAIN s
    <3>1. i < l \/ i = l \/ l < i
      BY <1>0, <1>3
    <3> QED
      BY <1>0, <1>8, <1>9, <1>10, <3>1, PlaceCases
  <2>2. n = [i \in DOMAIN s |-> n[i]]
    BY <1>5
  <2>3. \A i \in DOMAIN s : n[i] \in Nat
    BY <1>0, <2>1, PlaceCases
  <2>4. n \in [1 .. Len(s) -> Nat]
    BY <1>0, <2>2, <2>3
  <2>5. n \in Seq(Nat) /\ Len(n) = Len(s)
    BY <1>0, <2>4
  <2> QED
    BY <2>1, <2>5, InShape
<1>12. DiffersAt(s, n, l)
  BY <1>3, <1>9 DEF DiffersAt
<1> QED
  BY <1>2, <1>4, <1>8, <1>10, <1>11, <1>12

(* The incremented string is the next one of the shape.                    *)
LEMMA IncrementedIsNext ==
    ASSUME NEW s \in Seq(Nat), Steps(s) # {}, NEW t \in Shape(s), Before(s, t)
    PROVE  ~ Before(t, incrementString(s))
<1>0. DOMAIN s = 1 .. Len(s) /\ \A i \in DOMAIN s : s[i] \in Nat
  OBVIOUS
<1>1. PICK n : n = incrementString(s)
  OBVIOUS
<1>2. n \in Shape(s)
  BY <1>1, Incremented
<1>3. PICK l \in Steps(s) :
         /\ DiffersAt(s, n, l) /\ n[l] = s[l] + 1
         /\ \A i \in Steps(s) : i <= l
         /\ \A i \in DOMAIN s : l < i => \A q \in Place(s[i]) : n[i] <= q
  BY <1>1, Incremented
<1>4. /\ t \in Seq(Nat) /\ DOMAIN t = DOMAIN s /\ \A i \in DOMAIN s : t[i] \in Place(s[i])
      /\ n \in Seq(Nat) /\ DOMAIN n = DOMAIN s
  BY <1>2, InShape
<1>5. \A i \in DOMAIN s : t[i] \in Nat /\ n[i] \in Nat
  BY <1>4
<1>6. PICK i \in DOMAIN s : s[i] < t[i] /\ DiffersAt(s, t, i)
  BY DEF Before
<1>7. i \in Steps(s)
  <2>1. t[i] \in Place(s[i]) /\ t[i] # s[i]
    BY <1>0, <1>4, <1>6
  <2>2. PICK k \in KindOf(s[i]) : TRUE
    BY <1>0, <2>1, PlaceCases
  <2>3. t[i] \in k.lo .. k.hi /\ k.hi \in Nat /\ k.lo \in Nat
    BY <1>0, <2>1, <2>2, PlaceCases, KindIsOne
  <2>4. s[i] < k.hi
    BY <1>0, <1>5, <1>6, <2>3
  <2> QED
    BY <2>2, <2>4 DEF Steps
<1>8. SUFFICES ASSUME Before(t, n) PROVE FALSE
  BY <1>1
<1>9. PICK j \in DOMAIN s : t[j] < n[j] /\ DiffersAt(t, n, j)
  BY <1>4, <1>8 DEF Before
<1>10. l \in DOMAIN s /\ i <= l
  BY <1>3, <1>7 DEF Steps
<1>11. CASE l < j
  BY <1>0, <1>3, <1>4, <1>5, <1>9, <1>11
<1>12. CASE j <= l /\ j < i
  <2>1. t[j] = s[j]
    BY <1>6, <1>12 DEF DiffersAt
  <2>2. j < l
    BY <1>0, <1>10, <1>12
  <2>3. n[j] = s[j]
    BY <1>3, <2>2 DEF DiffersAt
  <2> QED
    BY <1>0, <1>9, <2>1, <2>3
<1>13. CASE j <= l /\ i <= j
  <2>1. i < j => t[i] = n[i]
    BY <1>4, <1>9 DEF DiffersAt
  <2>2. i < l => n[i] = s[i]
    BY <1>3 DEF DiffersAt
  <2>3. i = j
    BY <1>0, <1>5, <1>6, <1>10, <1>13, <2>1, <2>2
  <2>4. n[i] <= s[i] + 1
    BY <1>0, <1>3, <1>5, <1>10, <2>2
  <2> QED
    BY <1>0, <1>5, <1>6, <1>9, <2>3, <2>4
<1> QED
  BY <1>0, <1>10, <1>11, <1>12, <1>13

(* A string before another one of its shape is not the last.               *)
LEMMA NotTheLast ==
    ASSUME NEW s \in Seq(Nat), NEW t \in Shape(s), Before(s, t)
    PROVE  Steps(s) # {}
<1>0. DOMAIN s = 1 .. Len(s) /\ \A i \in DOMAIN s : s[i] \in Nat
  OBVIOUS
<1>1. PICK i \in DOMAIN s : s[i] < t[i]
  BY DEF Before
<1>2. t[i] \in Place(s[i]) /\ t[i] \in Nat /\ t[i] # s[i]
  BY <1>0, <1>1, InShape, PlaceCases
<1>3. PICK k \in KindOf(s[i]) : TRUE
  BY <1>0, <1>2, PlaceCases
<1>4. t[i] \in k.lo .. k.hi /\ k.hi \in Nat /\ k.lo \in Nat
  BY <1>0, <1>2, <1>3, PlaceCases, KindIsOne
<1> QED
  BY <1>0, <1>1, <1>2, <1>3, <1>4 DEF Steps

LEMMA IncrementedIsLater ==
    ASSUME NEW s \in Seq(Nat), Steps(s) # {}
    PROVE  Before(s, incrementString(s))
<1>1. PICK n : n = incrementString(s)
  OBVIOUS
<1>2. PICK l \in Steps(s) : DiffersAt(s, n, l) /\ n[l] = s[l] + 1
  BY <1>1, Incremented
<1>3. l \in DOMAIN s /\ s[l] \in Nat
  BY <1>2 DEF Steps
<1>4. s[l] < n[l]
  BY <1>2, <1>3
<1> QED
  BY <1>1, <1>2, <1>3, <1>4 DEF Before

(* A postfix that all names have changes nothing about their order.        *)
LEMMA PostfixKeepsOrder ==
    ASSUME NEW s \in Seq(Nat), NEW t \in Seq(Nat), NEW p \in Seq(Nat),
           Len(s) = Len(t), Before(s, t)
    PROVE  Less(s \o p, t \o p)
<1>0. DOMAIN s = 1 .. Len(s) /\ Len(s) \in Nat /\ Len(p) \in Nat
  OBVIOUS
<1>1. PICK i \in DOMAIN s : s[i] < t[i] /\ DiffersAt(s, t, i)
  BY DEF Before
<1>2. /\ s \o p \in Seq(Nat) /\ t \o p \in Seq(Nat)
      /\ Len(s \o p) = Len(s) + Len(p) /\ Len(t \o p) = Len(s \o p)
  <2>1. s \o p \in Seq(Nat) /\ Len(s \o p) = Len(s) + Len(p)
    BY ConcatProperties
  <2>2. t \o p \in Seq(Nat) /\ Len(t \o p) = Len(t) + Len(p)
    BY ConcatProperties
  <2> QED
    BY <2>1, <2>2
<1>3. ASSUME NEW j \in DOMAIN s PROVE (s \o p)[j] = s[j] /\ (t \o p)[j] = t[j]
  <2>1. j \in 1 .. Len(s) + Len(p) /\ j <= Len(s) /\ j <= Len(t)
    BY <1>0
  <2> QED
    BY <2>1, ConcatProperties
<1>4. i \in DOMAIN (s \o p)
  BY <1>0, <1>2
<1>5. \A j \in DOMAIN (s \o p) : j < i => j \in DOMAIN s
  BY <1>0, <1>2
<1>6. DiffersAt(s \o p, t \o p, i)
  BY <1>0, <1>1, <1>3, <1>4, <1>5 DEF DiffersAt
<1>7. Before(s \o p, t \o p)
  BY <1>0, <1>1, <1>3, <1>4, <1>6 DEF Before
<1> QED
  BY <1>2, <1>7, LessIsBefore

-----------------------------------------------------------------------------
(* The loop over a range.                                                  *)

(* A range without an end has its start only.                              *)
StartOnly ==
    /\ c = range.start \/ done
    /\ names = IF done /\ MaxNames > 0 THEN <<range.start \o range.postfix>> ELSE <<>>

(* With an end, names are of strings between start and end and before c,   *)
(* in their order, and all of them until no more are remembered.           *)
FromTo ==
    /\ c \in Shape(range.start)
    /\ ~ done => ~ Before(c, range.start) /\ ~ Before(range.end, c)
    /\ done => Before(range.end, c)
    /\ \A i \in DOMAIN names :
         \E t \in Shape(range.start) :
            /\ names[i] = t \o range.postfix
            /\ ~ Before(t, range.start) /\ ~ Before(range.end, t) /\ Before(t, c)
    /\ \A i, j \in DOMAIN names : i < j => Less(names[i], names[j])
    /\ Len(names) < MaxNames =>
         \A t \in Shape(range.start) :
            ~ Before(t, range.start) /\ Before(t, c)
              => \E i \in DOMAIN names : names[i] = t \o range.postfix

RangeInv ==
    /\ range \in Ranges /\ done \in BOOLEAN /\ names \in Seq(Seq(Nat))
    /\ IF range.end = <<>> THEN StartOnly ELSE FromTo

LEMMA NextStartOnly ==
    ASSUME RangeInv, range.end = <<>>, NextName, Plain(range)
    PROVE  RangeInv'
<1>0. MaxNames \in Nat
  BY RangeAssumption
<1>1. ~ done /\ c = range.start /\ names = <<>> /\ range' = range
  BY DEF RangeInv, StartOnly, NextName
<1>2. done' = TRUE
  BY DEF NextName, Beyond
<1>3. Len(names) = 0 /\ Append(names, c \o range.postfix) = <<c \o range.postfix>>
  BY <1>1
<1>4. names' = IF MaxNames > 0 THEN <<range.start \o range.postfix>> ELSE <<>>
  BY <1>0, <1>1, <1>3 DEF NextName
<1>5. range.start \o range.postfix \in Seq(Nat)
  BY ConcatProperties DEF Plain
<1>6. names' \in Seq(Seq(Nat))
  BY <1>4, <1>5
<1> QED
  BY <1>1, <1>2, <1>4, <1>6 DEF RangeInv, StartOnly

LEMMA NextFromTo ==
    ASSUME RangeInv, range.end # <<>>, NextName, Plain(range)
    PROVE  RangeInv'
<1>0. MaxNames \in Nat
  BY RangeAssumption
<1>1. PICK s, e, p : s = range.start /\ e = range.end /\ p = range.postfix
  OBVIOUS
<1>2. /\ s \in Seq(Nat) /\ p \in Seq(Nat) /\ e \in Shape(s) /\ Steps(e) # {}
      /\ range \in Ranges /\ range' = range /\ names \in Seq(Seq(Nat)) /\ FromTo /\ ~ done
      /\ e # <<>>
  BY <1>1 DEF Plain, RangeInv, NextName
<1>3. \A t \in Shape(s) : t \in Seq(Nat) /\ Len(t) = Len(s)
  BY <1>2, InShape
<1>4. /\ c \in Shape(s) /\ ~ Before(c, s) /\ ~ Before(e, c)
      /\ \A i \in DOMAIN names :
           \E t \in Shape(s) : names[i] = t \o p /\ ~ Before(t, s) /\ ~ Before(e, t) /\ Before(t, c)
      /\ \A i, j \in DOMAIN names : i < j => Less(names[i], names[j])
      /\ Len(names) < MaxNames =>
           \A t \in Shape(s) : ~ Before(t, s) /\ Before(t, c) => \E i \in DOMAIN names : names[i] = t \o p
  BY <1>1, <1>2 DEF FromTo
<1>5. PICK d : d = incrementString(c)
  OBVIOUS
<1>6. /\ c' = d /\ done' \in BOOLEAN /\ (done' <=> Less(e, d))
      /\ names' = IF Len(names) < MaxNames THEN Append(names, c \o p) ELSE names
  <2>1. c' = d /\ done' = Beyond(d)
    BY <1>5 DEF NextName
  <2>2. Beyond(d) \in BOOLEAN /\ (Beyond(d) <=> Less(e, d))
    BY <1>1, <1>2 DEF Beyond
  <2> QED
    BY <1>1, <2>1, <2>2 DEF NextName
<1>7. Steps(c) # {}
  <2>1. c = e \/ Before(c, e)
    BY <1>2, <1>3, <1>4, BeforeTotal
  <2>2. e \in Shape(c)
    BY <1>2, <1>4, ShapeSame
  <2> QED
    BY <1>2, <1>3, <1>4, <2>1, <2>2, NotTheLast
<1>8. d \in Shape(s) /\ Before(c, d) /\ \A t \in Shape(s) : Before(c, t) => ~ Before(t, d)
  BY <1>2, <1>3, <1>4, <1>5, <1>7, ShapeSame, Incremented, IncrementedIsLater, IncrementedIsNext
<1>9. done' <=> Before(e, d)
  BY <1>2, <1>3, <1>6, <1>8, LessIsBefore
<1>10. ~ Before(d, s)
  BY <1>2, <1>3, <1>4, <1>8, BeforeTransitive
<1>11. \A t \in Shape(s) : Before(t, c) => Before(t, d)
  BY <1>3, <1>4, <1>8, BeforeTransitive
<1>12. CASE ~ (Len(names) < MaxNames)
  <2>1. names' = names
    BY <1>6, <1>12
  <2>2. \A i \in DOMAIN names :
           \E t \in Shape(s) : names[i] = t \o p /\ ~ Before(t, s) /\ ~ Before(e, t) /\ Before(t, d)
    BY <1>4, <1>11
  <2>3. FromTo'
    BY <1>1, <1>2, <1>4, <1>6, <1>8, <1>9, <1>10, <1>12, <2>1, <2>2 DEF FromTo
  <2> QED
    BY <1>1, <1>2, <1>6, <2>1, <2>3 DEF RangeInv
<1>13. CASE Len(names) < MaxNames
  <2>0. PICK l : l = Len(names)
    OBVIOUS
  <2>1. names' = Append(names, c \o p) /\ c \o p \in Seq(Nat)
    BY <1>2, <1>3, <1>4, <1>6, <1>13, ConcatProperties
  <2>2. /\ names' \in Seq(Seq(Nat)) /\ Len(names') = l + 1 /\ l \in Nat
        /\ DOMAIN names = 1 .. l /\ DOMAIN names' = 1 .. l + 1
        /\ names'[l + 1] = c \o p /\ \A i \in 1 .. l : names'[i] = names[i]
    BY <1>2, <2>0, <2>1, AppendProperties
  <2>3. ASSUME NEW i \in DOMAIN names'
        PROVE  \E t \in Shape(s) :
                  names'[i] = t \o p /\ ~ Before(t, s) /\ ~ Before(e, t) /\ Before(t, d)
    <3>1. i \in DOMAIN names \/ i = l + 1
      BY <2>2
    <3>2. CASE i = l + 1
      BY <1>4, <1>8, <2>2, <3>2
    <3>3. CASE i \in DOMAIN names
      BY <1>4, <1>11, <2>2, <3>3
    <3> QED
      BY <3>1, <3>2, <3>3
  <2>4. ASSUME NEW i \in DOMAIN names', NEW j \in DOMAIN names', i < j
        PROVE  Less(names'[i], names'[j])
    <3>1. i \in 1 .. l /\ (j \in 1 .. l \/ j = l + 1)
      BY <2>2, <2>4
    <3>2. CASE j \in 1 .. l
      BY <1>4, <2>2, <2>4, <3>1, <3>2
    <3>3. CASE j = l + 1
      <4>1. PICK t \in Shape(s) : names[i] = t \o p /\ Before(t, c)
        BY <1>4, <2>2, <3>1
      <4>2. Less(t \o p, c \o p)
        BY <1>2, <1>3, <1>4, <4>1, PostfixKeepsOrder
      <4> QED
        BY <2>2, <3>1, <3>3, <4>1, <4>2
    <3> QED
      BY <3>1, <3>2, <3>3
  <2>5. ASSUME NEW t \in Shape(s), ~ Before(t, s), Before(t, d)
        PROVE  \E i \in DOMAIN names' : names'[i] = t \o p
    <3>1. t = c \/ Before(t, c)
      BY <1>3, <1>4, <1>8, <2>5, BeforeTotal
    <3>2. CASE t = c
      <4>1. l + 1 \in DOMAIN names'
        BY <2>2
      <4> QED
        BY <2>2, <3>2, <4>1
    <3>3. CASE Before(t, c)
      <4>1. PICK i \in DOMAIN names : names[i] = t \o p
        BY <1>4, <1>13, <2>5, <3>3
      <4>2. i \in DOMAIN names' /\ names'[i] = names[i]
        <5>1. i \in 1 .. l
          BY <2>2
        <5> QED
          BY <2>2, <5>1
      <4> QED
        BY <4>1, <4>2
    <3> QED
      BY <3>1, <3>2, <3>3
  <2>6. FromTo'
    BY <1>1, <1>2, <1>6, <1>8, <1>9, <1>10, <2>3, <2>4, <2>5 DEF FromTo
  <2> QED
    BY <1>1, <1>2, <1>6, <2>2, <2>6 DEF RangeInv
<1> QED
  BY <1>12, <1>13

AllPlain == \A r \in Ranges : Plain(r)

(* The strings behind the names so far are those before the next one, from *)
(* the start on (the loop of generateVMName).                              *)
THEOREM RangeAlways ==
    ASSUME AllPlain
    PROVE  Spec => []RangeInv
<1>1. Init => RangeInv
  <2> SUFFICES ASSUME Init PROVE RangeInv
    OBVIOUS
  <2>1. /\ range \in Ranges /\ c = range.start /\ names = <<>> /\ done = FALSE
        /\ Plain(range) /\ names \in Seq(Seq(Nat)) /\ DOMAIN names = {}
    BY DEF Init, AllPlain
  <2>2. CASE range.end = <<>>
    BY <2>1, <2>2 DEF RangeInv, StartOnly
  <2>3. CASE range.end # <<>>
    <3>1. /\ range.start \in Seq(Nat) /\ range.end \in Shape(range.start)
          /\ range.end \in Seq(Nat) /\ Len(range.end) = Len(range.start)
          /\ ~ Less(range.end, range.start)
      BY <2>1, <2>3, InShape DEF Plain
    <3>2. ~ Before(range.end, range.start) /\ ~ Before(range.start, range.start)
      BY <3>1, LessIsBefore, BeforeIrreflexive
    <3>3. c \in Shape(range.start)
      BY <2>1, <3>1, ShapeOfItself
    <3> QED
      BY <2>1, <2>3, <3>2, <3>3 DEF RangeInv, FromTo
  <2> QED
    BY <2>2, <2>3
<1>2. RangeInv /\ [Next]_vars => RangeInv'
  <2> SUFFICES ASSUME RangeInv, [Next]_vars PROVE RangeInv'
    OBVIOUS
  <2>1. CASE NextName
    <3>1. Plain(range)
      BY DEF RangeInv, AllPlain
    <3> QED
      BY <2>1, <3>1, NextStartOnly, NextFromTo
  <2>2. CASE UNCHANGED vars
    BY <2>2 DEF vars, RangeInv, StartOnly, FromTo
  <2> QED
    BY <2>1, <2>2 DEF Next
<1> QED
  BY <1>1, <1>2, PTL DEF Spec

(* What is behind a name, whether the range has an end or not.             *)
LEMMA BehindAName ==
    ASSUME RangeInv, Plain(range), NEW i \in DOMAIN names
    PROVE  \E t \in Shape(range.start) :
              /\ names[i] = t \o range.postfix /\ ~ Before(t, range.start)
              /\ IF range.end = <<>> THEN t = range.start ELSE ~ Before(range.end, t)
<1>1. CASE range.end = <<>>
  <2>0. PICK n : n = range.start \o range.postfix
    OBVIOUS
  <2>1. names = <<>> \/ names = <<n>>
    BY <1>1, <2>0 DEF RangeInv, StartOnly
  <2>2. names[i] = range.start \o range.postfix
    <3>1. DOMAIN <<>> = {} /\ DOMAIN <<n>> = {1} /\ <<n>>[1] = n
      OBVIOUS
    <3>2. names = <<n>> /\ i = 1
      BY <2>1, <3>1
    <3> QED
      BY <2>0, <3>1, <3>2
  <2> QED
    BY <1>1, <2>2, ShapeOfItself, BeforeIrreflexive DEF Plain
<1>2. CASE range.end # <<>>
  BY <1>2 DEF RangeInv, FromTo
<1> QED
  BY <1>1, <1>2

(* Of strings of one shape, Between takes those that are in it.            *)
LEMMA BetweenIs ==
    ASSUME NEW s \in Seq(Nat), NEW e \in Shape(s), NEW t \in Shape(s)
    PROVE  t \in Between(s, e) <=> ~ Before(t, s) /\ ~ Before(e, t)
<1>1. /\ t \in Seq(Nat) /\ e \in Seq(Nat) /\ Len(t) = Len(s) /\ Len(e) = Len(s)
  BY InShape
<1>2. (Less(t, s) <=> Before(t, s)) /\ (Less(e, t) <=> Before(e, t))
  BY <1>1, LessIsBefore
<1> QED
  BY <1>2 DEF Between

LEMMA NamesAreThose ==
    ASSUME RangeInv, Plain(range), done, Len(names) < MaxNames
    PROVE  LET end == IF range.end = <<>> THEN range.start ELSE range.end
           IN {names[i] : i \in DOMAIN names}
                = {t \o range.postfix : t \in Between(range.start, end)}
<1>1. PICK s, p, e :
         s = range.start /\ p = range.postfix
         /\ e = IF range.end = <<>> THEN range.start ELSE range.end
  OBVIOUS
<1>2. s \in Seq(Nat) /\ e \in Shape(s)
  BY <1>1, ShapeOfItself DEF Plain
<1>3. \A t \in Shape(s) : t \in Seq(Nat) /\ Len(t) = Len(s)
  BY <1>2, InShape
<1>4. ASSUME NEW i \in DOMAIN names
      PROVE  \E t \in Between(s, e) : names[i] = t \o p
  <2>1. PICK t \in Shape(s) :
           /\ names[i] = t \o p /\ ~ Before(t, s)
           /\ IF range.end = <<>> THEN t = s ELSE ~ Before(range.end, t)
    BY <1>1, BehindAName
  <2>2. ~ Before(e, t)
    BY <1>1, <1>2, <2>1, BeforeIrreflexive
  <2> QED
    BY <1>2, <2>1, <2>2, BetweenIs
<1>5. ASSUME NEW t \in Between(s, e)
      PROVE  \E i \in DOMAIN names : names[i] = t \o p
  <2>1. t \in Shape(s) /\ ~ Before(t, s) /\ ~ Before(e, t)
    <3>1. t \in Shape(s)
      BY DEF Between
    <3> QED
      BY <1>2, <3>1, BetweenIs
  <2>2. CASE range.end = <<>>
    <3>1. t = s
      BY <1>1, <1>2, <1>3, <2>1, <2>2, BeforeTotal
    <3>2. MaxNames > 0
      BY RangeAssumption DEF RangeInv
    <3>3. names = <<s \o p>>
      BY <1>1, <2>2, <3>2 DEF RangeInv, StartOnly
    <3>4. 1 \in DOMAIN names /\ names[1] = s \o p
      BY <3>3
    <3> QED
      BY <3>1, <3>4
  <2>3. CASE range.end # <<>>
    <3>1. FromTo /\ e = range.end
      BY <1>1, <2>3 DEF RangeInv
    <3>2. Before(e, c) /\ c \in Shape(s)
      BY <1>1, <3>1 DEF FromTo
    <3>3. t = e \/ Before(t, e)
      BY <1>2, <1>3, <2>1, BeforeTotal
    <3>4. Before(t, c)
      BY <1>2, <1>3, <2>1, <3>2, <3>3, BeforeTransitive
    <3> QED
      BY <1>1, <2>1, <3>1, <3>4 DEF FromTo
  <2> QED
    BY <2>2, <2>3
<1>6. {names[i] : i \in DOMAIN names} = {t \o p : t \in Between(s, e)}
  BY <1>4, <1>5
<1> QED
  BY <1>1, <1>6

(* Whatever the kinds of characters and the range, its names are the       *)
(* strings of its shape from start to end, each once and in their order,   *)
(* the end included (incrementString, generateVMName).                     *)
THEOREM AlwaysNamesOfRange ==
    ASSUME AllPlain
    PROVE  Spec => []NamesOfRange
<1>1. RangeInv => NamesOfRange
  <2> SUFFICES ASSUME RangeInv PROVE NamesOfRange
    OBVIOUS
  <2>1. Plain(range)
    BY DEF RangeInv, AllPlain
  <2>2. ASSUME NEW i \in DOMAIN names, NEW j \in DOMAIN names, i < j
        PROVE  Less(names[i], names[j])
    <3>1. CASE range.end = <<>>
      <4>0. PICK n : n = range.start \o range.postfix
        OBVIOUS
      <4>1. names = <<>> \/ names = <<n>>
        BY <3>1, <4>0 DEF RangeInv, StartOnly
      <4>2. i = 1 /\ j = 1
        <5>1. DOMAIN <<>> = {} /\ DOMAIN <<n>> = {1}
          OBVIOUS
        <5> QED
          BY <4>1, <5>1
      <4> QED
        BY <2>2, <4>2
    <3>2. CASE range.end # <<>>
      BY <2>2, <3>2 DEF RangeInv, FromTo
    <3> QED
      BY <3>1, <3>2
  <2> QED
    BY <2>1, <2>2, NamesAreThose DEF NamesOfRange
<1> QED
  BY <1>1, RangeAlways, PTL

(* generateVMName takes every name of a range without a postfix for one of *)
(* the range when it enters the names that machines already have.          *)
THEOREM AlwaysAdoptsItsNames ==
    ASSUME AllPlain, \A r \in Ranges : r.postfix = <<>>
    PROVE  Spec => []AdoptsItsNames
<1>1. RangeInv => AdoptsItsNames
  <2> SUFFICES ASSUME RangeInv, NEW i \in DOMAIN names PROVE Adopts(names[i])
    BY DEF AdoptsItsNames
  <2>1. Plain(range) /\ range.postfix = <<>>
    BY DEF RangeInv, AllPlain
  <2>2. PICK t \in Shape(range.start) :
           /\ names[i] = t \o range.postfix /\ ~ Before(t, range.start)
           /\ IF range.end = <<>> THEN t = range.start ELSE ~ Before(range.end, t)
    BY <2>1, BehindAName
  <2>3. t \in Seq(Nat) /\ Len(t) = Len(range.start) /\ range.start \in Seq(Nat)
    BY <2>1, InShape DEF Plain
  <2>4. names[i] = t
    BY <2>1, <2>2, <2>3
  <2>5. CASE range.end = <<>>
    BY <2>2, <2>4, <2>5 DEF Adopts
  <2>6. CASE range.end # <<>>
    <3>1. range.end \in Seq(Nat) /\ Len(range.end) = Len(range.start)
      BY <2>1, <2>3, <2>6, InShape DEF Plain
    <3>2. ~ Less(t, range.start) /\ ~ Less(range.end, t)
      BY <2>2, <2>3, <2>6, <3>1, LessIsBefore
    <3> QED
      BY <2>4, <3>2 DEF Adopts
  <2> QED
    BY <2>5, <2>6
<1> QED
  BY <1>1, RangeAlways, PTL

=============================================================================
