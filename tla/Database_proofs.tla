---------------------------- MODULE Database_proofs ----------------------------
(***************************************************************************)
(* What diff yields and emit renders, and what the statements do to a      *)
(* database: lemmas about the operators that Convergence is built from,    *)
(* for databases, plans and scripts of any size.                           *)
(***************************************************************************)
EXTENDS Database, FiniteSetTheorems, FunctionTheorems, WellFoundedInduction, TLAPS, Integers

-----------------------------------------------------------------------------
(* Induction over the naturals, for a set instead of a predicate. *)
LEMMA LessIsWellFounded == IsWellFoundedOn({p \in Nat \X Nat : p[1] < p[2]}, Nat)
BY NatLessThanWellFounded DEF OpToRel

LEMMA Induct ==
  ASSUME NEW T \in SUBSET Nat, 0 \in T, \A n \in T : n + 1 \in T
  PROVE  \A n \in Nat : n \in T
<1> DEFINE R == {p \in Nat \X Nat : p[1] < p[2]}
           U == Nat \ T
<1>1. SUFFICES ASSUME U # {} PROVE FALSE
  OBVIOUS
<1>2. PICK x \in U : \A y \in U : ~(<<y, x>> \in R)
  <2>1. IsWellFoundedOn(R, Nat) /\ U \subseteq Nat
    BY LessIsWellFounded
  <2> HIDE DEF R, U
  <2> QED
    BY <1>1, <2>1, WFMin
<1>3. x \in Nat /\ x # 0 /\ x \notin T
  OBVIOUS
<1>4. x - 1 \in Nat /\ x - 1 + 1 = x /\ x - 1 < x
  BY <1>3
<1>5. x - 1 \notin U
  <2>1. <<x - 1, x>> \in Nat \X Nat /\ <<x - 1, x>>[1] = x - 1 /\ <<x - 1, x>>[2] = x
    BY <1>3, <1>4
  <2>2. <<x - 1, x>> \in R
    BY <1>4, <2>1
  <2>3. QED
    BY <1>2, <2>2
<1>6. x - 1 \in T
  BY <1>4, <1>5
<1>7. x \in T
  BY <1>4, <1>6
<1>8. QED
  BY <1>3, <1>7

LEMMA LeastOf ==
  ASSUME NEW S \in SUBSET Nat, S # {}
  PROVE  \E j \in S : \A x \in S : j <= x
<1> DEFINE R == {p \in Nat \X Nat : p[1] < p[2]}
<1>1. PICK j \in S : \A x \in S : ~(<<x, j>> \in R)
  <2>1. IsWellFoundedOn(R, Nat) /\ S \subseteq Nat
    BY LessIsWellFounded
  <2> HIDE DEF R
  <2> QED
    BY <2>1, WFMin
<1>2. ASSUME NEW x \in S PROVE j <= x
  <2>1. x \in Nat /\ j \in Nat /\ <<x, j>>[1] = x /\ <<x, j>>[2] = j
    OBVIOUS
  <2>2. ~(x < j)
    BY <1>1, <2>1
  <2> QED
    BY <2>1, <2>2
<1> QED
  BY <1>2

-----------------------------------------------------------------------------
(***************************************************************************)
(* Sequences, whatever they are of.                                        *)
(***************************************************************************)
IsSeq(s) == \E T : s \in Seq(T)

LEMMA SeqDomain ==
  ASSUME NEW s, IsSeq(s)
  PROVE  /\ Len(s) \in Nat /\ DOMAIN s = 1..Len(s)
         /\ (s = <<>> <=> Len(s) = 0) /\ (s = <<>> <=> DOMAIN s = {})
         /\ (s # <<>> => 1 \in DOMAIN s)
<1>1. PICK T : s \in Seq(T)
  BY DEF IsSeq
<1> QED
  BY <1>1

LEMMA Concat ==
  ASSUME NEW s, IsSeq(s), NEW t, IsSeq(t)
  PROVE  /\ IsSeq(s \o t) /\ Len(s \o t) = Len(s) + Len(t)
         /\ \A i \in 1..Len(s) : (s \o t)[i] = s[i]
         /\ \A i \in 1..Len(t) : (s \o t)[Len(s) + i] = t[i]
         /\ \A i \in 1..(Len(s) + Len(t)) :
              (s \o t)[i] = IF i <= Len(s) THEN s[i] ELSE t[i - Len(s)]
<1>1. PICK S : s \in Seq(S)
  BY DEF IsSeq
<1>2. PICK T : t \in Seq(T)
  BY DEF IsSeq
<1>3. s \in Seq(S \cup T) /\ t \in Seq(S \cup T)
  <2>1. DOMAIN s = 1..Len(s) /\ DOMAIN t = 1..Len(t) /\ Len(s) \in Nat /\ Len(t) \in Nat
    BY <1>1, <1>2
  <2> QED
    BY <1>1, <1>2
<1>4. s \o t \in Seq(S \cup T)
  BY <1>3
<1> QED
  BY <1>3, <1>4 DEF IsSeq

LEMMA ConcatSet ==
  ASSUME NEW s, IsSeq(s), NEW t, IsSeq(t)
  PROVE  /\ ToSet(s \o t) = ToSet(s) \cup ToSet(t)
         /\ s \o t = <<>> => s = <<>> /\ t = <<>>
<1>1. /\ Len(s) \in Nat /\ Len(t) \in Nat /\ DOMAIN s = 1..Len(s) /\ DOMAIN t = 1..Len(t)
      /\ DOMAIN (s \o t) = 1..(Len(s) + Len(t))
  BY SeqDomain, Concat
<1>2. \A i \in DOMAIN s : i \in DOMAIN (s \o t) /\ (s \o t)[i] = s[i]
  BY <1>1, Concat
<1>3. \A i \in DOMAIN t : Len(s) + i \in DOMAIN (s \o t) /\ (s \o t)[Len(s) + i] = t[i]
  BY <1>1, Concat
<1>4. \A i \in DOMAIN (s \o t) : IF i <= Len(s) THEN i \in DOMAIN s /\ (s \o t)[i] = s[i]
                                ELSE i - Len(s) \in DOMAIN t /\ (s \o t)[i] = t[i - Len(s)]
  BY <1>1, Concat
<1>5. ToSet(s \o t) = ToSet(s) \cup ToSet(t)
  BY <1>2, <1>3, <1>4 DEF ToSet
<1>6. s \o t = <<>> => s = <<>> /\ t = <<>>
  BY <1>1, Concat, SeqDomain
<1> QED
  BY <1>5, <1>6

(* The recursion of FlattenSeq is well defined, ... *)
Unrolled(m, n, g) == g = [i \in 1..n |-> IF i = 1 THEN m[i] ELSE g[i - 1] \o m[i]]

LEMMA UnrolledExists ==
  ASSUME NEW m, NEW n \in Nat
  PROVE  \E g : Unrolled(m, n, g)
<1> DEFINE Good == {k \in Nat : \E g : Unrolled(m, k, g)}
<1>1. 0 \in Good
  <2>1. Unrolled(m, 0, [i \in 1..0 |-> 0])
    BY DEF Unrolled
  <2> QED
    BY <2>1
<1>2. ASSUME NEW k \in Good PROVE k + 1 \in Good
  <2>1. PICK g : Unrolled(m, k, g)
    OBVIOUS
  <2> DEFINE h == [i \in 1..(k + 1) |->
                     IF i = k + 1 THEN IF i = 1 THEN m[i] ELSE g[i - 1] \o m[i] ELSE g[i]]
  <2>2. Unrolled(m, k + 1, h)
    <3>1. ASSUME NEW i \in 1..(k + 1)
          PROVE  h[i] = IF i = 1 THEN m[i] ELSE h[i - 1] \o m[i]
      <4>1. CASE i = k + 1
        <5>1. i # 1 => i - 1 \in 1..(k + 1) /\ i - 1 # k + 1
          BY <4>1
        <5> QED
          BY <4>1, <5>1
      <4>2. CASE i # k + 1
        <5>1. i \in 1..k
          BY <4>2
        <5>2. g[i] = IF i = 1 THEN m[i] ELSE g[i - 1] \o m[i]
          BY <2>1, <5>1 DEF Unrolled
        <5>3. i # 1 => i - 1 \in 1..(k + 1) /\ i - 1 # k + 1
          BY <4>2
        <5> QED
          BY <4>2, <5>2, <5>3
      <4> QED
        BY <4>1, <4>2
    <3> QED
      BY <3>1 DEF Unrolled
  <2> QED
    BY <2>2
<1> HIDE DEF Good
<1>3. Good \in SUBSET Nat
  BY DEF Good
<1>4. n \in Good
  BY <1>1, <1>2, <1>3, Induct
<1> QED
  BY <1>4 DEF Good

(* ... and goes through its argument from the first part to the last. *)
LEMMA FlattenBy ==
  ASSUME NEW m, IsSeq(m), \A i \in DOMAIN m : IsSeq(m[i])
  PROVE  \E f : /\ f[0] = <<>> /\ \A i \in DOMAIN m : f[i] = f[i - 1] \o m[i]
                /\ FlattenSeq(m) = f[Len(m)]
<1>1. Len(m) \in Nat /\ DOMAIN m = 1..Len(m)
  BY SeqDomain
<1> DEFINE n == Len(m)
           g == CHOOSE h : Unrolled(m, n, h)
           f == [i \in 0..n |-> IF i = 0 THEN <<>> ELSE g[i]]
<1>2. Unrolled(m, n, g)
  <2>1. \E h : Unrolled(m, n, h)
    BY <1>1, UnrolledExists
  <2> QED
    BY <2>1
<1>3. CASE n = 0
  <2>1. FlattenSeq(m) = m /\ m = <<>>
    BY <1>3, SeqDomain DEF FlattenSeq
  <2>2. LET e == [i \in {0} |-> <<>>] IN
          e[0] = <<>> /\ (\A i \in DOMAIN m : e[i] = e[i - 1] \o m[i]) /\ FlattenSeq(m) = e[Len(m)]
    BY <1>1, <1>3, <2>1
  <2> QED
    BY <2>2
<1>4. CASE n # 0
  <2>1. FlattenSeq(m) = g[n]
    <3>1. g = CHOOSE h : h = [i \in 1..n |-> IF i = 1 THEN m[i] ELSE h[i - 1] \o m[i]]
      BY DEF Unrolled
    <3> HIDE DEF g
    <3> QED
      BY <1>4, <3>1 DEF FlattenSeq
  <2> HIDE DEF g
  <2>2. ASSUME NEW i \in DOMAIN m PROVE f[i] = f[i - 1] \o m[i]
    <3>1. i \in 1..n /\ i \in 0..n /\ i - 1 \in 0..n /\ i # 0
      BY <1>1
    <3>2. g[i] = IF i = 1 THEN m[i] ELSE g[i - 1] \o m[i]
      BY <1>2, <3>1 DEF Unrolled
    <3>3. CASE i = 1
      <4>1. PICK T : m[i] \in Seq(T)
        BY DEF IsSeq
      <4>2. <<>> \o m[i] = m[i]
        BY <4>1
      <4> QED
        BY <3>1, <3>2, <3>3, <4>2
    <3>4. CASE i # 1
      BY <3>1, <3>2, <3>4
    <3> QED
      BY <3>3, <3>4
  <2>3. f[0] = <<>> /\ f[n] = g[n]
    BY <1>1, <1>4
  <2> QED
    BY <2>1, <2>2, <2>3
<1> QED
  BY <1>3, <1>4

(* What is in a flattened sequence, and in which order. *)
Spots(F, m, k, g) ==
  /\ \A p \in DOMAIN F : /\ g[p][1] \in 1..k /\ g[p][2] \in DOMAIN m[g[p][1]]
                         /\ F[p] = m[g[p][1]][g[p][2]]
  /\ \A p, q \in DOMAIN F : p < q => \/ g[p][1] < g[q][1]
                                     \/ g[p][1] = g[q][1] /\ g[p][2] < g[q][2]

LEMMA FlattenLaws ==
  ASSUME NEW m, IsSeq(m), \A i \in DOMAIN m : IsSeq(m[i])
  PROVE  /\ IsSeq(FlattenSeq(m))
         /\ ToSet(FlattenSeq(m)) = UNION {ToSet(m[i]) : i \in DOMAIN m}
         /\ FlattenSeq(m) = <<>> <=> \A i \in DOMAIN m : m[i] = <<>>
         /\ \E g : Spots(FlattenSeq(m), m, Len(m), g)
<1>1. PICK f : /\ f[0] = <<>> /\ \A i \in DOMAIN m : f[i] = f[i - 1] \o m[i]
               /\ FlattenSeq(m) = f[Len(m)]
  BY FlattenBy
<1>2. Len(m) \in Nat /\ DOMAIN m = 1..Len(m)
  BY SeqDomain
<1> DEFINE Law(k) == /\ IsSeq(f[k])
                     /\ ToSet(f[k]) = UNION {ToSet(m[i]) : i \in 1..k}
                     /\ f[k] = <<>> <=> \A i \in 1..k : m[i] = <<>>
                     /\ \E g : Spots(f[k], m, k, g)
           Good == {k \in Nat : k <= Len(m) => Law(k)}
<1>3. 0 \in Good
  <2>1. IsSeq(<<>>) /\ DOMAIN <<>> = {} /\ 1..0 = {}
    <3>1. <<>> \in Seq({})
      OBVIOUS
    <3> QED
      BY <3>1 DEF IsSeq
  <2>2. ToSet(<<>>) = {}
    BY <2>1 DEF ToSet
  <2>3. Spots(<<>>, m, 0, <<>>)
    BY <2>1 DEF Spots
  <2>4. Law(0)
    BY <1>1, <2>1, <2>2, <2>3
  <2> QED
    BY <2>4
<1>4. ASSUME NEW k \in Good PROVE k + 1 \in Good
  <2> SUFFICES ASSUME k + 1 <= Len(m) PROVE Law(k + 1)
    OBVIOUS
  <2>1. k \in Nat /\ Law(k) /\ k + 1 \in DOMAIN m /\ (k + 1) - 1 = k
    BY <1>2
  <2> DEFINE u == f[k]  v == m[k + 1]  w == f[k + 1]
  <2>2. w = u \o v /\ IsSeq(u) /\ IsSeq(v)
    BY <1>1, <2>1
  <2>3. 1..(k + 1) = (1..k) \cup {k + 1} /\ k + 1 \notin 1..k
    BY <2>1
  <2>4. /\ IsSeq(w) /\ ToSet(w) = ToSet(u) \cup ToSet(v)
        /\ w = <<>> <=> (u = <<>> /\ v = <<>>)
    <3>1. IsSeq(w) /\ ToSet(w) = ToSet(u) \cup ToSet(v) /\ (w = <<>> => u = <<>> /\ v = <<>>)
      BY <2>2, Concat, ConcatSet
    <3>2. (u = <<>> /\ v = <<>>) => w = <<>>
      BY <2>2
    <3> QED
      BY <3>1, <3>2
  <2>5. ToSet(w) = UNION {ToSet(m[i]) : i \in 1..(k + 1)}
    BY <2>1, <2>3, <2>4
  <2>6. w = <<>> <=> \A i \in 1..(k + 1) : m[i] = <<>>
    BY <2>1, <2>3, <2>4
  <2>7. /\ Len(u) \in Nat /\ DOMAIN u = 1..Len(u) /\ Len(v) \in Nat /\ DOMAIN v = 1..Len(v)
        /\ DOMAIN w = 1..(Len(u) + Len(v))
        /\ \A i \in 1..Len(u) : w[i] = u[i]
        /\ \A i \in 1..Len(v) : w[Len(u) + i] = v[i]
    <3> HIDE DEF u, v, w
    <3>1. IsSeq(u) /\ IsSeq(v) /\ IsSeq(w)
      BY <2>2, <2>4
    <3>2. /\ Len(u) \in Nat /\ DOMAIN u = 1..Len(u) /\ Len(v) \in Nat /\ DOMAIN v = 1..Len(v)
          /\ DOMAIN w = 1..Len(w)
      BY <3>1, SeqDomain
    <3>3. /\ Len(w) = Len(u) + Len(v) /\ \A i \in 1..Len(u) : w[i] = u[i]
          /\ \A i \in 1..Len(v) : w[Len(u) + i] = v[i]
      BY SMTT(60), <2>2, <3>1, Concat
    <3> QED
      BY <3>2, <3>3
  <2> HIDE DEF u, v, w
  <2>8. PICK g : Spots(u, m, k, g)
    BY <2>1 DEF u
  <2> DEFINE h == [p \in DOMAIN w |-> IF p \in DOMAIN u THEN g[p] ELSE <<k + 1, p - Len(u)>>]
  <2>9. ASSUME NEW p \in DOMAIN w
        PROVE  /\ h[p][1] \in 1..(k + 1) /\ h[p][2] \in DOMAIN m[h[p][1]]
               /\ w[p] = m[h[p][1]][h[p][2]]
    <3>1. CASE p \in DOMAIN u
      <4>1. h[p] = g[p] /\ g[p][1] \in 1..k /\ g[p][2] \in DOMAIN m[g[p][1]]
            /\ u[p] = m[g[p][1]][g[p][2]]
        BY <2>8, <3>1 DEF Spots
      <4>2. w[p] = u[p]
        BY <2>7, <3>1
      <4> QED
        BY <2>3, <4>1, <4>2
    <3>2. CASE p \notin DOMAIN u
      <4>1. p \in Int /\ p - Len(u) \in 1..Len(v) /\ Len(u) + (p - Len(u)) = p
        BY <2>7, <3>2
      <4>2. w[p] = v[p - Len(u)] /\ p - Len(u) \in DOMAIN v
        BY <2>7, <4>1
      <4>3. h[p][1] = k + 1 /\ h[p][2] = p - Len(u)
        BY <3>2
      <4> QED
        BY <2>3, <4>2, <4>3 DEF v
    <3> QED
      BY <3>1, <3>2
  <2>10. ASSUME NEW p \in DOMAIN w, NEW q \in DOMAIN w, p < q
         PROVE  \/ h[p][1] < h[q][1]
                \/ h[p][1] = h[q][1] /\ h[p][2] < h[q][2]
    <3>1. CASE q \in DOMAIN u
      <4>1. p \in DOMAIN u
        BY <2>7, <2>10, <3>1
      <4> QED
        BY <2>8, <2>10, <3>1, <4>1 DEF Spots
    <3>2. CASE q \notin DOMAIN u /\ p \in DOMAIN u
      <4>1. h[p][1] \in 1..k
        BY <2>8, <3>2 DEF Spots
      <4>2. h[q][1] = k + 1
        BY <3>2
      <4> QED
        BY <2>1, <4>1, <4>2
    <3>3. CASE q \notin DOMAIN u /\ p \notin DOMAIN u
      <4>1. h[p] = <<k + 1, p - Len(u)>> /\ h[q] = <<k + 1, q - Len(u)>>
        BY <3>3
      <4>2. p - Len(u) < q - Len(u)
        BY <2>7, <2>10
      <4> QED
        BY <4>1, <4>2
    <3> QED
      BY <3>1, <3>2, <3>3
  <2>11. Spots(w, m, k + 1, h)
    <3> HIDE DEF h
    <3> QED
      BY <2>9, <2>10 DEF Spots
  <2>12. Law(k + 1)
    BY <2>4, <2>5, <2>6, <2>11 DEF w
  <2> QED
    BY <2>12
<1> HIDE DEF Good
<1>5. Len(m) \in Good
  <2>1. Good \in SUBSET Nat
    BY DEF Good
  <2> QED
    BY <1>2, <1>3, <1>4, <2>1, Induct
<1>6. Law(Len(m))
  BY <1>2, <1>5 DEF Good
<1> QED
  BY <1>1, <1>2, <1>6

-----------------------------------------------------------------------------
(***************************************************************************)
(* Identifiers, and their order.                                           *)
(***************************************************************************)
Spaces == {"schema", "extension"}
Things == {"enum", "sequence", "table", "view", "routine"}
Pieces == {"column", "constraint", "index", "policy", "trigger"}

LEMMA IdShape ==
  ASSUME NEW id \in Identifiers
  PROVE  /\ id[2] \in NameSet
         /\ id[1] \in Spaces => Len(id) = 2 /\ id = <<id[1], id[2]>>
         /\ id[1] \in Things => Len(id) = 3 /\ id = <<id[1], id[2], id[3]>> /\ id[3] \in NameSet
         /\ id[1] \in Pieces => /\ Len(id) = 4 /\ id = <<id[1], id[2], id[3], id[4]>>
                                /\ id[3] \in NameSet /\ id[4] \in NameSet
         /\ id[1] \in Spaces \cup Things \cup Pieces
<1>1. CASE id \in Spaces \X NameSet
  <2>1. PICK k \in Spaces, n \in NameSet : id = <<k, n>>
    BY <1>1
  <2> QED
    BY <2>1 DEF Spaces, Things, Pieces
<1>2. CASE id \in Things \X NameSet \X NameSet
  <2>1. PICK k \in Things, n \in NameSet, o \in NameSet : id = <<k, n, o>>
    BY <1>2
  <2> QED
    BY <2>1 DEF Spaces, Things, Pieces
<1>3. CASE id \in Pieces \X NameSet \X NameSet \X NameSet
  <2>1. PICK k \in Pieces, n \in NameSet, o \in NameSet, p \in NameSet : id = <<k, n, o, p>>
    BY <1>3
  <2> QED
    BY <2>1 DEF Spaces, Things, Pieces
<1> QED
  BY <1>1, <1>2, <1>3 DEF Identifiers, Spaces, Things, Pieces

LEMMA IdByLength ==
  ASSUME NEW id \in Identifiers
  PROVE  /\ Len(id) \in 2..4 /\ id[2] \in NameSet
         /\ Len(id) = 2 => id = <<id[1], id[2]>>
         /\ Len(id) = 3 => id = <<id[1], id[2], id[3]>> /\ id[3] \in NameSet
         /\ Len(id) = 4 => /\ id = <<id[1], id[2], id[3], id[4]>>
                           /\ id[3] \in NameSet /\ id[4] \in NameSet
<1>1. /\ id[1] \in Spaces => Len(id) = 2 /\ id = <<id[1], id[2]>>
      /\ id[1] \in Things => Len(id) = 3 /\ id = <<id[1], id[2], id[3]>> /\ id[3] \in NameSet
      /\ id[1] \in Pieces => /\ Len(id) = 4 /\ id = <<id[1], id[2], id[3], id[4]>>
                             /\ id[3] \in NameSet /\ id[4] \in NameSet
      /\ id[1] \in Spaces \/ id[1] \in Things \/ id[1] \in Pieces
      /\ id[2] \in NameSet
  BY IdShape
<1> QED
  BY <1>1

LEMMA RankIs ==
  /\ \A n \in NameSet : Rank(n) \in Nat
  /\ \A n, o \in NameSet : Rank(n) = Rank(o) => n = o
<1>1. DOMAIN Names \subseteq Nat
  BY NamesAssumption
<1>2. ASSUME NEW n \in NameSet PROVE Rank(n) \in DOMAIN Names /\ Names[Rank(n)] = n
  <2>1. \E i \in DOMAIN Names : Names[i] = n
    BY DEF NameSet
  <2> QED
    BY <2>1 DEF Rank
<1> QED
  BY <1>1, <1>2

(* Precedes, spelled out. *)
LEMMA PrecedesIs ==
  ASSUME NEW a \in Identifiers, NEW b \in Identifiers, a[1] = b[1]
  PROVE  /\ Len(a) = 2 => (Precedes(a, b) <=> Rank(a[2]) < Rank(b[2]))
         /\ Len(a) = 3 => (Precedes(a, b) <=>
              \/ Rank(a[2]) < Rank(b[2])
              \/ a[2] = b[2] /\ Rank(a[3]) < Rank(b[3]))
         /\ Len(a) = 4 => (Precedes(a, b) <=>
              \/ Rank(a[2]) < Rank(b[2])
              \/ a[2] = b[2] /\ Rank(a[3]) < Rank(b[3])
              \/ a[2] = b[2] /\ a[3] = b[3] /\ Rank(a[4]) < Rank(b[4]))
         /\ Len(a) \in 2..4 /\ Len(a) = Len(b)
<1>1. Len(a) \in 2..4 /\ Len(a) = Len(b)
  BY IdShape DEF Spaces, Things, Pieces
<1>2. 2..(2 - 1) = {} /\ 2..(3 - 1) = {2} /\ 2..(4 - 1) = {2, 3}
  OBVIOUS
<1>3. 2..2 = {2} /\ 2..3 = {2, 3} /\ 2..4 = {2, 3, 4}
  OBVIOUS
<1> DEFINE Least(i) == Rank(a[i]) < Rank(b[i]) /\ \A j \in 2..(i - 1) : a[j] = b[j]
<1>4. Precedes(a, b) <=> \E i \in 2..Len(a) : Least(i)
  BY DEF Precedes
<1>5. /\ Least(2) <=> Rank(a[2]) < Rank(b[2])
      /\ Least(3) <=> a[2] = b[2] /\ Rank(a[3]) < Rank(b[3])
      /\ Least(4) <=> a[2] = b[2] /\ a[3] = b[3] /\ Rank(a[4]) < Rank(b[4])
  BY <1>2
<1> HIDE DEF Least
<1> QED
  BY <1>1, <1>3, <1>4, <1>5

OneKind(ids) == ids \subseteq Identifiers /\ \A a, b \in ids : a[1] = b[1]

LEMMA PrecedesOrders ==
  ASSUME NEW ids, OneKind(ids), NEW a \in ids, NEW b \in ids, NEW c \in ids
  PROVE  /\ ~Precedes(a, a)
         /\ Precedes(a, b) /\ Precedes(b, c) => Precedes(a, c)
         /\ a # b => Precedes(a, b) \/ Precedes(b, a)
<1>1. /\ {a, b, c} \subseteq Identifiers /\ a[1] = b[1] /\ b[1] = c[1]
      /\ Len(a) \in 2..4 /\ Len(a) = Len(b) /\ Len(b) = Len(c)
  BY PrecedesIs DEF OneKind
<1> DEFINE r(x, i) == Rank(x[i])
<1> DEFINE Named(i) == \A x \in {a, b, c} : x[i] \in NameSet
<1>named. Named(2) /\ (Len(a) > 2 => Named(3)) /\ (Len(a) = 4 => Named(4))
  <2>1. \A x \in {a, b, c} :
          /\ x[2] \in NameSet
          /\ Len(x) > 2 => x[3] \in NameSet
          /\ Len(x) = 4 => x[4] \in NameSet
    BY <1>1, IdByLength
  <2>2. \A x \in {a, b, c} : Len(x) = Len(a)
    BY <1>1
  <2> QED
    BY <2>1, <2>2
<1>ranked. ASSUME NEW i, Named(i)
      PROVE  /\ \A x \in {a, b, c} : r(x, i) \in Nat
             /\ \A x, y \in {a, b, c} : r(x, i) = r(y, i) <=> x[i] = y[i]
  BY <1>ranked, RankIs
<1>2. \A x \in {a, b, c} : r(x, 2) \in Nat
  BY <1>named, <1>ranked
<1>3. Len(a) > 2 => \A x \in {a, b, c} : r(x, 3) \in Nat
  BY <1>named, <1>ranked
<1>4. Len(a) = 4 => \A x \in {a, b, c} : r(x, 4) \in Nat
  BY <1>named, <1>ranked
<1>5. \A x, y \in {a, b, c} : r(x, 2) = r(y, 2) <=> x[2] = y[2]
  BY <1>named, <1>ranked
<1>6. Len(a) > 2 => \A x, y \in {a, b, c} : r(x, 3) = r(y, 3) <=> x[3] = y[3]
  BY <1>named, <1>ranked
<1>7. Len(a) = 4 => \A x, y \in {a, b, c} : r(x, 4) = r(y, 4) <=> x[4] = y[4]
  BY <1>named, <1>ranked
<1>8. \A x, y \in {a, b, c} :
         /\ Len(a) = 2 => (Precedes(x, y) <=> r(x, 2) < r(y, 2))
         /\ Len(a) = 3 => (Precedes(x, y) <=>
              \/ r(x, 2) < r(y, 2)
              \/ r(x, 2) = r(y, 2) /\ r(x, 3) < r(y, 3))
         /\ Len(a) = 4 => (Precedes(x, y) <=>
              \/ r(x, 2) < r(y, 2)
              \/ r(x, 2) = r(y, 2) /\ r(x, 3) < r(y, 3)
              \/ r(x, 2) = r(y, 2) /\ r(x, 3) = r(y, 3) /\ r(x, 4) < r(y, 4))
  <2> SUFFICES ASSUME NEW x \in {a, b, c}, NEW y \in {a, b, c}
               PROVE  /\ Len(a) = 2 => (Precedes(x, y) <=> r(x, 2) < r(y, 2))
                      /\ Len(a) = 3 => (Precedes(x, y) <=>
                           \/ r(x, 2) < r(y, 2)
                           \/ r(x, 2) = r(y, 2) /\ r(x, 3) < r(y, 3))
                      /\ Len(a) = 4 => (Precedes(x, y) <=>
                           \/ r(x, 2) < r(y, 2)
                           \/ r(x, 2) = r(y, 2) /\ r(x, 3) < r(y, 3)
                           \/ r(x, 2) = r(y, 2) /\ r(x, 3) = r(y, 3) /\ r(x, 4) < r(y, 4))
    OBVIOUS
  <2>1. x \in Identifiers /\ y \in Identifiers /\ x[1] = y[1] /\ Len(x) = Len(a)
    BY <1>1
  <2>2. /\ Len(x) = 2 => (Precedes(x, y) <=> r(x, 2) < r(y, 2))
        /\ Len(x) = 3 => (Precedes(x, y) <=>
              \/ r(x, 2) < r(y, 2)
              \/ x[2] = y[2] /\ r(x, 3) < r(y, 3))
        /\ Len(x) = 4 => (Precedes(x, y) <=>
              \/ r(x, 2) < r(y, 2)
              \/ x[2] = y[2] /\ r(x, 3) < r(y, 3)
              \/ x[2] = y[2] /\ x[3] = y[3] /\ r(x, 4) < r(y, 4))
    BY <2>1, PrecedesIs
  <2> QED
    BY <1>5, <1>6, <1>7, <2>1, <2>2
<1>9. /\ Len(a) = 2 => \A x, y \in {a, b, c} : r(x, 2) = r(y, 2) => x = y
      /\ Len(a) = 3 => \A x, y \in {a, b, c} : (r(x, 2) = r(y, 2) /\ r(x, 3) = r(y, 3)) => x = y
      /\ Len(a) = 4 => \A x, y \in {a, b, c} :
                         (r(x, 2) = r(y, 2) /\ r(x, 3) = r(y, 3) /\ r(x, 4) = r(y, 4)) => x = y
  <2>1. /\ Len(a) = 2 => \A x \in {a, b, c} : x = <<a[1], x[2]>>
        /\ Len(a) = 3 => \A x \in {a, b, c} : x = <<a[1], x[2], x[3]>>
        /\ Len(a) = 4 => \A x \in {a, b, c} : x = <<a[1], x[2], x[3], x[4]>>
    <3>1. \A x \in {a, b, c} : x \in Identifiers /\ Len(x) = Len(a) /\ x[1] = a[1]
      BY <1>1
    <3> QED
      BY <3>1, IdByLength
  <2> QED
    BY <2>1, <1>5, <1>6, <1>7
<1> HIDE DEF r
<1>10. CASE Len(a) = 2
  BY <1>2, <1>8, <1>9, <1>10
<1>11. CASE Len(a) = 3
  BY <1>2, <1>3, <1>8, <1>9, <1>11
<1>12. CASE Len(a) = 4
  BY <1>2, <1>3, <1>4, <1>8, <1>9, <1>12
<1> QED
  BY <1>1, <1>10, <1>11, <1>12

(* Ordered goes through all the identifiers of a kind. *)
LEMMA OrderedLists ==
  ASSUME NEW ids, OneKind(ids), IsFiniteSet(ids)
  PROVE  IsSeq(Ordered(ids)) /\ ToSet(Ordered(ids)) = ids /\ Injective(Ordered(ids))
<1> DEFINE n == Cardinality(ids)
           before(x) == {o \in ids : Precedes(o, x)}
           f == [x \in ids |-> Cardinality(before(x)) + 1]
<1>1. n \in Nat
  BY FS_CardinalityType
<1>2. ASSUME NEW x \in ids
      PROVE  /\ IsFiniteSet(before(x)) /\ Cardinality(before(x)) \in Nat
             /\ Cardinality(before(x)) < n
  <2>1. before(x) \in SUBSET ids /\ x \notin before(x)
    BY PrecedesOrders
  <2> HIDE DEF before
  <2>2. IsFiniteSet(before(x)) /\ Cardinality(before(x)) <= n /\ n # Cardinality(before(x))
    BY <2>1, FS_Subset
  <2> QED
    BY <1>1, <2>2, FS_CardinalityType
<1>3. ASSUME NEW x \in ids, NEW y \in ids, Precedes(x, y)
      PROVE  Cardinality(before(x)) < Cardinality(before(y))
  <2>1. before(x) \in SUBSET before(y) /\ x \in before(y) /\ x \notin before(x)
    BY <1>3, PrecedesOrders
  <2>2. /\ IsFiniteSet(before(y)) /\ Cardinality(before(x)) \in Nat
        /\ Cardinality(before(y)) \in Nat
    BY <1>2
  <2> HIDE DEF before
  <2> QED
    BY <2>1, <2>2, FS_Subset
<1> HIDE DEF n, before
<1>4. f \in Injection(ids, 1..n)
  <2>1. \A x \in ids : f[x] \in 1..n
    BY <1>1, <1>2
  <2>2. ASSUME NEW x \in ids, NEW y \in ids, f[x] = f[y] PROVE x = y
    <3>1. Cardinality(before(x)) = Cardinality(before(y))
      BY <1>2, <2>2
    <3>2. ~Precedes(x, y) /\ ~Precedes(y, x)
      BY <1>2, <1>3, <3>1
    <3> QED
      BY <3>2, PrecedesOrders
  <2> QED
    BY <2>1, <2>2 DEF Injection, IsInjective
<1>5. f \in Surjection(ids, 1..n)
  <2>1. IsFiniteSet(1..n) /\ Cardinality(1..n) = n
    BY <1>1, FS_Interval
  <2> HIDE DEF f
  <2> QED
    BY <1>4, <2>1, FS_Injection DEF n
<1>6. \A i \in 1..n : \E x \in ids : f[x] = i
  BY <1>5 DEF Surjection
<1> DEFINE s == [i \in 1..n |-> CHOOSE x \in ids : f[x] = i]
<1>7. \A i \in 1..n : s[i] \in ids /\ f[s[i]] = i
  BY <1>6
<1>8. s \in [1..n -> ids] /\ \A i, j \in DOMAIN s : i < j => Precedes(s[i], s[j])
  <2>1. s \in [1..n -> ids]
    BY <1>7
  <2>2. ASSUME NEW i \in 1..n, NEW j \in 1..n, i < j PROVE Precedes(s[i], s[j])
    <3>1. /\ s[i] \in ids /\ s[j] \in ids
          /\ i = Cardinality(before(s[i])) + 1 /\ j = Cardinality(before(s[j])) + 1
      BY SMTT(60), <1>7
    <3>2. Cardinality(before(s[i])) \in Nat /\ Cardinality(before(s[j])) \in Nat
      BY ZenonT(60), <1>2, <3>1
    <3> HIDE DEF s, f
    <3>3. s[i] # s[j] /\ ~(Cardinality(before(s[j])) < Cardinality(before(s[i])))
      BY <2>2, <3>1, <3>2
    <3> QED
      BY <1>3, <3>1, <3>3, PrecedesOrders
  <2> QED
    BY <2>1, <2>2
<1> DEFINE o == Ordered(ids)
<1>9. o \in [1..n -> ids] /\ \A i, j \in DOMAIN o : i < j => Precedes(o[i], o[j])
  BY <1>8 DEF Ordered, n
<1> HIDE DEF o
<1>10. o \in Seq(ids) /\ DOMAIN o = 1..n
  BY <1>1, <1>9
<1>11. o \in Injection(1..n, ids)
  <2>1. ASSUME NEW i \in 1..n, NEW j \in 1..n, o[i] = o[j] PROVE i = j
    <3>1. ~Precedes(o[i], o[j]) /\ ~Precedes(o[j], o[i])
      BY <1>9, <2>1, PrecedesOrders
    <3> QED
      BY <1>1, <1>9, <3>1
  <2> QED
    BY <1>9, <2>1 DEF Injection, IsInjective
<1>12. o \in Surjection(1..n, ids)
  <2>1. IsFiniteSet(1..n) /\ Cardinality(1..n) = n
    BY <1>1, FS_Interval
  <2> QED
    BY <1>11, <2>1, FS_Injection DEF n
<1>13. ToSet(o) = ids
  BY <1>10, <1>12 DEF ToSet, Surjection
<1>14. Injective(o)
  BY <1>10, <1>11 DEF Injection, IsInjective, Injective
<1> QED
  BY <1>10, <1>13, <1>14 DEF IsSeq, o

-----------------------------------------------------------------------------
(***************************************************************************)
(* What a statement may do to a database.                                  *)
(***************************************************************************)
LEMMA InDatabase ==
  ASSUME NEW d, IsDatabase(d), NEW id \in DOMAIN d
  PROVE  /\ id \in Identifiers /\ IsValue(id, d[id]) /\ NamesNoKey(id, d[id])
         /\ HasPlace(d, id) /\ UsesOf(id, d[id]) \subseteq DOMAIN d /\ RefersToKeys(d, id)
BY DEF IsDatabase, WellFormed

(* Everything is somewhere. *)
LEMMA PlaceIs ==
  ASSUME NEW d, NEW id \in Identifiers
  PROVE  HasPlace(d, id) <=>
           /\ id[1] \notin Spaces => <<"schema", id[2]>> \in DOMAIN d
           /\ id[1] \in Pieces => RelationOf(d, id) # {}
<1>1. /\ id[1] \in Spaces <=> Len(id) = 2
      /\ id[1] \in Things <=> Len(id) = 3
      /\ id[1] \in Pieces <=> Len(id) = 4
      /\ Len(id) \in 2..4
  BY IdShape, IdByLength DEF Spaces, Things, Pieces
<1>2. Len(id) > 2 <=> id[1] \notin Spaces
  <2>1. PICK n \in 2..4 : n = Len(id)
    BY <1>1
  <2>2. n > 2 <=> n # 2
    BY <2>1
  <2> QED
    BY <1>1, <2>1, <2>2
<1>3. Len(id) = 4 <=> id[1] \in Pieces
  BY <1>1
<1> QED
  BY <1>2, <1>3 DEF HasPlace

(* Places are kept when nothing goes. *)
LEMMA PlaceGrows ==
  ASSUME NEW d, NEW e, DOMAIN d \subseteq DOMAIN e, NEW id, HasPlace(d, id)
  PROVE  HasPlace(e, id)
<1>1. RelationOf(d, id) \subseteq RelationOf(e, id)
  BY DEF RelationOf
<1> QED
  BY <1>1 DEF HasPlace

(* One value may change, a constraint's excepted, if it stays a value of its *)
(* kind and names what is there.                                             *)
LEMMA Revalued ==
  ASSUME NEW d, IsDatabase(d), NEW id \in DOMAIN d, id[1] # "constraint",
         NEW e, e = [o \in DOMAIN e |-> e[o]], DOMAIN e = DOMAIN d,
         \A o \in DOMAIN d : o # id => e[o] = d[o],
         IsValue(id, e[id]), NamesNoKey(id, e[id]), UsesOf(id, e[id]) \subseteq DOMAIN d
  PROVE  IsDatabase(e)
<1>1. ASSUME NEW o \in DOMAIN d
      PROVE  /\ IsValue(o, e[o]) /\ NamesNoKey(o, e[o]) /\ HasPlace(e, o)
             /\ UsesOf(o, e[o]) \subseteq DOMAIN d /\ RefersToKeys(e, o)
  <2>1. HasPlace(e, o)
    BY InDatabase, PlaceGrows
  <2>2. CASE o = id
    <3>1. RefersToKeys(e, o)
      BY <2>2 DEF RefersToKeys, NamesNoKey
    <3> QED
      BY <2>1, <2>2, <3>1
  <2>3. CASE o # id
    <3>1. e[o] = d[o]
      BY <2>3
    <3>2. IsValue(o, d[o]) /\ NamesNoKey(o, d[o]) /\ UsesOf(o, d[o]) \subseteq DOMAIN d
          /\ RefersToKeys(d, o)
      BY InDatabase
    <3>3. ASSUME NEW u \in UsesOf(o, d[o]), u[1] = "constraint"
          PROVE  e[u] = d[u]
      BY <3>2, <3>3
    <3>4. RefersToKeys(e, o)
      BY <3>1, <3>2, <3>3 DEF RefersToKeys
    <3> QED
      BY <2>1, <3>1, <3>2, <3>4
  <2> QED
    BY <2>2, <2>3
<1> QED
  BY <1>1 DEF IsDatabase, WellFormed

(* Objects may go together with what they hold, if nothing else names them. *)
LEMMA Removed ==
  ASSUME NEW d, IsDatabase(d), NEW gone,
         \A o \in DOMAIN d \ gone : UsesOf(o, d[o]) \cap gone = {},
         \A o \in DOMAIN d \ gone : o[1] \notin Spaces => <<"schema", o[2]>> \notin gone,
         \A r \in DOMAIN d \cap gone : r[1] \in {"table", "view"} => PartsOf(d, r) \subseteq gone
  PROVE  IsDatabase(Without(d, gone))
<1> DEFINE e == Without(d, gone)
<1>1. e = [o \in DOMAIN e |-> e[o]] /\ DOMAIN e = DOMAIN d \ gone
      /\ \A o \in DOMAIN e : e[o] = d[o]
  BY DEF Without
<1> HIDE DEF e
<1>2. IsFiniteSet(DOMAIN e) /\ DOMAIN e \subseteq Identifiers
  <2>1. IsFiniteSet(DOMAIN d) /\ DOMAIN e \in SUBSET DOMAIN d /\ DOMAIN d \subseteq Identifiers
    BY <1>1 DEF IsDatabase
  <2> QED
    BY <2>1, FS_Subset
<1>3. ASSUME NEW o \in DOMAIN e
      PROVE  /\ IsValue(o, e[o]) /\ NamesNoKey(o, e[o]) /\ HasPlace(e, o)
             /\ UsesOf(o, e[o]) \subseteq DOMAIN e /\ RefersToKeys(e, o)
  <2>1. /\ o \in DOMAIN d \ gone /\ e[o] = d[o] /\ o \in Identifiers
        /\ IsValue(o, d[o]) /\ NamesNoKey(o, d[o]) /\ HasPlace(d, o)
        /\ UsesOf(o, d[o]) \subseteq DOMAIN d /\ RefersToKeys(d, o)
    BY <1>1, InDatabase
  <2>2. UsesOf(o, e[o]) \subseteq DOMAIN e
    BY <1>1, <2>1
  <2>3. RefersToKeys(e, o)
    BY <1>1, <2>1, <2>2 DEF RefersToKeys
  <2>4. o[1] \notin Spaces => <<"schema", o[2]>> \in DOMAIN e
    BY <1>1, <2>1, PlaceIs
  <2>5. ASSUME o[1] \in Pieces PROVE RelationOf(e, o) # {}
    <3>1. PICK r \in RelationOf(d, o) : TRUE
      BY <2>1, <2>5, PlaceIs
    <3>2. r \in DOMAIN d /\ r[1] \in {"table", "view"} /\ SameRelation(o, r)
      BY <3>1 DEF RelationOf
    <3>3. Len(o) = 4
      BY <2>1, <2>5, IdShape
    <3>4. o \in PartsOf(d, r)
      BY <2>1, <3>2, <3>3 DEF PartsOf
    <3>5. r \in DOMAIN e
      BY <1>1, <2>1, <3>2, <3>4
    <3> QED
      BY <3>1, <3>5 DEF RelationOf
  <2> QED
    BY <2>1, <2>2, <2>3, <2>4, <2>5, PlaceIs
<1> QED
  BY <1>1, <1>2, <1>3 DEF IsDatabase, WellFormed, e

(* What one CREATE makes: a single object, or a table with its columns and *)
(* constraints.                                                            *)
NewIs(g, v) ==
  /\ g \in Identifiers
  /\ IsValue(g, NewValue(g, v)) /\ NamesNoKey(g, NewValue(g, v))
  /\ g[1] = "column" /\ v.serial => SerialSeq(g) \in Identifiers

Together(id, group) ==
  /\ group = [g \in DOMAIN group |-> group[g]] /\ id \in DOMAIN group
  /\ IsFiniteSet(DOMAIN group)
  /\ \A g \in DOMAIN group :
       g = id \/ (id[1] = "table" /\ g[1] \in {"column", "constraint"} /\ SameRelation(g, id))
  /\ \A g \in DOMAIN group : NewIs(g, group[g])

SerialsOf(group) == {c \in DOMAIN group : c[1] = "column" /\ group[c].serial}

LEMMA NewSequencesAre ==
  ASSUME NEW id, NEW group, Together(id, group)
  PROVE  LET new == NewSequences(group) IN
         /\ IsFiniteSet(DOMAIN new) /\ DOMAIN new \subseteq Identifiers
         /\ DOMAIN new \cap DOMAIN group = {}
         /\ DOMAIN new = {SerialSeq(c) : c \in SerialsOf(group)}
         /\ \A q \in DOMAIN new :
              /\ q[1] = "sequence" /\ Len(q) = 3
              /\ \E c \in SerialsOf(group) :
                   /\ SerialSeq(c) = q /\ c[2] = q[2]
                   /\ new[q] = [min |-> 1, max |-> 9, owner |-> {c}, last |-> 1, kept |-> FALSE]
         /\ SerialsOf(group) \subseteq DOMAIN group
<1> DEFINE new == NewSequences(group)
           serial == SerialsOf(group)
           f == [c \in serial |-> SerialSeq(c)]
<1>1. /\ new = [q \in {SerialSeq(c) : c \in serial} |->
                  [min |-> 1, max |-> 9, owner |-> {CHOOSE c \in serial : SerialSeq(c) = q},
                   last |-> 1, kept |-> FALSE]]
  BY DEF NewSequences, SerialsOf
<1>2. DOMAIN new = {SerialSeq(c) : c \in serial}
  BY <1>1
<1>3. IsFiniteSet(serial) /\ serial \subseteq DOMAIN group
  <2>1. serial \in SUBSET DOMAIN group /\ IsFiniteSet(DOMAIN group)
    BY DEF SerialsOf, Together
  <2> QED
    BY <2>1, FS_Subset
<1>4. IsFiniteSet(DOMAIN new)
  <2>1. f \in Surjection(serial, DOMAIN new)
    BY <1>2 DEF Surjection
  <2> HIDE DEF f, new, serial
  <2> QED
    BY <1>3, <2>1, FS_Surjection
<1>5. ASSUME NEW c \in serial
      PROVE  /\ SerialSeq(c) \in Identifiers /\ SerialSeq(c)[1] = "sequence"
             /\ SerialSeq(c)[2] = c[2] /\ Len(SerialSeq(c)) = 3 /\ c[1] = "column"
  <2>1. c \in DOMAIN group /\ c[1] = "column" /\ group[c].serial
    BY DEF SerialsOf
  <2>2. NewIs(c, group[c])
    BY <2>1 DEF Together
  <2> QED
    BY ZenonT(60), <2>1, <2>2 DEF NewIs, SerialSeq
<1>6. ASSUME NEW q \in DOMAIN new
      PROVE  /\ q[1] = "sequence" /\ q \in Identifiers /\ q \notin DOMAIN group /\ Len(q) = 3
             /\ \E c \in serial :
                   /\ SerialSeq(c) = q /\ c[2] = q[2]
                   /\ new[q] = [min |-> 1, max |-> 9, owner |-> {c}, last |-> 1, kept |-> FALSE]
  <2> DEFINE c == CHOOSE x \in serial : SerialSeq(x) = q
  <2>1. c \in serial /\ SerialSeq(c) = q
    BY <1>2
  <2>2. new[q] = [min |-> 1, max |-> 9, owner |-> {c}, last |-> 1, kept |-> FALSE]
    BY <1>1, <1>2
  <2> HIDE DEF c, new
  <2>3. q[1] = "sequence" /\ q \in Identifiers /\ c[2] = q[2] /\ c[1] = "column" /\ Len(q) = 3
    BY <1>5, <2>1
  <2>4. q \notin DOMAIN group
    <3>1. SUFFICES ASSUME q \in DOMAIN group PROVE FALSE
      OBVIOUS
    <3>2. q = id
      BY <2>3, <3>1 DEF Together
    <3>3. c = id
      <4>1. c \in DOMAIN group
        BY <1>3, <2>1
      <4> QED
        BY <2>3, <3>2, <4>1 DEF Together
    <3> QED
      BY <2>3, <3>2, <3>3
  <2> QED
    BY <2>1, <2>2, <2>3, <2>4
<1>7. DOMAIN new \subseteq Identifiers /\ DOMAIN new \cap DOMAIN group = {}
  BY <1>6
<1> HIDE DEF new, serial
<1>8. /\ IsFiniteSet(DOMAIN new) /\ DOMAIN new \subseteq Identifiers
      /\ DOMAIN new \cap DOMAIN group = {}
      /\ DOMAIN new = {SerialSeq(c) : c \in serial}
      /\ \A q \in DOMAIN new :
              /\ q[1] = "sequence" /\ Len(q) = 3
              /\ \E c \in serial :
                   /\ SerialSeq(c) = q /\ c[2] = q[2]
                   /\ new[q] = [min |-> 1, max |-> 9, owner |-> {c}, last |-> 1, kept |-> FALSE]
      /\ serial \subseteq DOMAIN group
  BY <1>2, <1>3, <1>4, <1>6, <1>7
<1> QED
  BY <1>8 DEF new, serial

(* A value, with or without NOT NULL. *)
KeyedUse(group) ==
  UNION {UsesOf(k, group[k]) : k \in
          {g \in DOMAIN group : g[1] = "constraint" /\ group[g].kind = "primary"}}
Tightened(o, v, group) ==
  IF o[1] = "column" /\ o \in KeyedUse(group) THEN [v EXCEPT !.notnull = TRUE] ELSE v

LEMMA TightenedIs ==
  ASSUME NEW o, NEW v, NEW group, IsValue(o, v), NamesNoKey(o, v)
  PROVE  LET w == Tightened(o, v, group) IN
         /\ IsValue(o, w) /\ NamesNoKey(o, w) /\ UsesOf(o, w) = UsesOf(o, v)
         /\ o[1] # "column" => w = v
         /\ o[1] = "column" => /\ w.type = v.type /\ w.default = v.default
                               /\ w.identity = v.identity /\ w.generated = v.generated
                               /\ w.hidden = v.hidden /\ w.kept = v.kept
<1> DEFINE w == Tightened(o, v, group)
<1>1. CASE w = v
  BY <1>1
<1>2. CASE w # v
  <2>1. o[1] = "column" /\ w = [v EXCEPT !.notnull = TRUE] /\ IsColumn(o, v)
    BY <1>2 DEF Tightened, IsValue
  <2>2. w = [type |-> v.type, notnull |-> TRUE, default |-> v.default,
            identity |-> v.identity, generated |-> v.generated, hidden |-> v.hidden,
            kept |-> v.kept]
    BY <2>1 DEF IsColumn
  <2> HIDE DEF w
  <2>3. IsColumn(o, w)
    BY <2>1, <2>2 DEF IsColumn
  <2>4. UsesOf(o, w) = UsesOf(o, v)
    BY <2>1, <2>2 DEF UsesOf
  <2>5. NamesNoKey(o, w)
    BY <2>1, <2>4 DEF NamesNoKey
  <2> QED
    BY <2>1, <2>2, <2>3, <2>4, <2>5 DEF IsValue, w
<1> QED
  BY <1>1, <1>2

LEMMA CreatedIs ==
  ASSUME NEW d, NEW group, NEW id, Together(id, group)
  PROVE  LET e == Created(d, group)  new == NewSequences(group) IN
         /\ e = [o \in DOMAIN e |-> e[o]]
         /\ DOMAIN e = DOMAIN d \cup DOMAIN group \cup DOMAIN new
         /\ \A o \in DOMAIN d \ (DOMAIN group \cup DOMAIN new) : e[o] = Tightened(o, d[o], group)
         /\ \A g \in DOMAIN group : e[g] = Tightened(g, NewValue(g, group[g]), group)
         /\ \A q \in DOMAIN new : e[q] = new[q]
<1> DEFINE new == NewSequences(group)
           fresh == [g \in DOMAIN group |-> NewValue(g, group[g])]
           both == Merge(fresh, new)
           all == Merge(d, both)
           e == Created(d, group)
<1>1. /\ DOMAIN new \cap DOMAIN group = {} /\ \A q \in DOMAIN new : q[1] # "column"
  BY NewSequencesAre
<1> HIDE DEF new
<1>2. /\ DOMAIN both = DOMAIN group \cup DOMAIN new
      /\ \A g \in DOMAIN group : both[g] = NewValue(g, group[g])
      /\ \A q \in DOMAIN new : both[q] = new[q]
  BY <1>1 DEF Merge
<1> HIDE DEF both, fresh
<1>3. /\ DOMAIN all = DOMAIN d \cup DOMAIN group \cup DOMAIN new
      /\ \A o \in DOMAIN d \ (DOMAIN group \cup DOMAIN new) : all[o] = d[o]
      /\ \A g \in DOMAIN group : all[g] = NewValue(g, group[g])
      /\ \A q \in DOMAIN new : all[q] = new[q]
  BY <1>1, <1>2 DEF Merge
<1>4. e = [o \in DOMAIN all |-> Tightened(o, all[o], group)]
  BY DEF Created, Tightened, KeyedUse, all, both, fresh, new
<1> HIDE DEF all, e
<1>5. \A q \in DOMAIN new : Tightened(q, all[q], group) = new[q]
  BY <1>1, <1>3 DEF Tightened
<1>6. /\ e = [o \in DOMAIN e |-> e[o]]
      /\ DOMAIN e = DOMAIN d \cup DOMAIN group \cup DOMAIN new
      /\ \A o \in DOMAIN d \ (DOMAIN group \cup DOMAIN new) : e[o] = Tightened(o, d[o], group)
      /\ \A g \in DOMAIN group : e[g] = Tightened(g, NewValue(g, group[g]), group)
      /\ \A q \in DOMAIN new : e[q] = new[q]
  BY <1>3, <1>4, <1>5
<1> QED
  BY <1>6 DEF e, new

(* What is accepted for creation is new. *)
LEMMA CreatesNew ==
  ASSUME NEW d, IsDatabase(d), NEW group, NEW id, Together(id, group), CanCreate(d, id, group)
  PROVE  /\ DOMAIN group \cap DOMAIN d = {}
         /\ DOMAIN NewSequences(group) \cap DOMAIN d = {}
<1> DEFINE new == NewSequences(group)
           e == Created(d, group)
<1>1. id \notin DOMAIN d /\ \A g \in DOMAIN group \cup DOMAIN new : ~NameTaken(d, g, e[g])
  BY DEF CanCreate
<1> HIDE DEF e
<1>2. ASSUME NEW g \in DOMAIN group, g \in DOMAIN d PROVE FALSE
  <2>1. /\ g # id /\ id[1] = "table" /\ g[1] \in {"column", "constraint"} /\ SameRelation(g, id)
        /\ g \in Identifiers /\ id \in Identifiers
    BY <1>1, <1>2 DEF Together, NewIs
  <2>2. HasPlace(d, g)
    BY <1>2, InDatabase
  <2>3. RelationOf(d, g) # {}
    BY <2>1, <2>2, PlaceIs DEF Pieces
  <2>4. PICK r \in DOMAIN d : r[1] = "table" /\ SameRelation(g, r)
    BY <2>1, <2>3 DEF RelationOf
  <2>5. r = <<"table", r[2], r[3]>> /\ id = <<"table", id[2], id[3]>>
    BY <2>1, <2>4, InDatabase, IdShape DEF Things
  <2>6. r = id
    BY <2>1, <2>4, <2>5 DEF SameRelation
  <2> QED
    BY <1>1, <2>4, <2>6
<1>3. ASSUME NEW q \in DOMAIN new, q \in DOMAIN d PROVE FALSE
  <2>1. q[1] = "sequence" /\ Len(q) = 3
    BY NewSequencesAre
  <2>2. IsRelation(q, e[q]) /\ IsRelation(q, d[q]) /\ RelationName(q) = RelationName(q)
    BY <2>1 DEF IsRelation
  <2>3. Len(q) > 2
    <3>1. 3 > 2
      OBVIOUS
    <3> QED
      BY <2>1, <3>1
  <2>4. NameTaken(d, q, e[q])
    BY <1>3, <2>2, <2>3 DEF NameTaken
  <2> QED
    BY <1>1, <2>4
<1> QED
  BY <1>2, <1>3

LEMMA CreatedKeeps ==
  ASSUME NEW d, IsDatabase(d), NEW group, NEW id, Together(id, group), CanCreate(d, id, group)
  PROVE  IsDatabase(Created(d, group))
<1> DEFINE new == NewSequences(group)
           e == Created(d, group)
<1>1. /\ e = [o \in DOMAIN e |-> e[o]]
      /\ DOMAIN e = DOMAIN d \cup DOMAIN group \cup DOMAIN new
      /\ \A o \in DOMAIN d : e[o] = Tightened(o, d[o], group)
      /\ \A g \in DOMAIN group : e[g] = Tightened(g, NewValue(g, group[g]), group)
      /\ \A q \in DOMAIN new : e[q] = new[q]
  <2>1. /\ e = [o \in DOMAIN e |-> e[o]]
        /\ DOMAIN e = DOMAIN d \cup DOMAIN group \cup DOMAIN new
        /\ \A o \in DOMAIN d \ (DOMAIN group \cup DOMAIN new) : e[o] = Tightened(o, d[o], group)
        /\ \A g \in DOMAIN group : e[g] = Tightened(g, NewValue(g, group[g]), group)
        /\ \A q \in DOMAIN new : e[q] = new[q]
    BY ZenonT(60), CreatedIs
  <2>2. /\ DOMAIN group \cap DOMAIN d = {} /\ DOMAIN new \cap DOMAIN d = {}
    BY CreatesNew
  <2> HIDE DEF e, new
  <2> QED
    BY <2>1, <2>2
<1>2. /\ DOMAIN group \cap DOMAIN d = {} /\ DOMAIN new \cap DOMAIN d = {}
  BY CreatesNew
<1>3. \A g \in DOMAIN group \cup DOMAIN new :
         /\ HasPlace(e, g) /\ UsesOf(g, e[g]) \subseteq DOMAIN e /\ RefersToKeys(e, g)
  BY DEF CanCreate
<1>4. /\ IsFiniteSet(DOMAIN new) /\ DOMAIN new \subseteq Identifiers
      /\ \A q \in DOMAIN new :
              /\ q[1] = "sequence"
              /\ \E c \in SerialsOf(group) :
                   /\ c[2] = q[2]
                   /\ new[q] = [min |-> 1, max |-> 9, owner |-> {c}, last |-> 1, kept |-> FALSE]
  <2>1. /\ IsFiniteSet(DOMAIN new) /\ DOMAIN new \subseteq Identifiers
        /\ \A q \in DOMAIN new :
              /\ q[1] = "sequence" /\ Len(q) = 3
              /\ \E c \in SerialsOf(group) :
                   /\ SerialSeq(c) = q /\ c[2] = q[2]
                   /\ new[q] = [min |-> 1, max |-> 9, owner |-> {c}, last |-> 1, kept |-> FALSE]
    BY NewSequencesAre
  <2> HIDE DEF new
  <2> QED
    BY <2>1
<1> HIDE DEF new, e
<1>5. IsFiniteSet(DOMAIN e) /\ DOMAIN e \subseteq Identifiers
  <2>1. IsFiniteSet(DOMAIN d) /\ IsFiniteSet(DOMAIN group) /\ DOMAIN d \subseteq Identifiers
        /\ DOMAIN group \subseteq Identifiers
    BY DEF IsDatabase, Together, NewIs
  <2>2. IsFiniteSet(DOMAIN d \cup DOMAIN group)
    BY <2>1, FS_Union
  <2> QED
    BY ZenonT(60), <1>1, <1>4, <2>1, <2>2, FS_Union
<1>6. ASSUME NEW g \in DOMAIN group
      PROVE  IsValue(g, e[g]) /\ NamesNoKey(g, e[g])
  <2>1. NewIs(g, group[g])
    BY DEF Together
  <2> QED
    BY <1>1, <2>1, TightenedIs DEF NewIs
<1>7. ASSUME NEW q \in DOMAIN new
      PROVE  IsValue(q, e[q]) /\ NamesNoKey(q, e[q])
  <2>1. PICK c \in SerialsOf(group) :
          /\ c[2] = q[2]
          /\ new[q] = [min |-> 1, max |-> 9, owner |-> {c}, last |-> 1, kept |-> FALSE]
    BY <1>4
  <2>2. c[1] = "column" /\ q[1] = "sequence" /\ e[q] = new[q]
    BY <1>1, <1>4 DEF SerialsOf
  <2>3. UsesOf(q, e[q]) = {}
    BY <2>2 DEF UsesOf, Deparsed
  <2>4. IsSequence(q, e[q])
    BY <2>1, <2>2 DEF IsSequence, InBounds
  <2> QED
    BY <2>2, <2>3, <2>4 DEF IsValue, NamesNoKey
<1>8. ASSUME NEW o \in DOMAIN d
      PROVE  /\ IsValue(o, e[o]) /\ NamesNoKey(o, e[o]) /\ HasPlace(e, o)
             /\ UsesOf(o, e[o]) \subseteq DOMAIN e /\ RefersToKeys(e, o)
  <2>1. /\ IsValue(o, d[o]) /\ NamesNoKey(o, d[o]) /\ HasPlace(d, o)
        /\ UsesOf(o, d[o]) \subseteq DOMAIN d /\ RefersToKeys(d, o)
    BY InDatabase
  <2>2. IsValue(o, e[o]) /\ NamesNoKey(o, e[o]) /\ UsesOf(o, e[o]) = UsesOf(o, d[o])
    BY <1>1, <2>1, TightenedIs
  <2>3. ASSUME NEW u \in UsesOf(o, d[o]), u[1] = "constraint" PROVE e[u] = d[u]
    <3>1. u \in DOMAIN d /\ u[1] # "column"
      BY <2>1, <2>3
    <3> QED
      BY <1>1, <3>1 DEF Tightened
  <2>4. RefersToKeys(e, o)
    BY <2>1, <2>2, <2>3 DEF RefersToKeys
  <2>5. HasPlace(e, o)
    BY <1>1, <2>1, PlaceGrows
  <2> QED
    BY <1>1, <2>1, <2>2, <2>4, <2>5
<1>9. \A o \in DOMAIN e : /\ IsValue(o, e[o]) /\ NamesNoKey(o, e[o]) /\ HasPlace(e, o)
                          /\ UsesOf(o, e[o]) \subseteq DOMAIN e /\ RefersToKeys(e, o)
  BY <1>1, <1>3, <1>6, <1>7, <1>8
<1> QED
  BY <1>1, <1>5, <1>9 DEF IsDatabase, WellFormed, e

(* What goes with an object is of its schema, and no relation or schema. *)
LEMMA OwnedIs ==
  ASSUME NEW d, IsDatabase(d), NEW x \in DOMAIN d, NEW o \in Owned(d, x)
  PROVE  /\ o \in DOMAIN d /\ o[2] = x[2] /\ o[1] \in Pieces \cup {"sequence"}
         /\ x[1] \in {"table", "view", "column"}
<1>1. ASSUME NEW p \in PartsOf(d, x) PROVE p \in DOMAIN d /\ p[2] = x[2] /\ p[1] \in Pieces
  <2>1. p \in DOMAIN d /\ Len(p) = 4 /\ p[2] = x[2] /\ p \in Identifiers
    BY InDatabase DEF PartsOf, SameRelation
  <2>2. p[1] \in Spaces \/ p[1] \in Things \/ p[1] \in Pieces
    BY <2>1, IdShape
  <2>3. (p[1] \in Spaces => Len(p) = 2) /\ (p[1] \in Things => Len(p) = 3)
    BY <2>1, IdShape
  <2> QED
    BY <2>1, <2>2, <2>3
<1>2. x[1] \in {"table", "view", "column"}
  BY DEF Owned
<1>3. CASE x[1] \in {"table", "view"}
  BY <1>1, <1>3 DEF Owned
<1>4. CASE x[1] = "column" /\ o \in PartsOf(d, x)
  BY <1>1, <1>4
<1>5. CASE x[1] = "column" /\ o \notin PartsOf(d, x)
  <2>1. o \in DOMAIN d /\ o[1] = "sequence" /\ d[o].owner = {x}
    BY <1>5 DEF Owned
  <2>2. IsSequence(o, d[o])
    BY <2>1, InDatabase DEF IsValue
  <2> QED
    BY <1>5, <2>1, <2>2 DEF IsSequence
<1> QED
  BY <1>2, <1>3, <1>4, <1>5

LEMMA ClosureIs ==
  ASSUME NEW d, IsDatabase(d), NEW id \in DOMAIN d, NEW o \in Closure(d, id), o # id
  PROVE  /\ o \in DOMAIN d /\ o[2] = id[2] /\ o[1] \in Pieces \cup {"sequence"}
         /\ id[1] \in {"table", "view", "column"}
<1>1. CASE o \in Owned(d, id)
  BY <1>1, OwnedIs
<1>2. CASE o \notin Owned(d, id)
  <2>1. PICK p \in {id} \cup Owned(d, id) : o \in Owned(d, p)
    BY <1>2 DEF Closure
  <2>2. p \in Owned(d, id)
    BY <1>2, <2>1
  <2>3. p \in DOMAIN d /\ p[2] = id[2] /\ id[1] \in {"table", "view", "column"}
    BY <2>2, OwnedIs
  <2> QED
    BY <2>1, <2>3, OwnedIs
<1> QED
  BY <1>1, <1>2

LEMMA DropKeeps ==
  ASSUME NEW d, IsDatabase(d), NEW id \in DOMAIN d, Dependents(d, id) = {}
  PROVE  IsDatabase(Without(d, Closure(d, id)))
<1> DEFINE gone == Closure(d, id)
<1>1. \A o \in DOMAIN d \ gone : UsesOf(o, d[o]) \cap gone = {}
  BY DEF Dependents
<1>2. Contents(d, id) = {}
  BY DEF Dependents
<1>3. ASSUME NEW o \in gone, o[1] \notin Pieces \cup {"sequence"} PROVE o = id
  BY <1>3, ClosureIs
<1> HIDE DEF gone
<1>4. ASSUME NEW o \in DOMAIN d \ gone, o[1] \notin Spaces, <<"schema", o[2]>> \in gone
      PROVE  FALSE
  <2>1. id = <<"schema", o[2]>>
    <3>1. <<"schema", o[2]>>[1] = "schema"
      OBVIOUS
    <3> QED
      BY <1>3, <1>4, <3>1 DEF Pieces
  <2>2. id[1] = "schema" /\ id[2] = o[2] /\ o # id
    BY <1>4, <2>1 DEF Spaces
  <2>3. o \in Contents(d, id)
    BY <1>4, <2>2 DEF Contents, Spaces
  <2> QED
    BY <1>2, <2>3
<1>5. ASSUME NEW r \in DOMAIN d \cap gone, r[1] \in {"table", "view"}
      PROVE  PartsOf(d, r) \subseteq gone
  <2>1. r = id
    BY <1>3, <1>5 DEF Pieces
  <2> QED
    BY <1>5, <2>1 DEF gone, Closure, Owned
<1> QED
  BY <1>1, <1>4, <1>5, Removed DEF gone

LEMMA CascadeKeeps ==
  ASSUME NEW d, IsDatabase(d), NEW id \in DOMAIN d, id[1] = "constraint"
  PROVE  /\ IsDatabase(Without(d, Closure(d, id) \cup Dependents(d, id)))
         /\ Closure(d, id) = {id}
         /\ \A o \in Dependents(d, id) : /\ o \in DOMAIN d /\ o[1] = "constraint"
                                         /\ d[o].kind = "foreign"
<1> DEFINE gone == Closure(d, id) \cup Dependents(d, id)
<1>1. Closure(d, id) = {id}
  BY DEF Closure, Owned
<1>2. Dependents(d, id) = {o \in DOMAIN d \ {id} : id \in UsesOf(o, d[o])}
  BY <1>1 DEF Dependents, Contents
<1>3. ASSUME NEW o \in Dependents(d, id)
      PROVE  o \in DOMAIN d /\ o[1] = "constraint" /\ d[o].kind = "foreign"
  <2>1. o \in DOMAIN d /\ id \in UsesOf(o, d[o]) /\ NamesNoKey(o, d[o])
    BY <1>2, InDatabase
  <2> QED
    BY <2>1 DEF NamesNoKey
<1>4. \A o \in gone : o[1] = "constraint" /\ (o # id => d[o].kind = "foreign")
  BY <1>1, <1>3
<1>5. ASSUME NEW o \in DOMAIN d \ gone, NEW u \in UsesOf(o, d[o]), u \in gone PROVE FALSE
  <2>1. u # id
    BY <1>2, <1>5
  <2>2. u[1] = "constraint" /\ d[u].kind = "foreign"
    BY <1>4, <1>5, <2>1
  <2>3. RefersToKeys(d, o)
    BY InDatabase
  <2> QED
    BY <2>2, <2>3 DEF RefersToKeys
<1> HIDE DEF gone
<1>6. \A o : <<"schema", o[2]>> \notin gone
  <2>1. \A o : <<"schema", o[2]>>[1] = "schema"
    OBVIOUS
  <2> QED
    BY <1>4, <2>1
<1>7. IsDatabase(Without(d, gone))
  <2>1. \A o \in DOMAIN d \ gone : UsesOf(o, d[o]) \cap gone = {}
    BY <1>5
  <2>2. \A r \in DOMAIN d \cap gone : r[1] \in {"table", "view"} => PartsOf(d, r) \subseteq gone
    BY <1>4
  <2> QED
    BY <1>6, <2>1, <2>2, Removed
<1> QED
  BY <1>1, <1>3, <1>7 DEF gone

(* Where a label goes. *)
LEMMA InsertIs ==
  ASSUME NEW labels \in Seq(STRING), NEW new, new.label \in STRING,
         new.before = "end" \/ HasLabel(labels, new.before)
  PROVE  \E at \in 1..(Len(labels) + 1) :
           /\ InsertLabel(labels, new) =
                [i \in 1..(Len(labels) + 1) |->
                   IF i < at THEN labels[i] ELSE IF i = at THEN new.label ELSE labels[i - 1]]
           /\ InsertLabel(labels, new) \in Seq(STRING)
           /\ IF new.before = "end" THEN at = Len(labels) + 1
              ELSE at \in DOMAIN labels /\ labels[at] = new.before
<1> DEFINE n == Len(labels)
<1>1. n \in Nat /\ DOMAIN labels = 1..n
  OBVIOUS
<1>2. CASE new.before = "end"
  <2>1. InsertLabel(labels, new) = Append(labels, new.label)
    BY <1>2 DEF InsertLabel
  <2>2. Append(labels, new.label) =
          [i \in 1..(n + 1) |->
             IF i < n + 1 THEN labels[i] ELSE IF i = n + 1 THEN new.label ELSE labels[i - 1]]
    BY <1>1
  <2>3. Append(labels, new.label) \in Seq(STRING)
    OBVIOUS
  <2> QED
    BY <1>1, <1>2, <2>1, <2>2, <2>3
<1>3. CASE new.before # "end"
  <2> DEFINE at == CHOOSE i \in DOMAIN labels : labels[i] = new.before
             left == SubSeq(labels, 1, at - 1)
             right == SubSeq(labels, at, n)
  <2>1. at \in DOMAIN labels /\ labels[at] = new.before
    BY <1>3 DEF HasLabel
  <2>2. InsertLabel(labels, new) = left \o <<new.label>> \o right
    BY <1>3 DEF InsertLabel
  <2> HIDE DEF at
  <2>3. at \in 1..n /\ at \in Nat /\ at <= n
    BY <1>1, <2>1
  <2>4. /\ left \in Seq(STRING) /\ Len(left) = at - 1
        /\ \A i \in 1..(at - 1) : left[i] = labels[i]
    BY <1>1, <2>3
  <2>5. /\ right \in Seq(STRING) /\ Len(right) = n - at + 1
        /\ \A i \in 1..(n - at + 1) : right[i] = labels[at + i - 1]
    BY <1>1, <2>3
  <2> HIDE DEF left, right
  <2> DEFINE lead == Append(left, new.label)
             more == lead \o right
  <2>6. /\ left \o <<new.label>> = lead /\ lead \in Seq(STRING) /\ Len(lead) = at
        /\ \A i \in 1..at : lead[i] = IF i < at THEN labels[i] ELSE new.label
    BY <2>3, <2>4
  <2> HIDE DEF lead
  <2>7. more \in Seq(STRING) /\ Len(more) = n + 1
    <3>1. more \in Seq(STRING) /\ Len(more) = Len(lead) + Len(right)
      <4>1. lead \in Seq(STRING) /\ right \in Seq(STRING)
        BY <2>5, <2>6
      <4> QED
        BY <4>1
    <3>2. Len(lead) + Len(right) = at + (n - at + 1)
      BY <2>5, <2>6
    <3>3. at + (n - at + 1) = n + 1
      BY <1>1, <2>3
    <3> QED
      BY <3>1, <3>2, <3>3
  <2>8. ASSUME NEW i \in 1..(n + 1)
        PROVE  more[i] = IF i < at THEN labels[i] ELSE IF i = at THEN new.label ELSE labels[i - 1]
    <3>1. more[i] = IF i <= at THEN lead[i] ELSE right[i - at]
      BY <1>1, <2>3, <2>5, <2>6, Concat DEF IsSeq
    <3>2. CASE i <= at
      <4>1. i \in 1..at
        BY <1>1, <2>3, <3>2
      <4> QED
        BY <2>3, <2>6, <3>1, <3>2, <4>1
    <3>3. CASE i > at
      <4>1. i - at \in 1..(n - at + 1) /\ at + (i - at) - 1 = i - 1 /\ ~(i <= at)
        BY <1>1, <2>3, <3>3
      <4>2. right[i - at] = labels[at + (i - at) - 1]
        BY <2>5, <4>1
      <4> QED
        BY <2>3, <3>1, <3>3, <4>1, <4>2
    <3>4. i <= at \/ i > at
      BY <1>1, <2>3
    <3> QED
      BY <3>2, <3>3, <3>4
  <2> HIDE DEF more
  <2>9. more = [i \in 1..(n + 1) |->
             IF i < at THEN labels[i] ELSE IF i = at THEN new.label ELSE labels[i - 1]]
    <3>1. DOMAIN more = 1..(n + 1) /\ more = [i \in DOMAIN more |-> more[i]]
      BY <1>1, <2>7
    <3> QED
      BY <2>8, <3>1
  <2>10. at \in 1..(n + 1)
    BY <1>1, <2>3
  <2>11. InsertLabel(labels, new) = more
    BY <2>2, <2>6 DEF more
  <2> QED
    BY <1>3, <2>1, <2>7, <2>9, <2>10, <2>11
<1> QED
  BY <1>2, <1>3

(* The labels of an enum stay distinct. *)
LEMMA InsertKeepsDistinct ==
  ASSUME NEW labels \in Seq(STRING), Injective(labels), NEW new, new.label \in STRING,
         ~HasLabel(labels, new.label), new.before = "end" \/ HasLabel(labels, new.before)
  PROVE  /\ InsertLabel(labels, new) \in Seq(STRING) /\ Injective(InsertLabel(labels, new))
         /\ \A l : HasLabel(InsertLabel(labels, new), l) <=> l = new.label \/ HasLabel(labels, l)
<1> DEFINE n == Len(labels)  more == InsertLabel(labels, new)
<1>1. PICK at \in 1..(n + 1) :
         /\ more = [i \in 1..(n + 1) |->
                   IF i < at THEN labels[i] ELSE IF i = at THEN new.label ELSE labels[i - 1]]
         /\ more \in Seq(STRING)
  BY InsertIs
<1> HIDE DEF more
<1>2. n \in Nat /\ DOMAIN labels = 1..n /\ DOMAIN more = 1..(n + 1)
  BY <1>1
<1>3. \A i \in 1..n : labels[i] # new.label
  BY <1>2 DEF HasLabel
<1> DEFINE old(i) == IF i < at THEN i ELSE i - 1
<1>4. \A i \in 1..(n + 1) : i # at => old(i) \in 1..n /\ more[i] = labels[old(i)]
  BY <1>1, <1>2
<1>5. more[at] = new.label
  BY <1>1
<1>6. \A i, j \in 1..(n + 1) : (i # at /\ j # at /\ old(i) = old(j)) => i = j
  BY <1>2
<1>7. Injective(more)
  <2> HIDE DEF old
  <2>1. ASSUME NEW i \in 1..(n + 1), NEW j \in 1..(n + 1), more[i] = more[j] PROVE i = j
    <3>1. CASE i # at /\ j # at
      <4>1. old(i) = old(j)
        BY <1>2, <1>4, <2>1, <3>1 DEF Injective
      <4> QED
        BY <1>6, <3>1, <4>1
    <3>2. CASE i = at /\ j # at
      BY <1>3, <1>4, <1>5, <2>1, <3>2
    <3>3. CASE i # at /\ j = at
      BY <1>3, <1>4, <1>5, <2>1, <3>3
    <3> QED
      BY <3>1, <3>2, <3>3
  <2> QED
    BY <1>2, <2>1 DEF Injective
<1>8. ASSUME NEW l PROVE HasLabel(more, l) <=> l = new.label \/ HasLabel(labels, l)
  <2>1. ASSUME NEW i \in 1..(n + 1), more[i] = l PROVE l = new.label \/ HasLabel(labels, l)
    <3> HIDE DEF old
    <3> QED
      BY <1>2, <1>4, <1>5, <2>1 DEF HasLabel
  <2>2. ASSUME NEW i \in 1..n, labels[i] = l PROVE HasLabel(more, l)
    <3>1. CASE i < at
      <4>1. i \in 1..(n + 1) /\ more[i] = labels[i]
        BY <1>1, <1>2, <3>1
      <4> QED
        BY <1>2, <2>2, <4>1 DEF HasLabel
    <3>2. CASE ~(i < at)
      <4>1. i + 1 \in 1..(n + 1) /\ more[i + 1] = labels[i]
        BY <1>1, <1>2, <3>2
      <4> QED
        BY <1>2, <2>2, <4>1 DEF HasLabel
    <3> QED
      BY <3>1, <3>2
  <2>3. HasLabel(more, new.label)
    BY <1>2, <1>5 DEF HasLabel
  <2> QED
    BY <1>2, <2>1, <2>2, <2>3 DEF HasLabel
<1> QED
  BY <1>1, <1>7, <1>8 DEF more

(* One facet of a value set. *)
SetOK(id, w) ==
  \/ /\ id[1] = "column" /\ w.facet \in {"type", "default"}
     /\ \A u \in w.value.uses : u[1] # "constraint"
  \/ id[1] = "column" /\ w.facet \in {"notnull", "hidden"} /\ w.value \in BOOLEAN
  \/ id[1] = "table" /\ w.facet \in {"rls", "forced"} /\ w.value \in BOOLEAN
  \/ id[1] = "extension" /\ w.facet = "schema" /\ w.value \in NameSet
  \/ id[1] = "trigger" /\ w.facet = "mode"

Faceted(v, f, x) == [g \in DOMAIN v |-> IF g = f THEN x ELSE v[g]]

LEMMA SetColumn ==
  ASSUME NEW d, IsDatabase(d), NEW id \in DOMAIN d, id[1] = "column",
         NEW f, NEW x, SetOK(id, [facet |-> f, value |-> x]), CanSet(d, id, f, x)
  PROVE  LET w == Faceted(d[id], f, x) IN
         /\ IsValue(id, w) /\ NamesNoKey(id, w) /\ UsesOf(id, w) \subseteq DOMAIN d
<1> DEFINE v == d[id]
           w == Faceted(v, f, x)
<1>1. /\ IsColumn(id, v) /\ NamesNoKey(id, v) /\ UsesOf(id, v) \subseteq DOMAIN d
  BY InDatabase DEF IsValue
<1>2. UsesOf(id, v) = v.type.uses \cup v.default.uses \cup v.generated.uses
  BY DEF UsesOf, Deparsed
<1>3. \A u \in UsesOf(id, v) : u[1] # "constraint"
  BY <1>1 DEF NamesNoKey
<1>4. /\ v = [type |-> v.type, notnull |-> v.notnull, default |-> v.default,
              identity |-> v.identity, generated |-> v.generated, hidden |-> v.hidden,
              kept |-> v.kept]
      /\ {v.notnull, v.hidden, v.kept} \subseteq BOOLEAN
      /\ v.identity # "none" => v.default = NoExpr
  BY <1>1 DEF IsColumn
<1>5. f \in {"type", "default"} => x.uses \subseteq DOMAIN d
  BY DEF CanSet
<1>6. f = "default" => v.identity = "none"
  BY DEF CanSet
<1>7. \/ f \in {"type", "default"} /\ \A u \in x.uses : u[1] # "constraint"
      \/ f \in {"notnull", "hidden"} /\ x \in BOOLEAN
  BY DEF SetOK
<1> HIDE DEF v, w
<1>8. /\ UsesOf(id, w) = w.type.uses \cup w.default.uses \cup w.generated.uses
      /\ w.type = (IF f = "type" THEN x ELSE v.type)
      /\ w.notnull = (IF f = "notnull" THEN x ELSE v.notnull)
      /\ w.default = (IF f = "default" THEN x ELSE v.default)
      /\ w.identity = v.identity /\ w.generated = v.generated /\ w.kept = v.kept
      /\ w.hidden = (IF f = "hidden" THEN x ELSE v.hidden)
      /\ w = [type |-> w.type, notnull |-> w.notnull, default |-> w.default,
              identity |-> w.identity, generated |-> w.generated, hidden |-> w.hidden,
              kept |-> w.kept]
  <2>1. UsesOf(id, w) = w.type.uses \cup w.default.uses \cup w.generated.uses
    BY DEF UsesOf, Deparsed
  <2>2. DOMAIN v = {"type", "notnull", "default", "identity", "generated", "hidden", "kept"}
    BY <1>4
  <2>3. w = [g \in {"type", "notnull", "default", "identity", "generated", "hidden", "kept"} |->
               IF g = f THEN x ELSE v[g]]
    BY <2>2 DEF w, Faceted
  <2>4. /\ w.type = (IF f = "type" THEN x ELSE v.type)
        /\ w.notnull = (IF f = "notnull" THEN x ELSE v.notnull)
        /\ w.default = (IF f = "default" THEN x ELSE v.default)
        /\ w.identity = v.identity /\ w.generated = v.generated /\ w.kept = v.kept
        /\ w.hidden = (IF f = "hidden" THEN x ELSE v.hidden)
    BY <1>7, <2>3
  <2>5. w = [type |-> w.type, notnull |-> w.notnull, default |-> w.default,
              identity |-> w.identity, generated |-> w.generated, hidden |-> w.hidden,
              kept |-> w.kept]
    BY <2>3
  <2> QED
    BY <2>1, <2>4, <2>5
<1>9. IsColumn(id, w)
  BY <1>4, <1>6, <1>7, <1>8 DEF IsColumn
<1>10. UsesOf(id, w) \subseteq DOMAIN d
  <2>1. w.type.uses \subseteq DOMAIN d
    BY <1>1, <1>2, <1>5, <1>8
  <2>2. w.default.uses \subseteq DOMAIN d
    BY <1>1, <1>2, <1>5, <1>8
  <2>3. w.generated.uses \subseteq DOMAIN d
    BY <1>1, <1>2, <1>8
  <2> QED
    BY <1>8, <2>1, <2>2, <2>3
<1>11. \A u \in UsesOf(id, w) : u[1] # "constraint"
  <2>1. \A u \in w.type.uses : u[1] # "constraint"
    BY <1>2, <1>3, <1>7, <1>8
  <2>2. \A u \in w.default.uses : u[1] # "constraint"
    BY <1>2, <1>3, <1>7, <1>8
  <2>3. \A u \in w.generated.uses : u[1] # "constraint"
    BY <1>2, <1>3, <1>8
  <2> QED
    BY <1>8, <2>1, <2>2, <2>3
<1>12. NamesNoKey(id, w)
  BY <1>11 DEF NamesNoKey
<1> QED
  BY <1>9, <1>10, <1>12 DEF IsValue, w, v

LEMMA SetOther ==
  ASSUME NEW d, IsDatabase(d), NEW id \in DOMAIN d, id[1] # "column",
         NEW f, NEW x, SetOK(id, [facet |-> f, value |-> x])
  PROVE  LET w == Faceted(d[id], f, x) IN
         /\ IsValue(id, w) /\ NamesNoKey(id, w) /\ UsesOf(id, w) \subseteq DOMAIN d
<1> DEFINE v == d[id]
           w == Faceted(v, f, x)
<1>1. IsValue(id, v) /\ NamesNoKey(id, v) /\ UsesOf(id, v) \subseteq DOMAIN d
  BY InDatabase
<1>2. \/ id[1] = "table" /\ f \in {"rls", "forced"} /\ x \in BOOLEAN
      \/ id[1] = "extension" /\ f = "schema" /\ x \in NameSet
      \/ id[1] = "trigger" /\ f = "mode"
  BY DEF SetOK
<1> HIDE DEF v
<1>3. CASE id[1] = "table"
  <2>1. /\ v = [partition |-> v.partition, rls |-> v.rls, forced |-> v.forced, kept |-> v.kept]
        /\ {v.rls, v.forced, v.kept} \subseteq BOOLEAN
    BY <1>1, <1>3 DEF IsValue
  <2>2. w = [partition |-> v.partition, rls |-> IF f = "rls" THEN x ELSE v.rls,
             forced |-> IF f = "forced" THEN x ELSE v.forced, kept |-> v.kept]
    <3>1. DOMAIN v = {"partition", "rls", "forced", "kept"}
      BY <2>1
    <3> QED
      BY <1>2, <1>3, <3>1 DEF Faceted
  <2> HIDE DEF w
  <2>3. IsValue(id, w) /\ UsesOf(id, w) = {}
    BY <1>2, <1>3, <2>1, <2>2 DEF IsValue, UsesOf, Deparsed
  <2> QED
    BY <2>3 DEF NamesNoKey, w, v
<1>4. CASE id[1] = "extension"
  <2>1. v = [schema |-> v.schema]
    BY <1>1, <1>4 DEF IsValue
  <2>2. w = [schema |-> x]
    <3>1. DOMAIN v = {"schema"}
      BY <2>1
    <3> QED
      BY <1>2, <1>4, <3>1 DEF Faceted
  <2> HIDE DEF w
  <2>3. IsValue(id, w) /\ UsesOf(id, w) = {}
    BY <1>2, <1>4, <2>2 DEF IsValue, UsesOf, Deparsed
  <2> QED
    BY <2>3 DEF NamesNoKey, w, v
<1>5. CASE id[1] = "trigger"
  <2>1. v = [mode |-> v.mode, def |-> v.def]
    BY <1>1, <1>5 DEF IsValue
  <2>2. w = [mode |-> x, def |-> v.def]
    <3>1. DOMAIN v = {"mode", "def"}
      BY <2>1
    <3> QED
      BY <1>2, <1>5, <3>1, <2>1 DEF Faceted
  <2> HIDE DEF w
  <2>3. IsValue(id, w) /\ UsesOf(id, w) = UsesOf(id, v)
    BY <1>5, <2>2 DEF IsValue, UsesOf, Deparsed
  <2>4. NamesNoKey(id, w)
    BY <1>1, <1>5, <2>3 DEF NamesNoKey
  <2> QED
    BY <1>1, <2>3, <2>4 DEF w, v
<1> QED
  BY <1>2, <1>3, <1>4, <1>5

(* The statements Emit writes, whatever they meet. *)
IdentityDos == {"add_identity", "set_identity", "drop_identity"}
IsRange(v) == {v.min, v.max} \subseteq Int /\ v.min <= v.max
StmtOK(st) ==
  \/ st.do \in {"ensure", "create"} /\ Together(st.on, st.with)
  \/ /\ st.do = "replace" /\ st.on \in Identifiers /\ st.on[1] = "routine"
     /\ st.with = One(st.on, st.with[st.on])
     /\ IsValue(st.on, st.with[st.on]) /\ NamesNoKey(st.on, st.with[st.on])
  \/ st.do = "drop"
  \/ st.do = "drop_cascade" /\ st.on[1] = "constraint"
  \/ /\ st.do = "set" /\ SetOK(st.on, st.with)
     /\ st.with = [facet |-> st.with.facet, value |-> st.with.value]
  \/ st.do \in IdentityDos /\ st.on[1] = "column"
  \/ /\ st.do = "own_sequence" /\ st.on[1] = "sequence" /\ st.with[1] = "column"
     /\ st.with[2] = st.on[2]
  \/ st.do \in {"clamp", "resize"} /\ st.on[1] = "sequence" /\ IsRange(st.with)
  \/ st.do = "add_label" /\ st.on[1] = "enum" /\ st.with.label \in STRING
  \/ st.do = "validate"

(* An object that names what is there may be added. *)
LEMMA Added ==
  ASSUME NEW d, IsDatabase(d), NEW id \in Identifiers, id \notin DOMAIN d,
         id[1] # "constraint",
         NEW v, IsValue(id, v), NamesNoKey(id, v), HasPlace(d, id),
         UsesOf(id, v) \subseteq DOMAIN d
  PROVE  IsDatabase(Merge(d, One(id, v)))
<1> DEFINE e == Merge(d, One(id, v))
<1>1. /\ e = [o \in DOMAIN e |-> e[o]] /\ DOMAIN e = DOMAIN d \cup {id}
      /\ e[id] = v /\ \A o \in DOMAIN d : e[o] = d[o]
  BY DEF Merge, One
<1> HIDE DEF e
<1>2. IsFiniteSet(DOMAIN e) /\ DOMAIN e \subseteq Identifiers
  <2>1. IsFiniteSet(DOMAIN d) /\ DOMAIN d \subseteq Identifiers
    BY DEF IsDatabase
  <2> QED
    BY <1>1, <2>1, FS_AddElement
<1>3. ASSUME NEW o \in DOMAIN e
      PROVE  /\ IsValue(o, e[o]) /\ NamesNoKey(o, e[o]) /\ HasPlace(e, o)
             /\ UsesOf(o, e[o]) \subseteq DOMAIN e /\ RefersToKeys(e, o)
  <2>1. CASE o = id
    <3>1. RefersToKeys(e, id)
      BY <1>1 DEF RefersToKeys, NamesNoKey
    <3>2. HasPlace(e, id)
      BY <1>1, PlaceGrows
    <3> QED
      BY <1>1, <2>1, <3>1, <3>2
  <2>2. CASE o \in DOMAIN d
    <3>1. /\ IsValue(o, d[o]) /\ NamesNoKey(o, d[o]) /\ HasPlace(d, o)
          /\ UsesOf(o, d[o]) \subseteq DOMAIN d /\ RefersToKeys(d, o) /\ e[o] = d[o]
      BY <1>1, <2>2, InDatabase
    <3>2. HasPlace(e, o)
      BY <1>1, <3>1, PlaceGrows
    <3>3. RefersToKeys(e, o)
      BY <1>1, <3>1 DEF RefersToKeys
    <3> QED
      BY <1>1, <3>1, <3>2, <3>3
  <2> QED
    BY <1>1, <2>1, <2>2
<1> QED
  BY <1>1, <1>2, <1>3 DEF IsDatabase, WellFormed, e

LEMMA ReplaceKeeps ==
  ASSUME NEW d, IsDatabase(d), NEW st, NEW fl, StmtOK(st), st.do = "replace",
         Accepts(d, st, fl)
  PROVE  IsDatabase(Effect(d, st))
<1> DEFINE id == st.on  v == st.with[st.on]  e == Merge(d, st.with)
<1>1. /\ id \in Identifiers /\ id[1] = "routine" /\ st.with = One(id, v)
      /\ IsValue(id, v) /\ NamesNoKey(id, v)
  BY DEF StmtOK, IdentityDos
<1>2. HasPlace(d, id) /\ UsesOf(id, v) \subseteq DOMAIN d
  BY DEF Accepts
<1>3. Effect(d, st) = e
  BY DEF Effect
<1>4. CASE id \in DOMAIN d
  <2>1. /\ e = [o \in DOMAIN e |-> e[o]] /\ DOMAIN e = DOMAIN d
        /\ e[id] = v /\ \A o \in DOMAIN d : o # id => e[o] = d[o]
    <3>1. st.with = [i \in {id} |-> v]
      BY <1>1 DEF One
    <3> HIDE DEF id, v
    <3> QED
      BY <1>4, <3>1 DEF Merge
  <2> HIDE DEF e, v
  <2> QED
    BY <1>1, <1>2, <1>3, <1>4, <2>1, Revalued
<1>5. CASE id \notin DOMAIN d
  <2> HIDE DEF id, v
  <2>1. IsDatabase(Merge(d, One(id, v)))
    BY <1>1, <1>2, <1>5, Added
  <2> QED
    BY <1>1, <1>3, <2>1
<1> QED
  BY <1>4, <1>5

LEMMA SetKeeps ==
  ASSUME NEW d, IsDatabase(d), NEW st, NEW fl, StmtOK(st), st.do = "set",
         Accepts(d, st, fl)
  PROVE  IsDatabase(Effect(d, st))
<1> DEFINE id == st.on  f == st.with.facet  x == st.with.value
           w == Faceted(d[id], f, x)  e == Effect(d, st)
<1>1. SetOK(id, [facet |-> f, value |-> x])
  BY DEF StmtOK, IdentityDos
<1>2. CanSet(d, id, f, x)
  BY DEF Accepts
<1>3. id \in DOMAIN d /\ id[1] # "constraint"
  <2>1. id \in DOMAIN d
    BY <1>2 DEF CanSet
  <2> QED
    BY <1>1, <2>1 DEF SetOK
<1>4. e = [d EXCEPT ![id] = w]
  <2>1. e = SetFacet(d, id, f, x)
    BY DEF Effect
  <2> HIDE DEF e
  <2> QED
    BY <1>3, <2>1 DEF SetFacet, Faceted
<1>5. /\ e = [o \in DOMAIN e |-> e[o]] /\ DOMAIN e = DOMAIN d
      /\ e[id] = w /\ \A o \in DOMAIN d : o # id => e[o] = d[o]
  <2>1. d = [o \in DOMAIN d |-> d[o]]
    BY DEF IsDatabase
  <2> HIDE DEF e, w, id
  <2> QED
    BY <1>3, <1>4, <2>1
<1>6. IsValue(id, w) /\ NamesNoKey(id, w) /\ UsesOf(id, w) \subseteq DOMAIN d
  <2> HIDE DEF id, f, x
  <2>1. CASE id[1] = "column"
    BY <1>1, <1>2, <1>3, <2>1, SetColumn
  <2>2. CASE id[1] # "column"
    BY <1>1, <1>3, <2>2, SetOther
  <2> QED
    BY <2>1, <2>2
<1> HIDE DEF e, w, id
<1>7. IsDatabase(e)
  BY <1>3, <1>5, <1>6, Revalued
<1> QED
  BY <1>7 DEF e

LEMMA IdentityKeeps ==
  ASSUME NEW d, IsDatabase(d), NEW st, NEW fl, StmtOK(st), st.do \in IdentityDos,
         Accepts(d, st, fl)
  PROVE  IsDatabase(Effect(d, st))
<1> DEFINE id == st.on  v == d[id]  e == Effect(d, st)
           x == IF st.do = "drop_identity" THEN "none" ELSE st.with
           w == [v EXCEPT !.identity = x]
<1>1. id[1] = "column"
  BY DEF StmtOK, IdentityDos
<1>2. /\ id \in DOMAIN d /\ (st.do = "add_identity" => v.default = NoExpr)
      /\ (st.do = "set_identity" => v.identity # "none")
  BY DEF Accepts, CanAddIdentity, IdentityDos
<1>3. e = [d EXCEPT ![id] = w]
  <2>1. e = [d EXCEPT ![id].identity = x]
    BY DEF Effect, IdentityDos
  <2> HIDE DEF e, x, id
  <2> QED
    BY <1>2, <2>1
<1>4. /\ e = [o \in DOMAIN e |-> e[o]] /\ DOMAIN e = DOMAIN d
      /\ e[id] = w /\ \A o \in DOMAIN d : o # id => e[o] = d[o]
  <2>1. d = [o \in DOMAIN d |-> d[o]]
    BY DEF IsDatabase
  <2> HIDE DEF e, w, id
  <2> QED
    BY <1>2, <1>3, <2>1
<1>5. IsColumn(id, v) /\ NamesNoKey(id, v) /\ UsesOf(id, v) \subseteq DOMAIN d
  BY <1>1, <1>2, InDatabase DEF IsValue
<1>6. st.do \in IdentityDos /\ (x # "none" => v.default = NoExpr)
  <2>1. v.identity # "none" => v.default = NoExpr
    BY <1>5 DEF IsColumn
  <2> QED
    BY <1>2, <2>1 DEF IdentityDos
<1> HIDE DEF v, x
<1>7. /\ w = [type |-> v.type, notnull |-> v.notnull, default |-> v.default,
              identity |-> x, generated |-> v.generated, hidden |-> v.hidden,
              kept |-> v.kept]
      /\ {v.notnull, v.hidden, v.kept} \subseteq BOOLEAN
  BY <1>5 DEF IsColumn
<1> HIDE DEF w
<1>8. IsColumn(id, w) /\ UsesOf(id, w) = UsesOf(id, v)
  <2>1. IsColumn(id, w)
    BY <1>6, <1>7 DEF IsColumn
  <2> HIDE DEF id
  <2>2. UsesOf(id, w) = UsesOf(id, v)
    BY <1>1, <1>7 DEF UsesOf, Deparsed
  <2> QED
    BY <2>1, <2>2
<1>9. IsValue(id, w) /\ NamesNoKey(id, w) /\ UsesOf(id, w) \subseteq DOMAIN d
  BY <1>1, <1>5, <1>8 DEF IsValue, NamesNoKey
<1> HIDE DEF e, id
<1>10. IsDatabase(e)
  BY <1>1, <1>2, <1>4, <1>9, Revalued
<1> QED
  BY <1>10 DEF e

LEMMA SequenceExcept ==
  ASSUME NEW v, NEW x,
         v = [min |-> v.min, max |-> v.max, owner |-> v.owner, last |-> v.last, kept |-> v.kept]
  PROVE  /\ [v EXCEPT !.owner = x]
              = [min |-> v.min, max |-> v.max, owner |-> x, last |-> v.last, kept |-> v.kept]
         /\ [v EXCEPT !.last = x]
              = [min |-> v.min, max |-> v.max, owner |-> v.owner, last |-> x, kept |-> v.kept]
         /\ [v EXCEPT !.min = x]
              = [min |-> x, max |-> v.max, owner |-> v.owner, last |-> v.last, kept |-> v.kept]
         /\ [v EXCEPT !.max = x]
              = [min |-> v.min, max |-> x, owner |-> v.owner, last |-> v.last, kept |-> v.kept]
<1>1. PICK a, b, c, l, k : v = [min |-> a, max |-> b, owner |-> c, last |-> l, kept |-> k]
  OBVIOUS
<1>2. v.min = a /\ v.max = b /\ v.owner = c /\ v.last = l /\ v.kept = k
  BY <1>1
<1>3. [v EXCEPT !.owner = x] = [min |-> a, max |-> b, owner |-> x, last |-> l, kept |-> k]
  BY <1>1
<1>4. [v EXCEPT !.last = x] = [min |-> a, max |-> b, owner |-> c, last |-> x, kept |-> k]
  BY <1>1
<1>5. [v EXCEPT !.min = x] = [min |-> x, max |-> b, owner |-> c, last |-> l, kept |-> k]
  BY <1>1
<1>6. [v EXCEPT !.max = x] = [min |-> a, max |-> x, owner |-> c, last |-> l, kept |-> k]
  BY <1>1
<1> QED
  BY <1>2, <1>3, <1>4, <1>5, <1>6

LEMMA SequenceKeeps ==
  ASSUME NEW d, IsDatabase(d), NEW st, NEW fl, StmtOK(st),
         st.do \in {"own_sequence", "clamp", "resize"}, Accepts(d, st, fl)
  PROVE  IsDatabase(Effect(d, st))
<1> DEFINE id == st.on  v == d[id]  e == Effect(d, st)  w == e[id]
<1>1. /\ id[1] = "sequence"
      /\ st.do = "own_sequence" => st.with[1] = "column" /\ st.with[2] = id[2]
      /\ st.do # "own_sequence" => IsRange(st.with)
  BY DEF StmtOK, IdentityDos
<1>2. id \in DOMAIN d
  BY DEF Accepts
<1>3. IsSequence(id, v)
  BY <1>1, <1>2, InDatabase DEF IsValue
<1>4. /\ v = [min |-> v.min, max |-> v.max, owner |-> v.owner, last |-> v.last, kept |-> v.kept]
      /\ v.kept \in BOOLEAN
      /\ \A c \in v.owner : c[1] = "column" /\ c[2] = id[2]
      /\ InBounds(v)
  BY <1>3 DEF IsSequence
<1>5. d = [o \in DOMAIN d |-> d[o]]
  BY DEF IsDatabase
<1> DEFINE Altered(r) ==
      /\ r = [min |-> r.min, max |-> r.max, owner |-> r.owner, last |-> r.last, kept |-> r.kept]
      /\ r.kept = v.kept /\ InBounds(r)
      /\ r.owner = v.owner \/ (r.owner = {st.with} /\ st.do = "own_sequence")
<1>6. \E r : e = [d EXCEPT ![id] = r] /\ Altered(r)
  <2>1. CASE st.do = "own_sequence"
    <3> DEFINE r == [v EXCEPT !.owner = {st.with}]
    <3>1. e = [d EXCEPT ![id] = r]
      BY <1>2, <2>1 DEF Effect
    <3>2. r = [min |-> v.min, max |-> v.max, owner |-> {st.with}, last |-> v.last, kept |-> v.kept]
      <4> HIDE DEF v
      <4> QED
        BY <1>4, SequenceExcept
    <3> HIDE DEF v, id, e, r
    <3>3. Altered(r)
      BY <1>4, <2>1, <3>2 DEF InBounds
    <3> HIDE DEF Altered
    <3> QED
      BY <3>1, <3>3
  <2>2. CASE st.do = "clamp"
    <3> DEFINE r == [v EXCEPT !.last = Clamped(v, st.with)]
    <3>1. e = [d EXCEPT ![id] = r]
      BY <1>2, <2>2 DEF Effect
    <3>2. r = [min |-> v.min, max |-> v.max, owner |-> v.owner, last |-> Clamped(v, st.with),
               kept |-> v.kept]
      <4> HIDE DEF v
      <4> QED
        BY <1>4, SequenceExcept
    <3>4. Clamped(v, st.with) \in v.min..v.max
      BY <2>2 DEF Accepts
    <3> HIDE DEF v, id, e, r
    <3>3. Altered(r)
      BY <1>4, <3>2, <3>4 DEF InBounds
    <3> HIDE DEF Altered
    <3> QED
      BY <3>1, <3>3
  <2>3. CASE st.do = "resize"
    <3> DEFINE r == [v EXCEPT !.min = st.with.min, !.max = st.with.max]
    <3>1. e = [d EXCEPT ![id].min = st.with.min, ![id].max = st.with.max]
      BY <2>3 DEF Effect
    <3>2. e = [d EXCEPT ![id] = r]
      <4> HIDE DEF e, id
      <4> QED
        BY <1>2, <3>1
    <3>3. r = [min |-> st.with.min, max |-> st.with.max, owner |-> v.owner, last |-> v.last,
               kept |-> v.kept]
      <4> DEFINE u == [v EXCEPT !.min = st.with.min]
      <4> HIDE DEF v
      <4>1. u = [min |-> st.with.min, max |-> v.max, owner |-> v.owner, last |-> v.last,
                 kept |-> v.kept]
        BY <1>4, SequenceExcept
      <4> HIDE DEF u
      <4>2. u = [min |-> u.min, max |-> u.max, owner |-> u.owner, last |-> u.last, kept |-> u.kept]
            /\ u.min = st.with.min /\ u.owner = v.owner /\ u.last = v.last /\ u.kept = v.kept
        BY <4>1
      <4>3. [u EXCEPT !.max = st.with.max]
              = [min |-> u.min, max |-> st.with.max, owner |-> u.owner, last |-> u.last,
                 kept |-> u.kept]
        BY <4>2, SequenceExcept
      <4>4. r = [u EXCEPT !.max = st.with.max]
        BY DEF u
      <4> HIDE DEF r
      <4> QED
        BY <4>2, <4>3, <4>4
    <3>5. v.last \in st.with.min..st.with.max /\ {st.with.min, st.with.max} \subseteq Int
      BY <1>1, <2>3 DEF Accepts, IsRange
    <3> HIDE DEF v, id, e, r
    <3>4. Altered(r)
      BY <1>4, <3>3, <3>5 DEF InBounds
    <3> HIDE DEF Altered
    <3> QED
      BY <3>2, <3>4
  <2> QED
    BY <2>1, <2>2, <2>3
<1> HIDE DEF e, v
<1>7. PICK r : e = [d EXCEPT ![id] = r] /\ Altered(r)
  BY <1>6
<1>8. \A c \in r.owner : c[1] = "column" /\ c[2] = id[2]
  BY <1>1, <1>4, <1>7
<1> HIDE DEF id
<1>9. /\ e = [o \in DOMAIN e |-> e[o]] /\ DOMAIN e = DOMAIN d
      /\ w = r /\ \A o \in DOMAIN d : o # id => e[o] = d[o]
  BY <1>2, <1>5, <1>7
<1> HIDE DEF w
<1>10. IsSequence(id, w)
  BY <1>4, <1>7, <1>8, <1>9 DEF IsSequence
<1>11. UsesOf(id, w) = {}
  BY <1>1 DEF UsesOf, Deparsed
<1>12. IsValue(id, w) /\ NamesNoKey(id, w) /\ UsesOf(id, w) \subseteq DOMAIN d
  BY <1>1, <1>10, <1>11 DEF IsValue, NamesNoKey
<1>13. IsDatabase(e)
  BY <1>1, <1>2, <1>9, <1>12, Revalued DEF w
<1> QED
  BY <1>13 DEF e

LEMMA LabelKeeps ==
  ASSUME NEW d, IsDatabase(d), NEW st, NEW fl, StmtOK(st), st.do = "add_label",
         Accepts(d, st, fl)
  PROVE  IsDatabase(Effect(d, st))
<1> DEFINE id == st.on  v == d[id]  e == Effect(d, st)  w == e[id]  l == st.with
<1>1. id[1] = "enum" /\ l.label \in STRING
  BY DEF StmtOK, IdentityDos
<1>2. /\ id \in DOMAIN d
      /\ HasLabel(v.labels, l.label) \/ l.before = "end" \/ HasLabel(v.labels, l.before)
  BY DEF Accepts
<1>3. v = [labels |-> v.labels] /\ v.labels \in Seq(STRING) /\ Injective(v.labels)
  BY <1>1, <1>2, InDatabase DEF IsValue
<1>4. e = IF HasLabel(v.labels, l.label) THEN d
          ELSE [d EXCEPT ![id].labels = InsertLabel(@, l)]
  BY DEF Effect
<1>5. CASE HasLabel(v.labels, l.label)
  BY <1>4, <1>5
<1>6. CASE ~HasLabel(v.labels, l.label)
  <2> DEFINE more == InsertLabel(v.labels, l)
  <2>1. e = [d EXCEPT ![id] = [v EXCEPT !.labels = more]]
    <3>1. e = [d EXCEPT ![id].labels = InsertLabel(@, l)]
      BY <1>4, <1>6
    <3> HIDE DEF e, id, l
    <3> QED
      BY <1>2, <3>1
  <2>2. [v EXCEPT !.labels = more] = [labels |-> more]
    <3> HIDE DEF v, more
    <3>1. PICK a : v = [labels |-> a]
      BY <1>3
    <3> QED
      BY <3>1
  <2>3. d = [o \in DOMAIN d |-> d[o]]
    BY DEF IsDatabase
  <2>4. more \in Seq(STRING) /\ Injective(more)
    <3> HIDE DEF v, l
    <3> QED
      BY <1>1, <1>2, <1>3, <1>6, InsertKeepsDistinct
  <2> HIDE DEF e, v, more, id
  <2>5. /\ e = [o \in DOMAIN e |-> e[o]] /\ DOMAIN e = DOMAIN d
        /\ w = [labels |-> more] /\ \A o \in DOMAIN d : o # id => e[o] = d[o]
    BY <1>2, <2>1, <2>2, <2>3
  <2> HIDE DEF w
  <2>6. IsValue(id, w) /\ UsesOf(id, w) = {}
    BY <1>1, <2>4, <2>5 DEF IsValue, UsesOf, Deparsed
  <2>7. IsDatabase(e)
    BY <1>1, <1>2, <2>5, <2>6, Revalued DEF NamesNoKey, w
  <2> QED
    BY <2>7 DEF e
<1> QED
  BY <1>5, <1>6

(* No statement leaves anything but a database. *)
LEMMA EffectKeeps ==
  ASSUME NEW d, IsDatabase(d), NEW st, NEW fl, StmtOK(st), Accepts(d, st, fl)
  PROVE  IsDatabase(Effect(d, st))
<1>1. CASE st.do \in {"ensure", "create"}
  <2>1. Together(st.on, st.with)
    BY <1>1 DEF StmtOK, IdentityDos
  <2>2. CASE Effect(d, st) = d
    BY <2>2
  <2>3. CASE Effect(d, st) # d
    <3>1. Effect(d, st) = Created(d, st.with) /\ CanCreate(d, st.on, st.with)
      BY <1>1, <2>3 DEF Effect, Accepts
    <3> QED
      BY <2>1, <3>1, CreatedKeeps
  <2> QED
    BY <2>2, <2>3
<1>2. CASE st.do = "drop"
  <2>1. CASE st.on \in DOMAIN d
    <3>1. Effect(d, st) = Without(d, Closure(d, st.on)) /\ Dependents(d, st.on) = {}
      BY <1>2, <2>1 DEF Effect, Accepts
    <3> QED
      BY <2>1, <3>1, DropKeeps
  <2>2. CASE st.on \notin DOMAIN d
    <3>1. Effect(d, st) = d
      BY <1>2, <2>2 DEF Effect
    <3> QED
      BY <3>1
  <2> QED
    BY <2>1, <2>2
<1>3. CASE st.do = "drop_cascade"
  <2>1. st.on[1] = "constraint"
    BY <1>3 DEF StmtOK, IdentityDos
  <2>2. CASE st.on \in DOMAIN d
    <3>1. Effect(d, st) = Without(d, Closure(d, st.on) \cup Dependents(d, st.on))
      BY <1>3, <2>2 DEF Effect
    <3> QED
      BY <2>1, <2>2, <3>1, CascadeKeeps
  <2>3. CASE st.on \notin DOMAIN d
    <3>1. Effect(d, st) = d
      BY <1>3, <2>3 DEF Effect
    <3> QED
      BY <3>1
  <2> QED
    BY <2>2, <2>3
<1>4. CASE st.do = "validate"
  <2>1. Effect(d, st) = d
    BY <1>4 DEF Effect
  <2> QED
    BY <2>1
<1>5. \/ st.do \in {"ensure", "create"} \/ st.do = "drop" \/ st.do = "drop_cascade"
      \/ st.do = "validate" \/ st.do = "replace" \/ st.do = "set" \/ st.do \in IdentityDos
      \/ st.do \in {"own_sequence", "clamp", "resize"} \/ st.do = "add_label"
  BY DEF StmtOK
<1> QED
  BY <1>1, <1>2, <1>3, <1>4, <1>5, ReplaceKeeps, SetKeeps, IdentityKeeps, SequenceKeeps, LabelKeeps

-----------------------------------------------------------------------------
(***************************************************************************)
(* What is in a plan.                                                      *)
(***************************************************************************)
LEMMA Listed ==
  ASSUME NEW a, NEW b, NEW c
  PROVE  /\ IsSeq(<<>>) /\ ToSet(<<>>) = {}
         /\ IsSeq(<<a>>) /\ ToSet(<<a>>) = {a} /\ <<a>> # <<>>
         /\ IsSeq(<<a, b>>) /\ ToSet(<<a, b>>) = {a, b} /\ <<a, b>> # <<>>
         /\ IsSeq(<<a, b, c>>) /\ ToSet(<<a, b, c>>) = {a, b, c} /\ <<a, b, c>> # <<>>
<1>1. <<>> \in Seq({a, b, c}) /\ DOMAIN <<>> = {}
  OBVIOUS
<1>2. <<a>> \in Seq({a, b, c}) /\ DOMAIN <<a>> = {1} /\ <<a>>[1] = a /\ <<a>> # <<>>
  OBVIOUS
<1>3. <<a, b>> \in Seq({a, b, c}) /\ DOMAIN <<a, b>> = {1, 2} /\ <<a, b>>[1] = a
      /\ <<a, b>>[2] = b /\ <<a, b>> # <<>>
  OBVIOUS
<1>4. <<a, b, c>> \in Seq({a, b, c}) /\ DOMAIN <<a, b, c>> = {1, 2, 3} /\ <<a, b, c>>[1] = a
      /\ <<a, b, c>>[2] = b /\ <<a, b, c>>[3] = c /\ <<a, b, c>> # <<>>
  OBVIOUS
<1>5. IsSeq(<<>>) /\ ToSet(<<>>) = {}
  BY <1>1 DEF IsSeq, ToSet
<1>6. IsSeq(<<a>>) /\ ToSet(<<a>>) = {a}
  BY <1>2 DEF IsSeq, ToSet
<1>7. IsSeq(<<a, b>>) /\ ToSet(<<a, b>>) = {a, b}
  BY <1>3 DEF IsSeq, ToSet
<1>8. IsSeq(<<a, b, c>>) /\ ToSet(<<a, b, c>>) = {a, b, c}
  BY <1>4 DEF IsSeq, ToSet
<1> QED
  BY <1>2, <1>3, <1>4, <1>5, <1>6, <1>7, <1>8

LEMMA WhenIs ==
  ASSUME NEW p \in BOOLEAN, NEW a
  PROVE  /\ IsSeq(When(p, a)) /\ ToSet(When(p, a)) = (IF p THEN {a} ELSE {})
         /\ When(p, a) = <<>> <=> ~p
BY Listed DEF When

LEMMA NotEmpty ==
  ASSUME NEW s, IsSeq(s)
  PROVE  s = <<>> <=> ToSet(s) = {}
BY SeqDomain DEF ToSet

LEMMA Joined ==
  ASSUME NEW s, IsSeq(s), NEW t, IsSeq(t)
  PROVE  /\ IsSeq(s \o t) /\ ToSet(s \o t) = ToSet(s) \cup ToSet(t)
         /\ s \o t = <<>> <=> s = <<>> /\ t = <<>>
<1>1. IsSeq(s \o t) /\ ToSet(s \o t) = ToSet(s) \cup ToSet(t) /\ (s \o t = <<>> => s = <<>> /\ t = <<>>)
  BY Concat, ConcatSet
<1>2. <<>> \o <<>> = <<>>
  OBVIOUS
<1> QED
  BY <1>1, <1>2

(* A pass over keys. *)
Pass(keys, g) == FlattenSeq([i \in DOMAIN keys |-> g[keys[i]]])

LEMMA PassIs ==
  ASSUME NEW keys, IsSeq(keys), NEW g, \A k \in ToSet(keys) : IsSeq(g[k])
  PROVE  /\ IsSeq(Pass(keys, g))
         /\ \A c : c \in ToSet(Pass(keys, g)) <=> \E k \in ToSet(keys) : c \in ToSet(g[k])
         /\ Pass(keys, g) = <<>> <=> \A k \in ToSet(keys) : g[k] = <<>>
<1> DEFINE m == [i \in DOMAIN keys |-> g[keys[i]]]
<1>1. DOMAIN keys = 1..Len(keys) /\ Len(keys) \in Nat
  BY SeqDomain
<1>2. ToSet(keys) = {keys[i] : i \in DOMAIN keys}
  BY DEF ToSet
<1>3. m \in Seq({g[k] : k \in ToSet(keys)}) /\ DOMAIN m = DOMAIN keys
  BY <1>1, <1>2
<1>4. \A i \in DOMAIN m : m[i] = g[keys[i]] /\ IsSeq(m[i])
  BY <1>2
<1>5. IsSeq(m) /\ Pass(keys, g) = FlattenSeq(m)
  BY <1>3 DEF IsSeq, Pass
<1> HIDE DEF m
<1>6. /\ IsSeq(FlattenSeq(m))
      /\ ToSet(FlattenSeq(m)) = UNION {ToSet(m[i]) : i \in DOMAIN m}
      /\ FlattenSeq(m) = <<>> <=> \A i \in DOMAIN m : m[i] = <<>>
  BY <1>4, <1>5, FlattenLaws
<1>7. ASSUME NEW c
      PROVE  c \in ToSet(Pass(keys, g)) <=> \E k \in ToSet(keys) : c \in ToSet(g[k])
  BY SMTT(60), <1>2, <1>3, <1>4, <1>5, <1>6
<1>8. Pass(keys, g) = <<>> <=> \A k \in ToSet(keys) : g[k] = <<>>
  BY <1>2, <1>3, <1>4, <1>5, <1>6
<1> QED
  BY <1>5, <1>6, <1>7, <1>8

LEMMA TwoPasses ==
  ASSUME NEW ks, IsSeq(ks), NEW gs, \A k \in ToSet(ks) : IsSeq(gs[k]),
         NEW kt, IsSeq(kt), NEW gt, \A k \in ToSet(kt) : IsSeq(gt[k])
  PROVE  LET p == Pass(ks, gs) \o Pass(kt, gt) IN
         /\ IsSeq(p)
         /\ \A c : c \in ToSet(p) <=> \/ \E k \in ToSet(ks) : c \in ToSet(gs[k])
                                      \/ \E k \in ToSet(kt) : c \in ToSet(gt[k])
         /\ p = <<>> => /\ \A k \in ToSet(ks) : gs[k] = <<>>
                        /\ \A k \in ToSet(kt) : gt[k] = <<>>
<1> DEFINE u == Pass(ks, gs)  v == Pass(kt, gt)
<1>1. /\ IsSeq(u) /\ \A c : c \in ToSet(u) <=> \E k \in ToSet(ks) : c \in ToSet(gs[k])
      /\ u = <<>> <=> \A k \in ToSet(ks) : gs[k] = <<>>
  BY PassIs
<1>2. /\ IsSeq(v) /\ \A c : c \in ToSet(v) <=> \E k \in ToSet(kt) : c \in ToSet(gt[k])
      /\ v = <<>> <=> \A k \in ToSet(kt) : gt[k] = <<>>
  BY PassIs
<1> HIDE DEF u, v
<1>3. IsSeq(u \o v) /\ ToSet(u \o v) = ToSet(u) \cup ToSet(v) /\ (u \o v = <<>> => u = <<>> /\ v = <<>>)
  BY <1>1, <1>2, Concat, ConcatSet
<1>4. /\ IsSeq(u \o v)
      /\ \A c : c \in ToSet(u \o v) <=> \/ \E k \in ToSet(ks) : c \in ToSet(gs[k])
                                        \/ \E k \in ToSet(kt) : c \in ToSet(gt[k])
      /\ u \o v = <<>> => /\ \A k \in ToSet(ks) : gs[k] = <<>>
                          /\ \A k \in ToSet(kt) : gt[k] = <<>>
  BY <1>1, <1>2, <1>3
<1> QED
  BY <1>4 DEF u, v

LEMMA ChangeIs ==
  ASSUME NEW op, NEW k, NEW to, NEW r
  PROVE  LET c == Change(op, k, to, r) IN
         c.op = op /\ c.on = k /\ c.to = to /\ c.replaced = r
BY DEF Change

IsCatalog(s) == DOMAIN s \subseteq Identifiers /\ IsFiniteSet(DOMAIN s)
OfKind(s, kind) == {id \in DOMAIN s : id[1] = kind}
PiecesOf(s, kind, q) == {id \in PartsOf(s, q) : id[1] = kind}

LEMMA KeysAre ==
  ASSUME NEW s, IsCatalog(s), NEW kind, NEW q
  PROVE  /\ IsSeq(Keys(s, kind)) /\ ToSet(Keys(s, kind)) = OfKind(s, kind)
         /\ IsSeq(Parts(s, kind, q)) /\ ToSet(Parts(s, kind, q)) = PiecesOf(s, kind, q)
         /\ PiecesOf(s, kind, q) \subseteq OfKind(s, kind)
<1>1. OfKind(s, kind) \in SUBSET DOMAIN s /\ PiecesOf(s, kind, q) \in SUBSET DOMAIN s
      /\ PiecesOf(s, kind, q) \subseteq OfKind(s, kind)
  BY DEF OfKind, PiecesOf, PartsOf
<1>2. IsFiniteSet(OfKind(s, kind)) /\ IsFiniteSet(PiecesOf(s, kind, q))
  BY <1>1, FS_Subset DEF IsCatalog
<1>3. OneKind(OfKind(s, kind)) /\ OneKind(PiecesOf(s, kind, q))
  BY <1>1 DEF OneKind, IsCatalog, OfKind
<1>4. Keys(s, kind) = Ordered(OfKind(s, kind)) /\ Parts(s, kind, q) = Ordered(PiecesOf(s, kind, q))
  BY DEF Keys, Parts, OfKind, PiecesOf
<1> QED
  BY <1>1, <1>2, <1>3, <1>4, OrderedLists

(* A comparison of the objects S of s with the objects T of t. *)
Comparison(ks, kt, S, T, s, t, same, cr, al, dr) ==
  Pass(ks, [k \in S |-> IF k \notin DOMAIN t THEN cr[k] ELSE IF same[k] THEN <<>> ELSE al[k]])
    \o Pass(kt, [k \in T |-> IF k \in DOMAIN s THEN <<>> ELSE dr[k]])

Compares(p, S, T, s, t, same, cr, al, dr) ==
  /\ IsSeq(p)
  /\ \A c : c \in ToSet(p) <=>
       \/ \E k \in S : k \notin DOMAIN t /\ c \in ToSet(cr[k])
       \/ \E k \in S : k \in DOMAIN t /\ ~same[k] /\ c \in ToSet(al[k])
       \/ \E k \in T : k \notin DOMAIN s /\ c \in ToSet(dr[k])
  /\ p = <<>> =>
       /\ \A k \in S : IF k \in DOMAIN t THEN same[k] \/ al[k] = <<>> ELSE cr[k] = <<>>
       /\ \A k \in T : k \in DOMAIN s \/ dr[k] = <<>>

LEMMA ComparisonIs ==
  ASSUME NEW s, NEW t, NEW ks, IsSeq(ks), NEW kt, IsSeq(kt), NEW S, ToSet(ks) = S,
         NEW T, ToSet(kt) = T, NEW same, NEW cr, NEW al, NEW dr,
         \A k \in S : IsSeq(cr[k]) /\ (k \in DOMAIN t => IsSeq(al[k])), \A k \in T : IsSeq(dr[k])
  PROVE  Compares(Comparison(ks, kt, S, T, s, t, same, cr, al, dr), S, T, s, t, same, cr, al, dr)
<1> DEFINE gs == [k \in S |-> IF k \notin DOMAIN t THEN cr[k]
                             ELSE IF same[k] THEN <<>> ELSE al[k]]
           gt == [k \in T |-> IF k \in DOMAIN s THEN <<>> ELSE dr[k]]
           p == Comparison(ks, kt, S, T, s, t, same, cr, al, dr)
<1>1. p = Pass(ks, gs) \o Pass(kt, gt)
  BY DEF Comparison
<1>2. (\A k \in S : IsSeq(gs[k])) /\ (\A k \in T : IsSeq(gt[k]))
  BY Listed
<1>3. \A c : c \notin ToSet(<<>>)
  BY Listed
<1>4. \A k \in S : gs[k] = IF k \notin DOMAIN t THEN cr[k] ELSE IF same[k] THEN <<>> ELSE al[k]
  OBVIOUS
<1>5. \A k \in T : gt[k] = IF k \in DOMAIN s THEN <<>> ELSE dr[k]
  OBVIOUS
<1> HIDE DEF gs, gt, p
<1>6. /\ IsSeq(p)
      /\ \A c : c \in ToSet(p) <=> \/ \E k \in S : c \in ToSet(gs[k])
                                   \/ \E k \in T : c \in ToSet(gt[k])
      /\ p = <<>> => (\A k \in S : gs[k] = <<>>) /\ (\A k \in T : gt[k] = <<>>)
  BY SMTT(60), <1>1, <1>2, TwoPasses
<1>7. ASSUME NEW c
      PROVE  c \in ToSet(p) <=>
              \/ \E k \in S : k \notin DOMAIN t /\ c \in ToSet(cr[k])
              \/ \E k \in S : k \in DOMAIN t /\ ~same[k] /\ c \in ToSet(al[k])
              \/ \E k \in T : k \notin DOMAIN s /\ c \in ToSet(dr[k])
  <2>1. \A k \in S : c \in ToSet(gs[k]) <=> ((k \notin DOMAIN t /\ c \in ToSet(cr[k]))
                                            \/ (k \in DOMAIN t /\ ~same[k] /\ c \in ToSet(al[k])))
    BY <1>3, <1>4
  <2>2. \A k \in T : c \in ToSet(gt[k]) <=> k \notin DOMAIN s /\ c \in ToSet(dr[k])
    BY <1>3, <1>5
  <2> QED
    BY <1>6, <2>1, <2>2
<1>8. p = <<>> =>
        /\ \A k \in S : IF k \in DOMAIN t THEN same[k] \/ al[k] = <<>> ELSE cr[k] = <<>>
        /\ \A k \in T : k \in DOMAIN s \/ dr[k] = <<>>
  BY <1>4, <1>5, <1>6
<1> QED
  BY <1>6, <1>7, <1>8 DEF p, Compares

(* Views. *)
ViewChange(c, s, t, all) ==
  LET k == c.on IN
  /\ k[1] = "view"
  /\ \/ c = Change("create_view", k, s[k], FALSE) /\ k \in DOMAIN s
     \/ c = Change("drop_view", k, "none", FALSE) /\ k \in DOMAIN t
     \/ /\ c = Change("drop_view", k, "none", TRUE) /\ k \in DOMAIN s \cap DOMAIN t
        /\ s[k] # t[k] /\ Change("create_view", k, s[k], FALSE) \in all

LEMMA ViewChanges ==
  ASSUME NEW s, IsCatalog(s), NEW t, IsCatalog(t)
  PROVE  LET p == DiffViews(s, t) IN
         /\ IsSeq(p) /\ \A c \in ToSet(p) : ViewChange(c, s, t, ToSet(p))
         /\ p = <<>> => /\ OfKind(s, "view") = OfKind(t, "view")
                        /\ \A k \in OfKind(s, "view") : s[k] = t[k]
<1> DEFINE ks == Keys(s, "view")  kt == Keys(t, "view")
           S == OfKind(s, "view")  T == OfKind(t, "view")
           same == [k \in S |-> s[k] = t[k]]
           cr == [k \in S |-> <<Change("create_view", k, s[k], FALSE)>>]
           al == [k \in S |-> <<Change("drop_view", k, "none", TRUE), Change("create_view", k, s[k], FALSE)>>]
           dr == [k \in T |-> <<Change("drop_view", k, "none", FALSE)>>]
           p == DiffViews(s, t)
<1>1. IsSeq(ks) /\ ToSet(ks) = S /\ IsSeq(kt) /\ ToSet(kt) = T
  BY SMTT(60), KeysAre
<1> HIDE DEF ks, kt
<1>2. p = Comparison(ks, kt, S, T, s, t, same, cr, al, dr)
  <2>1. (\A i \in DOMAIN ks : ks[i] \in S) /\ (\A i \in DOMAIN kt : kt[i] \in T)
    BY <1>1 DEF ToSet
  <2> QED
    BY <2>1 DEF DiffViews, Compare, Each, Comparison, Pass, ks, kt
<1>3. \A k \in S :
         /\ ToSet(cr[k]) = {Change("create_view", k, s[k], FALSE)}
         /\ ToSet(al[k]) = {Change("drop_view", k, "none", TRUE), Change("create_view", k, s[k], FALSE)}
         /\ cr[k] # <<>> /\ al[k] # <<>>
  BY Listed
<1>4. \A k \in T : ToSet(dr[k]) = {Change("drop_view", k, "none", FALSE)} /\ dr[k] # <<>>
  BY Listed
<1>5. (\A k \in S : IsSeq(cr[k]) /\ IsSeq(al[k])) /\ (\A k \in T : IsSeq(dr[k]))
  BY Listed
<1>6. \A k \in S : same[k] <=> s[k] = t[k]
  OBVIOUS
<1>7. /\ \A k \in S : k \in DOMAIN s /\ k[1] = "view" /\ (k \in DOMAIN t => k \in T)
      /\ \A k \in T : k \in DOMAIN t /\ k[1] = "view" /\ (k \in DOMAIN s => k \in S)
  BY DEF OfKind, PiecesOf, PartsOf
<1> HIDE DEF same, cr, al, dr, p, S, T
<1>8. Compares(p, S, T, s, t, same, cr, al, dr)
  BY <1>1, <1>5, <1>2, ComparisonIs
<1>9. ASSUME NEW c \in ToSet(p) PROVE ViewChange(c, s, t, ToSet(p))
  <2>1. ASSUME NEW k \in S, k \notin DOMAIN t, c \in ToSet(cr[k])
        PROVE  ViewChange(c, s, t, ToSet(p))
    <3>1. c \in {Change("create_view", k, s[k], FALSE)}
      BY <1>3, <2>1
    <3>2. c.on = k
      BY <3>1 DEF Change
    <3> QED
      BY <1>7, <2>1, <3>1, <3>2 DEF ViewChange
  <2>2. ASSUME NEW k \in S, k \in DOMAIN t, ~same[k], c \in ToSet(al[k])
        PROVE  ViewChange(c, s, t, ToSet(p))
    <3>1. \A x \in {Change("drop_view", k, "none", TRUE), Change("create_view", k, s[k], FALSE)} : x \in ToSet(p)
      BY <1>3, <1>8, <2>2 DEF Compares
    <3>2. c \in {Change("drop_view", k, "none", TRUE), Change("create_view", k, s[k], FALSE)}
      BY <1>3, <2>2
    <3>3. c.on = k
      BY <3>2 DEF Change
    <3> QED
      BY <1>6, <1>7, <2>2, <3>1, <3>2, <3>3 DEF ViewChange
  <2>3. ASSUME NEW k \in T, k \notin DOMAIN s, c \in ToSet(dr[k])
        PROVE  ViewChange(c, s, t, ToSet(p))
    <3>1. c \in {Change("drop_view", k, "none", FALSE)}
      BY <1>4, <2>3
    <3>2. c.on = k
      BY <3>1 DEF Change
    <3> QED
      BY <1>7, <2>3, <3>1, <3>2 DEF ViewChange
  <2> QED
    BY <1>8, <2>1, <2>2, <2>3 DEF Compares
<1>10. ASSUME p = <<>> PROVE S = T /\ \A k \in S : s[k] = t[k]
  <2>1. \A k \in S : k \in DOMAIN t /\ same[k]
    BY <1>3, <1>8, <1>10 DEF Compares
  <2>2. \A k \in T : k \in DOMAIN s
    BY <1>4, <1>8, <1>10 DEF Compares
  <2> QED
    BY <1>6, <1>7, <2>1, <2>2
<1> QED
  BY <1>8, <1>9, <1>10 DEF p, S, T, Compares

(* Constraints. *)
ConstraintChange(c, s, t, all) ==
  LET k == c.on IN
  /\ k[1] = "constraint"
  /\ \/ c = Change("add_constraint", k, s[k], FALSE) /\ k \in DOMAIN s
     \/ c = Change("drop_constraint", k, t[k].kind, FALSE) /\ k \in DOMAIN t
     \/ /\ c = Change("drop_constraint", k, t[k].kind, TRUE) /\ k \in DOMAIN s \cap DOMAIN t
        /\ s[k].def # t[k].def /\ Change("add_constraint", k, s[k], FALSE) \in all

LEMMA ConstraintChanges ==
  ASSUME NEW s, IsCatalog(s), NEW t, IsCatalog(t), NEW q
  PROVE  LET p == DiffConstraints(q, s, t) IN
         /\ IsSeq(p) /\ \A c \in ToSet(p) : ConstraintChange(c, s, t, ToSet(p))
         /\ p = <<>> => /\ PiecesOf(s, "constraint", q) = PiecesOf(t, "constraint", q)
                        /\ \A k \in PiecesOf(s, "constraint", q) : s[k].def = t[k].def
<1> DEFINE ks == Parts(s, "constraint", q)  kt == Parts(t, "constraint", q)
           S == PiecesOf(s, "constraint", q)  T == PiecesOf(t, "constraint", q)
           same == [k \in S |-> s[k].def = t[k].def]
           cr == [k \in S |-> <<Change("add_constraint", k, s[k], FALSE)>>]
           al == [k \in S |-> <<Change("drop_constraint", k, t[k].kind, TRUE), Change("add_constraint", k, s[k], FALSE)>>]
           dr == [k \in T |-> <<Change("drop_constraint", k, t[k].kind, FALSE)>>]
           p == DiffConstraints(q, s, t)
<1>1. IsSeq(ks) /\ ToSet(ks) = S /\ IsSeq(kt) /\ ToSet(kt) = T
  BY KeysAre
<1> HIDE DEF ks, kt
<1>2. p = Comparison(ks, kt, S, T, s, t, same, cr, al, dr)
  <2>1. (\A i \in DOMAIN ks : ks[i] \in S) /\ (\A i \in DOMAIN kt : kt[i] \in T)
    BY <1>1 DEF ToSet
  <2> QED
    BY ZenonT(60), <2>1 DEF DiffConstraints, Compare, Each, Comparison, Pass, ks, kt
<1>3. \A k \in S :
         /\ ToSet(cr[k]) = {Change("add_constraint", k, s[k], FALSE)}
         /\ ToSet(al[k]) = {Change("drop_constraint", k, t[k].kind, TRUE), Change("add_constraint", k, s[k], FALSE)}
         /\ cr[k] # <<>> /\ al[k] # <<>>
  BY Listed
<1>4. \A k \in T : ToSet(dr[k]) = {Change("drop_constraint", k, t[k].kind, FALSE)} /\ dr[k] # <<>>
  BY Listed
<1>5. (\A k \in S : IsSeq(cr[k]) /\ IsSeq(al[k])) /\ (\A k \in T : IsSeq(dr[k]))
  BY Listed
<1>6. \A k \in S : same[k] <=> s[k].def = t[k].def
  OBVIOUS
<1>7. /\ \A k \in S : k \in DOMAIN s /\ k[1] = "constraint" /\ (k \in DOMAIN t => k \in T)
      /\ \A k \in T : k \in DOMAIN t /\ k[1] = "constraint" /\ (k \in DOMAIN s => k \in S)
  BY DEF OfKind, PiecesOf, PartsOf
<1> HIDE DEF same, cr, al, dr, p, S, T
<1>8. Compares(p, S, T, s, t, same, cr, al, dr)
  BY <1>1, <1>5, <1>2, ComparisonIs
<1>9. ASSUME NEW c \in ToSet(p) PROVE ConstraintChange(c, s, t, ToSet(p))
  <2>1. ASSUME NEW k \in S, k \notin DOMAIN t, c \in ToSet(cr[k])
        PROVE  ConstraintChange(c, s, t, ToSet(p))
    <3>1. c \in {Change("add_constraint", k, s[k], FALSE)}
      BY <1>3, <2>1
    <3>2. c.on = k
      BY <3>1 DEF Change
    <3> QED
      BY <1>7, <2>1, <3>1, <3>2 DEF ConstraintChange
  <2>2. ASSUME NEW k \in S, k \in DOMAIN t, ~same[k], c \in ToSet(al[k])
        PROVE  ConstraintChange(c, s, t, ToSet(p))
    <3>1. \A x \in {Change("drop_constraint", k, t[k].kind, TRUE), Change("add_constraint", k, s[k], FALSE)} : x \in ToSet(p)
      BY <1>3, <1>8, <2>2 DEF Compares
    <3>2. c \in {Change("drop_constraint", k, t[k].kind, TRUE), Change("add_constraint", k, s[k], FALSE)}
      BY <1>3, <2>2
    <3>3. c.on = k
      BY <3>2 DEF Change
    <3> QED
      BY <1>6, <1>7, <2>2, <3>1, <3>2, <3>3 DEF ConstraintChange
  <2>3. ASSUME NEW k \in T, k \notin DOMAIN s, c \in ToSet(dr[k])
        PROVE  ConstraintChange(c, s, t, ToSet(p))
    <3>1. c \in {Change("drop_constraint", k, t[k].kind, FALSE)}
      BY <1>4, <2>3
    <3>2. c.on = k
      BY <3>1 DEF Change
    <3> QED
      BY <1>7, <2>3, <3>1, <3>2 DEF ConstraintChange
  <2> QED
    BY <1>8, <2>1, <2>2, <2>3 DEF Compares
<1>10. ASSUME p = <<>> PROVE S = T /\ \A k \in S : s[k].def = t[k].def
  <2>1. \A k \in S : k \in DOMAIN t /\ same[k]
    BY <1>3, <1>8, <1>10 DEF Compares
  <2>2. \A k \in T : k \in DOMAIN s
    BY <1>4, <1>8, <1>10 DEF Compares
  <2> QED
    BY <1>6, <1>7, <2>1, <2>2
<1> QED
  BY <1>8, <1>9, <1>10 DEF p, S, T, Compares

(* Indexes. *)
IndexChange(c, s, t, all) ==
  LET k == c.on IN
  /\ k[1] = "index"
  /\ \/ c = Change("create_index", k, s[k], FALSE) /\ k \in DOMAIN s
     \/ c = Change("drop_index", k, t[k].unique, FALSE) /\ k \in DOMAIN t
     \/ /\ c = Change("drop_index", k, t[k].unique, TRUE) /\ k \in DOMAIN s \cap DOMAIN t
        /\ s[k].def # t[k].def /\ Change("create_index", k, s[k], FALSE) \in all

LEMMA IndexChanges ==
  ASSUME NEW s, IsCatalog(s), NEW t, IsCatalog(t), NEW q
  PROVE  LET p == DiffIndexes(q, s, t) IN
         /\ IsSeq(p) /\ \A c \in ToSet(p) : IndexChange(c, s, t, ToSet(p))
         /\ p = <<>> => /\ PiecesOf(s, "index", q) = PiecesOf(t, "index", q)
                        /\ \A k \in PiecesOf(s, "index", q) : s[k].def = t[k].def
<1> DEFINE ks == Parts(s, "index", q)  kt == Parts(t, "index", q)
           S == PiecesOf(s, "index", q)  T == PiecesOf(t, "index", q)
           same == [k \in S |-> s[k].def = t[k].def]
           cr == [k \in S |-> <<Change("create_index", k, s[k], FALSE)>>]
           al == [k \in S |-> <<Change("drop_index", k, t[k].unique, TRUE), Change("create_index", k, s[k], FALSE)>>]
           dr == [k \in T |-> <<Change("drop_index", k, t[k].unique, FALSE)>>]
           p == DiffIndexes(q, s, t)
<1>1. IsSeq(ks) /\ ToSet(ks) = S /\ IsSeq(kt) /\ ToSet(kt) = T
  BY SMTT(60), KeysAre
<1> HIDE DEF ks, kt
<1>2. p = Comparison(ks, kt, S, T, s, t, same, cr, al, dr)
  <2>1. (\A i \in DOMAIN ks : ks[i] \in S) /\ (\A i \in DOMAIN kt : kt[i] \in T)
    BY <1>1 DEF ToSet
  <2> QED
    BY ZenonT(60), <2>1 DEF DiffIndexes, Compare, Each, Comparison, Pass, ks, kt
<1>3. \A k \in S :
         /\ ToSet(cr[k]) = {Change("create_index", k, s[k], FALSE)}
         /\ ToSet(al[k]) = {Change("drop_index", k, t[k].unique, TRUE), Change("create_index", k, s[k], FALSE)}
         /\ cr[k] # <<>> /\ al[k] # <<>>
  BY Listed
<1>4. \A k \in T : ToSet(dr[k]) = {Change("drop_index", k, t[k].unique, FALSE)} /\ dr[k] # <<>>
  BY Listed
<1>5. (\A k \in S : IsSeq(cr[k]) /\ IsSeq(al[k])) /\ (\A k \in T : IsSeq(dr[k]))
  BY Listed
<1>6. \A k \in S : same[k] <=> s[k].def = t[k].def
  OBVIOUS
<1>7. /\ \A k \in S : k \in DOMAIN s /\ k[1] = "index" /\ (k \in DOMAIN t => k \in T)
      /\ \A k \in T : k \in DOMAIN t /\ k[1] = "index" /\ (k \in DOMAIN s => k \in S)
  BY DEF OfKind, PiecesOf, PartsOf
<1> HIDE DEF same, cr, al, dr, p, S, T
<1>8. Compares(p, S, T, s, t, same, cr, al, dr)
  BY <1>1, <1>5, <1>2, ComparisonIs
<1>9. ASSUME NEW c \in ToSet(p) PROVE IndexChange(c, s, t, ToSet(p))
  <2>1. ASSUME NEW k \in S, k \notin DOMAIN t, c \in ToSet(cr[k])
        PROVE  IndexChange(c, s, t, ToSet(p))
    <3>1. c \in {Change("create_index", k, s[k], FALSE)}
      BY <1>3, <2>1
    <3>2. c.on = k
      BY <3>1 DEF Change
    <3> QED
      BY <1>7, <2>1, <3>1, <3>2 DEF IndexChange
  <2>2. ASSUME NEW k \in S, k \in DOMAIN t, ~same[k], c \in ToSet(al[k])
        PROVE  IndexChange(c, s, t, ToSet(p))
    <3>1. \A x \in {Change("drop_index", k, t[k].unique, TRUE), Change("create_index", k, s[k], FALSE)} : x \in ToSet(p)
      BY <1>3, <1>8, <2>2 DEF Compares
    <3>2. c \in {Change("drop_index", k, t[k].unique, TRUE), Change("create_index", k, s[k], FALSE)}
      BY <1>3, <2>2
    <3>3. c.on = k
      BY <3>2 DEF Change
    <3> QED
      BY <1>6, <1>7, <2>2, <3>1, <3>2, <3>3 DEF IndexChange
  <2>3. ASSUME NEW k \in T, k \notin DOMAIN s, c \in ToSet(dr[k])
        PROVE  IndexChange(c, s, t, ToSet(p))
    <3>1. c \in {Change("drop_index", k, t[k].unique, FALSE)}
      BY <1>4, <2>3
    <3>2. c.on = k
      BY <3>1 DEF Change
    <3> QED
      BY <1>7, <2>3, <3>1, <3>2 DEF IndexChange
  <2> QED
    BY <1>8, <2>1, <2>2, <2>3 DEF Compares
<1>10. ASSUME p = <<>> PROVE S = T /\ \A k \in S : s[k].def = t[k].def
  <2>1. \A k \in S : k \in DOMAIN t /\ same[k]
    BY <1>3, <1>8, <1>10 DEF Compares
  <2>2. \A k \in T : k \in DOMAIN s
    BY <1>4, <1>8, <1>10 DEF Compares
  <2> QED
    BY <1>6, <1>7, <2>1, <2>2
<1> QED
  BY <1>8, <1>9, <1>10 DEF p, S, T, Compares

(* Policies. *)
PolicyChange(c, s, t, all) ==
  LET k == c.on IN
  /\ k[1] = "policy"
  /\ \/ c = Change("create_policy", k, s[k], FALSE) /\ k \in DOMAIN s
     \/ c = Change("drop_policy", k, "none", FALSE) /\ k \in DOMAIN t
     \/ /\ c = Change("drop_policy", k, "none", TRUE) /\ k \in DOMAIN s \cap DOMAIN t
        /\ s[k] # t[k] /\ Change("create_policy", k, s[k], FALSE) \in all

LEMMA PolicyChanges ==
  ASSUME NEW s, IsCatalog(s), NEW t, IsCatalog(t), NEW q
  PROVE  LET p == DiffPolicies(q, s, t) IN
         /\ IsSeq(p) /\ \A c \in ToSet(p) : PolicyChange(c, s, t, ToSet(p))
         /\ p = <<>> => /\ PiecesOf(s, "policy", q) = PiecesOf(t, "policy", q)
                        /\ \A k \in PiecesOf(s, "policy", q) : s[k] = t[k]
<1> DEFINE ks == Parts(s, "policy", q)  kt == Parts(t, "policy", q)
           S == PiecesOf(s, "policy", q)  T == PiecesOf(t, "policy", q)
           same == [k \in S |-> s[k] = t[k]]
           cr == [k \in S |-> <<Change("create_policy", k, s[k], FALSE)>>]
           al == [k \in S |-> <<Change("drop_policy", k, "none", TRUE), Change("create_policy", k, s[k], FALSE)>>]
           dr == [k \in T |-> <<Change("drop_policy", k, "none", FALSE)>>]
           p == DiffPolicies(q, s, t)
<1>1. IsSeq(ks) /\ ToSet(ks) = S /\ IsSeq(kt) /\ ToSet(kt) = T
  BY SMTT(60), KeysAre
<1> HIDE DEF ks, kt
<1>2. p = Comparison(ks, kt, S, T, s, t, same, cr, al, dr)
  <2>1. (\A i \in DOMAIN ks : ks[i] \in S) /\ (\A i \in DOMAIN kt : kt[i] \in T)
    BY <1>1 DEF ToSet
  <2> QED
    BY <2>1 DEF DiffPolicies, Compare, Each, Comparison, Pass, ks, kt
<1>3. \A k \in S :
         /\ ToSet(cr[k]) = {Change("create_policy", k, s[k], FALSE)}
         /\ ToSet(al[k]) = {Change("drop_policy", k, "none", TRUE), Change("create_policy", k, s[k], FALSE)}
         /\ cr[k] # <<>> /\ al[k] # <<>>
  BY Listed
<1>4. \A k \in T : ToSet(dr[k]) = {Change("drop_policy", k, "none", FALSE)} /\ dr[k] # <<>>
  BY Listed
<1>5. (\A k \in S : IsSeq(cr[k]) /\ IsSeq(al[k])) /\ (\A k \in T : IsSeq(dr[k]))
  BY Listed
<1>6. \A k \in S : same[k] <=> s[k] = t[k]
  OBVIOUS
<1>7. /\ \A k \in S : k \in DOMAIN s /\ k[1] = "policy" /\ (k \in DOMAIN t => k \in T)
      /\ \A k \in T : k \in DOMAIN t /\ k[1] = "policy" /\ (k \in DOMAIN s => k \in S)
  BY DEF OfKind, PiecesOf, PartsOf
<1> HIDE DEF same, cr, al, dr, p, S, T
<1>8. Compares(p, S, T, s, t, same, cr, al, dr)
  BY <1>1, <1>5, <1>2, ComparisonIs
<1>9. ASSUME NEW c \in ToSet(p) PROVE PolicyChange(c, s, t, ToSet(p))
  <2>1. ASSUME NEW k \in S, k \notin DOMAIN t, c \in ToSet(cr[k])
        PROVE  PolicyChange(c, s, t, ToSet(p))
    <3>1. c \in {Change("create_policy", k, s[k], FALSE)}
      BY <1>3, <2>1
    <3>2. c.on = k
      BY <3>1 DEF Change
    <3> QED
      BY <1>7, <2>1, <3>1, <3>2 DEF PolicyChange
  <2>2. ASSUME NEW k \in S, k \in DOMAIN t, ~same[k], c \in ToSet(al[k])
        PROVE  PolicyChange(c, s, t, ToSet(p))
    <3>1. \A x \in {Change("drop_policy", k, "none", TRUE), Change("create_policy", k, s[k], FALSE)} : x \in ToSet(p)
      BY <1>3, <1>8, <2>2 DEF Compares
    <3>2. c \in {Change("drop_policy", k, "none", TRUE), Change("create_policy", k, s[k], FALSE)}
      BY <1>3, <2>2
    <3>3. c.on = k
      BY <3>2 DEF Change
    <3> QED
      BY <1>6, <1>7, <2>2, <3>1, <3>2, <3>3 DEF PolicyChange
  <2>3. ASSUME NEW k \in T, k \notin DOMAIN s, c \in ToSet(dr[k])
        PROVE  PolicyChange(c, s, t, ToSet(p))
    <3>1. c \in {Change("drop_policy", k, "none", FALSE)}
      BY <1>4, <2>3
    <3>2. c.on = k
      BY <3>1 DEF Change
    <3> QED
      BY <1>7, <2>3, <3>1, <3>2 DEF PolicyChange
  <2> QED
    BY <1>8, <2>1, <2>2, <2>3 DEF Compares
<1>10. ASSUME p = <<>> PROVE S = T /\ \A k \in S : s[k] = t[k]
  <2>1. \A k \in S : k \in DOMAIN t /\ same[k]
    BY <1>3, <1>8, <1>10 DEF Compares
  <2>2. \A k \in T : k \in DOMAIN s
    BY <1>4, <1>8, <1>10 DEF Compares
  <2> QED
    BY <1>6, <1>7, <2>1, <2>2
<1> QED
  BY <1>8, <1>9, <1>10 DEF p, S, T, Compares

(* Sequences. *)
SequenceChange(c, s, t, all) ==
  LET k == c.on IN
  /\ k[1] = "sequence"
  /\ \/ c = Change("create_sequence", k, s[k], FALSE) /\ k \in DOMAIN s
     \/ c = Change("alter_sequence", k, s[k], FALSE) /\ k \in DOMAIN s \cap DOMAIN t
     \/ c = Plain("drop_sequence", k) /\ k \in DOMAIN t

LEMMA SequenceChanges ==
  ASSUME NEW s, IsCatalog(s), NEW t, IsCatalog(t)
  PROVE  LET p == DiffSequences(s, t) IN
         /\ IsSeq(p) /\ \A c \in ToSet(p) : SequenceChange(c, s, t, ToSet(p))
         /\ p = <<>> => /\ OfKind(s, "sequence") = OfKind(t, "sequence")
                        /\ \A k \in OfKind(s, "sequence") : s[k] = t[k]
<1> DEFINE ks == Keys(s, "sequence")  kt == Keys(t, "sequence")
           S == OfKind(s, "sequence")  T == OfKind(t, "sequence")
           same == [k \in S |-> s[k] = t[k]]
           cr == [k \in S |-> <<Change("create_sequence", k, s[k], FALSE)>>]
           al == [k \in S |-> <<Change("alter_sequence", k, s[k], FALSE)>>]
           dr == [k \in T |-> <<Plain("drop_sequence", k)>>]
           p == DiffSequences(s, t)
<1>1. IsSeq(ks) /\ ToSet(ks) = S /\ IsSeq(kt) /\ ToSet(kt) = T
  BY SMTT(60), KeysAre
<1> HIDE DEF ks, kt
<1>2. p = Comparison(ks, kt, S, T, s, t, same, cr, al, dr)
  <2>1. (\A i \in DOMAIN ks : ks[i] \in S) /\ (\A i \in DOMAIN kt : kt[i] \in T)
    BY <1>1 DEF ToSet
  <2> QED
    BY <2>1 DEF DiffSequences, Compare, Each, Comparison, Pass, ks, kt
<1>3. \A k \in S :
         /\ ToSet(cr[k]) = {Change("create_sequence", k, s[k], FALSE)}
         /\ ToSet(al[k]) = {Change("alter_sequence", k, s[k], FALSE)}
         /\ cr[k] # <<>> /\ al[k] # <<>>
  BY Listed
<1>4. \A k \in T : ToSet(dr[k]) = {Plain("drop_sequence", k)} /\ dr[k] # <<>>
  BY Listed
<1>5. (\A k \in S : IsSeq(cr[k]) /\ IsSeq(al[k])) /\ (\A k \in T : IsSeq(dr[k]))
  BY Listed
<1>6. \A k \in S : same[k] <=> s[k] = t[k]
  OBVIOUS
<1>7. /\ \A k \in S : k \in DOMAIN s /\ k[1] = "sequence" /\ (k \in DOMAIN t => k \in T)
      /\ \A k \in T : k \in DOMAIN t /\ k[1] = "sequence" /\ (k \in DOMAIN s => k \in S)
  BY DEF OfKind, PiecesOf, PartsOf
<1> HIDE DEF same, cr, al, dr, p, S, T
<1>8. Compares(p, S, T, s, t, same, cr, al, dr)
  BY <1>1, <1>5, <1>2, ComparisonIs
<1>9. ASSUME NEW c \in ToSet(p) PROVE SequenceChange(c, s, t, ToSet(p))
  <2>1. ASSUME NEW k \in S, k \notin DOMAIN t, c \in ToSet(cr[k])
        PROVE  SequenceChange(c, s, t, ToSet(p))
    <3>1. c \in {Change("create_sequence", k, s[k], FALSE)}
      BY <1>3, <2>1
    <3>2. c.on = k
      BY <3>1 DEF Change, Plain
    <3> QED
      BY <1>7, <2>1, <3>1, <3>2 DEF SequenceChange
  <2>2. ASSUME NEW k \in S, k \in DOMAIN t, ~same[k], c \in ToSet(al[k])
        PROVE  SequenceChange(c, s, t, ToSet(p))
    <3>1. \A x \in {Change("alter_sequence", k, s[k], FALSE)} : x \in ToSet(p)
      BY <1>3, <1>8, <2>2 DEF Compares
    <3>2. c \in {Change("alter_sequence", k, s[k], FALSE)}
      BY <1>3, <2>2
    <3>3. c.on = k
      BY <3>2 DEF Change
    <3> QED
      BY <1>6, <1>7, <2>2, <3>1, <3>2, <3>3 DEF SequenceChange
  <2>3. ASSUME NEW k \in T, k \notin DOMAIN s, c \in ToSet(dr[k])
        PROVE  SequenceChange(c, s, t, ToSet(p))
    <3>1. c \in {Plain("drop_sequence", k)}
      BY <1>4, <2>3
    <3>2. c.on = k
      BY <3>1 DEF Change, Plain
    <3> QED
      BY <1>7, <2>3, <3>1, <3>2 DEF SequenceChange
  <2> QED
    BY <1>8, <2>1, <2>2, <2>3 DEF Compares
<1>10. ASSUME p = <<>> PROVE S = T /\ \A k \in S : s[k] = t[k]
  <2>1. \A k \in S : k \in DOMAIN t /\ same[k]
    BY <1>3, <1>8, <1>10 DEF Compares
  <2>2. \A k \in T : k \in DOMAIN s
    BY <1>4, <1>8, <1>10 DEF Compares
  <2> QED
    BY <1>6, <1>7, <2>1, <2>2
<1> QED
  BY <1>8, <1>9, <1>10 DEF p, S, T, Compares

(* Routines. *)
RoutineChange(c, s, t, all) ==
  LET k == c.on IN
  /\ k[1] = "routine"
  /\ \/ c = Change("create_function", k, s[k], FALSE) /\ k \in DOMAIN s
     \/ c = Change("create_function", k, s[k], TRUE) /\ k \in DOMAIN s \cap DOMAIN t
     \/ c = Change("drop_function", k, "none", FALSE) /\ k \in DOMAIN t
     \/ /\ c = Change("drop_function", k, "none", TRUE) /\ k \in DOMAIN s \cap DOMAIN t
        /\ Change("create_function", k, s[k], FALSE) \in all

LEMMA RoutineChanges ==
  ASSUME NEW s, IsCatalog(s), NEW t, IsCatalog(t)
  PROVE  LET p == DiffFunctions(s, t) IN
         /\ IsSeq(p) /\ \A c \in ToSet(p) : RoutineChange(c, s, t, ToSet(p))
         /\ p = <<>> => /\ OfKind(s, "routine") = OfKind(t, "routine")
                        /\ \A k \in OfKind(s, "routine") : s[k] = t[k]
<1> DEFINE ks == Keys(s, "routine")  kt == Keys(t, "routine")
           S == OfKind(s, "routine")  T == OfKind(t, "routine")
           same == [k \in S |-> s[k] = t[k]]
           cr == [k \in S |-> <<Change("create_function", k, s[k], FALSE)>>]
           al == [k \in S |-> IF s[k].kind = t[k].kind THEN <<Change("create_function", k, s[k], TRUE)>>
                           ELSE <<Change("drop_function", k, "none", TRUE), Change("create_function", k, s[k], FALSE)>>]
           dr == [k \in T |-> <<Change("drop_function", k, "none", FALSE)>>]
           p == DiffFunctions(s, t)
<1>1. IsSeq(ks) /\ ToSet(ks) = S /\ IsSeq(kt) /\ ToSet(kt) = T
  BY SMTT(60), KeysAre
<1> HIDE DEF ks, kt
<1>2. p = Comparison(ks, kt, S, T, s, t, same, cr, al, dr)
  <2>1. (\A i \in DOMAIN ks : ks[i] \in S) /\ (\A i \in DOMAIN kt : kt[i] \in T)
    BY <1>1 DEF ToSet
  <2> QED
    BY ZenonT(60), <2>1 DEF DiffFunctions, Compare, Each, Comparison, Pass, ks, kt
<1>3. \A k \in S :
         /\ ToSet(cr[k]) = {Change("create_function", k, s[k], FALSE)}
         /\ ToSet(al[k]) = IF s[k].kind = t[k].kind THEN {Change("create_function", k, s[k], TRUE)}
                           ELSE {Change("drop_function", k, "none", TRUE), Change("create_function", k, s[k], FALSE)}
         /\ cr[k] # <<>> /\ al[k] # <<>>
  BY Listed
<1>4. \A k \in T : ToSet(dr[k]) = {Change("drop_function", k, "none", FALSE)} /\ dr[k] # <<>>
  BY Listed
<1>5. (\A k \in S : IsSeq(cr[k]) /\ IsSeq(al[k])) /\ (\A k \in T : IsSeq(dr[k]))
  BY Listed
<1>6. \A k \in S : same[k] <=> s[k] = t[k]
  OBVIOUS
<1>7. /\ \A k \in S : k \in DOMAIN s /\ k[1] = "routine" /\ (k \in DOMAIN t => k \in T)
      /\ \A k \in T : k \in DOMAIN t /\ k[1] = "routine" /\ (k \in DOMAIN s => k \in S)
  BY DEF OfKind, PiecesOf, PartsOf
<1> HIDE DEF same, cr, al, dr, p, S, T
<1>8. Compares(p, S, T, s, t, same, cr, al, dr)
  BY <1>1, <1>5, <1>2, ComparisonIs
<1>9. ASSUME NEW c \in ToSet(p) PROVE RoutineChange(c, s, t, ToSet(p))
  <2>1. ASSUME NEW k \in S, k \notin DOMAIN t, c \in ToSet(cr[k])
        PROVE  RoutineChange(c, s, t, ToSet(p))
    <3>1. c = Change("create_function", k, s[k], FALSE)
      BY <1>3, <2>1
    <3>2. c.on = k
      BY <3>1 DEF Change
    <3> QED
      BY <1>7, <2>1, <3>1, <3>2 DEF RoutineChange
  <2>2. ASSUME NEW k \in S, k \in DOMAIN t, ~same[k], c \in ToSet(al[k])
        PROVE  RoutineChange(c, s, t, ToSet(p))
    <3>1. CASE s[k].kind = t[k].kind
      <4>1. c = Change("create_function", k, s[k], TRUE)
        BY <1>3, <2>2, <3>1
      <4>2. c.on = k
        BY <4>1 DEF Change
      <4> QED
        BY <1>7, <2>2, <4>1, <4>2 DEF RoutineChange
    <3>2. CASE s[k].kind # t[k].kind
      <4>1. \A x \in {Change("drop_function", k, "none", TRUE), Change("create_function", k, s[k], FALSE)} : x \in ToSet(p)
        BY <1>3, <1>8, <2>2, <3>2 DEF Compares
      <4>2. c \in {Change("drop_function", k, "none", TRUE), Change("create_function", k, s[k], FALSE)}
        BY <1>3, <2>2, <3>2
      <4>3. c.on = k
        BY <4>2 DEF Change
      <4> QED
        BY <1>7, <2>2, <4>1, <4>2, <4>3 DEF RoutineChange
    <3> QED
      BY <3>1, <3>2
  <2>3. ASSUME NEW k \in T, k \notin DOMAIN s, c \in ToSet(dr[k])
        PROVE  RoutineChange(c, s, t, ToSet(p))
    <3>1. c = Change("drop_function", k, "none", FALSE)
      BY <1>4, <2>3
    <3>2. c.on = k
      BY <3>1 DEF Change
    <3> QED
      BY <1>7, <2>3, <3>1, <3>2 DEF RoutineChange
  <2> QED
    BY <1>8, <2>1, <2>2, <2>3 DEF Compares
<1>10. ASSUME p = <<>> PROVE S = T /\ \A k \in S : s[k] = t[k]
  <2>1. \A k \in S : k \in DOMAIN t /\ same[k]
    BY <1>3, <1>8, <1>10 DEF Compares
  <2>2. \A k \in T : k \in DOMAIN s
    BY <1>4, <1>8, <1>10 DEF Compares
  <2> QED
    BY <1>6, <1>7, <2>1, <2>2
<1> QED
  BY <1>8, <1>9, <1>10 DEF p, S, T, Compares

(* Triggers. *)
TriggerChange(c, s, t, all) ==
  LET k == c.on IN
  /\ k[1] = "trigger"
  /\ \/ c = Change("create_trigger", k, s[k], FALSE) /\ k \in DOMAIN s
     \/ c = Change("set_trigger_mode", k, s[k].mode, FALSE) /\ k \in DOMAIN s
     \/ c = Change("drop_trigger", k, "none", FALSE) /\ k \in DOMAIN t
     \/ /\ c = Change("drop_trigger", k, "none", TRUE) /\ k \in DOMAIN s \cap DOMAIN t
        /\ Change("create_trigger", k, s[k], FALSE) \in all

LEMMA TriggerChanges ==
  ASSUME NEW s, IsCatalog(s), NEW t, IsCatalog(t), NEW cycle \in BOOLEAN
  PROVE  LET p == DiffTriggers(s, t, cycle) IN
         /\ IsSeq(p) /\ \A c \in ToSet(p) : TriggerChange(c, s, t, ToSet(p))
         /\ p = <<>> => /\ OfKind(s, "trigger") = OfKind(t, "trigger")
                        /\ \A k \in OfKind(s, "trigger") : s[k] = t[k]
<1> DEFINE ks == Keys(s, "trigger")  kt == Keys(t, "trigger")
           S == OfKind(s, "trigger")  T == OfKind(t, "trigger")
           same == [k \in S |-> s[k] = t[k] /\ ~cycle]
           cr == [k \in S |-> <<Change("create_trigger", k, s[k], FALSE)>>
                            \o When(s[k].mode # "origin", Change("set_trigger_mode", k, s[k].mode, FALSE))]
           al == [k \in S |-> IF s[k].def = t[k].def /\ ~cycle THEN <<Change("set_trigger_mode", k, s[k].mode, FALSE)>>
                           ELSE <<Change("drop_trigger", k, "none", TRUE)>> \o
                             (<<Change("create_trigger", k, s[k], FALSE)>>
                                \o When(s[k].mode # "origin", Change("set_trigger_mode", k, s[k].mode, FALSE)))]
           dr == [k \in T |-> <<Change("drop_trigger", k, "none", FALSE)>>]
           p == DiffTriggers(s, t, cycle)
<1>1. IsSeq(ks) /\ ToSet(ks) = S /\ IsSeq(kt) /\ ToSet(kt) = T
  BY SMTT(60), KeysAre
<1> HIDE DEF ks, kt
<1>2. p = Comparison(ks, kt, S, T, s, t, same, cr, al, dr)
  <2>1. (\A i \in DOMAIN ks : ks[i] \in S) /\ (\A i \in DOMAIN kt : kt[i] \in T)
    BY <1>1 DEF ToSet
  <2> QED
    BY ZenonT(60), <2>1 DEF DiffTriggers, Compare, Each, Comparison, Pass, ks, kt
<1>3. \A k \in S :
         /\ Change("create_trigger", k, s[k], FALSE) \in ToSet(cr[k])
         /\ ToSet(cr[k]) \subseteq {Change("create_trigger", k, s[k], FALSE), Change("set_trigger_mode", k, s[k].mode, FALSE)}
         /\ ToSet(al[k]) \subseteq {Change("set_trigger_mode", k, s[k].mode, FALSE)}
              \/ /\ Change("create_trigger", k, s[k], FALSE) \in ToSet(al[k])
                 /\ ToSet(al[k]) \subseteq {Change("drop_trigger", k, "none", TRUE), Change("create_trigger", k, s[k], FALSE), Change("set_trigger_mode", k, s[k].mode, FALSE)}
         /\ cr[k] # <<>> /\ al[k] # <<>> /\ IsSeq(cr[k]) /\ IsSeq(al[k])
  <2> SUFFICES ASSUME NEW k \in S
               PROVE  /\ Change("create_trigger", k, s[k], FALSE) \in ToSet(cr[k])
                      /\ ToSet(cr[k]) \subseteq {Change("create_trigger", k, s[k], FALSE), Change("set_trigger_mode", k, s[k].mode, FALSE)}
                      /\ ToSet(al[k]) \subseteq {Change("set_trigger_mode", k, s[k].mode, FALSE)}
                           \/ /\ Change("create_trigger", k, s[k], FALSE) \in ToSet(al[k])
                              /\ ToSet(al[k]) \subseteq {Change("drop_trigger", k, "none", TRUE), Change("create_trigger", k, s[k], FALSE), Change("set_trigger_mode", k, s[k].mode, FALSE)}
                      /\ cr[k] # <<>> /\ al[k] # <<>> /\ IsSeq(cr[k]) /\ IsSeq(al[k])
    OBVIOUS
  <2> DEFINE a == <<Change("create_trigger", k, s[k], FALSE)>>
             b == When(s[k].mode # "origin", Change("set_trigger_mode", k, s[k].mode, FALSE))
             d == <<Change("drop_trigger", k, "none", TRUE)>>
             m == <<Change("set_trigger_mode", k, s[k].mode, FALSE)>>
  <2>1. /\ IsSeq(a) /\ ToSet(a) = {Change("create_trigger", k, s[k], FALSE)} /\ IsSeq(d) /\ ToSet(d) = {Change("drop_trigger", k, "none", TRUE)}
        /\ IsSeq(m) /\ ToSet(m) = {Change("set_trigger_mode", k, s[k].mode, FALSE)} /\ m # <<>>
    BY Listed
  <2>2. IsSeq(b) /\ ToSet(b) \subseteq {Change("set_trigger_mode", k, s[k].mode, FALSE)}
    BY WhenIs
  <2>3. cr[k] = a \o b /\ (al[k] = m \/ al[k] = d \o (a \o b))
    OBVIOUS
  <2> HIDE DEF a, b, d, m
  <2>4. /\ IsSeq(a \o b) /\ ToSet(a \o b) = ToSet(a) \cup ToSet(b)
        /\ a \o b # <<>>
    BY <2>1, <2>2, NotEmpty, Joined
  <2> DEFINE ab == a \o b
  <2> HIDE DEF ab
  <2>5. /\ IsSeq(d \o ab) /\ ToSet(d \o ab) = ToSet(d) \cup ToSet(ab)
        /\ d \o ab # <<>>
    <3>1. IsSeq(ab) /\ ab # <<>>
      BY <2>4 DEF ab
    <3> QED
      BY <2>1, <3>1, Joined
  <2> HIDE DEF cr, al
  <2> QED
    BY <2>1, <2>2, <2>3, <2>4, <2>5 DEF ab
<1>4. \A k \in T : ToSet(dr[k]) = {Change("drop_trigger", k, "none", FALSE)} /\ dr[k] # <<>>
  BY Listed
<1>5. (\A k \in S : IsSeq(cr[k]) /\ IsSeq(al[k])) /\ (\A k \in T : IsSeq(dr[k]))
  <2>1. \A k \in T : IsSeq(dr[k])
    BY Listed
  <2> HIDE DEF cr, al, dr
  <2> QED
    BY <1>3, <2>1
<1>6. \A k \in S : same[k] <=> s[k] = t[k] /\ ~cycle
  OBVIOUS
<1>7. /\ \A k \in S : k \in DOMAIN s /\ k[1] = "trigger" /\ (k \in DOMAIN t => k \in T)
      /\ \A k \in T : k \in DOMAIN t /\ k[1] = "trigger" /\ (k \in DOMAIN s => k \in S)
  BY DEF OfKind, PiecesOf, PartsOf
<1> HIDE DEF same, cr, al, dr, p, S, T
<1>8. Compares(p, S, T, s, t, same, cr, al, dr)
  BY <1>1, <1>5, <1>2, ComparisonIs
<1>9. ASSUME NEW c \in ToSet(p) PROVE TriggerChange(c, s, t, ToSet(p))
  <2>1. ASSUME NEW k \in S, k \notin DOMAIN t, c \in ToSet(cr[k])
        PROVE  TriggerChange(c, s, t, ToSet(p))
    <3>1. c \in {Change("create_trigger", k, s[k], FALSE), Change("set_trigger_mode", k, s[k].mode, FALSE)}
      BY <1>3, <2>1
    <3>2. c.on = k
      BY <3>1 DEF Change
    <3> QED
      BY <1>7, <2>1, <3>1, <3>2 DEF TriggerChange
  <2>2. ASSUME NEW k \in S, k \in DOMAIN t, ~same[k], c \in ToSet(al[k])
        PROVE  TriggerChange(c, s, t, ToSet(p))
    <3>1. c = Change("set_trigger_mode", k, s[k].mode, FALSE) \/ (c \in {Change("drop_trigger", k, "none", TRUE), Change("create_trigger", k, s[k], FALSE), Change("set_trigger_mode", k, s[k].mode, FALSE)}
                     /\ Change("create_trigger", k, s[k], FALSE) \in ToSet(p))
      BY <1>3, <1>8, <2>2 DEF Compares
    <3>2. c.on = k
      BY <3>1 DEF Change
    <3> QED
      BY <1>7, <2>2, <3>1, <3>2 DEF TriggerChange
  <2>3. ASSUME NEW k \in T, k \notin DOMAIN s, c \in ToSet(dr[k])
        PROVE  TriggerChange(c, s, t, ToSet(p))
    <3>1. c = Change("drop_trigger", k, "none", FALSE)
      BY <1>4, <2>3
    <3>2. c.on = k
      BY <3>1 DEF Change
    <3> QED
      BY <1>7, <2>3, <3>1, <3>2 DEF TriggerChange
  <2> QED
    BY <1>8, <2>1, <2>2, <2>3 DEF Compares
<1>10. ASSUME p = <<>> PROVE S = T /\ \A k \in S : s[k] = t[k]
  <2>1. \A k \in S : k \in DOMAIN t /\ same[k]
    BY <1>3, <1>8, <1>10 DEF Compares
  <2>2. \A k \in T : k \in DOMAIN s
    BY <1>4, <1>8, <1>10 DEF Compares
  <2> QED
    BY <1>6, <1>7, <2>1, <2>2
<1> QED
  BY <1>8, <1>9, <1>10 DEF p, S, T, Compares

(* Enums. *)
LEMMA Whole ==
  ASSUME NEW s, IsSeq(s)
  PROVE  FlattenSeq([i \in DOMAIN s |-> <<s[i]>>]) = s
<1> DEFINE m == [i \in DOMAIN s |-> <<s[i]>>]
<1>1. PICK T : s \in Seq(T)
  BY DEF IsSeq
<1>2. Len(s) \in Nat /\ DOMAIN s = 1..Len(s) /\ \A i \in DOMAIN s : s[i] \in T
  BY <1>1
<1>3. m \in Seq(Seq(T)) /\ DOMAIN m = DOMAIN s /\ Len(m) = Len(s)
  BY <1>2
<1>4. \A i \in DOMAIN m : IsSeq(m[i]) /\ Len(m[i]) = 1 /\ m[i][1] = s[i]
  BY <1>2, Listed
<1>5. IsSeq(m)
  BY <1>3 DEF IsSeq
<1> HIDE DEF m
<1>6. PICK f : /\ f[0] = <<>> /\ \A i \in DOMAIN m : f[i] = f[i - 1] \o m[i]
               /\ FlattenSeq(m) = f[Len(m)]
  BY <1>4, <1>5, FlattenBy
<1> DEFINE Prefix(n) == IsSeq(f[n]) /\ Len(f[n]) = n /\ \A i \in 1..n : f[n][i] = s[i]
           Good == {n \in Nat : n <= Len(s) => Prefix(n)}
<1>7. 0 \in Good
  <2>1. IsSeq(<<>>)
    BY Listed
  <2>2. Len(<<>>) = 0 /\ 1..0 = {}
    BY <2>1, SeqDomain
  <2>3. Prefix(0)
    BY <1>6, <2>1, <2>2
  <2> QED
    BY <2>3
<1>8. ASSUME NEW n \in Nat, n + 1 <= Len(s), Prefix(n) PROVE Prefix(n + 1)
  <2>1. n + 1 \in DOMAIN m /\ (n + 1) - 1 = n
    BY <1>2, <1>3, <1>8
  <2> DEFINE u == f[n]  v == m[n + 1]
  <2>2. f[n + 1] = u \o v
    BY <1>6, <2>1
  <2>3. IsSeq(u) /\ Len(u) = n /\ \A i \in 1..n : u[i] = s[i]
    BY <1>8
  <2>4. IsSeq(v) /\ Len(v) = 1 /\ v[1] = s[n + 1]
    BY <1>4, <2>1
  <2> HIDE DEF u, v
  <2> DEFINE w == u \o v
  <2>5. /\ IsSeq(w) /\ Len(w) = Len(u) + Len(v)
        /\ \A i \in 1..Len(u) : w[i] = u[i]
        /\ \A i \in 1..Len(v) : w[Len(u) + i] = v[i]
    <3>1. IsSeq(u) /\ IsSeq(v)
      BY <2>3, <2>4
    <3> QED
      BY <3>1, Concat
  <2> HIDE DEF w
  <2>6. /\ Len(w) = n + 1 /\ \A i \in 1..n : w[i] = u[i]
        /\ \A i \in 1..1 : w[n + i] = v[i]
    BY <2>3, <2>4, <2>5
  <2>7. 1..(n + 1) = (1..n) \cup {n + 1} /\ 1 \in 1..1
    BY <2>1
  <2>8. \A i \in 1..(n + 1) : w[i] = s[i]
    BY <2>3, <2>4, <2>6, <2>7
  <2> QED
    BY <2>2, <2>5, <2>6, <2>8 DEF w
<1>9. \A n \in Nat : n \in Good
  <2>1. Good \in SUBSET Nat
    OBVIOUS
  <2>2. ASSUME NEW n \in Good PROVE n + 1 \in Good
    <3>1. n \in Nat /\ (n + 1 <= Len(s) => n <= Len(s)) /\ n + 1 \in Nat
      BY <1>2
    <3>2. n + 1 <= Len(s) => Prefix(n + 1)
      BY <1>8, <3>1
    <3> QED
      BY <3>1, <3>2
  <2> HIDE DEF Good
  <2> QED
    BY <1>7, <2>1, <2>2, Induct
<1>10. Prefix(Len(s))
  BY <1>2, <1>9
<1>11. f[Len(s)] = s
  <2>1. PICK U : f[Len(s)] \in Seq(U)
    BY <1>10 DEF IsSeq
  <2> QED
    BY <1>1, <1>10, <2>1
<1> QED
  BY <1>3, <1>6, <1>11 DEF m

(* A subsequence of as many labels is the whole. *)
LEMMA NothingNew ==
  ASSUME NEW new \in Seq(STRING), NEW old \in Seq(STRING), IsSubsequence(old, new),
         \A i \in DOMAIN new : HasLabel(old, new[i])
  PROVE  new = old
<1>1. \A i \in DOMAIN new : When(\E j \in DOMAIN old : old[j] = new[i], new[i]) = <<new[i]>>
  BY DEF HasLabel, When
<1>2. [i \in DOMAIN new |-> When(\E j \in DOMAIN old : old[j] = new[i], new[i])]
        = [i \in DOMAIN new |-> <<new[i]>>]
  BY <1>1
<1>3. FlattenSeq([i \in DOMAIN new |-> When(\E j \in DOMAIN old : old[j] = new[i], new[i])]) = old
  BY DEF IsSubsequence, Each
<1> QED
  BY <1>2, <1>3, Whole DEF IsSeq

(* A new label is put before the next of the labels that are there. *)
Anchored(new, labels, old) ==
  \E i \in DOMAIN labels :
    /\ new.label = labels[i] /\ ~HasLabel(old, labels[i])
    /\ \/ new.before = "end" /\ \A j \in DOMAIN labels : j > i => ~HasLabel(old, labels[j])
       \/ \E a \in DOMAIN labels :
            /\ a > i /\ new.before = labels[a] /\ HasLabel(old, labels[a])
            /\ \A j \in DOMAIN labels : j > i /\ j < a => ~HasLabel(old, labels[j])

LabelChange(c, k, labels, old) ==
  /\ c = Change("add_enum_value", k, c.to, FALSE) /\ c.to = [label |-> c.to.label, before |-> c.to.before]
  /\ Anchored(c.to, labels, old)

LEMMA LabelChanges ==
  ASSUME NEW k, NEW labels \in Seq(STRING), NEW old \in Seq(STRING)
  PROVE  LET p == AddLabels(k, labels, old) IN
         /\ IsSeq(p) /\ \A c \in ToSet(p) : LabelChange(c, k, labels, old)
         /\ p = <<>> => \A i \in DOMAIN labels : HasLabel(old, labels[i])
<1> DEFINE After(i) == {j \in (i + 1)..Len(labels) : \E h \in DOMAIN old : old[h] = labels[j]}
           Anchor(i) == IF After(i) = {} THEN "end"
                        ELSE labels[CHOOSE j \in After(i) : \A m \in After(i) : j <= m]
           Add(i) == Change("add_enum_value", k, [label |-> labels[i], before |-> Anchor(i)], FALSE)
           m == [i \in DOMAIN labels |-> When(~(\E h \in DOMAIN old : old[h] = labels[i]), Add(i))]
           p == AddLabels(k, labels, old)
<1>1. p = FlattenSeq(m)
  BY DEF AddLabels
<1>2. \A i \in DOMAIN labels :
        /\ Add(i) = Change("add_enum_value", k, Add(i).to, FALSE)
        /\ Add(i).to = [label |-> Add(i).to.label, before |-> Add(i).to.before]
        /\ Add(i).to.label = labels[i] /\ Add(i).to.before = Anchor(i)
  BY DEF Change
<1>8. ASSUME NEW i \in DOMAIN labels, ~HasLabel(old, labels[i])
      PROVE  Anchored(Add(i).to, labels, old)
  <2>1. i \in Nat /\ Len(labels) \in Nat /\ DOMAIN labels = 1..Len(labels)
    OBVIOUS
  <2>2. \A j : j \in After(i) <=> j \in DOMAIN labels /\ j > i /\ HasLabel(old, labels[j])
    BY <2>1 DEF HasLabel
  <2>3. CASE After(i) = {}
    <3>1. Anchor(i) = "end"
      BY <2>3
    <3>2. \A j \in DOMAIN labels : j > i => ~HasLabel(old, labels[j])
      BY <2>2, <2>3
    <3> HIDE DEF Add, Anchor, After
    <3> QED
      BY <1>2, <1>8, <3>1, <3>2 DEF Anchored
  <2>4. CASE After(i) # {}
    <3> DEFINE first == CHOOSE j \in After(i) : \A x \in After(i) : j <= x
    <3>1. Anchor(i) = labels[first]
      BY <2>4
    <3>2. After(i) \subseteq Nat
      BY <2>1
    <3> HIDE DEF After, Anchor, Add
    <3>4. \E j \in After(i) : \A x \in After(i) : j <= x
      BY <2>4, <3>2, LeastOf
    <3>5. first \in After(i) /\ \A x \in After(i) : first <= x
      BY <3>4
    <3> HIDE DEF first
    <3>6. first \in DOMAIN labels /\ first > i /\ HasLabel(old, labels[first]) /\ first \in Nat
      BY <2>2, <3>2, <3>5
    <3>7. ASSUME NEW j \in DOMAIN labels, j > i, j < first PROVE ~HasLabel(old, labels[j])
      <4>1. j \in Nat /\ ~(first <= j)
        BY <2>1, <3>6, <3>7
      <4> QED
        BY <2>2, <3>5, <3>7, <4>1
    <3> QED
      BY <1>2, <1>8, <3>1, <3>6, <3>7 DEF Anchored
  <2> QED
    BY <2>3, <2>4
<1> HIDE DEF Add, Anchor
<1>3. \A i \in DOMAIN labels :
        /\ IsSeq(m[i]) /\ (m[i] = <<>> <=> HasLabel(old, labels[i]))
        /\ \A c \in ToSet(m[i]) : c = Add(i) /\ ~HasLabel(old, labels[i])
  BY WhenIs DEF HasLabel
<1>4. IsSeq(m) /\ DOMAIN m = DOMAIN labels
  <2>1. DOMAIN labels = 1..Len(labels) /\ Len(labels) \in Nat
    OBVIOUS
  <2>2. m \in Seq({m[i] : i \in DOMAIN labels})
    BY <2>1
  <2> QED
    BY <2>2 DEF IsSeq
<1> HIDE DEF m, p
<1>5. /\ IsSeq(FlattenSeq(m))
      /\ ToSet(FlattenSeq(m)) = UNION {ToSet(m[i]) : i \in DOMAIN m}
      /\ FlattenSeq(m) = <<>> <=> \A i \in DOMAIN m : m[i] = <<>>
  BY <1>3, <1>4, FlattenLaws
<1>6. ASSUME NEW c \in ToSet(p) PROVE LabelChange(c, k, labels, old)
  <2>1. PICK i \in DOMAIN labels : c \in ToSet(m[i])
    BY <1>1, <1>4, <1>5
  <2>2. c = Add(i) /\ ~HasLabel(old, labels[i])
    BY <1>3, <2>1
  <2> QED
    BY <1>2, <1>8, <2>2 DEF LabelChange
<1>7. p = <<>> => \A i \in DOMAIN labels : HasLabel(old, labels[i])
  BY <1>1, <1>3, <1>4, <1>5
<1> QED
  BY <1>1, <1>5, <1>6, <1>7 DEF p

EnumChange(c, s, t, all) ==
  LET k == c.on IN
  /\ k[1] = "enum"
  /\ \/ c = Change("create_enum", k, s[k], FALSE) /\ k \in DOMAIN s
     \/ c = Plain("enum_needs_rebuild", k) /\ k \in DOMAIN s \cap DOMAIN t
     \/ c = Plain("drop_enum", k) /\ k \in DOMAIN t
     \/ /\ k \in DOMAIN s \cap DOMAIN t /\ IsSubsequence(t[k].labels, s[k].labels)
        /\ LabelChange(c, k, s[k].labels, t[k].labels)

LEMMA EnumChanges ==
  ASSUME NEW s, IsCatalog(s), NEW t, IsCatalog(t),
         \A k \in OfKind(s, "enum") : s[k].labels \in Seq(STRING),
         \A k \in OfKind(t, "enum") : t[k].labels \in Seq(STRING)
  PROVE  LET p == DiffEnums(s, t) IN
         /\ IsSeq(p) /\ \A c \in ToSet(p) : EnumChange(c, s, t, ToSet(p))
         /\ p = <<>> => /\ OfKind(s, "enum") = OfKind(t, "enum")
                        /\ \A k \in OfKind(s, "enum") : s[k].labels = t[k].labels
<1> DEFINE ks == Keys(s, "enum")  kt == Keys(t, "enum")
           S == OfKind(s, "enum")  T == OfKind(t, "enum")
           same == [k \in S |-> s[k].labels = t[k].labels]
           cr == [k \in S |-> <<Change("create_enum", k, s[k], FALSE)>>]
           al == [k \in S |-> IF IsSubsequence(t[k].labels, s[k].labels)
                           THEN AddLabels(k, s[k].labels, t[k].labels) ELSE <<Plain("enum_needs_rebuild", k)>>]
           dr == [k \in T |-> <<Plain("drop_enum", k)>>]
           p == DiffEnums(s, t)
<1>1. IsSeq(ks) /\ ToSet(ks) = S /\ IsSeq(kt) /\ ToSet(kt) = T
  BY SMTT(60), KeysAre
<1> HIDE DEF ks, kt
<1>2. p = Comparison(ks, kt, S, T, s, t, same, cr, al, dr)
  <2>1. (\A i \in DOMAIN ks : ks[i] \in S) /\ (\A i \in DOMAIN kt : kt[i] \in T)
    BY <1>1 DEF ToSet
  <2> QED
    BY ZenonT(60), <2>1 DEF DiffEnums, Compare, Each, Comparison, Pass, ks, kt
<1>3. \A k \in S :
         /\ ToSet(cr[k]) = {Change("create_enum", k, s[k], FALSE)} /\ cr[k] # <<>> /\ IsSeq(cr[k])
         /\ ~IsSubsequence(t[k].labels, s[k].labels)
              => ToSet(al[k]) = {Plain("enum_needs_rebuild", k)} /\ al[k] # <<>> /\ IsSeq(al[k])
  BY Listed
<1>31. \A k \in S : IsSubsequence(t[k].labels, s[k].labels) /\ k \in DOMAIN t =>
         /\ IsSeq(al[k]) /\ \A c \in ToSet(al[k]) : LabelChange(c, k, s[k].labels, t[k].labels)
         /\ al[k] = <<>> => s[k].labels = t[k].labels
  <2> SUFFICES ASSUME NEW k \in S, IsSubsequence(t[k].labels, s[k].labels), k \in DOMAIN t
               PROVE  /\ IsSeq(al[k])
                      /\ \A c \in ToSet(al[k]) : LabelChange(c, k, s[k].labels, t[k].labels)
                      /\ al[k] = <<>> => s[k].labels = t[k].labels
    OBVIOUS
  <2>1. s[k].labels \in Seq(STRING) /\ t[k].labels \in Seq(STRING)
    BY DEF OfKind
  <2>2. al[k] = AddLabels(k, s[k].labels, t[k].labels)
    OBVIOUS
  <2> HIDE DEF al
  <2>3. /\ IsSeq(al[k]) /\ \A c \in ToSet(al[k]) : LabelChange(c, k, s[k].labels, t[k].labels)
        /\ al[k] = <<>> => \A i \in DOMAIN s[k].labels : HasLabel(t[k].labels, s[k].labels[i])
    BY <2>1, <2>2, LabelChanges
  <2> QED
    BY <2>1, <2>3, NothingNew
<1>4. \A k \in T : ToSet(dr[k]) = {Plain("drop_enum", k)} /\ dr[k] # <<>> /\ IsSeq(dr[k])
  BY Listed
<1>5. /\ \A k \in S : IsSeq(cr[k]) /\ (k \in DOMAIN t => IsSeq(al[k]))
      /\ \A k \in T : IsSeq(dr[k])
  <2> HIDE DEF cr, al, dr
  <2> QED
    BY <1>3, <1>31, <1>4
<1>6. \A k \in S : same[k] <=> s[k].labels = t[k].labels
  OBVIOUS
<1>7. /\ \A k \in S : k \in DOMAIN s /\ k[1] = "enum" /\ (k \in DOMAIN t => k \in T)
      /\ \A k \in T : k \in DOMAIN t /\ k[1] = "enum" /\ (k \in DOMAIN s => k \in S)
  BY DEF OfKind, PiecesOf, PartsOf
<1> HIDE DEF same, cr, al, dr, p, S, T
<1>8. Compares(p, S, T, s, t, same, cr, al, dr)
  BY <1>1, <1>5, <1>2, ComparisonIs
<1>9. ASSUME NEW c \in ToSet(p) PROVE EnumChange(c, s, t, ToSet(p))
  <2>1. ASSUME NEW k \in S, k \notin DOMAIN t, c \in ToSet(cr[k])
        PROVE  EnumChange(c, s, t, ToSet(p))
    <3>1. c = Change("create_enum", k, s[k], FALSE)
      BY <1>3, <2>1
    <3>2. c.on = k
      BY <3>1 DEF Change
    <3> QED
      BY <1>7, <2>1, <3>1, <3>2 DEF EnumChange
  <2>2. ASSUME NEW k \in S, k \in DOMAIN t, ~same[k], c \in ToSet(al[k])
        PROVE  EnumChange(c, s, t, ToSet(p))
    <3>1. CASE IsSubsequence(t[k].labels, s[k].labels)
      <4>1. LabelChange(c, k, s[k].labels, t[k].labels)
        BY <1>31, <2>2, <3>1
      <4>2. c.on = k
        BY <4>1 DEF Change, LabelChange
      <4> QED
        BY <1>7, <2>2, <3>1, <4>1, <4>2 DEF EnumChange
    <3>2. CASE ~IsSubsequence(t[k].labels, s[k].labels)
      <4>1. c = Plain("enum_needs_rebuild", k)
        BY <1>3, <2>2, <3>2
      <4>2. c.on = k
        BY <4>1 DEF Change, Plain
      <4> QED
        BY <1>7, <2>2, <4>1, <4>2 DEF EnumChange
    <3> QED
      BY <3>1, <3>2
  <2>3. ASSUME NEW k \in T, k \notin DOMAIN s, c \in ToSet(dr[k])
        PROVE  EnumChange(c, s, t, ToSet(p))
    <3>1. c = Plain("drop_enum", k)
      BY <1>4, <2>3
    <3>2. c.on = k
      BY <3>1 DEF Change, Plain
    <3> QED
      BY <1>7, <2>3, <3>1, <3>2 DEF EnumChange
  <2> QED
    BY <1>8, <2>1, <2>2, <2>3 DEF Compares
<1>10. ASSUME p = <<>> PROVE S = T /\ \A k \in S : s[k].labels = t[k].labels
  <2>1. \A k \in S : k \in DOMAIN t /\ (same[k] \/ al[k] = <<>>)
    BY <1>3, <1>8, <1>10 DEF Compares
  <2>2. \A k \in S : s[k].labels = t[k].labels
    BY <1>3, <1>31, <1>6, <2>1
  <2>3. \A k \in T : k \in DOMAIN s
    BY <1>4, <1>8, <1>10 DEF Compares
  <2> QED
    BY <1>7, <2>1, <2>2, <2>3
<1> QED
  BY <1>8, <1>9, <1>10 DEF p, S, T, Compares

(* Columns. *)
LEMMA JoinedThree ==
  ASSUME NEW a, IsSeq(a), NEW b, IsSeq(b), NEW c, IsSeq(c)
  PROVE  /\ IsSeq(a \o b \o c) /\ ToSet(a \o b \o c) = ToSet(a) \cup ToSet(b) \cup ToSet(c)
         /\ a \o b \o c = <<>> <=> a = <<>> /\ b = <<>> /\ c = <<>>
<1> DEFINE d == a \o b
<1>1. /\ IsSeq(d) /\ ToSet(d) = ToSet(a) \cup ToSet(b)
      /\ d = <<>> <=> a = <<>> /\ b = <<>>
  BY Joined
<1> HIDE DEF d
<1>2. /\ IsSeq(d \o c) /\ ToSet(d \o c) = ToSet(d) \cup ToSet(c)
      /\ d \o c = <<>> <=> d = <<>> /\ c = <<>>
  BY <1>1, Joined
<1> QED
  BY <1>1, <1>2 DEF d

IsReadColumn(v) ==
  /\ v = [type |-> v.type, notnull |-> v.notnull, default |-> v.default,
          identity |-> v.identity, generated |-> v.generated, serial |-> v.serial,
          hidden |-> v.hidden]
  /\ {v.notnull, v.serial} \subseteq BOOLEAN
  /\ v.identity # "none" => v.default = NoExpr /\ ~v.serial

OneColumnChange(c, k, s, t) ==
  \/ c = Change("regenerate_column", k, s, FALSE)
  \/ c = Change("alter_column_type", k, s.type, FALSE)
  \/ c = Change("add_identity", k, s.identity, FALSE)
  \/ c = Plain("drop_identity", k)
  \/ c = Change("set_identity_kind", k, s.identity, FALSE)
  \/ c = SetDefault(k, s)
  \/ c = Plain("drop_default", k)
  \/ c = Plain("make_serial", k) /\ s.serial
  \/ c = Plain("drop_serial", k)
  \/ c = Plain("set_not_null", k)
  \/ c = Plain("drop_not_null", k)
  \/ c = Change("set_column_visibility", k, s.hidden, FALSE)

LEMMA OneColumnChanges ==
  ASSUME NEW k, NEW s, IsReadColumn(s), NEW t, IsReadColumn(t)
  PROVE  LET p == DiffOneColumn(k, s, t) IN
         /\ IsSeq(p) /\ \A c \in ToSet(p) : OneColumnChange(c, k, s, t)
         /\ p = <<>> => SemanticEq(s, t)
<1>1. CASE s.generated # t.generated
  <2>1. DiffOneColumn(k, s, t) = <<Change("regenerate_column", k, s, FALSE)>>
    BY <1>1 DEF DiffOneColumn
  <2>2. IsSeq(DiffOneColumn(k, s, t)) /\ DiffOneColumn(k, s, t) # <<>>
        /\ ToSet(DiffOneColumn(k, s, t)) = {Change("regenerate_column", k, s, FALSE)}
    BY <2>1, Listed
  <2> QED
    BY <2>2 DEF OneColumnChange
<1>2. CASE s.generated = t.generated
  <2> DEFINE a == When(s.type # t.type, Change("alter_column_type", k, s.type, FALSE))
             b == DiffIdentity(k, s, t)
             c == DiffDefault(k, s, t)
             d == When(s.notnull /\ ~t.notnull, Plain("set_not_null", k))
             e == When(~s.notnull /\ t.notnull, Plain("drop_not_null", k))
             f == When(s.hidden # t.hidden, Change("set_column_visibility", k, s.hidden, FALSE))
             Ok(x) == OneColumnChange(x, k, s, t)
  <2>1. DiffOneColumn(k, s, t) = a \o b \o c \o d \o e \o f
    BY <1>2 DEF DiffOneColumn
  <2>2. IsSeq(a) /\ (a = <<>> <=> s.type = t.type) /\ \A x \in ToSet(a) : Ok(x)
    BY WhenIs DEF OneColumnChange
  <2>3. IsSeq(b) /\ (b = <<>> <=> s.identity = t.identity) /\ \A x \in ToSet(b) : Ok(x)
    <3>1. b = IF t.identity = s.identity THEN <<>>
              ELSE IF t.identity = "none" THEN <<Change("add_identity", k, s.identity, FALSE)>>
              ELSE IF s.identity = "none" THEN <<Plain("drop_identity", k)>>
              ELSE <<Change("set_identity_kind", k, s.identity, FALSE)>>
      BY DEF DiffIdentity
    <3>2. /\ IsSeq(<<>>) /\ ToSet(<<>>) = {}
          /\ \A x \in {Change("add_identity", k, s.identity, FALSE), Plain("drop_identity", k),
                      Change("set_identity_kind", k, s.identity, FALSE)} :
               IsSeq(<<x>>) /\ ToSet(<<x>>) = {x} /\ <<x>> # <<>> /\ Ok(x)
      BY Listed DEF OneColumnChange
    <3> HIDE DEF b, Ok
    <3> QED
      BY <3>1, <3>2
  <2>4. IsSeq(d) /\ (d = <<>> <=> ~(s.notnull /\ ~t.notnull)) /\ \A x \in ToSet(d) : Ok(x)
    BY WhenIs DEF OneColumnChange
  <2>5. IsSeq(e) /\ (e = <<>> <=> ~(~s.notnull /\ t.notnull)) /\ \A x \in ToSet(e) : Ok(x)
    BY WhenIs DEF OneColumnChange
  <2>6. IsSeq(f) /\ (f = <<>> <=> s.hidden = t.hidden) /\ \A x \in ToSet(f) : Ok(x)
    BY WhenIs DEF OneColumnChange
  <2>7. /\ IsSeq(c) /\ \A x \in ToSet(c) : Ok(x)
        /\ c = <<>> => \/ s.identity # "none" \/ t.identity # "none"
                       \/ s.serial /\ t.serial
                       \/ ~s.serial /\ ~t.serial /\ s.default = t.default
    <3>1. CASE s.identity # "none" \/ t.identity # "none"
      BY <3>1, Listed DEF DiffDefault
    <3>2. CASE ~(s.identity # "none" \/ t.identity # "none") /\ s.serial
      <4>1. c = When(~t.serial, Plain("make_serial", k))
        BY <3>2 DEF DiffDefault
      <4>2. t.serial \in BOOLEAN
        BY DEF IsReadColumn
      <4> HIDE DEF c
      <4> QED
        BY <3>2, <4>1, <4>2, WhenIs DEF OneColumnChange
    <3>3. CASE ~(s.identity # "none" \/ t.identity # "none") /\ ~s.serial /\ t.serial
      <4> DEFINE g == <<Plain("drop_serial", k)>>  h == When(s.default # NoExpr, SetDefault(k, s))
      <4>1. c = g \o h
        BY <3>3 DEF DiffDefault
      <4>2. IsSeq(g) /\ ToSet(g) = {Plain("drop_serial", k)} /\ g # <<>>
        BY Listed
      <4>3. IsSeq(h) /\ ToSet(h) \subseteq {SetDefault(k, s)}
        BY WhenIs
      <4> HIDE DEF c, g, h
      <4>4. IsSeq(c) /\ ToSet(c) = ToSet(g) \cup ToSet(h) /\ c # <<>>
        BY <4>1, <4>2, <4>3, Joined
      <4> QED
        BY <4>2, <4>3, <4>4 DEF OneColumnChange
    <3>4. CASE ~(s.identity # "none" \/ t.identity # "none") /\ ~s.serial /\ ~t.serial
      <4>1. c = IF s.default = t.default THEN <<>>
                ELSE IF s.default = NoExpr THEN <<Plain("drop_default", k)>>
                ELSE <<SetDefault(k, s)>>
        BY <3>4 DEF DiffDefault
      <4>2. /\ IsSeq(<<>>) /\ ToSet(<<>>) = {}
            /\ \A x \in {Plain("drop_default", k), SetDefault(k, s)} :
                 IsSeq(<<x>>) /\ ToSet(<<x>>) = {x} /\ <<x>> # <<>> /\ Ok(x)
        BY Listed DEF OneColumnChange
      <4> HIDE DEF c, Ok
      <4> QED
        BY <3>4, <4>1, <4>2
    <3>5. s.serial \in BOOLEAN /\ t.serial \in BOOLEAN
      BY DEF IsReadColumn
    <3> QED
      BY <3>1, <3>2, <3>3, <3>4, <3>5
  <2> HIDE DEF a, b, c, d, e, f, Ok
  <2> DEFINE abc == a \o b \o c
  <2>8. /\ IsSeq(abc) /\ ToSet(abc) = ToSet(a) \cup ToSet(b) \cup ToSet(c)
        /\ abc = <<>> <=> a = <<>> /\ b = <<>> /\ c = <<>>
    BY <2>2, <2>3, <2>7, JoinedThree
  <2> HIDE DEF abc
  <2> DEFINE abcde == abc \o d \o e
  <2>9. /\ IsSeq(abcde) /\ ToSet(abcde) = ToSet(abc) \cup ToSet(d) \cup ToSet(e)
        /\ abcde = <<>> <=> abc = <<>> /\ d = <<>> /\ e = <<>>
    BY <2>4, <2>5, <2>8, JoinedThree
  <2> HIDE DEF abcde
  <2>10. /\ IsSeq(abcde \o f) /\ ToSet(abcde \o f) = ToSet(abcde) \cup ToSet(f)
         /\ abcde \o f = <<>> <=> abcde = <<>> /\ f = <<>>
    BY <2>6, <2>9, Joined
  <2>11. DiffOneColumn(k, s, t) = abcde \o f
    BY <2>1 DEF abcde, abc
  <2> DEFINE p == DiffOneColumn(k, s, t)
  <2>12. /\ IsSeq(p) /\ \A x \in ToSet(p) : Ok(x)
         /\ p = <<>> => a = <<>> /\ b = <<>> /\ c = <<>> /\ d = <<>> /\ e = <<>> /\ f = <<>>
    BY <2>2, <2>3, <2>4, <2>5, <2>6, <2>7, <2>8, <2>9, <2>10, <2>11
  <2>13. ASSUME p = <<>> PROVE SemanticEq(s, t)
    <3>1. /\ s.type = t.type /\ s.identity = t.identity /\ s.hidden = t.hidden
          /\ s.generated = t.generated
          /\ ~(s.notnull /\ ~t.notnull) /\ ~(~s.notnull /\ t.notnull)
          /\ \/ s.identity # "none" \/ t.identity # "none"
             \/ s.serial /\ t.serial
             \/ ~s.serial /\ ~t.serial /\ s.default = t.default
      BY <1>2, <2>2, <2>3, <2>4, <2>5, <2>6, <2>7, <2>12, <2>13
    <3>2. /\ s.notnull \in BOOLEAN /\ t.notnull \in BOOLEAN
          /\ s.serial \in BOOLEAN /\ t.serial \in BOOLEAN
          /\ s.identity # "none" => s.default = NoExpr /\ ~s.serial
          /\ t.identity # "none" => t.default = NoExpr /\ ~t.serial
      BY DEF IsReadColumn
    <3>3. s.notnull = t.notnull /\ s.serial = t.serial /\ (s.serial \/ s.default = t.default)
      BY <3>1, <3>2
    <3>4. DOMAIN s = {"type", "notnull", "default", "identity", "generated", "serial", "hidden"}
      BY DEF IsReadColumn
    <3> QED
      BY <3>1, <3>3, <3>4 DEF SemanticEq
  <2> QED
    BY <2>12, <2>13 DEF Ok
<1> QED
  BY <1>1, <1>2

ColumnChange(c, s, t, all) ==
  LET k == c.on IN
  /\ k[1] = "column"
  /\ \/ c = Change("add_column", k, s[k], FALSE) /\ k \in DOMAIN s
     \/ c = Plain("drop_column", k) /\ k \in DOMAIN t
     \/ k \in DOMAIN s \cap DOMAIN t /\ OneColumnChange(c, k, s[k], t[k])

LEMMA ColumnChanges ==
  ASSUME NEW s, IsCatalog(s), NEW t, IsCatalog(t), NEW q,
         \A k \in OfKind(s, "column") : IsReadColumn(s[k]),
         \A k \in OfKind(t, "column") : IsReadColumn(t[k])
  PROVE  LET p == DiffColumns(q, s, t) IN
         /\ IsSeq(p) /\ \A c \in ToSet(p) : ColumnChange(c, s, t, ToSet(p))
         /\ p = <<>> => /\ PiecesOf(s, "column", q) = PiecesOf(t, "column", q)
                        /\ \A k \in PiecesOf(s, "column", q) : SemanticEq(s[k], t[k])
<1> DEFINE ks == Parts(s, "column", q)  kt == Parts(t, "column", q)
           S == PiecesOf(s, "column", q)  T == PiecesOf(t, "column", q)
           same == [k \in S |-> SemanticEq(s[k], t[k])]
           cr == [k \in S |-> <<Change("add_column", k, s[k], FALSE)>>]
           al == [k \in S |-> DiffOneColumn(k, s[k], t[k])]
           dr == [k \in T |-> <<Plain("drop_column", k)>>]
           p == DiffColumns(q, s, t)
<1>1. IsSeq(ks) /\ ToSet(ks) = S /\ IsSeq(kt) /\ ToSet(kt) = T
  BY SMTT(60), KeysAre
<1> HIDE DEF ks, kt
<1>2. p = Comparison(ks, kt, S, T, s, t, same, cr, al, dr)
  <2>1. (\A i \in DOMAIN ks : ks[i] \in S) /\ (\A i \in DOMAIN kt : kt[i] \in T)
    BY <1>1 DEF ToSet
  <2> QED
    BY <2>1 DEF DiffColumns, Compare, Each, Comparison, Pass, ks, kt
<1>3. \A k \in S : ToSet(cr[k]) = {Change("add_column", k, s[k], FALSE)} /\ cr[k] # <<>> /\ IsSeq(cr[k])
  BY Listed
<1>31. \A k \in S : k \in DOMAIN t =>
         /\ IsSeq(al[k]) /\ \A c \in ToSet(al[k]) : OneColumnChange(c, k, s[k], t[k])
         /\ al[k] = <<>> => SemanticEq(s[k], t[k])
  <2> SUFFICES ASSUME NEW k \in S, k \in DOMAIN t
               PROVE  /\ IsSeq(al[k]) /\ \A c \in ToSet(al[k]) : OneColumnChange(c, k, s[k], t[k])
                      /\ al[k] = <<>> => SemanticEq(s[k], t[k])
    OBVIOUS
  <2>1. IsReadColumn(s[k]) /\ IsReadColumn(t[k])
    BY DEF OfKind, PiecesOf, PartsOf
  <2> QED
    BY <2>1, OneColumnChanges
<1>4. \A k \in T : ToSet(dr[k]) = {Plain("drop_column", k)} /\ dr[k] # <<>> /\ IsSeq(dr[k])
  BY Listed
<1>5. /\ \A k \in S : IsSeq(cr[k]) /\ (k \in DOMAIN t => IsSeq(al[k]))
      /\ \A k \in T : IsSeq(dr[k])
  <2> HIDE DEF cr, al, dr
  <2> QED
    BY <1>3, <1>31, <1>4
<1>6. \A k \in S : same[k] <=> SemanticEq(s[k], t[k])
  OBVIOUS
<1>7. /\ \A k \in S : k \in DOMAIN s /\ k[1] = "column" /\ (k \in DOMAIN t => k \in T)
      /\ \A k \in T : k \in DOMAIN t /\ k[1] = "column" /\ (k \in DOMAIN s => k \in S)
  BY DEF OfKind, PiecesOf, PartsOf
<1> HIDE DEF same, cr, al, dr, p, S, T
<1>8. Compares(p, S, T, s, t, same, cr, al, dr)
  BY <1>1, <1>5, <1>2, ComparisonIs
<1>9. ASSUME NEW c \in ToSet(p) PROVE ColumnChange(c, s, t, ToSet(p))
  <2>1. ASSUME NEW k \in S, k \notin DOMAIN t, c \in ToSet(cr[k])
        PROVE  ColumnChange(c, s, t, ToSet(p))
    <3>1. c = Change("add_column", k, s[k], FALSE)
      BY <1>3, <2>1
    <3>2. c.on = k
      BY <3>1 DEF Change
    <3> QED
      BY <1>7, <2>1, <3>1, <3>2 DEF ColumnChange
  <2>2. ASSUME NEW k \in S, k \in DOMAIN t, ~same[k], c \in ToSet(al[k])
        PROVE  ColumnChange(c, s, t, ToSet(p))
    <3>1. OneColumnChange(c, k, s[k], t[k])
      BY <1>31, <2>2
    <3>2. c.on = k
      BY <3>1 DEF Change, Plain, SetDefault, OneColumnChange
    <3> QED
      BY <1>7, <2>2, <3>1, <3>2 DEF ColumnChange
  <2>3. ASSUME NEW k \in T, k \notin DOMAIN s, c \in ToSet(dr[k])
        PROVE  ColumnChange(c, s, t, ToSet(p))
    <3>1. c = Plain("drop_column", k)
      BY <1>4, <2>3
    <3>2. c.on = k
      BY <3>1 DEF Change, Plain
    <3> QED
      BY <1>7, <2>3, <3>1, <3>2 DEF ColumnChange
  <2> QED
    BY <1>8, <2>1, <2>2, <2>3 DEF Compares
<1>10. ASSUME p = <<>> PROVE S = T /\ \A k \in S : SemanticEq(s[k], t[k])
  <2>1. \A k \in S : k \in DOMAIN t /\ (same[k] \/ al[k] = <<>>)
    BY <1>3, <1>8, <1>10 DEF Compares
  <2>2. \A k \in S : SemanticEq(s[k], t[k])
    BY <1>31, <1>6, <2>1
  <2>3. \A k \in T : k \in DOMAIN s
    BY <1>4, <1>8, <1>10 DEF Compares
  <2> QED
    BY <1>7, <2>1, <2>2, <2>3
<1> QED
  BY <1>8, <1>9, <1>10 DEF p, S, T, Compares

(* Tables. *)
RlsChange(c, q) ==
  c \in {Plain("enable_rls", q), Plain("disable_rls", q), Plain("force_rls", q),
         Plain("unforce_rls", q)}

LEMMA RlsChanges ==
  ASSUME NEW q, NEW s, NEW t, {s[q].rls, s[q].forced, t[q].rls, t[q].forced} \subseteq BOOLEAN
  PROVE  LET p == DiffRls(q, s, t) IN
         /\ IsSeq(p) /\ \A c \in ToSet(p) : RlsChange(c, q)
         /\ p = <<>> => s[q].rls = t[q].rls /\ s[q].forced = t[q].forced
<1> DEFINE a == When(s[q].rls /\ ~t[q].rls, Plain("enable_rls", q))
           b == When(~s[q].rls /\ t[q].rls, Plain("disable_rls", q))
           c == When(s[q].forced /\ ~t[q].forced, Plain("force_rls", q))
           d == When(~s[q].forced /\ t[q].forced, Plain("unforce_rls", q))
           Ok(x) == RlsChange(x, q)
           p == DiffRls(q, s, t)
<1>1. p = a \o b \o c \o d
  BY DEF DiffRls
<1>2. IsSeq(a) /\ (a = <<>> <=> ~(s[q].rls /\ ~t[q].rls)) /\ \A x \in ToSet(a) : Ok(x)
  <2>1. /\ IsSeq(a) /\ (a = <<>> <=> ~(s[q].rls /\ ~t[q].rls))
        /\ ToSet(a) \subseteq {Plain("enable_rls", q)}
    BY WhenIs
  <2> HIDE DEF a
  <2> QED
    BY <2>1 DEF RlsChange
<1>3. IsSeq(b) /\ (b = <<>> <=> ~(~s[q].rls /\ t[q].rls)) /\ \A x \in ToSet(b) : Ok(x)
  <2>1. /\ IsSeq(b) /\ (b = <<>> <=> ~(~s[q].rls /\ t[q].rls))
        /\ ToSet(b) \subseteq {Plain("disable_rls", q)}
    BY WhenIs
  <2> HIDE DEF b
  <2> QED
    BY <2>1 DEF RlsChange
<1>4. IsSeq(c) /\ (c = <<>> <=> ~(s[q].forced /\ ~t[q].forced)) /\ \A x \in ToSet(c) : Ok(x)
  <2>1. /\ IsSeq(c) /\ (c = <<>> <=> ~(s[q].forced /\ ~t[q].forced))
        /\ ToSet(c) \subseteq {Plain("force_rls", q)}
    BY WhenIs
  <2> HIDE DEF c
  <2> QED
    BY <2>1 DEF RlsChange
<1>5. IsSeq(d) /\ (d = <<>> <=> ~(~s[q].forced /\ t[q].forced)) /\ \A x \in ToSet(d) : Ok(x)
  <2>1. /\ IsSeq(d) /\ (d = <<>> <=> ~(~s[q].forced /\ t[q].forced))
        /\ ToSet(d) \subseteq {Plain("unforce_rls", q)}
    BY WhenIs
  <2> HIDE DEF d
  <2> QED
    BY <2>1 DEF RlsChange
<1> HIDE DEF a, b, c, d, Ok, p
<1> DEFINE abc == a \o b \o c
<1>6. /\ IsSeq(abc) /\ ToSet(abc) = ToSet(a) \cup ToSet(b) \cup ToSet(c)
      /\ abc = <<>> <=> a = <<>> /\ b = <<>> /\ c = <<>>
  BY <1>2, <1>3, <1>4, JoinedThree
<1> HIDE DEF abc
<1>7. /\ IsSeq(abc \o d) /\ ToSet(abc \o d) = ToSet(abc) \cup ToSet(d)
      /\ abc \o d = <<>> <=> abc = <<>> /\ d = <<>>
  BY <1>5, <1>6, Joined
<1>8. p = abc \o d
  BY <1>1 DEF abc
<1>9. IsSeq(p) /\ \A x \in ToSet(p) : Ok(x)
  BY <1>2, <1>3, <1>4, <1>5, <1>6, <1>7, <1>8
<1>10. p = <<>> => a = <<>> /\ b = <<>> /\ c = <<>> /\ d = <<>>
  BY <1>6, <1>7, <1>8
<1>11. p = <<>> => s[q].rls = t[q].rls /\ s[q].forced = t[q].forced
  BY <1>2, <1>3, <1>4, <1>5, <1>10
<1> QED
  BY <1>9, <1>11 DEF p, Ok

(* A catalog as Introspect reads it. *)
IsReading(s) ==
  /\ IsCatalog(s)
  /\ \A k \in DOMAIN s :
       /\ k[1] = "enum" => s[k].labels \in Seq(STRING)
       /\ k[1] = "column" => IsReadColumn(s[k])
       /\ k[1] = "table" => {s[k].rls, s[k].forced} \subseteq BOOLEAN

TableChange(c, s, t, all) ==
  \/ c = CreateTable(s, c.on) /\ c.on \in DOMAIN s /\ c.on[1] = "table"
  \/ c = Plain("drop_table", c.on) /\ c.on \in DOMAIN t /\ c.on[1] = "table"
  \/ RlsChange(c, c.on) /\ c.on \in DOMAIN s \cap DOMAIN t /\ c.on[1] = "table"
  \/ ColumnChange(c, s, t, all) \/ ConstraintChange(c, s, t, all)
  \/ IndexChange(c, s, t, all) \/ PolicyChange(c, s, t, all)

TableSame(q, s, t) ==
  /\ s[q].partition = t[q].partition /\ s[q].rls = t[q].rls /\ s[q].forced = t[q].forced
  /\ PiecesOf(s, "column", q) = PiecesOf(t, "column", q)
  /\ \A k \in PiecesOf(s, "column", q) : SemanticEq(s[k], t[k])
  /\ PiecesOf(s, "constraint", q) = PiecesOf(t, "constraint", q)
  /\ \A k \in PiecesOf(s, "constraint", q) : s[k].def = t[k].def
  /\ PiecesOf(s, "index", q) = PiecesOf(t, "index", q)
  /\ \A k \in PiecesOf(s, "index", q) : s[k].def = t[k].def
  /\ PiecesOf(s, "policy", q) = PiecesOf(t, "policy", q)
  /\ \A k \in PiecesOf(s, "policy", q) : s[k] = t[k]

(* The more there is in a plan, the more of its pairs are whole. *)
LEMMA PairsGrow ==
  ASSUME NEW c, NEW s, NEW t, NEW few, NEW all, few \subseteq all
  PROVE  /\ ConstraintChange(c, s, t, few) => ConstraintChange(c, s, t, all)
         /\ IndexChange(c, s, t, few) => IndexChange(c, s, t, all)
         /\ PolicyChange(c, s, t, few) => PolicyChange(c, s, t, all)
         /\ ColumnChange(c, s, t, few) => ColumnChange(c, s, t, all)
         /\ ViewChange(c, s, t, few) => ViewChange(c, s, t, all)
         /\ RoutineChange(c, s, t, few) => RoutineChange(c, s, t, all)
         /\ TriggerChange(c, s, t, few) => TriggerChange(c, s, t, all)
<1>1. ConstraintChange(c, s, t, few) => ConstraintChange(c, s, t, all)
  BY DEF ConstraintChange
<1>2. IndexChange(c, s, t, few) => IndexChange(c, s, t, all)
  BY DEF IndexChange
<1>3. PolicyChange(c, s, t, few) => PolicyChange(c, s, t, all)
  BY DEF PolicyChange
<1>4. ColumnChange(c, s, t, few) => ColumnChange(c, s, t, all)
  BY DEF ColumnChange
<1>5. ViewChange(c, s, t, few) => ViewChange(c, s, t, all)
  BY DEF ViewChange
<1>6. RoutineChange(c, s, t, few) => RoutineChange(c, s, t, all)
  BY DEF RoutineChange
<1>7. TriggerChange(c, s, t, few) => TriggerChange(c, s, t, all)
  BY DEF TriggerChange
<1> QED
  BY <1>1, <1>2, <1>3, <1>4, <1>5, <1>6, <1>7

LEMMA OneTableChanges ==
  ASSUME NEW s, IsReading(s), NEW t, IsReading(t), NEW q \in DOMAIN s \cap DOMAIN t,
         q[1] = "table"
  PROVE  LET p == DiffOneTable(q, s, t) IN
         /\ IsSeq(p) /\ \A c \in ToSet(p) : TableChange(c, s, t, ToSet(p))
         /\ p = <<>> => TableSame(q, s, t)
<1> DEFINE p == DiffOneTable(q, s, t)
<1>1. CASE s[q].partition # t[q].partition
  <2>1. p = <<Plain("drop_table", q), CreateTable(s, q)>>
    BY <1>1 DEF DiffOneTable
  <2> HIDE DEF p
  <2>2. IsSeq(p) /\ p # <<>> /\ ToSet(p) = {Plain("drop_table", q), CreateTable(s, q)}
    BY <2>1, Listed
  <2>3. Plain("drop_table", q).on = q /\ CreateTable(s, q).on = q
    BY DEF Plain, CreateTable, Change
  <2> QED
    BY <2>2, <2>3 DEF TableChange, p
<1>2. CASE s[q].partition = t[q].partition
  <2> DEFINE a == DiffColumns(q, s, t)
             b == DiffConstraints(q, s, t)
             c == DiffIndexes(q, s, t)
             d == DiffRls(q, s, t)
             e == DiffPolicies(q, s, t)
  <2>1. p = a \o b \o c \o d \o e
    BY <1>2 DEF DiffOneTable
  <2>2. IsCatalog(s) /\ IsCatalog(t)
    BY DEF IsReading
  <2>3. /\ IsSeq(a) /\ \A x \in ToSet(a) : ColumnChange(x, s, t, ToSet(a))
        /\ a = <<>> => /\ PiecesOf(s, "column", q) = PiecesOf(t, "column", q)
                       /\ \A k \in PiecesOf(s, "column", q) : SemanticEq(s[k], t[k])
    <3>1. /\ \A k \in OfKind(s, "column") : IsReadColumn(s[k])
          /\ \A k \in OfKind(t, "column") : IsReadColumn(t[k])
      BY DEF OfKind, IsReading
    <3> QED
      BY <2>2, <3>1, ColumnChanges
  <2>4. /\ IsSeq(b) /\ \A x \in ToSet(b) : ConstraintChange(x, s, t, ToSet(b))
        /\ b = <<>> => /\ PiecesOf(s, "constraint", q) = PiecesOf(t, "constraint", q)
                       /\ \A k \in PiecesOf(s, "constraint", q) : s[k].def = t[k].def
    BY <2>2, ConstraintChanges
  <2>5. /\ IsSeq(c) /\ \A x \in ToSet(c) : IndexChange(x, s, t, ToSet(c))
        /\ c = <<>> => /\ PiecesOf(s, "index", q) = PiecesOf(t, "index", q)
                       /\ \A k \in PiecesOf(s, "index", q) : s[k].def = t[k].def
    BY <2>2, IndexChanges
  <2>6. /\ IsSeq(d) /\ \A x \in ToSet(d) : RlsChange(x, q)
        /\ d = <<>> => s[q].rls = t[q].rls /\ s[q].forced = t[q].forced
    <3>1. {s[q].rls, s[q].forced, t[q].rls, t[q].forced} \subseteq BOOLEAN
      BY DEF IsReading
    <3> QED
      BY <3>1, RlsChanges
  <2>7. /\ IsSeq(e) /\ \A x \in ToSet(e) : PolicyChange(x, s, t, ToSet(e))
        /\ e = <<>> => /\ PiecesOf(s, "policy", q) = PiecesOf(t, "policy", q)
                       /\ \A k \in PiecesOf(s, "policy", q) : s[k] = t[k]
    BY <2>2, PolicyChanges
  <2> HIDE DEF a, b, c, d, e, p
  <2> DEFINE abc == a \o b \o c
  <2>8. /\ IsSeq(abc) /\ ToSet(abc) = ToSet(a) \cup ToSet(b) \cup ToSet(c)
        /\ abc = <<>> <=> a = <<>> /\ b = <<>> /\ c = <<>>
    BY <2>3, <2>4, <2>5, JoinedThree
  <2> HIDE DEF abc
  <2>9. /\ IsSeq(abc \o d \o e) /\ ToSet(abc \o d \o e) = ToSet(abc) \cup ToSet(d) \cup ToSet(e)
        /\ abc \o d \o e = <<>> <=> abc = <<>> /\ d = <<>> /\ e = <<>>
    BY <2>6, <2>7, <2>8, JoinedThree
  <2>10. p = abc \o d \o e
    BY <2>1 DEF abc
  <2>11. /\ IsSeq(p)
         /\ ToSet(p) = ToSet(a) \cup ToSet(b) \cup ToSet(c) \cup ToSet(d) \cup ToSet(e)
         /\ p = <<>> => a = <<>> /\ b = <<>> /\ c = <<>> /\ d = <<>> /\ e = <<>>
    BY <2>8, <2>9, <2>10
  <2>12. ASSUME NEW x \in ToSet(p) PROVE TableChange(x, s, t, ToSet(p))
    <3>1. CASE x \in ToSet(a)
      <4>1. ToSet(a) \subseteq ToSet(p) /\ ColumnChange(x, s, t, ToSet(a))
        BY <2>3, <2>11, <3>1
      <4> QED
        BY <4>1, PairsGrow DEF TableChange
    <3>2. CASE x \in ToSet(b)
      <4>1. ToSet(b) \subseteq ToSet(p) /\ ConstraintChange(x, s, t, ToSet(b))
        BY <2>4, <2>11, <3>2
      <4> QED
        BY <4>1, PairsGrow DEF TableChange
    <3>3. CASE x \in ToSet(c)
      <4>1. ToSet(c) \subseteq ToSet(p) /\ IndexChange(x, s, t, ToSet(c))
        BY <2>5, <2>11, <3>3
      <4> QED
        BY <4>1, PairsGrow DEF TableChange
    <3>4. CASE x \in ToSet(d)
      <4>1. RlsChange(x, q)
        BY <2>6, <3>4
      <4>2. x.on = q
        BY <4>1 DEF RlsChange, Plain, Change
      <4> QED
        BY <4>1, <4>2 DEF TableChange
    <3>5. CASE x \in ToSet(e)
      <4>1. ToSet(e) \subseteq ToSet(p) /\ PolicyChange(x, s, t, ToSet(e))
        BY <2>7, <2>11, <3>5
      <4> QED
        BY <4>1, PairsGrow DEF TableChange
    <3> QED
      BY <2>11, <3>1, <3>2, <3>3, <3>4, <3>5
  <2>13. p = <<>> => TableSame(q, s, t)
    BY <1>2, <2>3, <2>4, <2>5, <2>6, <2>7, <2>11 DEF TableSame
  <2> QED
    BY <2>11, <2>12, <2>13 DEF p
<1> QED
  BY <1>1, <1>2

LEMMA TableChangesGrow ==
  ASSUME NEW c, NEW s, NEW t, NEW few, NEW all, few \subseteq all, TableChange(c, s, t, few)
  PROVE  TableChange(c, s, t, all)
BY PairsGrow DEF TableChange

LEMMA TableChanges ==
  ASSUME NEW s, IsCatalog(s), NEW t, IsCatalog(t), IsReading(s), IsReading(t)
  PROVE  LET p == DiffTables(s, t) IN
         /\ IsSeq(p) /\ \A c \in ToSet(p) : TableChange(c, s, t, ToSet(p))
         /\ p = <<>> => OfKind(s, "table") = OfKind(t, "table") /\ \A k \in OfKind(s, "table") : TableSame(k, s, t)
<1> DEFINE ks == Keys(s, "table")  kt == Keys(t, "table")
           S == OfKind(s, "table")  T == OfKind(t, "table")
           same == [k \in S |-> FALSE]
           cr == [k \in S |-> <<CreateTable(s, k)>>]
           al == [k \in S |-> DiffOneTable(k, s, t)]
           dr == [k \in T |-> <<Plain("drop_table", k)>>]
           p == DiffTables(s, t)
<1>1. IsSeq(ks) /\ ToSet(ks) = S /\ IsSeq(kt) /\ ToSet(kt) = T
  BY KeysAre
<1> HIDE DEF ks, kt
<1>2. p = Comparison(ks, kt, S, T, s, t, same, cr, al, dr)
  <2>1. (\A i \in DOMAIN ks : ks[i] \in S) /\ (\A i \in DOMAIN kt : kt[i] \in T)
    BY <1>1 DEF ToSet
  <2> QED
    BY <2>1 DEF DiffTables, Compare, Each, Comparison, Pass, ks, kt
<1>3. \A k \in S : ToSet(cr[k]) = {CreateTable(s, k)} /\ cr[k] # <<>> /\ IsSeq(cr[k])
  BY Listed
<1>31. \A k \in S : k \in DOMAIN t =>
         /\ IsSeq(al[k]) /\ \A c \in ToSet(al[k]) : TableChange(c, s, t, ToSet(al[k]))
         /\ al[k] = <<>> => TableSame(k, s, t)
  <2> SUFFICES ASSUME NEW k \in S, k \in DOMAIN t
               PROVE  /\ IsSeq(al[k]) /\ \A c \in ToSet(al[k]) : TableChange(c, s, t, ToSet(al[k]))
                      /\ al[k] = <<>> => TableSame(k, s, t)
    OBVIOUS
  <2>1. k \in DOMAIN s \cap DOMAIN t /\ k[1] = "table"
    BY DEF OfKind
  <2> QED
    BY <2>1, OneTableChanges
<1>4. \A k \in T : ToSet(dr[k]) = {Plain("drop_table", k)} /\ dr[k] # <<>> /\ IsSeq(dr[k])
  BY Listed
<1>5. /\ \A k \in S : IsSeq(cr[k]) /\ (k \in DOMAIN t => IsSeq(al[k]))
      /\ \A k \in T : IsSeq(dr[k])
  <2> HIDE DEF cr, al, dr
  <2> QED
    BY <1>3, <1>31, <1>4
<1>6. \A k \in S : same[k] <=> FALSE
  OBVIOUS
<1>7. /\ \A k \in S : k \in DOMAIN s /\ k[1] = "table" /\ (k \in DOMAIN t => k \in T)
      /\ \A k \in T : k \in DOMAIN t /\ k[1] = "table" /\ (k \in DOMAIN s => k \in S)
  BY DEF OfKind, PiecesOf, PartsOf
<1> HIDE DEF same, cr, al, dr, p, S, T
<1>8. Compares(p, S, T, s, t, same, cr, al, dr)
  BY <1>1, <1>5, <1>2, ComparisonIs
<1>9. ASSUME NEW c \in ToSet(p) PROVE TableChange(c, s, t, ToSet(p))
  <2>1. ASSUME NEW k \in S, k \notin DOMAIN t, c \in ToSet(cr[k])
        PROVE  TableChange(c, s, t, ToSet(p))
    <3>1. c = CreateTable(s, k)
      BY <1>3, <2>1
    <3>2. c.on = k
      BY <3>1 DEF Change, CreateTable
    <3> QED
      BY <1>7, <2>1, <3>1, <3>2 DEF TableChange
  <2>2. ASSUME NEW k \in S, k \in DOMAIN t, ~same[k], c \in ToSet(al[k])
        PROVE  TableChange(c, s, t, ToSet(p))
    <3>1. TableChange(c, s, t, ToSet(al[k])) /\ ToSet(al[k]) \subseteq ToSet(p)
      BY <1>31, <1>8, <2>2 DEF Compares
    <3> QED
      BY <3>1, TableChangesGrow
  <2>3. ASSUME NEW k \in T, k \notin DOMAIN s, c \in ToSet(dr[k])
        PROVE  TableChange(c, s, t, ToSet(p))
    <3>1. c = Plain("drop_table", k)
      BY <1>4, <2>3
    <3>2. c.on = k
      BY <3>1 DEF Change, Plain
    <3> QED
      BY <1>7, <2>3, <3>1, <3>2 DEF TableChange
  <2> QED
    BY <1>8, <2>1, <2>2, <2>3 DEF Compares
<1>10. ASSUME p = <<>> PROVE S = T /\ \A k \in S : TableSame(k, s, t)
  <2>1. \A k \in S : k \in DOMAIN t /\ (same[k] \/ al[k] = <<>>)
    BY <1>3, <1>8, <1>10 DEF Compares
  <2>2. \A k \in S : TableSame(k, s, t)
    BY <1>31, <1>6, <2>1
  <2>3. \A k \in T : k \in DOMAIN s
    BY <1>4, <1>8, <1>10 DEF Compares
  <2> QED
    BY <1>7, <2>1, <2>2, <2>3
<1> QED
  BY <1>8, <1>9, <1>10 DEF p, S, T, Compares

(* Schemas. *)
SchemaChange(c, s, t) ==
  LET k == c.on IN
  /\ k[1] = "schema"
  /\ \/ c = Plain("create_schema", k) /\ k \in DOMAIN s
     \/ c = Plain("drop_schema", k) /\ k \in DOMAIN t /\ k[2] # Public

LEMMA SchemaChanges ==
  ASSUME NEW s, IsCatalog(s), NEW t, IsCatalog(t)
  PROVE  LET p == DiffSchemas(s, t) IN
         /\ IsSeq(p) /\ \A c \in ToSet(p) : SchemaChange(c, s, t)
         /\ p = <<>> => /\ \A k \in OfKind(s, "schema") : k \in DOMAIN t \/ k[2] = Public
                        /\ \A k \in OfKind(t, "schema") : k \in DOMAIN s \/ k[2] = Public
<1> DEFINE ks == Keys(s, "schema")  kt == Keys(t, "schema")
           S == OfKind(s, "schema")  T == OfKind(t, "schema")
           New(k) == k \notin DOMAIN t /\ (UsesSchema(s, k[2]) \/ k[2] # Public)
           Old(k) == k[2] # Public /\ k \notin DOMAIN s
           gs == [k \in S |-> When(New(k), Plain("create_schema", k))]
           gt == [k \in T |-> When(Old(k), Plain("drop_schema", k))]
           p == DiffSchemas(s, t)
<1>1. IsSeq(ks) /\ ToSet(ks) = S /\ IsSeq(kt) /\ ToSet(kt) = T
  BY KeysAre
<1> HIDE DEF ks, kt
<1>2. p = Pass(ks, gs) \o Pass(kt, gt)
  <2>1. (\A i \in DOMAIN ks : ks[i] \in S) /\ (\A i \in DOMAIN kt : kt[i] \in T)
    BY <1>1 DEF ToSet
  <2> QED
    BY <2>1 DEF DiffSchemas, Each, Pass, ks, kt
<1>3. /\ \A k \in S : New(k) \in BOOLEAN /\ gs[k] = When(New(k), Plain("create_schema", k))
      /\ \A k \in T : Old(k) \in BOOLEAN /\ gt[k] = When(Old(k), Plain("drop_schema", k))
  OBVIOUS
<1>4. \A k \in S : k \in DOMAIN s /\ k[1] = "schema" /\ (New(k) \/ k \in DOMAIN t \/ k[2] = Public)
  BY DEF OfKind
<1>5. \A k \in T : k \in DOMAIN t /\ k[1] = "schema" /\ (Old(k) => k[2] # Public)
                  /\ (Old(k) \/ k \in DOMAIN s \/ k[2] = Public)
  BY DEF OfKind
<1> HIDE DEF New, Old, gs, gt, p, S, T
<1>6. \A k \in S : /\ IsSeq(gs[k]) /\ (gs[k] = <<>> <=> ~New(k))
                   /\ ToSet(gs[k]) \subseteq {Plain("create_schema", k)}
  BY <1>3, WhenIs
<1>7. \A k \in T : /\ IsSeq(gt[k]) /\ (gt[k] = <<>> <=> ~Old(k))
                   /\ \A x \in ToSet(gt[k]) : Old(k) /\ x = Plain("drop_schema", k)
  BY <1>3, WhenIs
<1>8. /\ IsSeq(p)
      /\ \A c : c \in ToSet(p) <=> \/ \E k \in S : c \in ToSet(gs[k])
                                   \/ \E k \in T : c \in ToSet(gt[k])
      /\ p = <<>> => (\A k \in S : gs[k] = <<>>) /\ (\A k \in T : gt[k] = <<>>)
  <2>1. (\A k \in ToSet(ks) : IsSeq(gs[k])) /\ (\A k \in ToSet(kt) : IsSeq(gt[k]))
    BY <1>1, <1>6, <1>7
  <2>2. LET r == Pass(ks, gs) \o Pass(kt, gt) IN
        /\ IsSeq(r)
        /\ \A c : c \in ToSet(r) <=> \/ \E k \in ToSet(ks) : c \in ToSet(gs[k])
                                     \/ \E k \in ToSet(kt) : c \in ToSet(gt[k])
        /\ r = <<>> => /\ \A k \in ToSet(ks) : gs[k] = <<>>
                       /\ \A k \in ToSet(kt) : gt[k] = <<>>
    BY <1>1, <2>1, TwoPasses
  <2> QED
    BY <1>1, <1>2, <2>2
<1>9. ASSUME NEW c \in ToSet(p) PROVE SchemaChange(c, s, t)
  <2>1. ASSUME NEW k \in S, c \in ToSet(gs[k]) PROVE SchemaChange(c, s, t)
    <3>1. c = Plain("create_schema", k)
      BY <1>6, <2>1
    <3>2. c.on = k
      BY <3>1 DEF Plain, Change
    <3> QED
      BY <1>4, <3>1, <3>2 DEF SchemaChange
  <2>2. ASSUME NEW k \in T, c \in ToSet(gt[k]) PROVE SchemaChange(c, s, t)
    <3>1. c = Plain("drop_schema", k) /\ Old(k)
      BY <1>7, <2>2
    <3>2. c.on = k
      BY <3>1 DEF Plain, Change
    <3> QED
      BY <1>5, <3>1, <3>2 DEF SchemaChange
  <2> QED
    BY <1>8, <2>1, <2>2
<1>10. p = <<>> => /\ \A k \in S : k \in DOMAIN t \/ k[2] = Public
                   /\ \A k \in T : k \in DOMAIN s \/ k[2] = Public
  BY <1>4, <1>5, <1>6, <1>7, <1>8
<1> QED
  BY <1>8, <1>9, <1>10 DEF p, S, T

(* Extensions. *)
ExtensionChange(c, s, t) ==
  LET k == c.on IN
  /\ k[1] = "extension"
  /\ \/ c = Change("create_extension", k, s[k], FALSE) /\ k \in DOMAIN s
     \/ c = Change("move_extension", k, s[k], FALSE) /\ k \in DOMAIN s \cap DOMAIN t
     \/ c = Plain("drop_extension", k) /\ k \in DOMAIN t

LEMMA ExtensionChanges ==
  ASSUME NEW s, IsCatalog(s), NEW t, IsCatalog(t)
  PROVE  LET p == DiffExtensions(s, t) IN
         /\ IsSeq(p) /\ \A c \in ToSet(p) : ExtensionChange(c, s, t)
         /\ p = <<>> => /\ OfKind(s, "extension") = OfKind(t, "extension")
                        /\ \A k \in OfKind(s, "extension") : s[k].schema = t[k].schema
<1> DEFINE ks == Keys(s, "extension")  kt == Keys(t, "extension")
           S == OfKind(s, "extension")  T == OfKind(t, "extension")
           New(k) == k \notin DOMAIN t
           Moved(k) == IF k \in DOMAIN t THEN s[k].schema # t[k].schema ELSE FALSE
           Old(k) == k \notin DOMAIN s
           ga == [k \in S |-> When(New(k), Change("create_extension", k, s[k], FALSE))]
           gb == [k \in S |-> When(Moved(k), Change("move_extension", k, s[k], FALSE))]
           gc == [k \in T |-> When(Old(k), Plain("drop_extension", k))]
           a == Pass(ks, ga)  b == Pass(ks, gb)  c == Pass(kt, gc)
           p == DiffExtensions(s, t)
           Ok(x) == ExtensionChange(x, s, t)
<1>1. IsSeq(ks) /\ ToSet(ks) = S /\ IsSeq(kt) /\ ToSet(kt) = T
  BY SMTT(60), KeysAre
<1> HIDE DEF ks, kt
<1>2. p = a \o b \o c
  <2>1. (\A i \in DOMAIN ks : ks[i] \in S) /\ (\A i \in DOMAIN kt : kt[i] \in T)
    BY <1>1 DEF ToSet
  <2> QED
    BY <2>1 DEF DiffExtensions, Each, Pass, ks, kt
<1>3. \A k \in S : /\ IsSeq(ga[k]) /\ (ga[k] = <<>> <=> ~New(k))
                   /\ ToSet(ga[k]) \subseteq {Change("create_extension", k, s[k], FALSE)}
  BY WhenIs
<1>4. \A k \in S : /\ IsSeq(gb[k]) /\ (gb[k] = <<>> <=> ~Moved(k))
                   /\ \A x \in ToSet(gb[k]) : /\ Moved(k)
                                              /\ x = Change("move_extension", k, s[k], FALSE)
  BY WhenIs
<1>5. \A k \in T : /\ IsSeq(gc[k]) /\ (gc[k] = <<>> <=> ~Old(k))
                   /\ ToSet(gc[k]) \subseteq {Plain("drop_extension", k)}
  BY WhenIs
<1>6. /\ \A k \in S : k \in DOMAIN s /\ k[1] = "extension" /\ (k \in DOMAIN t => k \in T)
      /\ \A k \in T : k \in DOMAIN t /\ k[1] = "extension" /\ (k \in DOMAIN s => k \in S)
  BY DEF OfKind
<1>7. \A k \in S : /\ New(k) <=> k \notin DOMAIN t
                   /\ Moved(k) => k \in DOMAIN t
                   /\ k \in DOMAIN t => (Moved(k) <=> s[k].schema # t[k].schema)
  OBVIOUS
<1>8. \A k \in T : Old(k) <=> k \notin DOMAIN s
  OBVIOUS
<1> HIDE DEF New, Moved, Old, ga, gb, gc, p, S, T
<1>9. /\ IsSeq(a) /\ \A x : x \in ToSet(a) <=> \E k \in S : x \in ToSet(ga[k])
      /\ a = <<>> <=> \A k \in S : ga[k] = <<>>
  <2>1. \A k \in ToSet(ks) : IsSeq(ga[k])
    BY <1>1, <1>3
  <2>2. /\ IsSeq(a) /\ \A x : x \in ToSet(a) <=> \E k \in ToSet(ks) : x \in ToSet(ga[k])
        /\ a = <<>> <=> \A k \in ToSet(ks) : ga[k] = <<>>
    BY <1>1, <2>1, PassIs
  <2> QED
    BY <1>1, <2>2
<1>10. /\ IsSeq(b) /\ \A x : x \in ToSet(b) <=> \E k \in S : x \in ToSet(gb[k])
       /\ b = <<>> <=> \A k \in S : gb[k] = <<>>
  <2>1. \A k \in ToSet(ks) : IsSeq(gb[k])
    BY <1>1, <1>4
  <2>2. /\ IsSeq(b) /\ \A x : x \in ToSet(b) <=> \E k \in ToSet(ks) : x \in ToSet(gb[k])
        /\ b = <<>> <=> \A k \in ToSet(ks) : gb[k] = <<>>
    BY <1>1, <2>1, PassIs
  <2> QED
    BY <1>1, <2>2
<1>11. /\ IsSeq(c) /\ \A x : x \in ToSet(c) <=> \E k \in T : x \in ToSet(gc[k])
       /\ c = <<>> <=> \A k \in T : gc[k] = <<>>
  <2>1. \A k \in ToSet(kt) : IsSeq(gc[k])
    BY <1>1, <1>5
  <2>2. /\ IsSeq(c) /\ \A x : x \in ToSet(c) <=> \E k \in ToSet(kt) : x \in ToSet(gc[k])
        /\ c = <<>> <=> \A k \in ToSet(kt) : gc[k] = <<>>
    BY <1>1, <2>1, PassIs
  <2> QED
    BY <1>1, <2>2
<1> HIDE DEF a, b, c
<1>12. /\ IsSeq(p) /\ ToSet(p) = ToSet(a) \cup ToSet(b) \cup ToSet(c)
       /\ p = <<>> <=> a = <<>> /\ b = <<>> /\ c = <<>>
  BY <1>2, <1>9, <1>10, <1>11, JoinedThree
<1>13. ASSUME NEW k \in S PROVE Ok(Change("create_extension", k, s[k], FALSE))
  <2>1. Change("create_extension", k, s[k], FALSE).on = k
    BY DEF Change
  <2> QED
    BY <1>6, <2>1 DEF ExtensionChange
<1>14. ASSUME NEW k \in S, k \in DOMAIN t PROVE Ok(Change("move_extension", k, s[k], FALSE))
  <2>1. Change("move_extension", k, s[k], FALSE).on = k
    BY DEF Change
  <2> QED
    BY <1>6, <1>14, <2>1 DEF ExtensionChange
<1>15. ASSUME NEW k \in T PROVE Ok(Plain("drop_extension", k))
  <2>1. Plain("drop_extension", k).on = k
    BY DEF Plain, Change
  <2> QED
    BY <1>6, <2>1 DEF ExtensionChange
<1> HIDE DEF Ok
<1>16. \A x \in ToSet(a) : Ok(x)
  BY <1>3, <1>9, <1>13
<1>17. ASSUME NEW x \in ToSet(b) PROVE Ok(x)
  <2>1. PICK k \in S : x \in ToSet(gb[k])
    BY <1>10
  <2>2. Moved(k) /\ x = Change("move_extension", k, s[k], FALSE)
    BY <1>4, <2>1
  <2>3. k \in DOMAIN t
    BY <1>7, <2>2
  <2> QED
    BY <1>14, <2>2, <2>3
<1>18. \A x \in ToSet(c) : Ok(x)
  BY <1>5, <1>11, <1>15
<1>19. \A x \in ToSet(p) : Ok(x)
  BY <1>12, <1>16, <1>17, <1>18
<1>20. ASSUME p = <<>> PROVE S = T /\ \A k \in S : s[k].schema = t[k].schema
  <2>1. \A k \in S : k \in DOMAIN t
    BY <1>3, <1>7, <1>9, <1>12, <1>20
  <2>2. \A k \in S : s[k].schema = t[k].schema
    BY <1>4, <1>7, <1>10, <1>12, <1>20, <2>1
  <2>3. \A k \in T : k \in DOMAIN s
    BY <1>5, <1>8, <1>11, <1>12, <1>20
  <2> QED
    BY <1>6, <2>1, <2>2, <2>3
<1> QED
  BY <1>12, <1>19, <1>20 DEF p, S, T, Ok

(* The whole plan. *)
Wants(c, s, t, all) ==
  \/ SchemaChange(c, s, t)
  \/ ExtensionChange(c, s, t)
  \/ EnumChange(c, s, t, all)
  \/ SequenceChange(c, s, t, all)
  \/ TableChange(c, s, t, all)
  \/ ViewChange(c, s, t, all)
  \/ RoutineChange(c, s, t, all)
  \/ TriggerChange(c, s, t, all)

SameCatalogs(s, t) ==
  /\ \A k \in OfKind(s, "schema") : k \in DOMAIN t \/ k[2] = Public
  /\ \A k \in OfKind(t, "schema") : k \in DOMAIN s \/ k[2] = Public
  /\ OfKind(s, "extension") = OfKind(t, "extension")
  /\ \A k \in OfKind(s, "extension") : s[k].schema = t[k].schema
  /\ OfKind(s, "enum") = OfKind(t, "enum")
  /\ \A k \in OfKind(s, "enum") : s[k].labels = t[k].labels
  /\ OfKind(s, "sequence") = OfKind(t, "sequence")
  /\ \A k \in OfKind(s, "sequence") : s[k] = t[k]
  /\ OfKind(s, "table") = OfKind(t, "table")
  /\ \A k \in OfKind(s, "table") : TableSame(k, s, t)
  /\ OfKind(s, "view") = OfKind(t, "view")
  /\ \A k \in OfKind(s, "view") : s[k] = t[k]
  /\ OfKind(s, "routine") = OfKind(t, "routine")
  /\ \A k \in OfKind(s, "routine") : s[k] = t[k]
  /\ OfKind(s, "trigger") = OfKind(t, "trigger")
  /\ \A k \in OfKind(s, "trigger") : s[k] = t[k]

LEMMA DiffIs ==
  ASSUME NEW s, IsReading(s), NEW t, IsReading(t), NEW flavor
  PROVE  LET p == Diff(s, t, flavor) IN
         /\ IsSeq(p) /\ \A c \in ToSet(p) : Wants(c, s, t, ToSet(p))
         /\ p = <<>> => SameCatalogs(s, t)
<1> DEFINE p == Diff(s, t, flavor)
           a == DiffSchemas(s, t)
           b == DiffExtensions(s, t)
           c == DiffEnums(s, t)
           d == DiffSequences(s, t)
           e == DiffTables(s, t)
           f == DiffViews(s, t)
           g == DiffFunctions(s, t)
           h == DiffTriggers(s, t, CycleTriggers(s, t, flavor))
<1>1. p = a \o b \o c \o d \o e \o f \o g \o h
  BY DEF Diff
<1>2. IsCatalog(s) /\ IsCatalog(t)
  BY DEF IsReading
<1>3. /\ IsSeq(a) /\ \A x \in ToSet(a) : SchemaChange(x, s, t)
      /\ a = <<>> => /\ \A k \in OfKind(s, "schema") : k \in DOMAIN t \/ k[2] = Public
                     /\ \A k \in OfKind(t, "schema") : k \in DOMAIN s \/ k[2] = Public
  BY <1>2, SchemaChanges
<1>4. /\ IsSeq(b) /\ \A x \in ToSet(b) : ExtensionChange(x, s, t)
      /\ b = <<>> => /\ OfKind(s, "extension") = OfKind(t, "extension")
                     /\ \A k \in OfKind(s, "extension") : s[k].schema = t[k].schema
  BY <1>2, ExtensionChanges
<1>5. /\ IsSeq(c) /\ \A x \in ToSet(c) : EnumChange(x, s, t, ToSet(c))
      /\ c = <<>> => /\ OfKind(s, "enum") = OfKind(t, "enum")
                     /\ \A k \in OfKind(s, "enum") : s[k].labels = t[k].labels
  <2>1. /\ \A k \in OfKind(s, "enum") : s[k].labels \in Seq(STRING)
        /\ \A k \in OfKind(t, "enum") : t[k].labels \in Seq(STRING)
    BY DEF OfKind, IsReading
  <2> QED
    BY <1>2, <2>1, EnumChanges
<1>6. /\ IsSeq(d) /\ \A x \in ToSet(d) : SequenceChange(x, s, t, ToSet(d))
      /\ d = <<>> => /\ OfKind(s, "sequence") = OfKind(t, "sequence")
                     /\ \A k \in OfKind(s, "sequence") : s[k] = t[k]
  BY <1>2, SequenceChanges
<1>7. /\ IsSeq(e) /\ \A x \in ToSet(e) : TableChange(x, s, t, ToSet(e))
      /\ e = <<>> => /\ OfKind(s, "table") = OfKind(t, "table")
                     /\ \A k \in OfKind(s, "table") : TableSame(k, s, t)
  BY <1>2, TableChanges
<1>8. /\ IsSeq(f) /\ \A x \in ToSet(f) : ViewChange(x, s, t, ToSet(f))
      /\ f = <<>> => /\ OfKind(s, "view") = OfKind(t, "view")
                     /\ \A k \in OfKind(s, "view") : s[k] = t[k]
  BY <1>2, ViewChanges
<1>9. /\ IsSeq(g) /\ \A x \in ToSet(g) : RoutineChange(x, s, t, ToSet(g))
      /\ g = <<>> => /\ OfKind(s, "routine") = OfKind(t, "routine")
                     /\ \A k \in OfKind(s, "routine") : s[k] = t[k]
  BY <1>2, RoutineChanges
<1>10. /\ IsSeq(h) /\ \A x \in ToSet(h) : TriggerChange(x, s, t, ToSet(h))
       /\ h = <<>> => /\ OfKind(s, "trigger") = OfKind(t, "trigger")
                      /\ \A k \in OfKind(s, "trigger") : s[k] = t[k]
  <2>1. CycleTriggers(s, t, flavor) \in BOOLEAN
    BY DEF CycleTriggers
  <2> QED
    BY <1>2, <2>1, TriggerChanges
<1> HIDE DEF p, a, b, c, d, e, f, g, h
<1> DEFINE abc == a \o b \o c
<1>11. /\ IsSeq(abc) /\ ToSet(abc) = ToSet(a) \cup ToSet(b) \cup ToSet(c)
       /\ abc = <<>> <=> a = <<>> /\ b = <<>> /\ c = <<>>
  BY <1>3, <1>4, <1>5, JoinedThree
<1> HIDE DEF abc
<1> DEFINE abcde == abc \o d \o e
<1>12. /\ IsSeq(abcde) /\ ToSet(abcde) = ToSet(abc) \cup ToSet(d) \cup ToSet(e)
       /\ abcde = <<>> <=> abc = <<>> /\ d = <<>> /\ e = <<>>
  BY <1>6, <1>7, <1>11, JoinedThree
<1> HIDE DEF abcde
<1> DEFINE most == abcde \o f \o g
<1>13. /\ IsSeq(most) /\ ToSet(most) = ToSet(abcde) \cup ToSet(f) \cup ToSet(g)
       /\ most = <<>> <=> abcde = <<>> /\ f = <<>> /\ g = <<>>
  BY <1>8, <1>9, <1>12, JoinedThree
<1> HIDE DEF most
<1>14. /\ IsSeq(most \o h) /\ ToSet(most \o h) = ToSet(most) \cup ToSet(h)
       /\ most \o h = <<>> <=> most = <<>> /\ h = <<>>
  BY <1>10, <1>13, Joined
<1>15. p = most \o h
  BY <1>1 DEF most, abcde, abc
<1>16. /\ IsSeq(p)
       /\ ToSet(p) = ToSet(a) \cup ToSet(b) \cup ToSet(c) \cup ToSet(d) \cup ToSet(e)
                       \cup ToSet(f) \cup ToSet(g) \cup ToSet(h)
  BY <1>11, <1>12, <1>13, <1>14, <1>15
<1>17. p = <<>> => /\ a = <<>> /\ b = <<>> /\ c = <<>> /\ d = <<>> /\ e = <<>> /\ f = <<>>
                   /\ g = <<>> /\ h = <<>>
  BY <1>11, <1>12, <1>13, <1>14, <1>15
<1>18. ASSUME NEW x \in ToSet(p) PROVE Wants(x, s, t, ToSet(p))
  <2>1. CASE x \in ToSet(a) \/ x \in ToSet(b)
    BY <1>3, <1>4, <2>1 DEF Wants
  <2>2. CASE x \in ToSet(c)
    <3>1. EnumChange(x, s, t, ToSet(p))
      BY <1>5, <2>2 DEF EnumChange
    <3> QED
      BY <3>1 DEF Wants
  <2>3. CASE x \in ToSet(d)
    <3>1. SequenceChange(x, s, t, ToSet(p))
      BY <1>6, <2>3 DEF SequenceChange
    <3> QED
      BY <3>1 DEF Wants
  <2>4. CASE x \in ToSet(e)
    <3>1. TableChange(x, s, t, ToSet(e)) /\ ToSet(e) \subseteq ToSet(p)
      BY <1>7, <1>16, <2>4
    <3> QED
      BY <3>1, TableChangesGrow DEF Wants
  <2>5. CASE x \in ToSet(f)
    <3>1. ViewChange(x, s, t, ToSet(f)) /\ ToSet(f) \subseteq ToSet(p)
      BY <1>8, <1>16, <2>5
    <3> QED
      BY <3>1, PairsGrow DEF Wants
  <2>6. CASE x \in ToSet(g)
    <3>1. RoutineChange(x, s, t, ToSet(g)) /\ ToSet(g) \subseteq ToSet(p)
      BY <1>9, <1>16, <2>6
    <3> QED
      BY <3>1, PairsGrow DEF Wants
  <2>7. CASE x \in ToSet(h)
    <3>1. TriggerChange(x, s, t, ToSet(h)) /\ ToSet(h) \subseteq ToSet(p)
      BY <1>10, <1>16, <2>7
    <3> QED
      BY <3>1, PairsGrow DEF Wants
  <2> QED
    BY <1>16, <2>1, <2>2, <2>3, <2>4, <2>5, <2>6, <2>7
<1>19. p = <<>> => SameCatalogs(s, t)
  BY <1>3, <1>4, <1>5, <1>6, <1>7, <1>8, <1>9, <1>10, <1>17 DEF SameCatalogs
<1> QED
  BY <1>16, <1>18, <1>19 DEF p

(***************************************************************************)
(* What introspection reads of a database.                                 *)
(***************************************************************************)
LEMMA ReadShape ==
  ASSUME NEW d, IsDatabase(d), NEW fl
  PROVE  LET s == Introspect(d, fl) IN
         /\ s = [id \in DOMAIN s |-> s[id]] /\ DOMAIN s = Visible(d, fl)
         /\ DOMAIN s \subseteq DOMAIN d /\ IsCatalog(s)
         /\ \A id \in DOMAIN s : s[id] = Reading(d, id, fl) /\ InScope(id)
<1> DEFINE s == Introspect(d, fl)
<1>1. /\ s = [id \in DOMAIN s |-> s[id]] /\ DOMAIN s = Visible(d, fl)
      /\ \A id \in DOMAIN s : s[id] = Reading(d, id, fl)
  BY DEF Introspect
<1>2. Visible(d, fl) \subseteq DOMAIN d /\ \A id \in Visible(d, fl) : InScope(id)
  BY DEF Visible
<1>3. IsCatalog(s)
  <2>1. DOMAIN s \in SUBSET DOMAIN d /\ DOMAIN d \subseteq Identifiers /\ IsFiniteSet(DOMAIN d)
    BY <1>1, <1>2 DEF IsDatabase
  <2>2. IsFiniteSet(DOMAIN s)
    BY <2>1, FS_Subset
  <2> QED
    BY <2>1, <2>2 DEF IsCatalog
<1> QED
  BY <1>1, <1>2, <1>3

LEMMA ReadColumnIs ==
  ASSUME NEW d, IsDatabase(d), NEW id \in DOMAIN d, id[1] = "column", NEW fl
  PROVE  LET v == Reading(d, id, fl) IN
         /\ IsReadColumn(v) /\ v.hidden \in BOOLEAN
         /\ v.type = d[id].type /\ v.default = d[id].default /\ v.identity = d[id].identity
         /\ v.generated = d[id].generated /\ (v.serial <=> IsSerial(d, id))
         /\ v.notnull = d[id].notnull
<1> DEFINE v == Reading(d, id, fl)
<1>1. v = ReadColumn(d, id, fl)
  BY DEF Reading
<1>2. /\ v.type = d[id].type /\ v.default = d[id].default /\ v.identity = d[id].identity
      /\ v.generated = d[id].generated /\ v.notnull = d[id].notnull
      /\ v.serial = IsSerial(d, id) /\ v.hidden = (fl = "cockroach" /\ d[id].hidden)
      /\ v = [type |-> v.type, notnull |-> v.notnull, default |-> v.default,
              identity |-> v.identity, generated |-> v.generated, serial |-> v.serial,
              hidden |-> v.hidden]
  BY <1>1 DEF ReadColumn
<1>3. IsColumn(id, d[id])
  BY InDatabase DEF IsValue
<1>4. {d[id].notnull, d[id].hidden} \subseteq BOOLEAN
      /\ (d[id].identity # "none" => d[id].default = NoExpr)
  BY <1>3 DEF IsColumn
<1>5. IsSerial(d, id) \in BOOLEAN /\ (IsSerial(d, id) => d[id].identity = "none")
  BY DEF IsSerial
<1>6. (fl = "cockroach" /\ d[id].hidden) \in BOOLEAN
  OBVIOUS
<1> HIDE DEF v
<1>7. /\ {v.notnull, v.serial} \subseteq BOOLEAN
      /\ (v.identity # "none" => v.default = NoExpr /\ ~v.serial)
  BY <1>2, <1>4, <1>5
<1> QED
  BY <1>2, <1>5, <1>6, <1>7 DEF v, IsReadColumn

LEMMA Introspected ==
  ASSUME NEW d, IsDatabase(d), NEW fl
  PROVE  IsReading(Introspect(d, fl))
<1> DEFINE s == Introspect(d, fl)
<1>1. /\ DOMAIN s \subseteq DOMAIN d /\ IsCatalog(s)
      /\ \A id \in DOMAIN s : s[id] = Reading(d, id, fl)
  BY ReadShape
<1> HIDE DEF s
<1>2. ASSUME NEW k \in DOMAIN s
      PROVE  /\ k[1] = "enum" => s[k].labels \in Seq(STRING)
             /\ k[1] = "column" => IsReadColumn(s[k])
             /\ k[1] = "table" => {s[k].rls, s[k].forced} \subseteq BOOLEAN
  <2>1. k \in DOMAIN d /\ s[k] = Reading(d, k, fl)
    BY <1>1
  <2>2. IsValue(k, d[k])
    BY <2>1, InDatabase
  <2>3. k[1] = "enum" => s[k].labels \in Seq(STRING)
    BY <2>1, <2>2 DEF Reading, ReadEnum, IsValue
  <2>4. k[1] = "column" => IsReadColumn(s[k])
    BY <2>1, ReadColumnIs
  <2>5. k[1] = "table" => {s[k].rls, s[k].forced} \subseteq BOOLEAN
    BY <2>1, <2>2 DEF Reading, ReadTable, IsValue
  <2> QED
    BY <2>3, <2>4, <2>5
<1> QED
  BY <1>1, <1>2 DEF IsReading, s

(* Whatever was read of one database can be created in another, if the      *)
(* sequences its serial columns bring along have names.                     *)
Named(d) == \A id \in DOMAIN d : (id[1] = "column" /\ IsSerial(d, id)) => SerialSeq(id) \in Identifiers

LEMMA NewColumn ==
  ASSUME NEW d, IsDatabase(d), Named(d), NEW id \in DOMAIN d, id[1] = "column", NEW fl
  PROVE  NewIs(id, Reading(d, id, fl))
<1> DEFINE v == Reading(d, id, fl)
           w == NewValue(id, v)
<1>1. /\ IsReadColumn(v) /\ v.hidden \in BOOLEAN
      /\ v.type = d[id].type /\ v.default = d[id].default /\ v.identity = d[id].identity
      /\ v.generated = d[id].generated /\ (v.serial <=> IsSerial(d, id))
      /\ v.notnull = d[id].notnull
  BY ReadColumnIs
<1>2. id \in Identifiers /\ IsColumn(id, d[id]) /\ NamesNoKey(id, d[id])
  BY InDatabase DEF IsValue
<1> HIDE DEF v
<1>3. /\ w = [type |-> w.type, notnull |-> w.notnull, default |-> w.default,
              identity |-> w.identity, generated |-> w.generated, hidden |-> w.hidden,
              kept |-> w.kept]
      /\ w.type = v.type /\ w.notnull = v.notnull /\ w.identity = v.identity
      /\ w.generated = v.generated /\ w.hidden = v.hidden /\ w.kept = FALSE
      /\ w.default = IF v.serial THEN Expr("nextval", {SerialSeq(id)})
                     ELSE IF v.identity = "none" THEN v.default ELSE NoExpr
  BY DEF NewValue
<1> HIDE DEF w
<1>4. v.notnull \in BOOLEAN /\ v.serial \in BOOLEAN /\ (v.identity # "none" => ~v.serial)
  BY <1>1 DEF IsReadColumn
<1>5. IsColumn(id, w)
  BY <1>1, <1>3, <1>4 DEF IsColumn
<1>6. NamesNoKey(id, w)
  <2>1. ASSUME NEW u \in UsesOf(id, w) PROVE u[1] # "constraint"
    <3>1. u \in w.type.uses \cup w.default.uses \cup w.generated.uses
      BY DEF UsesOf, Deparsed
    <3>2. UsesOf(id, d[id]) = d[id].type.uses \cup d[id].default.uses \cup d[id].generated.uses
      BY DEF UsesOf, Deparsed
    <3>3. \A x \in UsesOf(id, d[id]) : x[1] # "constraint"
      BY <1>2 DEF NamesNoKey
    <3>4. \A x \in w.default.uses : x[1] # "constraint"
      <4>1. CASE v.serial
        <5>1. w.default.uses = {SerialSeq(id)}
          BY <1>3, <4>1 DEF Expr
        <5>2. SerialSeq(id)[1] = "sequence"
          BY DEF SerialSeq
        <5> QED
          BY <5>1, <5>2
      <4>2. CASE ~v.serial /\ v.identity = "none"
        BY <1>1, <1>3, <3>2, <3>3, <4>2
      <4>3. CASE ~v.serial /\ v.identity # "none"
        BY <1>3, <4>3 DEF NoExpr, Expr
      <4> QED
        BY <4>1, <4>2, <4>3
    <3> QED
      BY <1>1, <1>3, <3>1, <3>2, <3>3, <3>4
  <2> QED
    BY <2>1 DEF NamesNoKey
<1>7. v.serial => SerialSeq(id) \in Identifiers
  BY <1>1 DEF Named
<1>8. IsValue(id, w)
  BY <1>5 DEF IsValue
<1> QED
  BY <1>2, <1>6, <1>7, <1>8 DEF NewIs, w, v

LEMMA NewOther ==
  ASSUME NEW d, IsDatabase(d), NEW id \in DOMAIN d, id[1] # "column", NEW fl
  PROVE  NewIs(id, Reading(d, id, fl))
<1> DEFINE v == Reading(d, id, fl)
           w == NewValue(id, v)
<1>1. id \in Identifiers /\ IsValue(id, d[id]) /\ NamesNoKey(id, d[id])
      /\ id[1] \in Spaces \cup Things \cup Pieces
  BY InDatabase, IdShape
<1>2. CASE id[1] = "table"
  <2>1. v = ReadTable(d[id])
    BY <1>2 DEF Reading
  <2>2. w = [partition |-> v.partition, rls |-> FALSE, forced |-> FALSE, kept |-> FALSE]
    BY <1>2 DEF NewValue
  <2> HIDE DEF v, w
  <2>3. IsValue(id, w)
    BY <1>2, <2>2 DEF IsValue
  <2>4. NamesNoKey(id, w)
    BY <1>2 DEF NamesNoKey, UsesOf, Deparsed
  <2> QED
    BY <1>1, <1>2, <2>3, <2>4 DEF NewIs, w, v
<1>3. CASE id[1] = "sequence"
  <2>1. w = [min |-> v.min, max |-> v.max, owner |-> {}, last |-> v.min, kept |-> FALSE]
    BY <1>3 DEF NewValue
  <2>4. v.min = d[id].min /\ v.max = d[id].max
    BY <1>3 DEF Reading, ReadSequence
  <2>5. InBounds(d[id])
    BY <1>1, <1>3 DEF IsValue, IsSequence
  <2> HIDE DEF v, w
  <2>2. IsValue(id, w)
    BY <1>3, <2>1, <2>4, <2>5 DEF IsValue, IsSequence, InBounds
  <2>3. NamesNoKey(id, w)
    BY <1>3 DEF NamesNoKey, UsesOf, Deparsed
  <2> QED
    BY <1>1, <1>3, <2>2, <2>3 DEF NewIs, w, v
<1>4. CASE id[1] \in {"schema", "extension", "enum"}
  <2>1. w = v /\ v = d[id]
    BY ZenonT(60), <1>1, <1>4 DEF NewValue, Reading, ReadExtension, ReadEnum, IsValue
  <2> QED
    BY <1>1, <1>4, <2>1 DEF NewIs
<1>5. CASE id[1] \in Deparsed
  <2>1. w = v
    BY <1>5 DEF NewValue, Deparsed
  <2>2. v.def = d[id].def /\ IsValue(id, v) /\ (id[1] = "constraint" => v = d[id])
    <3>1. CASE id[1] \in {"constraint", "index", "policy", "view", "routine"}
      <4>1. v = d[id]
        BY <1>1, <3>1 DEF Reading, ReadConstraint, ReadIndex, ReadPolicy, ReadView, ReadRoutine,
                          IsValue, IsConstraint
      <4> QED
        BY <1>1, <4>1
    <3>2. CASE id[1] = "trigger"
      <4>1. v = ReadTrigger(d[id], fl)
        BY <3>2 DEF Reading
      <4>2. v = [mode |-> v.mode, def |-> d[id].def]
        BY <4>1 DEF ReadTrigger
      <4> HIDE DEF v
      <4> QED
        BY <3>2, <4>2 DEF IsValue
    <3> QED
      BY <1>5, <3>1, <3>2 DEF Deparsed
  <2>3. UsesOf(id, v) = UsesOf(id, d[id])
    BY <1>5, <2>2 DEF UsesOf, Deparsed
  <2> HIDE DEF v, w
  <2>4. NamesNoKey(id, v)
    BY <1>1, <2>2, <2>3 DEF NamesNoKey
  <2> QED
    BY <1>1, <1>5, <2>1, <2>2, <2>4 DEF NewIs, w, v, Deparsed
<1> QED
  BY <1>1, <1>2, <1>3, <1>4, <1>5 DEF Spaces, Things, Pieces, Deparsed

LEMMA AllNew ==
  ASSUME NEW d, IsDatabase(d), Named(d), NEW fl
  PROVE  \A id \in DOMAIN Introspect(d, fl) : NewIs(id, Introspect(d, fl)[id])
BY ReadShape, NewColumn, NewOther

(***************************************************************************)
(* The statements of a change, and the phase they come in.                 *)
(***************************************************************************)
LEMMA TypePhases ==
  ASSUME NEW c, NEW fl
  PROVE  /\ c.op = "add_enum_value" =>
              PhaseOf(c) = 0 /\ Statements(c, fl) = <<Stmt("add_label", c.on, c.to)>>
         /\ c.op = "create_schema" =>
              PhaseOf(c) = 2 /\ Statements(c, fl) = <<Stmt("ensure", c.on, One(c.on, "none"))>>
         /\ c.op = "create_extension" =>
              PhaseOf(c) = 2 /\ Statements(c, fl) = CreateExtensionSql(c)
         /\ c.op = "move_extension" =>
              PhaseOf(c) = 2 /\ Statements(c, fl) = MoveExtensionSql(c)
         /\ c.op = "create_enum" =>
              PhaseOf(c) = 2 /\ Statements(c, fl) = CreateSql(c)
         /\ c.op = "enum_needs_rebuild" =>
              PhaseOf(c) = 2 /\ Statements(c, fl) = <<>>
<1>1. ASSUME c.op = "add_enum_value"
      PROVE  PhaseOf(c) = 0 /\ Statements(c, fl) = <<Stmt("add_label", c.on, c.to)>>
  <2>1. PhaseOf(c) = 0
    BY <1>1 DEF PhaseOf, IsFk, ConstraintDropPhase
  <2>2. Statements(c, fl) = <<Stmt("add_label", c.on, c.to)>>
    BY <1>1, <2>1 DEF Statements
  <2> QED
    BY <2>1, <2>2
<1>2. ASSUME c.op = "create_schema"
      PROVE  PhaseOf(c) = 2 /\ Statements(c, fl) = <<Stmt("ensure", c.on, One(c.on, "none"))>>
  <2>1. PhaseOf(c) = 2
    BY <1>2 DEF PhaseOf, IsFk, ConstraintDropPhase
  <2>2. Statements(c, fl) = <<Stmt("ensure", c.on, One(c.on, "none"))>>
    BY <1>2, <2>1 DEF Statements, TypeSql
  <2> QED
    BY <2>1, <2>2
<1>3. ASSUME c.op = "create_extension"
      PROVE  PhaseOf(c) = 2 /\ Statements(c, fl) = CreateExtensionSql(c)
  <2>1. PhaseOf(c) = 2
    BY <1>3 DEF PhaseOf, IsFk, ConstraintDropPhase
  <2>2. Statements(c, fl) = CreateExtensionSql(c)
    BY <1>3, <2>1 DEF Statements, TypeSql
  <2> QED
    BY <2>1, <2>2
<1>4. ASSUME c.op = "move_extension"
      PROVE  PhaseOf(c) = 2 /\ Statements(c, fl) = MoveExtensionSql(c)
  <2>1. PhaseOf(c) = 2
    BY <1>4 DEF PhaseOf, IsFk, ConstraintDropPhase
  <2>2. Statements(c, fl) = MoveExtensionSql(c)
    BY <1>4, <2>1 DEF Statements, TypeSql
  <2> QED
    BY <2>1, <2>2
<1>5. ASSUME c.op = "create_enum"
      PROVE  PhaseOf(c) = 2 /\ Statements(c, fl) = CreateSql(c)
  <2>1. PhaseOf(c) = 2
    BY <1>5 DEF PhaseOf, IsFk, ConstraintDropPhase
  <2>2. Statements(c, fl) = CreateSql(c)
    BY <1>5, <2>1 DEF Statements, TypeSql
  <2> QED
    BY <2>1, <2>2
<1>6. ASSUME c.op = "enum_needs_rebuild"
      PROVE  PhaseOf(c) = 2 /\ Statements(c, fl) = <<>>
  <2>1. PhaseOf(c) = 2
    BY <1>6 DEF PhaseOf, IsFk, ConstraintDropPhase
  <2>2. Statements(c, fl) = <<>>
    BY <1>6, <2>1 DEF Statements, TypeSql
  <2> QED
    BY <2>1, <2>2
<1> QED
  BY <1>1, <1>2, <1>3, <1>4, <1>5, <1>6

LEMMA DropPhases ==
  ASSUME NEW c, NEW fl
  PROVE  /\ c.op = "drop_trigger" =>
              PhaseOf(c) = 3 /\ Statements(c, fl) = <<DropStmt(c.on)>>
         /\ c.op = "drop_policy" =>
              PhaseOf(c) = 5 /\ Statements(c, fl) = <<DropStmt(c.on)>>
         /\ c.op = "drop_view" =>
              PhaseOf(c) = 6 /\ Statements(c, fl) = <<DropStmt(c.on)>>
         /\ c.op = "drop_constraint" =>
              PhaseOf(c) \in {7, 8} /\ Statements(c, fl) = DependentDropSql(c, fl)
         /\ c.op = "drop_index" =>
              PhaseOf(c) = 9 /\ Statements(c, fl) = <<DropStmt(c.on)>>
         /\ c.op = "create_sequence" =>
              PhaseOf(c) = 10 /\ Statements(c, fl) = EnsureSql(c)
         /\ c.op = "alter_sequence" =>
              PhaseOf(c) = 10 /\ Statements(c, fl) = AlterSequenceSql(c)
         /\ c.op = "create_table" =>
              PhaseOf(c) = 11 /\ Statements(c, fl) = CreateTableSql(c.on, c.to)
<1>1. ASSUME c.op = "drop_trigger"
      PROVE  PhaseOf(c) = 3 /\ Statements(c, fl) = <<DropStmt(c.on)>>
  <2>1. PhaseOf(c) = 3
    BY <1>1 DEF PhaseOf, IsFk, ConstraintDropPhase
  <2>2. Statements(c, fl) = <<DropStmt(c.on)>>
    BY <1>1, <2>1 DEF Statements, DependentDropSql
  <2> QED
    BY <2>1, <2>2
<1>2. ASSUME c.op = "drop_policy"
      PROVE  PhaseOf(c) = 5 /\ Statements(c, fl) = <<DropStmt(c.on)>>
  <2>1. PhaseOf(c) = 5
    BY <1>2 DEF PhaseOf, IsFk, ConstraintDropPhase
  <2>2. Statements(c, fl) = <<DropStmt(c.on)>>
    BY <1>2, <2>1 DEF Statements, DependentDropSql
  <2> QED
    BY <2>1, <2>2
<1>3. ASSUME c.op = "drop_view"
      PROVE  PhaseOf(c) = 6 /\ Statements(c, fl) = <<DropStmt(c.on)>>
  <2>1. PhaseOf(c) = 6
    BY <1>3 DEF PhaseOf, IsFk, ConstraintDropPhase
  <2>2. Statements(c, fl) = <<DropStmt(c.on)>>
    BY <1>3, <2>1 DEF Statements, DependentDropSql
  <2> QED
    BY <2>1, <2>2
<1>4. ASSUME c.op = "drop_constraint"
      PROVE  PhaseOf(c) \in {7, 8} /\ Statements(c, fl) = DependentDropSql(c, fl)
  <2>1. PhaseOf(c) \in {7, 8}
    BY <1>4 DEF PhaseOf, IsFk, ConstraintDropPhase
  <2>2. Statements(c, fl) = DependentDropSql(c, fl)
    BY <1>4, <2>1 DEF Statements
  <2> QED
    BY <2>1, <2>2
<1>5. ASSUME c.op = "drop_index"
      PROVE  PhaseOf(c) = 9 /\ Statements(c, fl) = <<DropStmt(c.on)>>
  <2>1. PhaseOf(c) = 9
    BY <1>5 DEF PhaseOf, IsFk, ConstraintDropPhase
  <2>2. Statements(c, fl) = <<DropStmt(c.on)>>
    BY <1>5, <2>1 DEF Statements, DependentDropSql
  <2> QED
    BY <2>1, <2>2
<1>6. ASSUME c.op = "create_sequence"
      PROVE  PhaseOf(c) = 10 /\ Statements(c, fl) = EnsureSql(c)
  <2>1. PhaseOf(c) = 10
    BY <1>6 DEF PhaseOf, IsFk, ConstraintDropPhase
  <2>2. Statements(c, fl) = EnsureSql(c)
    BY <1>6, <2>1 DEF Statements, SequenceSql
  <2> QED
    BY <2>1, <2>2
<1>7. ASSUME c.op = "alter_sequence"
      PROVE  PhaseOf(c) = 10 /\ Statements(c, fl) = AlterSequenceSql(c)
  <2>1. PhaseOf(c) = 10
    BY <1>7 DEF PhaseOf, IsFk, ConstraintDropPhase
  <2>2. Statements(c, fl) = AlterSequenceSql(c)
    BY <1>7, <2>1 DEF Statements, SequenceSql
  <2> QED
    BY <2>1, <2>2
<1>8. ASSUME c.op = "create_table"
      PROVE  PhaseOf(c) = 11 /\ Statements(c, fl) = CreateTableSql(c.on, c.to)
  <2>1. PhaseOf(c) = 11
    BY <1>8 DEF PhaseOf, IsFk, ConstraintDropPhase
  <2>2. Statements(c, fl) = CreateTableSql(c.on, c.to)
    BY <1>8, <2>1 DEF Statements
  <2> QED
    BY <2>1, <2>2
<1> QED
  BY <1>1, <1>2, <1>3, <1>4, <1>5, <1>6, <1>7, <1>8

LEMMA FacetPhases ==
  ASSUME NEW c, NEW fl
  PROVE  /\ c.op = "add_column" =>
              PhaseOf(c) = 12 /\ Statements(c, fl) = EnsureSql(c)
         /\ c.op = "alter_column_type" =>
              PhaseOf(c) = 12 /\ Statements(c, fl) = <<Set(c.on, "type", c.to)>>
         /\ c.op = "set_not_null" =>
              PhaseOf(c) = 12 /\ Statements(c, fl) = <<Set(c.on, "notnull", TRUE)>>
         /\ c.op = "drop_not_null" =>
              PhaseOf(c) = 12 /\ Statements(c, fl) = <<Set(c.on, "notnull", FALSE)>>
         /\ c.op = "set_column_visibility" =>
              PhaseOf(c) = 12 /\ Statements(c, fl) = <<Set(c.on, "hidden", c.to)>>
         /\ c.op = "set_default" =>
              PhaseOf(c) = 12 /\ Statements(c, fl) = <<Set(c.on, "default", c.to)>>
         /\ c.op = "drop_default" =>
              PhaseOf(c) = 12 /\ Statements(c, fl) = <<Set(c.on, "default", NoExpr)>>
<1>1. ASSUME c.op = "add_column"
      PROVE  PhaseOf(c) = 12 /\ Statements(c, fl) = EnsureSql(c)
  <2>1. PhaseOf(c) = 12
    BY <1>1 DEF PhaseOf, IsFk, ConstraintDropPhase
  <2>2. Statements(c, fl) = EnsureSql(c)
    BY <1>1, <2>1 DEF Statements, FacetSql, FacetOps
  <2> QED
    BY <2>1, <2>2
<1>2. ASSUME c.op = "alter_column_type"
      PROVE  PhaseOf(c) = 12 /\ Statements(c, fl) = <<Set(c.on, "type", c.to)>>
  <2>1. PhaseOf(c) = 12
    BY <1>2 DEF PhaseOf, IsFk, ConstraintDropPhase
  <2>2. Statements(c, fl) = <<Set(c.on, "type", c.to)>>
    BY <1>2, <2>1 DEF Statements, FacetSql, FacetOps
  <2> QED
    BY <2>1, <2>2
<1>3. ASSUME c.op = "set_not_null"
      PROVE  PhaseOf(c) = 12 /\ Statements(c, fl) = <<Set(c.on, "notnull", TRUE)>>
  <2>1. PhaseOf(c) = 12
    BY <1>3 DEF PhaseOf, IsFk, ConstraintDropPhase
  <2>2. Statements(c, fl) = FacetSql(c)
    BY <1>3, <2>1 DEF Statements, FacetOps
  <2>3. FacetSql(c) = <<Set(c.on, "notnull", TRUE)>>
    BY <1>3 DEF FacetSql
  <2> QED
    BY <2>1, <2>2, <2>3
<1>4. ASSUME c.op = "drop_not_null"
      PROVE  PhaseOf(c) = 12 /\ Statements(c, fl) = <<Set(c.on, "notnull", FALSE)>>
  <2>1. PhaseOf(c) = 12
    BY <1>4 DEF PhaseOf, IsFk, ConstraintDropPhase
  <2>2. Statements(c, fl) = FacetSql(c)
    BY <1>4, <2>1 DEF Statements, FacetOps
  <2>3. FacetSql(c) = <<Set(c.on, "notnull", FALSE)>>
    BY <1>4 DEF FacetSql
  <2> QED
    BY <2>1, <2>2, <2>3
<1>5. ASSUME c.op = "set_column_visibility"
      PROVE  PhaseOf(c) = 12 /\ Statements(c, fl) = <<Set(c.on, "hidden", c.to)>>
  <2>1. PhaseOf(c) = 12
    BY <1>5 DEF PhaseOf, IsFk, ConstraintDropPhase
  <2>2. Statements(c, fl) = <<Set(c.on, "hidden", c.to)>>
    BY <1>5, <2>1 DEF Statements, FacetSql, FacetOps
  <2> QED
    BY <2>1, <2>2
<1>6. ASSUME c.op = "set_default"
      PROVE  PhaseOf(c) = 12 /\ Statements(c, fl) = <<Set(c.on, "default", c.to)>>
  <2>1. PhaseOf(c) = 12
    BY <1>6 DEF PhaseOf, IsFk, ConstraintDropPhase
  <2>2. Statements(c, fl) = <<Set(c.on, "default", c.to)>>
    BY <1>6, <2>1 DEF Statements, FacetSql, FacetOps
  <2> QED
    BY <2>1, <2>2
<1>7. ASSUME c.op = "drop_default"
      PROVE  PhaseOf(c) = 12 /\ Statements(c, fl) = <<Set(c.on, "default", NoExpr)>>
  <2>1. PhaseOf(c) = 12
    BY <1>7 DEF PhaseOf, IsFk, ConstraintDropPhase
  <2>2. Statements(c, fl) = <<Set(c.on, "default", NoExpr)>>
    BY <1>7, <2>1 DEF Statements, FacetSql, FacetOps
  <2> QED
    BY <2>1, <2>2
<1> QED
  BY <1>1, <1>2, <1>3, <1>4, <1>5, <1>6, <1>7

LEMMA OriginPhases ==
  ASSUME NEW c, NEW fl
  PROVE  /\ c.op = "make_serial" =>
              PhaseOf(c) = 12 /\ Statements(c, fl) = MakeSerialSql(c.on)
         /\ c.op = "drop_serial" =>
              PhaseOf(c) = 12 /\ Statements(c, fl) = DropSerialSql(c.on)
         /\ c.op = "add_identity" =>
              PhaseOf(c) = 12 /\ Statements(c, fl) = <<Stmt("add_identity", c.on, c.to)>>
         /\ c.op = "drop_identity" =>
              PhaseOf(c) = 12 /\ Statements(c, fl) = <<Stmt("drop_identity", c.on, "none")>>
         /\ c.op = "set_identity_kind" =>
              PhaseOf(c) = 12 /\ Statements(c, fl) = <<Stmt("set_identity", c.on, c.to)>>
         /\ c.op = "regenerate_column" =>
              PhaseOf(c) = 12 /\ Statements(c, fl) = <<DropStmt(c.on), Stmt("create", c.on, One(c.on, c.to))>>
         /\ c.op = "drop_column" =>
              PhaseOf(c) = 13 /\ Statements(c, fl) = <<DropStmt(c.on)>>
         /\ c.op = "drop_table" =>
              PhaseOf(c) = 14 /\ Statements(c, fl) = <<DropStmt(c.on)>>
<1>1. ASSUME c.op = "make_serial"
      PROVE  PhaseOf(c) = 12 /\ Statements(c, fl) = MakeSerialSql(c.on)
  <2>1. PhaseOf(c) = 12
    BY <1>1 DEF PhaseOf, IsFk, ConstraintDropPhase
  <2>2. Statements(c, fl) = MakeSerialSql(c.on)
    BY <1>1, <2>1 DEF Statements, OriginSql, FacetOps
  <2> QED
    BY <2>1, <2>2
<1>2. ASSUME c.op = "drop_serial"
      PROVE  PhaseOf(c) = 12 /\ Statements(c, fl) = DropSerialSql(c.on)
  <2>1. PhaseOf(c) = 12
    BY <1>2 DEF PhaseOf, IsFk, ConstraintDropPhase
  <2>2. Statements(c, fl) = DropSerialSql(c.on)
    BY <1>2, <2>1 DEF Statements, OriginSql, FacetOps
  <2> QED
    BY <2>1, <2>2
<1>3. ASSUME c.op = "add_identity"
      PROVE  PhaseOf(c) = 12 /\ Statements(c, fl) = <<Stmt("add_identity", c.on, c.to)>>
  <2>1. PhaseOf(c) = 12
    BY <1>3 DEF PhaseOf, IsFk, ConstraintDropPhase
  <2>2. Statements(c, fl) = <<Stmt("add_identity", c.on, c.to)>>
    BY <1>3, <2>1 DEF Statements, OriginSql, FacetOps
  <2> QED
    BY <2>1, <2>2
<1>4. ASSUME c.op = "drop_identity"
      PROVE  PhaseOf(c) = 12 /\ Statements(c, fl) = <<Stmt("drop_identity", c.on, "none")>>
  <2>1. PhaseOf(c) = 12
    BY <1>4 DEF PhaseOf, IsFk, ConstraintDropPhase
  <2>2. Statements(c, fl) = <<Stmt("drop_identity", c.on, "none")>>
    BY <1>4, <2>1 DEF Statements, OriginSql, FacetOps
  <2> QED
    BY <2>1, <2>2
<1>5. ASSUME c.op = "set_identity_kind"
      PROVE  PhaseOf(c) = 12 /\ Statements(c, fl) = <<Stmt("set_identity", c.on, c.to)>>
  <2>1. PhaseOf(c) = 12
    BY <1>5 DEF PhaseOf, IsFk, ConstraintDropPhase
  <2>2. Statements(c, fl) = <<Stmt("set_identity", c.on, c.to)>>
    BY <1>5, <2>1 DEF Statements, OriginSql, FacetOps
  <2> QED
    BY <2>1, <2>2
<1>6. ASSUME c.op = "regenerate_column"
      PROVE  PhaseOf(c) = 12 /\ Statements(c, fl) = <<DropStmt(c.on), Stmt("create", c.on, One(c.on, c.to))>>
  <2>1. PhaseOf(c) = 12
    BY <1>6 DEF PhaseOf, IsFk, ConstraintDropPhase
  <2>2. Statements(c, fl) = <<DropStmt(c.on), Stmt("create", c.on, One(c.on, c.to))>>
    BY <1>6, <2>1 DEF Statements, OriginSql, FacetOps
  <2> QED
    BY <2>1, <2>2
<1>7. ASSUME c.op = "drop_column"
      PROVE  PhaseOf(c) = 13 /\ Statements(c, fl) = <<DropStmt(c.on)>>
  <2>1. PhaseOf(c) = 13
    BY <1>7 DEF PhaseOf, IsFk, ConstraintDropPhase
  <2>2. Statements(c, fl) = <<DropStmt(c.on)>>
    BY <1>7, <2>1 DEF Statements
  <2> QED
    BY <2>1, <2>2
<1>8. ASSUME c.op = "drop_table"
      PROVE  PhaseOf(c) = 14 /\ Statements(c, fl) = <<DropStmt(c.on)>>
  <2>1. PhaseOf(c) = 14
    BY <1>8 DEF PhaseOf, IsFk, ConstraintDropPhase
  <2>2. Statements(c, fl) = <<DropStmt(c.on)>>
    BY <1>8, <2>1 DEF Statements
  <2> QED
    BY <2>1, <2>2
<1> QED
  BY <1>1, <1>2, <1>3, <1>4, <1>5, <1>6, <1>7, <1>8

LEMMA AddPhases ==
  ASSUME NEW c, NEW fl
  PROVE  /\ c.op = "add_constraint" =>
              PhaseOf(c) \in {15, 17} /\ Statements(c, fl) = AddConstraintSql(c.on, c.to, FALSE)
         /\ c.op = "create_index" =>
              PhaseOf(c) = 16 /\ Statements(c, fl) = CreateSql(c)
         /\ c.op = "create_view" =>
              PhaseOf(c) \in {19, 20} /\ Statements(c, fl) = CreateSql(c)
         /\ c.op = "create_function" =>
              PhaseOf(c) = 21 /\ Statements(c, fl) = <<Stmt(IF c.replaced THEN "replace" ELSE "create", c.on, One(c.on, c.to))>>
         /\ c.op = "create_trigger" =>
              PhaseOf(c) = 22 /\ Statements(c, fl) = <<Stmt("create", c.on, One(c.on, [c.to EXCEPT !.mode = "origin"]))>>
         /\ c.op = "set_trigger_mode" =>
              PhaseOf(c) = 23 /\ Statements(c, fl) = <<Set(c.on, "mode", c.to)>>
<1>1. ASSUME c.op = "add_constraint"
      PROVE  PhaseOf(c) \in {15, 17} /\ Statements(c, fl) = AddConstraintSql(c.on, c.to, FALSE)
  <2>1. PhaseOf(c) \in {15, 17}
    BY <1>1 DEF PhaseOf, IsFk, ConstraintDropPhase
  <2>2. CASE PhaseOf(c) = 15
    BY <1>1, <2>2 DEF Statements
  <2>3. CASE PhaseOf(c) = 17
    BY <1>1, <2>3 DEF Statements
  <2> QED
    BY <2>1, <2>2, <2>3
<1>2. ASSUME c.op = "create_index"
      PROVE  PhaseOf(c) = 16 /\ Statements(c, fl) = CreateSql(c)
  <2>1. PhaseOf(c) = 16
    BY <1>2 DEF PhaseOf, IsFk, ConstraintDropPhase
  <2>2. Statements(c, fl) = CreateSql(c)
    BY <1>2, <2>1 DEF Statements
  <2> QED
    BY <2>1, <2>2
<1>3. ASSUME c.op = "create_view"
      PROVE  PhaseOf(c) \in {19, 20} /\ Statements(c, fl) = CreateSql(c)
  <2>1. PhaseOf(c) \in {19, 20}
    BY <1>3 DEF PhaseOf, IsFk, ConstraintDropPhase
  <2>2. Statements(c, fl) = CreateSql(c)
    BY <1>3, <2>1 DEF Statements
  <2> QED
    BY <2>1, <2>2
<1>4. ASSUME c.op = "create_function"
      PROVE  PhaseOf(c) = 21 /\ Statements(c, fl) = <<Stmt(IF c.replaced THEN "replace" ELSE "create", c.on, One(c.on, c.to))>>
  <2>1. PhaseOf(c) = 21
    BY <1>4 DEF PhaseOf, IsFk, ConstraintDropPhase
  <2>2. Statements(c, fl) = <<Stmt(IF c.replaced THEN "replace" ELSE "create", c.on, One(c.on, c.to))>>
    BY <1>4, <2>1 DEF Statements, RoutineSql
  <2> QED
    BY <2>1, <2>2
<1>5. ASSUME c.op = "create_trigger"
      PROVE  PhaseOf(c) = 22 /\ Statements(c, fl) = <<Stmt("create", c.on, One(c.on, [c.to EXCEPT !.mode = "origin"]))>>
  <2>1. PhaseOf(c) = 22
    BY <1>5 DEF PhaseOf, IsFk, ConstraintDropPhase
  <2>2. Statements(c, fl) = <<Stmt("create", c.on, One(c.on, [c.to EXCEPT !.mode = "origin"]))>>
    BY <1>5, <2>1 DEF Statements, RoutineSql
  <2> QED
    BY <2>1, <2>2
<1>6. ASSUME c.op = "set_trigger_mode"
      PROVE  PhaseOf(c) = 23 /\ Statements(c, fl) = <<Set(c.on, "mode", c.to)>>
  <2>1. PhaseOf(c) = 23
    BY <1>6 DEF PhaseOf, IsFk, ConstraintDropPhase
  <2>2. Statements(c, fl) = <<Set(c.on, "mode", c.to)>>
    BY <1>6, <2>1 DEF Statements, RoutineSql
  <2> QED
    BY <2>1, <2>2
<1> QED
  BY <1>1, <1>2, <1>3, <1>4, <1>5, <1>6

LEMMA LatePhases ==
  ASSUME NEW c, NEW fl
  PROVE  /\ c.op = "enable_rls" =>
              PhaseOf(c) = 25 /\ Statements(c, fl) = <<Set(c.on, "rls", TRUE)>>
         /\ c.op = "disable_rls" =>
              PhaseOf(c) = 25 /\ Statements(c, fl) = <<Set(c.on, "rls", FALSE)>>
         /\ c.op = "force_rls" =>
              PhaseOf(c) = 25 /\ Statements(c, fl) = <<Set(c.on, "forced", TRUE)>>
         /\ c.op = "unforce_rls" =>
              PhaseOf(c) = 25 /\ Statements(c, fl) = <<Set(c.on, "forced", FALSE)>>
         /\ c.op = "create_policy" =>
              PhaseOf(c) = 25 /\ Statements(c, fl) = CreateSql(c)
         /\ c.op = "drop_function" =>
              PhaseOf(c) \in {4, 26} /\ Statements(c, fl) = <<DropStmt(c.on)>>
         /\ c.op = "drop_sequence" =>
              PhaseOf(c) = 26 /\ Statements(c, fl) = <<DropStmt(c.on)>>
         /\ c.op = "drop_enum" =>
              PhaseOf(c) = 26 /\ Statements(c, fl) = <<DropStmt(c.on)>>
         /\ c.op = "drop_extension" =>
              PhaseOf(c) = 26 /\ Statements(c, fl) = <<DropStmt(c.on)>>
         /\ c.op = "drop_schema" =>
              PhaseOf(c) = 27 /\ Statements(c, fl) = <<DropStmt(c.on)>>
<1>1. ASSUME c.op = "enable_rls"
      PROVE  PhaseOf(c) = 25 /\ Statements(c, fl) = <<Set(c.on, "rls", TRUE)>>
  <2>1. PhaseOf(c) = 25
    BY <1>1 DEF PhaseOf, IsFk, ConstraintDropPhase
  <2>2. Statements(c, fl) = RlsSql(c)
    BY <1>1, <2>1 DEF Statements
  <2>3. RlsSql(c) = <<Set(c.on, "rls", TRUE)>>
    BY <1>1 DEF RlsSql
  <2> QED
    BY <2>1, <2>2, <2>3
<1>2. ASSUME c.op = "disable_rls"
      PROVE  PhaseOf(c) = 25 /\ Statements(c, fl) = <<Set(c.on, "rls", FALSE)>>
  <2>1. PhaseOf(c) = 25
    BY <1>2 DEF PhaseOf, IsFk, ConstraintDropPhase
  <2>2. Statements(c, fl) = RlsSql(c)
    BY <1>2, <2>1 DEF Statements
  <2>3. RlsSql(c) = <<Set(c.on, "rls", FALSE)>>
    BY <1>2 DEF RlsSql
  <2> QED
    BY <2>1, <2>2, <2>3
<1>3. ASSUME c.op = "force_rls"
      PROVE  PhaseOf(c) = 25 /\ Statements(c, fl) = <<Set(c.on, "forced", TRUE)>>
  <2>1. PhaseOf(c) = 25
    BY <1>3 DEF PhaseOf, IsFk, ConstraintDropPhase
  <2>2. Statements(c, fl) = RlsSql(c)
    BY <1>3, <2>1 DEF Statements
  <2>3. RlsSql(c) = <<Set(c.on, "forced", TRUE)>>
    BY <1>3 DEF RlsSql
  <2> QED
    BY <2>1, <2>2, <2>3
<1>4. ASSUME c.op = "unforce_rls"
      PROVE  PhaseOf(c) = 25 /\ Statements(c, fl) = <<Set(c.on, "forced", FALSE)>>
  <2>1. PhaseOf(c) = 25
    BY <1>4 DEF PhaseOf, IsFk, ConstraintDropPhase
  <2>2. Statements(c, fl) = RlsSql(c)
    BY <1>4, <2>1 DEF Statements
  <2>3. RlsSql(c) = <<Set(c.on, "forced", FALSE)>>
    BY <1>4 DEF RlsSql
  <2> QED
    BY <2>1, <2>2, <2>3
<1>5. ASSUME c.op = "create_policy"
      PROVE  PhaseOf(c) = 25 /\ Statements(c, fl) = CreateSql(c)
  <2>1. PhaseOf(c) = 25
    BY <1>5 DEF PhaseOf, IsFk, ConstraintDropPhase
  <2>2. Statements(c, fl) = CreateSql(c)
    BY <1>5, <2>1 DEF Statements, RlsSql
  <2> QED
    BY <2>1, <2>2
<1>6. ASSUME c.op = "drop_function"
      PROVE  PhaseOf(c) \in {4, 26} /\ Statements(c, fl) = <<DropStmt(c.on)>>
  <2>1. PhaseOf(c) \in {4, 26}
    BY <1>6 DEF PhaseOf, IsFk, ConstraintDropPhase
  <2>2. Statements(c, fl) = <<DropStmt(c.on)>>
    BY <1>6, <2>1 DEF Statements, DependentDropSql
  <2> QED
    BY <2>1, <2>2
<1>7. ASSUME c.op = "drop_sequence"
      PROVE  PhaseOf(c) = 26 /\ Statements(c, fl) = <<DropStmt(c.on)>>
  <2>1. PhaseOf(c) = 26
    BY <1>7 DEF PhaseOf, IsFk, ConstraintDropPhase
  <2>2. Statements(c, fl) = <<DropStmt(c.on)>>
    BY <1>7, <2>1 DEF Statements
  <2> QED
    BY <2>1, <2>2
<1>8. ASSUME c.op = "drop_enum"
      PROVE  PhaseOf(c) = 26 /\ Statements(c, fl) = <<DropStmt(c.on)>>
  <2>1. PhaseOf(c) = 26
    BY <1>8 DEF PhaseOf, IsFk, ConstraintDropPhase
  <2>2. Statements(c, fl) = <<DropStmt(c.on)>>
    BY <1>8, <2>1 DEF Statements
  <2> QED
    BY <2>1, <2>2
<1>9. ASSUME c.op = "drop_extension"
      PROVE  PhaseOf(c) = 26 /\ Statements(c, fl) = <<DropStmt(c.on)>>
  <2>1. PhaseOf(c) = 26
    BY <1>9 DEF PhaseOf, IsFk, ConstraintDropPhase
  <2>2. Statements(c, fl) = <<DropStmt(c.on)>>
    BY <1>9, <2>1 DEF Statements
  <2> QED
    BY <2>1, <2>2
<1>10. ASSUME c.op = "drop_schema"
      PROVE  PhaseOf(c) = 27 /\ Statements(c, fl) = <<DropStmt(c.on)>>
  <2>1. PhaseOf(c) = 27
    BY <1>10 DEF PhaseOf, IsFk, ConstraintDropPhase
  <2>2. Statements(c, fl) = <<DropStmt(c.on)>>
    BY <1>10, <2>1 DEF Statements
  <2> QED
    BY <2>1, <2>2
<1> QED
  BY <1>1, <1>2, <1>3, <1>4, <1>5, <1>6, <1>7, <1>8, <1>9, <1>10

(***************************************************************************)
(* What a statement of the script may rely on, by the phase it is in.      *)
(***************************************************************************)
(* What a catalog offers to whoever creates its objects elsewhere. *)
Offered(s) ==
  /\ IsReading(s)
  /\ \A k \in DOMAIN s :
       /\ NewIs(k, s[k]) /\ InScope(k)
       /\ k[1] = "extension" => s[k].schema \in NameSet
       /\ k[1] = "column" =>
            /\ s[k].hidden \in BOOLEAN
            /\ \A u \in s[k].type.uses \cup s[k].default.uses : u[1] # "constraint"
       /\ k[1] = "trigger" => s[k] = [mode |-> s[k].mode, def |-> s[k].def]
       /\ k[1] \in Deparsed => IsValue(k, s[k]) /\ NamesNoKey(k, s[k])

LEMMA IsOffered ==
  ASSUME NEW d, IsDatabase(d), Named(d), NEW fl
  PROVE  Offered(Introspect(d, fl))
<1> DEFINE s == Introspect(d, fl)
<1>1. /\ DOMAIN s \subseteq DOMAIN d
      /\ \A id \in DOMAIN s : s[id] = Reading(d, id, fl) /\ InScope(id)
  BY ReadShape
<1>2. IsReading(s)
  BY Introspected
<1>3. \A k \in DOMAIN s : NewIs(k, s[k])
  BY AllNew
<1> HIDE DEF s
<1>4. ASSUME NEW k \in DOMAIN s
      PROVE  /\ k[1] = "extension" => s[k].schema \in NameSet
             /\ k[1] = "trigger" => s[k] = [mode |-> s[k].mode, def |-> s[k].def]
             /\ k[1] \in Deparsed => IsValue(k, s[k]) /\ NamesNoKey(k, s[k])
  <2>1. k \in DOMAIN d /\ s[k] = Reading(d, k, fl) /\ NewIs(k, s[k]) /\ IsValue(k, d[k])
    BY <1>1, <1>3, InDatabase
  <2>2. k[1] = "extension" => s[k].schema \in NameSet
    BY <2>1 DEF Reading, ReadExtension, IsValue
  <2>3. k[1] = "trigger" => s[k] = [mode |-> s[k].mode, def |-> s[k].def]
    BY <2>1 DEF Reading, ReadTrigger
  <2>4. k[1] \in Deparsed => IsValue(k, s[k]) /\ NamesNoKey(k, s[k])
    <3>1. k[1] \in Deparsed => NewValue(k, s[k]) = s[k]
      BY DEF NewValue, Deparsed
    <3> QED
      BY <2>1, <3>1 DEF NewIs
  <2> QED
    BY <2>2, <2>3, <2>4
<1>5. ASSUME NEW k \in DOMAIN s, k[1] = "column"
      PROVE  /\ s[k].hidden \in BOOLEAN
             /\ \A u \in s[k].type.uses \cup s[k].default.uses : u[1] # "constraint"
  <2>1. k \in DOMAIN d /\ s[k] = Reading(d, k, fl) /\ NamesNoKey(k, d[k])
    BY <1>1, InDatabase
  <2>2. s[k].hidden \in BOOLEAN /\ s[k].type = d[k].type /\ s[k].default = d[k].default
    BY <1>5, <2>1, ReadColumnIs
  <2>3. UsesOf(k, d[k]) = d[k].type.uses \cup d[k].default.uses \cup d[k].generated.uses
    BY <1>5 DEF UsesOf, Deparsed
  <2> QED
    BY <1>5, <2>1, <2>2, <2>3 DEF NamesNoKey
<1> QED
  BY <1>1, <1>2, <1>3, <1>4, <1>5 DEF Offered, s

(* A drop for which nobody is asked is one half of a pair, or nothing is lost. *)
CreateOps == {"create_trigger", "create_function", "create_policy", "create_view",
              "add_constraint", "create_index"}
Owes(k, s, all) ==
  k \in DOMAIN s /\ \E op \in CreateOps : Change(op, k, s[k], FALSE) \in all
Spares(k, t) ==
  \/ k[1] = "constraint" /\ t[k].kind \notin {"primary", "unique"}
  \/ k[1] = "index" /\ ~t[k].unique
DropOK(k, s, t, all) ==
  /\ k \in DOMAIN t /\ k[1] \in Deparsed
  /\ Owes(k, s, all) \/ Spares(k, t)
  /\ k[1] = "view" => k \in DOMAIN s /\ s[k] # t[k]

LabelOK(k, new, s, t) ==
  /\ k \in DOMAIN s \cap DOMAIN t /\ k[1] = "enum"
  /\ IsSubsequence(t[k].labels, s[k].labels) /\ Anchored(new, s[k].labels, t[k].labels)

Makes == {"ensure", "create"}
Drops == {"drop", "drop_cascade"}

Serves(st, n, s, t, fl, allow, all) ==
  /\ StmtOK(st)
  /\ n = 0 <=> st.do = "add_label"
  /\ st.do = "add_label" => LabelOK(st.on, st.with, s, t)
  /\ \/ InScope(st.on)
     \/ /\ st.do = "ensure"
        /\ \E k \in DOMAIN s : k[1] = "extension" /\ st.on = <<"schema", s[k].schema>>
  /\ st.do \in Makes =>
       \A g \in DOMAIN st.with :
         g[1] \in {"constraint", "index"} => g \in DOMAIN s /\ st.with[g] = s[g]
  /\ st.do = "drop_cascade" => fl = "cockroach"
  /\ st.do \in Drops /\ ~allow => n \in 3..9 /\ DropOK(st.on, s, t, all)
  /\ st.do \in Makes /\ st.on[1] \in Deparsed \cup {"table"} => n > 9
  /\ st.do \in Drops => n > 10 \/ st.on[1] \in Deparsed
  /\ st.do \in {"clamp", "resize"} => n = 10 /\ st.on \in DOMAIN t

LEMMA OneIs ==
  ASSUME NEW k, NEW v
  PROVE  /\ DOMAIN One(k, v) = {k} /\ One(k, v)[k] = v
         /\ NewIs(k, v) => Together(k, One(k, v))
<1>1. DOMAIN One(k, v) = {k} /\ One(k, v)[k] = v /\ One(k, v) = [g \in {k} |-> One(k, v)[g]]
  BY DEF One
<1>2. IsFiniteSet({k})
  BY FS_Singleton
<1> QED
  BY <1>1, <1>2 DEF Together

LEMMA MakeServes ==
  ASSUME NEW do \in Makes, NEW k, NEW v, NEW n, NEW s, NEW t, NEW fl, NEW allow, NEW all,
         NewIs(k, v), n # 0,
         \/ InScope(k)
         \/ /\ do = "ensure"
            /\ \E e \in DOMAIN s : e[1] = "extension" /\ k = <<"schema", s[e].schema>>,
         k[1] \in {"constraint", "index"} => k \in DOMAIN s /\ v = s[k],
         k[1] \in Deparsed \cup {"table"} => n > 9
  PROVE  Serves(Stmt(do, k, One(k, v)), n, s, t, fl, allow, all)
<1> DEFINE st == Stmt(do, k, One(k, v))
<1>1. st.do = do /\ st.on = k /\ st.with = One(k, v)
  BY DEF Stmt
<1>2. do \notin {"add_label", "drop_cascade", "clamp", "resize"} /\ do \notin Drops
  BY DEF Makes, Drops
<1>5. Together(k, One(k, v)) /\ DOMAIN One(k, v) = {k} /\ One(k, v)[k] = v
  BY OneIs
<1> HIDE DEF st
<1>3. StmtOK(st)
  BY <1>1, <1>5 DEF StmtOK, Makes
<1>4. \A g \in DOMAIN st.with : g = k /\ st.with[g] = v
  BY <1>1, <1>5
<1> QED
  BY <1>1, <1>2, <1>3, <1>4 DEF Serves, st

LEMMA DropServes ==
  ASSUME NEW do \in Drops, NEW k, NEW n, NEW s, NEW t, NEW fl, NEW allow, NEW all,
         n # 0, InScope(k), do = "drop_cascade" => k[1] = "constraint" /\ fl = "cockroach",
         n > 10 \/ k[1] \in Deparsed,
         ~allow => n \in 3..9 /\ DropOK(k, s, t, all)
  PROVE  Serves(Stmt(do, k, "none"), n, s, t, fl, allow, all)
<1> DEFINE st == Stmt(do, k, "none")
<1>1. st.do = do /\ st.on = k
  BY DEF Stmt
<1>2. do \notin {"add_label", "clamp", "resize"} /\ do \notin Makes
  BY DEF Makes, Drops
<1>3. StmtOK(st)
  BY <1>1 DEF StmtOK, Drops
<1> HIDE DEF st
<1> QED
  BY <1>1, <1>2, <1>3 DEF Serves, st

LEMMA OtherServes ==
  ASSUME NEW st, NEW n, NEW s, NEW t, NEW fl, NEW allow, NEW all,
         StmtOK(st), n # 0, InScope(st.on), st.do \notin {"add_label"} \cup Makes \cup Drops,
         st.do \in {"clamp", "resize"} => n = 10 /\ st.on \in DOMAIN t
  PROVE  Serves(st, n, s, t, fl, allow, all)
BY DEF Serves, Drops, Makes

LEMMA SetServes ==
  ASSUME NEW k, NEW f, NEW v, NEW n, NEW s, NEW t, NEW fl, NEW allow, NEW all,
         n # 0, InScope(k), SetOK(k, [facet |-> f, value |-> v])
  PROVE  Serves(Set(k, f, v), n, s, t, fl, allow, all)
<1> DEFINE st == Set(k, f, v)
<1>1. st.do = "set" /\ st.on = k /\ st.with = [facet |-> f, value |-> v]
  BY DEF Set, Stmt
<1> HIDE DEF st
<1>2. StmtOK(st)
  BY <1>1 DEF StmtOK
<1>3. st.do \notin {"add_label", "clamp", "resize"} \cup Makes \cup Drops
  BY <1>1 DEF Makes, Drops
<1> QED
  BY <1>1, <1>2, <1>3, OtherServes DEF st

RendersOK(c, s, t, fl, allow, all) ==
  /\ IsSeq(Rendered(c, fl, allow))
  /\ \A st \in ToSet(Rendered(c, fl, allow)) : Serves(st, PhaseOf(c), s, t, fl, allow, all)

LEMMA Renders ==
  ASSUME NEW c, NEW s, NEW t, NEW fl, NEW allow, NEW all,
         IsSeq(Statements(c, fl)),
         \/ Gated(c, allow)
         \/ \A st \in ToSet(Statements(c, fl)) : Serves(st, PhaseOf(c), s, t, fl, allow, all)
  PROVE  RendersOK(c, s, t, fl, allow, all)
<1>1. CASE Gated(c, allow)
  <2>1. Rendered(c, fl, allow) = <<>>
    BY <1>1 DEF Rendered
  <2> QED
    BY <2>1, Listed DEF RendersOK
<1>2. CASE ~Gated(c, allow)
  <2>1. Rendered(c, fl, allow) = Statements(c, fl)
    BY <1>2 DEF Rendered
  <2> QED
    BY <1>2, <2>1 DEF RendersOK
<1> QED
  BY <1>1, <1>2

LEMMA RendersOne ==
  ASSUME NEW c, NEW s, NEW t, NEW fl, NEW allow, NEW all, NEW a,
         Statements(c, fl) = <<a>>,
         Gated(c, allow) \/ Serves(a, PhaseOf(c), s, t, fl, allow, all)
  PROVE  RendersOK(c, s, t, fl, allow, all)
<1>1. IsSeq(<<a>>) /\ ToSet(<<a>>) = {a}
  BY Listed
<1> QED
  BY <1>1, Renders

LEMMA RendersDrop ==
  ASSUME NEW c, NEW s, NEW t, NEW fl, NEW allow, NEW all, NEW k,
         Statements(c, fl) = <<DropStmt(k)>>, PhaseOf(c) # 0, InScope(k),
         PhaseOf(c) > 10 \/ k[1] \in Deparsed,
         Gated(c, allow) \/ allow \/ (PhaseOf(c) \in 3..9 /\ DropOK(k, s, t, all))
  PROVE  RendersOK(c, s, t, fl, allow, all)
<1>1. SUFFICES ASSUME ~Gated(c, allow) PROVE Serves(DropStmt(k), PhaseOf(c), s, t, fl, allow, all)
  BY RendersOne
<1>2. ~allow => PhaseOf(c) \in 3..9 /\ DropOK(k, s, t, all)
  BY <1>1
<1>3. "drop" \in Drops /\ "drop" # "drop_cascade"
  BY DEF Drops
<1>4. Serves(Stmt("drop", k, "none"), PhaseOf(c), s, t, fl, allow, all)
  BY <1>2, <1>3, DropServes
<1> QED
  BY <1>4 DEF DropStmt

LEMMA RendersTwo ==
  ASSUME NEW c, NEW s, NEW t, NEW fl, NEW allow, NEW all, NEW a, NEW b,
         Statements(c, fl) = <<a, b>>,
         \/ Gated(c, allow)
         \/ /\ Serves(a, PhaseOf(c), s, t, fl, allow, all)
            /\ Serves(b, PhaseOf(c), s, t, fl, allow, all)
  PROVE  RendersOK(c, s, t, fl, allow, all)
<1>1. IsSeq(<<a, b>>) /\ ToSet(<<a, b>>) = {a, b}
  BY Listed
<1> QED
  BY <1>1, Renders

LEMMA NewSchema ==
  ASSUME NEW x \in NameSet
  PROVE  NewIs(<<"schema", x>>, "none")
<1> DEFINE k == <<"schema", x>>
<1>1. k \in Identifiers /\ k[1] = "schema"
  BY DEF Identifiers
<1> HIDE DEF k
<1>2. NewValue(k, "none") = "none" /\ IsValue(k, "none") /\ NamesNoKey(k, "none")
  BY <1>1 DEF NewValue, IsValue, NamesNoKey, UsesOf, Deparsed
<1> QED
  BY <1>1, <1>2 DEF NewIs, k

Within(t) == \A k \in DOMAIN t : k \in Identifiers /\ InScope(k)

LEMMA SchemaServes ==
  ASSUME NEW s, Offered(s), NEW t, Within(t), NEW all, NEW fl, NEW allow \in BOOLEAN,
         NEW c, SchemaChange(c, s, t)
  PROVE  RendersOK(c, s, t, fl, allow, all)
<1> DEFINE k == c.on
<1>1. k[1] = "schema" /\ \/ c = Plain("create_schema", k) /\ k \in DOMAIN s
                         \/ c = Plain("drop_schema", k) /\ k \in DOMAIN t
  BY DEF SchemaChange
<1>2. CASE c = Plain("create_schema", k) /\ k \in DOMAIN s
  <2>1. c.op = "create_schema"
    BY <1>2 DEF Plain, Change
  <2>2. PhaseOf(c) = 2 /\ Statements(c, fl) = <<Stmt("ensure", k, One(k, "none"))>>
    BY <2>1, TypePhases
  <2>3. InScope(k) /\ NewIs(k, s[k])
    BY <1>2 DEF Offered
  <2> HIDE DEF k
  <2>4. NewIs(k, "none")
    <3>1. NewValue(k, s[k]) = s[k] /\ IsValue(k, s[k])
      BY <1>1, <2>3 DEF NewIs, NewValue
    <3>2. s[k] = "none"
      BY <1>1, <3>1 DEF IsValue
    <3> QED
      BY <2>3, <3>2
  <2>5. Serves(Stmt("ensure", k, One(k, "none")), 2, s, t, fl, allow, all)
    BY <1>1, <2>3, <2>4, MakeServes DEF Makes, Deparsed
  <2> QED
    BY <2>2, <2>5, RendersOne
<1>3. CASE c = Plain("drop_schema", k) /\ k \in DOMAIN t
  <2>1. c.op = "drop_schema"
    BY <1>3 DEF Plain, Change
  <2>2. PhaseOf(c) = 27 /\ Statements(c, fl) = <<DropStmt(k)>>
    BY <2>1, LatePhases
  <2>3. Gated(c, allow) \/ allow
    BY <2>1 DEF Gated, Destructive, Manual
  <2>4. InScope(k)
    BY <1>3 DEF Within
  <2> HIDE DEF k
  <2> QED
    BY <1>1, <2>2, <2>3, <2>4, RendersDrop DEF Deparsed
<1> QED
  BY <1>1, <1>2, <1>3

LEMMA ExtensionServes ==
  ASSUME NEW s, Offered(s), NEW t, Within(t), NEW all, NEW fl, NEW allow \in BOOLEAN,
         NEW c, ExtensionChange(c, s, t)
  PROVE  RendersOK(c, s, t, fl, allow, all)
<1> DEFINE k == c.on
           x == <<"schema", s[k].schema>>
<1>1. k[1] = "extension" /\ \/ c = Change("create_extension", k, s[k], FALSE) /\ k \in DOMAIN s
                            \/ c = Change("move_extension", k, s[k], FALSE) /\ k \in DOMAIN s
                            \/ c = Plain("drop_extension", k) /\ k \in DOMAIN t
  BY DEF ExtensionChange
<1>2. ASSUME k \in DOMAIN s
      PROVE  /\ Serves(Stmt("ensure", x, One(x, "none")), 2, s, t, fl, allow, all)
             /\ NewIs(k, s[k]) /\ InScope(k) /\ s[k].schema \in NameSet
  <2>1. NewIs(k, s[k]) /\ InScope(k) /\ s[k].schema \in NameSet
    BY <1>1, <1>2 DEF Offered
  <2>2. NewIs(x, "none") /\ x[1] = "schema"
    BY <2>1, NewSchema
  <2>3. "ensure" \in Makes /\ x[1] \notin Deparsed \cup {"table", "constraint", "index"}
    BY <2>2 DEF Makes, Deparsed
  <2>4. \E e \in DOMAIN s : e[1] = "extension" /\ x = <<"schema", s[e].schema>>
    BY <1>1, <1>2
  <2> HIDE DEF x
  <2>5. Serves(Stmt("ensure", x, One(x, "none")), 2, s, t, fl, allow, all)
    BY <2>2, <2>3, <2>4, MakeServes
  <2> QED
    BY <2>1, <2>5
<1>3. CASE c = Change("create_extension", k, s[k], FALSE) /\ k \in DOMAIN s
  <2>1. c.op = "create_extension" /\ c.to = s[k]
    BY <1>3 DEF Change
  <2>2. PhaseOf(c) = 2 /\ Statements(c, fl) = CreateExtensionSql(c)
    BY <2>1, TypePhases
  <2>3. Statements(c, fl) = <<Stmt("ensure", x, One(x, "none")), Stmt("ensure", k, One(k, s[k]))>>
    BY <2>1, <2>2 DEF CreateExtensionSql
  <2> HIDE DEF k, x
  <2>4. Serves(Stmt("ensure", k, One(k, s[k])), 2, s, t, fl, allow, all)
    BY <1>1, <1>2, <1>3, MakeServes DEF Makes, Deparsed
  <2> QED
    BY <1>2, <1>3, <2>2, <2>3, <2>4, RendersTwo
<1>4. CASE c = Change("move_extension", k, s[k], FALSE) /\ k \in DOMAIN s
  <2>1. c.op = "move_extension" /\ c.to = s[k]
    BY <1>4 DEF Change
  <2>2. PhaseOf(c) = 2 /\ Statements(c, fl) = MoveExtensionSql(c)
    BY <2>1, TypePhases
  <2>3. Statements(c, fl) = <<Stmt("ensure", x, One(x, "none")), Set(k, "schema", s[k].schema)>>
    BY <2>1, <2>2 DEF MoveExtensionSql
  <2> HIDE DEF k, x
  <2>4. SetOK(k, [facet |-> "schema", value |-> s[k].schema])
    BY <1>1, <1>2, <1>4 DEF SetOK
  <2>5. Serves(Set(k, "schema", s[k].schema), 2, s, t, fl, allow, all)
    BY <1>2, <1>4, <2>4, SetServes
  <2> QED
    BY <1>2, <1>4, <2>2, <2>3, <2>5, RendersTwo
<1>5. CASE c = Plain("drop_extension", k) /\ k \in DOMAIN t
  <2>1. c.op = "drop_extension"
    BY <1>5 DEF Plain, Change
  <2>2. PhaseOf(c) = 26 /\ Statements(c, fl) = <<DropStmt(k)>>
    BY <2>1, LatePhases
  <2>3. Gated(c, allow) \/ allow
    BY <2>1 DEF Gated, Destructive, Manual
  <2>4. InScope(k)
    BY <1>5 DEF Within
  <2> HIDE DEF k
  <2> QED
    BY <1>1, <2>2, <2>3, <2>4, RendersDrop DEF Deparsed
<1> QED
  BY <1>1, <1>3, <1>4, <1>5

LEMMA RendersMake ==
  ASSUME NEW c, NEW s, NEW t, NEW fl, NEW allow, NEW all, NEW k, NEW do \in Makes,
         Offered(s), k \in DOMAIN s, Statements(c, fl) = <<Stmt(do, k, One(k, s[k]))>>,
         PhaseOf(c) # 0, k[1] \in Deparsed \cup {"table"} => PhaseOf(c) > 9
  PROVE  RendersOK(c, s, t, fl, allow, all)
<1>1. NewIs(k, s[k]) /\ InScope(k)
  BY DEF Offered
<1>2. Serves(Stmt(do, k, One(k, s[k])), PhaseOf(c), s, t, fl, allow, all)
  BY <1>1, MakeServes
<1> QED
  BY <1>2, RendersOne

LEMMA ViewServes ==
  ASSUME NEW s, Offered(s), NEW t, Within(t), NEW all, NEW fl, NEW allow \in BOOLEAN,
         NEW c, ViewChange(c, s, t, all)
  PROVE  RendersOK(c, s, t, fl, allow, all)
<1> DEFINE k == c.on
<1>1. k[1] = "view"
  BY DEF ViewChange
<1>2. CASE c = Change("create_view", k, s[k], FALSE) /\ k \in DOMAIN s
  <2>1. c.op = "create_view" /\ c.to = s[k] /\ c.replaced = FALSE
    BY <1>2 DEF Change
  <2>2. PhaseOf(c) \in {19, 20} /\ Statements(c, fl) = CreateSql(c)
    BY <2>1, LatePhases, AddPhases
  <2>3. Statements(c, fl) = <<Stmt("create", k, One(k, s[k]))>>
    BY <2>1, <2>2 DEF CreateSql
  <2> HIDE DEF k
  <2>4. "create" \in Makes
    BY DEF Makes
  <2>5. PhaseOf(c) # 0 /\ (k[1] \in Deparsed \cup {"table"} => PhaseOf(c) > 9)
    BY <1>1, <2>2 DEF Deparsed
  <2> QED
    BY <1>2, <2>3, <2>4, <2>5, RendersMake
<1>3. CASE c = Change("drop_view", k, "none", FALSE) /\ k \in DOMAIN t
  <2>1. c.op = "drop_view" /\ ~c.replaced
    BY <1>3 DEF Plain, Change
  <2>2. PhaseOf(c) = 6 /\ Statements(c, fl) = <<DropStmt(k)>>
    BY <2>1, DropPhases, TypePhases
  <2>3. Gated(c, allow) \/ allow
    BY <2>1 DEF Gated, Destructive, Manual
  <2>4. InScope(k)
    BY <1>3 DEF Within
  <2> HIDE DEF k
  <2>5. PhaseOf(c) # 0
    BY <2>2
  <2> QED
    BY <1>1, <2>2, <2>3, <2>4, <2>5, RendersDrop DEF Deparsed
<1>4. CASE /\ c = Change("drop_view", k, "none", TRUE) /\ k \in DOMAIN s \cap DOMAIN t
            /\ s[k] # t[k] /\ Change("create_view", k, s[k], FALSE) \in all
  <2>1. c.op = "drop_view"
    BY <1>4 DEF Change
  <2>2. PhaseOf(c) = 6 /\ Statements(c, fl) = <<DropStmt(k)>>
    BY <2>1, DropPhases, TypePhases
  <2>3. Owes(k, s, all)
    BY <1>4 DEF Owes, CreateOps
  <2>4. DropOK(k, s, t, all)
    BY <1>1, <1>4, <2>3 DEF DropOK, Deparsed
  <2>5. InScope(k)
    BY <1>4 DEF Within
  <2> HIDE DEF k
  <2>6. PhaseOf(c) \in 3..9 /\ PhaseOf(c) # 0
    BY <2>2
  <2> QED
    BY <1>1, <2>2, <2>4, <2>5, <2>6, RendersDrop DEF Deparsed
<1> QED
  BY <1>2, <1>3, <1>4 DEF ViewChange

LEMMA PolicyServes ==
  ASSUME NEW s, Offered(s), NEW t, Within(t), NEW all, NEW fl, NEW allow \in BOOLEAN,
         NEW c, PolicyChange(c, s, t, all)
  PROVE  RendersOK(c, s, t, fl, allow, all)
<1> DEFINE k == c.on
<1>1. k[1] = "policy"
  BY DEF PolicyChange
<1>2. CASE c = Change("create_policy", k, s[k], FALSE) /\ k \in DOMAIN s
  <2>1. c.op = "create_policy" /\ c.to = s[k] /\ c.replaced = FALSE
    BY <1>2 DEF Change
  <2>2. PhaseOf(c) = 25 /\ Statements(c, fl) = CreateSql(c)
    BY <2>1, LatePhases
  <2>3. Statements(c, fl) = <<Stmt("create", k, One(k, s[k]))>>
    BY <2>1, <2>2 DEF CreateSql
  <2> HIDE DEF k
  <2>4. "create" \in Makes
    BY DEF Makes
  <2>5. PhaseOf(c) # 0 /\ (k[1] \in Deparsed \cup {"table"} => PhaseOf(c) > 9)
    BY <1>1, <2>2 DEF Deparsed
  <2> QED
    BY <1>2, <2>3, <2>4, <2>5, RendersMake
<1>3. CASE c = Change("drop_policy", k, "none", FALSE) /\ k \in DOMAIN t
  <2>1. c.op = "drop_policy" /\ ~c.replaced
    BY <1>3 DEF Plain, Change
  <2>2. PhaseOf(c) = 5 /\ Statements(c, fl) = <<DropStmt(k)>>
    BY <2>1, DropPhases, TypePhases
  <2>3. Gated(c, allow) \/ allow
    BY <2>1 DEF Gated, Destructive, Manual
  <2>4. InScope(k)
    BY <1>3 DEF Within
  <2> HIDE DEF k
  <2>5. PhaseOf(c) # 0
    BY <2>2
  <2> QED
    BY <1>1, <2>2, <2>3, <2>4, <2>5, RendersDrop DEF Deparsed
<1>4. CASE /\ c = Change("drop_policy", k, "none", TRUE) /\ k \in DOMAIN s \cap DOMAIN t
            /\ s[k] # t[k] /\ Change("create_policy", k, s[k], FALSE) \in all
  <2>1. c.op = "drop_policy"
    BY <1>4 DEF Change
  <2>2. PhaseOf(c) = 5 /\ Statements(c, fl) = <<DropStmt(k)>>
    BY <2>1, DropPhases, TypePhases
  <2>3. Owes(k, s, all)
    BY <1>4 DEF Owes, CreateOps
  <2>4. DropOK(k, s, t, all)
    BY <1>1, <1>4, <2>3 DEF DropOK, Deparsed
  <2>5. InScope(k)
    BY <1>4 DEF Within
  <2> HIDE DEF k
  <2>6. PhaseOf(c) \in 3..9 /\ PhaseOf(c) # 0
    BY <2>2
  <2> QED
    BY <1>1, <2>2, <2>4, <2>5, <2>6, RendersDrop DEF Deparsed
<1> QED
  BY <1>2, <1>3, <1>4 DEF PolicyChange

LEMMA IndexServes ==
  ASSUME NEW s, Offered(s), NEW t, Within(t), NEW all, NEW fl, NEW allow \in BOOLEAN,
         NEW c, IndexChange(c, s, t, all)
  PROVE  RendersOK(c, s, t, fl, allow, all)
<1> DEFINE k == c.on
<1>1. k[1] = "index"
  BY DEF IndexChange
<1>2. CASE c = Change("create_index", k, s[k], FALSE) /\ k \in DOMAIN s
  <2>1. c.op = "create_index" /\ c.to = s[k] /\ c.replaced = FALSE
    BY <1>2 DEF Change
  <2>2. PhaseOf(c) = 16 /\ Statements(c, fl) = CreateSql(c)
    BY <2>1, AddPhases, LatePhases
  <2>3. Statements(c, fl) = <<Stmt("create", k, One(k, s[k]))>>
    BY <2>1, <2>2 DEF CreateSql
  <2> HIDE DEF k
  <2>4. "create" \in Makes
    BY DEF Makes
  <2>5. PhaseOf(c) # 0 /\ (k[1] \in Deparsed \cup {"table"} => PhaseOf(c) > 9)
    BY <1>1, <2>2 DEF Deparsed
  <2> QED
    BY <1>2, <2>3, <2>4, <2>5, RendersMake
<1>3. CASE /\ c = Change("drop_index", k, t[k].unique, FALSE) /\ k \in DOMAIN t
  <2>1. c.op = "drop_index" /\ ~c.replaced /\ c.to = t[k].unique
    BY <1>3 DEF Change
  <2>2. PhaseOf(c) = 9 /\ Statements(c, fl) = <<DropStmt(k)>>
    BY <2>1, DropPhases
  <2>3. Gated(c, allow) \/ allow \/ DropOK(k, s, t, all)
    BY <1>1, <1>3, <2>1 DEF Gated, Destructive, Manual, DropOK, Spares, Deparsed
  <2>4. InScope(k)
    BY <1>3 DEF Within
  <2> HIDE DEF k
  <2>5. PhaseOf(c) # 0 /\ PhaseOf(c) \in 3..9
    BY <2>2
  <2> QED
    BY <1>1, <2>2, <2>3, <2>4, <2>5, RendersDrop DEF Deparsed
<1>4. CASE /\ c = Change("drop_index", k, t[k].unique, TRUE) /\ k \in DOMAIN s \cap DOMAIN t
            /\ s[k].def # t[k].def /\ Change("create_index", k, s[k], FALSE) \in all
  <2>1. c.op = "drop_index"
    BY <1>4 DEF Change
  <2>2. PhaseOf(c) = 9 /\ Statements(c, fl) = <<DropStmt(k)>>
    BY <2>1, DropPhases
  <2>3. Owes(k, s, all)
    BY <1>4 DEF Owes, CreateOps
  <2>4. DropOK(k, s, t, all)
    BY <1>1, <1>4, <2>3 DEF DropOK, Deparsed
  <2>5. InScope(k)
    BY <1>4 DEF Within
  <2> HIDE DEF k
  <2>6. PhaseOf(c) \in 3..9 /\ PhaseOf(c) # 0
    BY <2>2
  <2> QED
    BY <1>1, <2>2, <2>4, <2>5, <2>6, RendersDrop DEF Deparsed
<1> QED
  BY <1>2, <1>3, <1>4 DEF IndexChange

LEMMA RoutineServes ==
  ASSUME NEW s, Offered(s), NEW t, Within(t), NEW all, NEW fl, NEW allow \in BOOLEAN,
         NEW c, RoutineChange(c, s, t, all)
  PROVE  RendersOK(c, s, t, fl, allow, all)
<1> DEFINE k == c.on
<1>1. k[1] = "routine"
  BY DEF RoutineChange
<1>2. CASE c = Change("create_function", k, s[k], FALSE) /\ k \in DOMAIN s
  <2>1. c.op = "create_function" /\ c.to = s[k] /\ c.replaced = FALSE
    BY <1>2 DEF Change
  <2>2. PhaseOf(c) = 21 /\ Statements(c, fl) = <<Stmt(IF c.replaced THEN "replace" ELSE "create", c.on, One(c.on, c.to))>>
    BY <2>1, AddPhases, LatePhases
  <2>3. Statements(c, fl) = <<Stmt("create", k, One(k, s[k]))>>
    BY <2>1, <2>2 DEF Stmt
  <2> HIDE DEF k
  <2>4. "create" \in Makes
    BY DEF Makes
  <2>5. PhaseOf(c) # 0 /\ (k[1] \in Deparsed \cup {"table"} => PhaseOf(c) > 9)
    BY <1>1, <2>2 DEF Deparsed
  <2> QED
    BY <1>2, <2>3, <2>4, <2>5, RendersMake
<1>3. CASE c = Change("drop_function", k, "none", FALSE) /\ k \in DOMAIN t
  <2>1. c.op = "drop_function" /\ ~c.replaced
    BY <1>3 DEF Plain, Change
  <2>2. PhaseOf(c) \in {4, 26} /\ Statements(c, fl) = <<DropStmt(k)>>
    BY <2>1, LatePhases
  <2>3. Gated(c, allow) \/ allow
    BY <2>1 DEF Gated, Destructive, Manual
  <2>4. InScope(k)
    BY <1>3 DEF Within
  <2> HIDE DEF k
  <2>5. PhaseOf(c) # 0
    BY <2>2
  <2> QED
    BY <1>1, <2>2, <2>3, <2>4, <2>5, RendersDrop DEF Deparsed
<1>4. CASE /\ c = Change("drop_function", k, "none", TRUE) /\ k \in DOMAIN s \cap DOMAIN t
            /\ Change("create_function", k, s[k], FALSE) \in all
  <2>1. c.op = "drop_function" /\ c.replaced
    BY <1>4 DEF Change
  <2>7. PhaseOf(c) = 4
    BY <2>1 DEF PhaseOf, IsFk, ConstraintDropPhase
  <2>2. PhaseOf(c) = 4 /\ Statements(c, fl) = <<DropStmt(k)>>
    BY <2>1, <2>7, LatePhases
  <2>3. Owes(k, s, all)
    BY <1>4 DEF Owes, CreateOps
  <2>4. DropOK(k, s, t, all)
    BY <1>1, <1>4, <2>3 DEF DropOK, Deparsed
  <2>5. InScope(k)
    BY <1>4 DEF Within
  <2> HIDE DEF k
  <2>6. PhaseOf(c) \in 3..9 /\ PhaseOf(c) # 0
    BY <2>2
  <2> QED
    BY <1>1, <2>2, <2>4, <2>5, <2>6, RendersDrop DEF Deparsed
<1>5. CASE c = Change("create_function", k, s[k], TRUE) /\ k \in DOMAIN s
  <2>1. c.op = "create_function" /\ c.to = s[k] /\ c.replaced = TRUE
    BY <1>5 DEF Change
  <2>2. /\ PhaseOf(c) = 21
        /\ Statements(c, fl) = <<Stmt(IF c.replaced THEN "replace" ELSE "create", c.on, One(c.on, c.to))>>
    BY <2>1, AddPhases
  <2> DEFINE st == Stmt("replace", k, One(k, s[k]))
  <2>3. Statements(c, fl) = <<st>>
    BY <2>1, <2>2
  <2>4. st.do = "replace" /\ st.on = k /\ st.with = One(k, s[k])
    BY DEF Stmt
  <2>5. /\ NewIs(k, s[k]) /\ InScope(k) /\ IsValue(k, s[k]) /\ NamesNoKey(k, s[k])
        /\ k \in Identifiers
    BY <1>1, <1>5 DEF Offered, NewIs, Deparsed
  <2>6. One(k, s[k])[k] = s[k]
    BY DEF One
  <2> HIDE DEF k, st
  <2>7. StmtOK(st)
    BY <1>1, <2>4, <2>5, <2>6 DEF StmtOK
  <2>8. Serves(st, 21, s, t, fl, allow, all)
    BY <2>4, <2>5, <2>7, OtherServes DEF Makes, Drops
  <2> QED
    BY <2>2, <2>3, <2>8, RendersOne
<1> QED
  BY <1>2, <1>3, <1>4, <1>5 DEF RoutineChange

LEMMA SequenceServes ==
  ASSUME NEW s, Offered(s), NEW t, Within(t), NEW all, NEW fl, NEW allow \in BOOLEAN,
         NEW c, SequenceChange(c, s, t, all)
  PROVE  RendersOK(c, s, t, fl, allow, all)
<1> DEFINE k == c.on
<1>1. k[1] = "sequence"
  BY DEF SequenceChange
<1>2. CASE c = Change("create_sequence", k, s[k], FALSE) /\ k \in DOMAIN s
  <2>1. c.op = "create_sequence" /\ c.to = s[k] /\ c.replaced = FALSE
    BY <1>2 DEF Change
  <2>2. PhaseOf(c) = 10 /\ Statements(c, fl) = EnsureSql(c)
    BY <2>1, DropPhases, TypePhases
  <2>3. Statements(c, fl) = <<Stmt("ensure", k, One(k, s[k]))>>
    BY <2>1, <2>2 DEF EnsureSql
  <2> HIDE DEF k
  <2>4. "ensure" \in Makes
    BY DEF Makes
  <2>5. PhaseOf(c) # 0 /\ (k[1] \in Deparsed \cup {"table"} => PhaseOf(c) > 9)
    BY <1>1, <2>2 DEF Deparsed
  <2> QED
    BY <1>2, <2>3, <2>4, <2>5, RendersMake
<1>3. CASE c = Plain("drop_sequence", k) /\ k \in DOMAIN t
  <2>1. c.op = "drop_sequence"
    BY <1>3 DEF Plain, Change
  <2>2. PhaseOf(c) = 26 /\ Statements(c, fl) = <<DropStmt(k)>>
    BY <2>1, LatePhases
  <2>3. Gated(c, allow) \/ allow
    BY <2>1 DEF Gated, Destructive, Manual
  <2>4. InScope(k)
    BY <1>3 DEF Within
  <2> HIDE DEF k
  <2>5. PhaseOf(c) # 0
    BY <2>2
  <2> QED
    BY <1>1, <2>2, <2>3, <2>4, <2>5, RendersDrop DEF Deparsed
<1>4. CASE c = Change("alter_sequence", k, s[k], FALSE) /\ k \in DOMAIN s \cap DOMAIN t
  <2>1. c.op = "alter_sequence" /\ c.to = s[k]
    BY <1>4 DEF Change
  <2>2. PhaseOf(c) = 10 /\ Statements(c, fl) = AlterSequenceSql(c)
    BY <2>1, DropPhases
  <2>3. Statements(c, fl) = <<Stmt("clamp", k, s[k]), Stmt("resize", k, s[k])>>
    BY <2>1, <2>2 DEF AlterSequenceSql
  <2>4. InScope(k)
    BY <1>4 DEF Offered
  <2> HIDE DEF k
  <2>6. IsRange(s[k])
    <3> DEFINE w == NewValue(k, s[k])
    <3>1. w.min = s[k].min /\ w.max = s[k].max
      BY <1>1 DEF NewValue
    <3>2. IsValue(k, w)
      BY <1>4 DEF Offered, NewIs
    <3> HIDE DEF w
    <3> QED
      BY <1>1, <3>1, <3>2 DEF IsValue, IsSequence, InBounds, IsRange
  <2>5. ASSUME NEW do \in {"clamp", "resize"}
        PROVE  Serves(Stmt(do, k, s[k]), 10, s, t, fl, allow, all)
    <3> DEFINE st == Stmt(do, k, s[k])
    <3>1. st.do = do /\ st.on = k /\ st.with = s[k]
      BY DEF Stmt
    <3> HIDE DEF st
    <3>2. StmtOK(st)
      BY <1>1, <2>6, <3>1 DEF StmtOK
    <3>3. Serves(st, 10, s, t, fl, allow, all)
      BY <1>4, <2>4, <3>1, <3>2, OtherServes DEF Makes, Drops
    <3> QED
      BY <3>3 DEF st
  <2> QED
    BY <2>2, <2>3, <2>5, RendersTwo
<1> QED
  BY <1>2, <1>3, <1>4 DEF SequenceChange

LEMMA EnumServes ==
  ASSUME NEW s, Offered(s), NEW t, Within(t), NEW all, NEW fl, NEW allow \in BOOLEAN,
         NEW c, EnumChange(c, s, t, all)
  PROVE  RendersOK(c, s, t, fl, allow, all)
<1> DEFINE k == c.on
<1>1. k[1] = "enum"
  BY DEF EnumChange
<1>2. CASE c = Change("create_enum", k, s[k], FALSE) /\ k \in DOMAIN s
  <2>1. c.op = "create_enum" /\ c.to = s[k] /\ c.replaced = FALSE
    BY <1>2 DEF Change
  <2>2. PhaseOf(c) = 2 /\ Statements(c, fl) = CreateSql(c)
    BY <2>1, TypePhases
  <2>3. Statements(c, fl) = <<Stmt("create", k, One(k, s[k]))>>
    BY <2>1, <2>2 DEF CreateSql
  <2> HIDE DEF k
  <2>4. "create" \in Makes
    BY DEF Makes
  <2>5. PhaseOf(c) # 0 /\ (k[1] \in Deparsed \cup {"table"} => PhaseOf(c) > 9)
    BY <1>1, <2>2 DEF Deparsed
  <2> QED
    BY <1>2, <2>3, <2>4, <2>5, RendersMake
<1>3. CASE c = Plain("drop_enum", k) /\ k \in DOMAIN t
  <2>1. c.op = "drop_enum"
    BY <1>3 DEF Plain, Change
  <2>2. PhaseOf(c) = 26 /\ Statements(c, fl) = <<DropStmt(k)>>
    BY <2>1, LatePhases
  <2>3. Gated(c, allow) \/ allow
    BY <2>1 DEF Gated, Destructive, Manual
  <2>4. InScope(k)
    BY <1>3 DEF Within
  <2> HIDE DEF k
  <2>5. PhaseOf(c) # 0
    BY <2>2
  <2> QED
    BY <1>1, <2>2, <2>3, <2>4, <2>5, RendersDrop DEF Deparsed
<1>4. CASE c = Plain("enum_needs_rebuild", k)
  <2>1. c.op = "enum_needs_rebuild"
    BY <1>4 DEF Plain, Change
  <2>2. Statements(c, fl) = <<>>
    BY <2>1, TypePhases
  <2>3. IsSeq(<<>>) /\ ToSet(<<>>) = {}
    BY Listed
  <2> QED
    BY <2>2, <2>3, Renders
<1>5. CASE /\ k \in DOMAIN s \cap DOMAIN t /\ IsSubsequence(t[k].labels, s[k].labels)
           /\ LabelChange(c, k, s[k].labels, t[k].labels)
  <2>1. c.op = "add_enum_value"
    BY <1>5 DEF LabelChange, Change
  <2> DEFINE st == Stmt("add_label", k, c.to)
  <2>2. PhaseOf(c) = 0 /\ Statements(c, fl) = <<st>>
    BY <2>1, TypePhases
  <2>3. st.do = "add_label" /\ st.on = k /\ st.with = c.to
    BY DEF Stmt
  <2>4. InScope(k) /\ s[k].labels \in Seq(STRING)
    BY <1>1, <1>5 DEF Offered, IsReading
  <2>5. Anchored(c.to, s[k].labels, t[k].labels)
    BY <1>5 DEF LabelChange
  <2>6. c.to.label \in STRING
    BY <2>4, <2>5 DEF Anchored
  <2> HIDE DEF st, k
  <2>7. StmtOK(st)
    BY <1>1, <2>3, <2>6 DEF StmtOK
  <2>8. LabelOK(k, c.to, s, t)
    BY <1>1, <1>5, <2>5 DEF LabelOK
  <2>9. Serves(st, 0, s, t, fl, allow, all)
    BY <2>3, <2>4, <2>7, <2>8 DEF Serves, Makes, Drops
  <2> QED
    BY <2>2, <2>9, RendersOne
<1> QED
  BY <1>2, <1>3, <1>4, <1>5 DEF EnumChange

LEMMA TriggerServes ==
  ASSUME NEW s, Offered(s), NEW t, Within(t), NEW all, NEW fl, NEW allow \in BOOLEAN,
         NEW c, TriggerChange(c, s, t, all)
  PROVE  RendersOK(c, s, t, fl, allow, all)
<1> DEFINE k == c.on
<1>1. k[1] = "trigger"
  BY DEF TriggerChange
<1>2. CASE c = Change("create_trigger", k, s[k], FALSE) /\ k \in DOMAIN s
  <2> DEFINE v == [s[k] EXCEPT !.mode = "origin"]
  <2>1. c.op = "create_trigger" /\ c.to = s[k]
    BY <1>2 DEF Change
  <2>2. PhaseOf(c) = 22 /\ Statements(c, fl) = <<Stmt("create", k, One(k, v))>>
    BY <2>1, AddPhases
  <2>3. InScope(k) /\ NewIs(k, s[k]) /\ s[k] = [mode |-> s[k].mode, def |-> s[k].def]
    BY <1>1, <1>2 DEF Offered
  <2>4. v = [mode |-> v.mode, def |-> v.def] /\ v.def = s[k].def
    <3>1. PICK m, f : m = s[k].mode /\ f = s[k].def
      OBVIOUS
    <3>2. s[k] = [mode |-> m, def |-> f]
      BY <2>3, <3>1
    <3>3. v = [mode |-> "origin", def |-> f]
      BY <3>2
    <3> QED
      BY <3>1, <3>3
  <2> HIDE DEF k, v
  <2>5. NewIs(k, v)
    <3>1. NewValue(k, v) = v /\ NewValue(k, s[k]) = s[k]
      BY <1>1 DEF NewValue
    <3>2. UsesOf(k, v) = UsesOf(k, s[k])
      BY <1>1, <2>4 DEF UsesOf, Deparsed
    <3>3. NamesNoKey(k, v)
      BY <1>1, <2>3, <3>1, <3>2 DEF NewIs, NamesNoKey
    <3>4. IsValue(k, v)
      BY <1>1, <2>4 DEF IsValue
    <3> QED
      BY <1>1, <2>3, <3>1, <3>3, <3>4 DEF NewIs
  <2>6. "create" \in Makes
    BY DEF Makes
  <2>7. Serves(Stmt("create", k, One(k, v)), 22, s, t, fl, allow, all)
    BY <1>1, <2>3, <2>5, <2>6, MakeServes
  <2> QED
    BY <2>2, <2>7, RendersOne
<1>3. CASE c = Change("drop_trigger", k, "none", FALSE) /\ k \in DOMAIN t
  <2>1. c.op = "drop_trigger" /\ ~c.replaced
    BY <1>3 DEF Plain, Change
  <2>2. PhaseOf(c) = 3 /\ Statements(c, fl) = <<DropStmt(k)>>
    BY <2>1, DropPhases, TypePhases
  <2>3. Gated(c, allow) \/ allow
    BY <2>1 DEF Gated, Destructive, Manual
  <2>4. InScope(k)
    BY <1>3 DEF Within
  <2> HIDE DEF k
  <2>5. PhaseOf(c) # 0
    BY <2>2
  <2> QED
    BY <1>1, <2>2, <2>3, <2>4, <2>5, RendersDrop DEF Deparsed
<1>4. CASE /\ c = Change("drop_trigger", k, "none", TRUE) /\ k \in DOMAIN s \cap DOMAIN t
            /\ Change("create_trigger", k, s[k], FALSE) \in all
  <2>1. c.op = "drop_trigger"
    BY <1>4 DEF Change
  <2>2. PhaseOf(c) = 3 /\ Statements(c, fl) = <<DropStmt(k)>>
    BY <2>1, DropPhases
  <2>3. Owes(k, s, all)
    BY <1>4 DEF Owes, CreateOps
  <2>4. DropOK(k, s, t, all)
    BY <1>1, <1>4, <2>3 DEF DropOK, Deparsed
  <2>5. InScope(k)
    BY <1>4 DEF Within
  <2> HIDE DEF k
  <2>6. PhaseOf(c) \in 3..9 /\ PhaseOf(c) # 0
    BY <2>2
  <2> QED
    BY <1>1, <2>2, <2>4, <2>5, <2>6, RendersDrop DEF Deparsed
<1>5. CASE c = Change("set_trigger_mode", k, s[k].mode, FALSE) /\ k \in DOMAIN s
  <2>1. c.op = "set_trigger_mode" /\ c.to = s[k].mode
    BY <1>5 DEF Change
  <2>2. PhaseOf(c) = 23 /\ Statements(c, fl) = <<Set(k, "mode", s[k].mode)>>
    BY <2>1, AddPhases
  <2>3. InScope(k) /\ SetOK(k, [facet |-> "mode", value |-> s[k].mode])
    BY <1>1, <1>5 DEF Offered, SetOK
  <2> HIDE DEF k
  <2>4. Serves(Set(k, "mode", s[k].mode), 23, s, t, fl, allow, all)
    BY <2>3, SetServes
  <2> QED
    BY <2>2, <2>4, RendersOne
<1> QED
  BY <1>2, <1>3, <1>4, <1>5 DEF TriggerChange

(* A constraint is added, and validated later if that is worth it. *)
LEMMA AddServes ==
  ASSUME NEW s, Offered(s), NEW t, NEW all, NEW fl, NEW allow, NEW n, NEW k \in DOMAIN s,
         k[1] = "constraint", n > 9, n # 0, NEW isNew \in BOOLEAN
  PROVE  LET q == AddConstraintSql(k, s[k], isNew) IN
         /\ IsSeq(q) /\ \A st \in ToSet(q) : Serves(st, n, s, t, fl, allow, all)
<1> DEFINE a == Stmt("create", k, One(k, s[k]))
           b == Stmt("validate", k, "none")
           p == ~isNew /\ s[k].kind \in {"check", "foreign"}
<1>1. AddConstraintSql(k, s[k], isNew) = <<a>> \o When(p, b)
  BY DEF AddConstraintSql
<1>2. NewIs(k, s[k]) /\ InScope(k) /\ "create" \in Makes
  BY DEF Offered, Makes
<1>3. Serves(a, n, s, t, fl, allow, all)
  BY <1>2, MakeServes
<1>4. b.do = "validate" /\ b.on = k
  BY DEF Stmt
<1> HIDE DEF a, b
<1>5. Serves(b, n, s, t, fl, allow, all)
  <2>1. StmtOK(b)
    BY <1>4 DEF StmtOK
  <2> QED
    BY <1>2, <1>4, <2>1, OtherServes DEF Makes, Drops
<1>6. p \in BOOLEAN
  OBVIOUS
<1> HIDE DEF p
<1>7. IsSeq(When(p, b)) /\ \A st \in ToSet(When(p, b)) : st = b
  BY <1>6, WhenIs
<1>8. IsSeq(<<a>>) /\ ToSet(<<a>>) = {a}
  BY Listed
<1>9. IsSeq(<<a>> \o When(p, b)) /\ ToSet(<<a>> \o When(p, b)) = ToSet(<<a>>) \cup ToSet(When(p, b))
  BY <1>7, <1>8, Joined
<1> QED
  BY <1>1, <1>3, <1>5, <1>7, <1>8, <1>9

LEMMA ConstraintServes ==
  ASSUME NEW s, Offered(s), NEW t, Within(t), NEW all, NEW fl, NEW allow \in BOOLEAN,
         NEW c, ConstraintChange(c, s, t, all)
  PROVE  RendersOK(c, s, t, fl, allow, all)
<1> DEFINE k == c.on
<1>1. k[1] = "constraint"
  BY DEF ConstraintChange
<1>2. CASE c = Change("add_constraint", k, s[k], FALSE) /\ k \in DOMAIN s
  <2>1. c.op = "add_constraint" /\ c.to = s[k]
    BY <1>2 DEF Change
  <2>2. PhaseOf(c) \in {15, 17} /\ Statements(c, fl) = AddConstraintSql(k, s[k], FALSE)
    BY <2>1, AddPhases, OriginPhases
  <2>3. PhaseOf(c) > 9 /\ PhaseOf(c) # 0
    BY <2>2
  <2> HIDE DEF k
  <2>4. LET q == AddConstraintSql(k, s[k], FALSE) IN
        /\ IsSeq(q) /\ \A st \in ToSet(q) : Serves(st, PhaseOf(c), s, t, fl, allow, all)
    BY <1>1, <1>2, <2>3, AddServes
  <2> QED
    BY <2>2, <2>4, Renders
<1>3. ASSUME k \in DOMAIN t, c.op = "drop_constraint", c.to = t[k].kind, NEW r \in BOOLEAN,
             c.replaced = r, r => Owes(k, s, all)
      PROVE  RendersOK(c, s, t, fl, allow, all)
  <2> DEFINE do == IF fl = "cockroach" /\ c.to = "unique" THEN "drop_cascade" ELSE "drop"
  <2>1. PhaseOf(c) \in {7, 8} /\ Statements(c, fl) = DependentDropSql(c, fl)
    BY <1>3, DropPhases
  <2>2. Statements(c, fl) = <<Stmt(do, k, "none")>>
    BY <1>3, <2>1 DEF DependentDropSql, DropStmt
  <2>3. Gated(c, allow) \/ allow \/ DropOK(k, s, t, all)
    BY <1>1, <1>3 DEF Gated, Destructive, Manual, DropOK, Spares, Deparsed
  <2>4. InScope(k) /\ do \in Drops /\ (do = "drop_cascade" => fl = "cockroach")
    BY <1>3 DEF Within, Drops
  <2> HIDE DEF k, do
  <2>5. PhaseOf(c) # 0 /\ PhaseOf(c) \in 3..9
    BY <2>1
  <2>6. Gated(c, allow) \/ Serves(Stmt(do, k, "none"), PhaseOf(c), s, t, fl, allow, all)
    <3> SUFFICES ASSUME ~Gated(c, allow)
                 PROVE  Serves(Stmt(do, k, "none"), PhaseOf(c), s, t, fl, allow, all)
      OBVIOUS
    <3> QED
      BY <1>1, <2>3, <2>4, <2>5, DropServes DEF Deparsed
  <2> QED
    BY <2>2, <2>6, RendersOne
<1>4. CASE c = Change("drop_constraint", k, t[k].kind, FALSE) /\ k \in DOMAIN t
  <2>1. k \in DOMAIN t /\ c.op = "drop_constraint" /\ c.to = t[k].kind /\ c.replaced = FALSE
    BY <1>4 DEF Change
  <2> HIDE DEF k
  <2> QED
    BY <1>3, <2>1
<1>5. CASE /\ c = Change("drop_constraint", k, t[k].kind, TRUE) /\ k \in DOMAIN s \cap DOMAIN t
           /\ s[k].def # t[k].def /\ Change("add_constraint", k, s[k], FALSE) \in all
  <2>1. Owes(k, s, all)
    BY <1>5 DEF Owes, CreateOps
  <2>2. k \in DOMAIN t /\ c.op = "drop_constraint" /\ c.to = t[k].kind /\ c.replaced = TRUE
    BY <1>5 DEF Change
  <2> HIDE DEF k
  <2> QED
    BY <1>3, <2>1, <2>2
<1> QED
  BY <1>2, <1>4, <1>5 DEF ConstraintChange

LEMMA AllowedServes ==
  ASSUME NEW k, NEW n, NEW s, NEW t, NEW fl, NEW allow, NEW all, allow, n # 0, n > 10, InScope(k)
  PROVE  Serves(DropStmt(k), n, s, t, fl, allow, all)
<1>1. ~allow => n \in 3..9 /\ DropOK(k, s, t, all)
  OBVIOUS
<1>2. "drop" \in Drops /\ ("drop" = "drop_cascade" => k[1] = "constraint" /\ fl = "cockroach")
  BY DEF Drops
<1>3. Serves(Stmt("drop", k, "none"), n, s, t, fl, allow, all)
  BY <1>1, <1>2, DropServes
<1> QED
  BY <1>3 DEF DropStmt

LEMMA RendersThree ==
  ASSUME NEW c, NEW s, NEW t, NEW fl, NEW allow, NEW all, NEW a, NEW b, NEW d,
         Statements(c, fl) = <<a, b, d>>,
         /\ Serves(a, PhaseOf(c), s, t, fl, allow, all)
         /\ Serves(b, PhaseOf(c), s, t, fl, allow, all)
         /\ Serves(d, PhaseOf(c), s, t, fl, allow, all)
  PROVE  RendersOK(c, s, t, fl, allow, all)
<1>1. IsSeq(Statements(c, fl)) /\ ToSet(Statements(c, fl)) = {a, b, d}
  <2>1. <<a, b, d>> \in Seq({a, b, d}) /\ DOMAIN <<a, b, d>> = {1, 2, 3}
        /\ <<a, b, d>>[1] = a /\ <<a, b, d>>[2] = b /\ <<a, b, d>>[3] = d
    OBVIOUS
  <2> QED
    BY <2>1 DEF IsSeq, ToSet
<1> QED
  BY <1>1, Renders

LEMMA RendersSet ==
  ASSUME NEW c, NEW s, NEW t, NEW fl, NEW allow, NEW all, NEW k, NEW f, NEW v,
         Statements(c, fl) = <<Set(k, f, v)>>, PhaseOf(c) # 0, InScope(k),
         SetOK(k, [facet |-> f, value |-> v])
  PROVE  RendersOK(c, s, t, fl, allow, all)
<1>1. Serves(Set(k, f, v), PhaseOf(c), s, t, fl, allow, all)
  BY SetServes
<1> QED
  BY <1>1, RendersOne

LEMMA RendersIdentity ==
  ASSUME NEW c, NEW s, NEW t, NEW fl, NEW allow, NEW all, NEW k, NEW do \in IdentityDos, NEW v,
         Statements(c, fl) = <<Stmt(do, k, v)>>, PhaseOf(c) # 0, InScope(k), k[1] = "column"
  PROVE  RendersOK(c, s, t, fl, allow, all)
<1> DEFINE st == Stmt(do, k, v)
<1>1. st.do = do /\ st.on = k
  BY DEF Stmt
<1> HIDE DEF st
<1>2. StmtOK(st)
  BY <1>1 DEF StmtOK
<1>3. Serves(st, PhaseOf(c), s, t, fl, allow, all)
  BY <1>1, <1>2, OtherServes DEF IdentityDos, Makes, Drops
<1> QED
  BY <1>3, RendersOne DEF st

(* The sequence of a serial column is where the column is. *)
LEMMA SerialSeqIs ==
  ASSUME NEW k \in Identifiers, k[1] = "column", InScope(k)
  PROVE  /\ InScope(SerialSeq(k)) /\ SerialSeq(k)[1] = "sequence" /\ SerialSeq(k)[2] = k[2]
<1>1. SerialSeq(k)[1] = "sequence" /\ SerialSeq(k)[2] = k[2]
  BY DEF SerialSeq
<1> QED
  BY <1>1 DEF InScope

LEMMA OneColumnServes ==
  ASSUME NEW s, Offered(s), NEW t, Within(t), NEW all, NEW fl, NEW allow \in BOOLEAN,
         NEW c, NEW k \in DOMAIN s \cap DOMAIN t, k[1] = "column", c.on = k,
         OneColumnChange(c, k, s[k], t[k])
  PROVE  RendersOK(c, s, t, fl, allow, all)
<1>1. /\ NewIs(k, s[k]) /\ InScope(k) /\ k \in Identifiers /\ s[k].hidden \in BOOLEAN
      /\ \A u \in s[k].type.uses \cup s[k].default.uses : u[1] # "constraint"
  BY DEF Offered, NewIs
<1>2. NoExpr.uses = {}
  BY DEF NoExpr, Expr
<1>3. CASE c = Change("alter_column_type", k, s[k].type, FALSE)
  <2>1. c.op = "alter_column_type" /\ c.to = s[k].type
    BY <1>3 DEF Plain, Change, SetDefault
  <2>2. PhaseOf(c) = 12 /\ Statements(c, fl) = <<Set(k, "type", s[k].type)>>
    BY <2>1, FacetPhases, OriginPhases
  <2>3. SetOK(k, [facet |-> "type", value |-> s[k].type])
    BY <1>1, <1>2 DEF SetOK
  <2>4. PhaseOf(c) # 0
    BY <2>2
  <2> QED
    BY <1>1, <2>2, <2>3, <2>4, RendersSet
<1>4. CASE c = SetDefault(k, s[k])
  <2>1. c.op = "set_default" /\ c.to = s[k].default
    BY <1>4 DEF Plain, Change, SetDefault
  <2>2. PhaseOf(c) = 12 /\ Statements(c, fl) = <<Set(k, "default", s[k].default)>>
    BY <2>1, FacetPhases, OriginPhases
  <2>3. SetOK(k, [facet |-> "default", value |-> s[k].default])
    BY <1>1, <1>2 DEF SetOK
  <2>4. PhaseOf(c) # 0
    BY <2>2
  <2> QED
    BY <1>1, <2>2, <2>3, <2>4, RendersSet
<1>5. CASE c = Plain("drop_default", k)
  <2>1. c.op = "drop_default"
    BY <1>5 DEF Plain, Change, SetDefault
  <2>2. PhaseOf(c) = 12 /\ Statements(c, fl) = <<Set(k, "default", NoExpr)>>
    BY <2>1, FacetPhases, OriginPhases
  <2>3. SetOK(k, [facet |-> "default", value |-> NoExpr])
    BY <1>1, <1>2 DEF SetOK
  <2>4. PhaseOf(c) # 0
    BY <2>2
  <2> QED
    BY <1>1, <2>2, <2>3, <2>4, RendersSet
<1>6. CASE c = Plain("set_not_null", k)
  <2>1. c.op = "set_not_null"
    BY <1>6 DEF Plain, Change, SetDefault
  <2>2. PhaseOf(c) = 12 /\ Statements(c, fl) = <<Set(k, "notnull", TRUE)>>
    BY <2>1, FacetPhases, OriginPhases
  <2>3. SetOK(k, [facet |-> "notnull", value |-> TRUE])
    BY <1>1, <1>2 DEF SetOK
  <2>4. PhaseOf(c) # 0
    BY <2>2
  <2> QED
    BY <1>1, <2>2, <2>3, <2>4, RendersSet
<1>7. CASE c = Plain("drop_not_null", k)
  <2>1. c.op = "drop_not_null"
    BY <1>7 DEF Plain, Change, SetDefault
  <2>2. PhaseOf(c) = 12 /\ Statements(c, fl) = <<Set(k, "notnull", FALSE)>>
    BY <2>1, FacetPhases, OriginPhases
  <2>3. SetOK(k, [facet |-> "notnull", value |-> FALSE])
    BY <1>1, <1>2 DEF SetOK
  <2>4. PhaseOf(c) # 0
    BY <2>2
  <2> QED
    BY <1>1, <2>2, <2>3, <2>4, RendersSet
<1>8. CASE c = Change("set_column_visibility", k, s[k].hidden, FALSE)
  <2>1. c.op = "set_column_visibility" /\ c.to = s[k].hidden
    BY <1>8 DEF Plain, Change, SetDefault
  <2>2. PhaseOf(c) = 12 /\ Statements(c, fl) = <<Set(k, "hidden", s[k].hidden)>>
    BY <2>1, FacetPhases, OriginPhases
  <2>3. SetOK(k, [facet |-> "hidden", value |-> s[k].hidden])
    BY <1>1, <1>2 DEF SetOK
  <2>4. PhaseOf(c) # 0
    BY <2>2
  <2> QED
    BY <1>1, <2>2, <2>3, <2>4, RendersSet
<1>9. CASE c = Change("add_identity", k, s[k].identity, FALSE)
  <2>1. c.op = "add_identity" /\ c.to = s[k].identity
    BY <1>9 DEF Plain, Change
  <2>2. PhaseOf(c) = 12 /\ Statements(c, fl) = <<Stmt("add_identity", k, s[k].identity)>>
    BY <2>1, OriginPhases
  <2>3. PhaseOf(c) # 0 /\ "add_identity" \in IdentityDos
    BY <2>2 DEF IdentityDos
  <2> QED
    BY <1>1, <2>2, <2>3, RendersIdentity
<1>10. CASE c = Plain("drop_identity", k)
  <2>1. c.op = "drop_identity" /\ c.to = "none"
    BY <1>10 DEF Plain, Change
  <2>2. PhaseOf(c) = 12 /\ Statements(c, fl) = <<Stmt("drop_identity", k, "none")>>
    BY <2>1, OriginPhases
  <2>3. PhaseOf(c) # 0 /\ "drop_identity" \in IdentityDos
    BY <2>2 DEF IdentityDos
  <2> QED
    BY <1>1, <2>2, <2>3, RendersIdentity
<1>11. CASE c = Change("set_identity_kind", k, s[k].identity, FALSE)
  <2>1. c.op = "set_identity_kind" /\ c.to = s[k].identity
    BY <1>11 DEF Plain, Change
  <2>2. PhaseOf(c) = 12 /\ Statements(c, fl) = <<Stmt("set_identity", k, s[k].identity)>>
    BY <2>1, OriginPhases
  <2>3. PhaseOf(c) # 0 /\ "set_identity" \in IdentityDos
    BY <2>2 DEF IdentityDos
  <2> QED
    BY <1>1, <2>2, <2>3, RendersIdentity
<1>12. CASE c = Change("regenerate_column", k, s[k], FALSE)
  <2>1. c.op = "regenerate_column" /\ c.to = s[k]
    BY <1>12 DEF Change
  <2>2. PhaseOf(c) = 12 /\ Statements(c, fl) = <<DropStmt(k), Stmt("create", k, One(k, s[k]))>>
    BY <2>1, OriginPhases
  <2>3. Gated(c, allow) \/ allow
    BY <2>1 DEF Gated, Destructive, Manual
  <2>4. allow => Serves(DropStmt(k), 12, s, t, fl, allow, all)
    <3>1. SUFFICES ASSUME allow PROVE Serves(DropStmt(k), 12, s, t, fl, allow, all)
      OBVIOUS
    <3>2. 12 # 0 /\ 12 > 10
      OBVIOUS
    <3> QED
      BY <1>1, <3>1, <3>2, AllowedServes
  <2>5. Serves(Stmt("create", k, One(k, s[k])), 12, s, t, fl, allow, all)
    <3>1. "create" \in Makes /\ k[1] \notin Deparsed
      BY DEF Makes, Deparsed
    <3> QED
      BY <1>1, <3>1, MakeServes
  <2> QED
    BY <2>2, <2>3, <2>4, <2>5, RendersTwo
<1>13. CASE c = Plain("drop_serial", k)
  <2>1. c.op = "drop_serial"
    BY <1>13 DEF Plain, Change
  <2> DEFINE q == SerialSeq(k)
  <2>2. PhaseOf(c) = 12 /\ Statements(c, fl) = DropSerialSql(k)
    BY <2>1, OriginPhases
  <2>3. Statements(c, fl) = <<Set(k, "default", NoExpr), DropStmt(q)>>
    BY <2>2 DEF DropSerialSql
  <2>4. Gated(c, allow) \/ allow
    BY <2>1 DEF Gated, Destructive, Manual
  <2>5. InScope(q)
    BY <1>1, SerialSeqIs
  <2> HIDE DEF q
  <2>6. allow => Serves(DropStmt(q), 12, s, t, fl, allow, all)
    <3>1. SUFFICES ASSUME allow PROVE Serves(DropStmt(q), 12, s, t, fl, allow, all)
      OBVIOUS
    <3>2. 12 # 0 /\ 12 > 10
      OBVIOUS
    <3> QED
      BY <2>5, <3>1, <3>2, AllowedServes
  <2>7. SetOK(k, [facet |-> "default", value |-> NoExpr])
    BY <1>2 DEF SetOK
  <2>8. Serves(Set(k, "default", NoExpr), 12, s, t, fl, allow, all)
    BY <1>1, <2>7, SetServes
  <2> QED
    BY <2>2, <2>3, <2>4, <2>6, <2>8, RendersTwo
<1>14. CASE c = Plain("make_serial", k) /\ s[k].serial
  <2>1. c.op = "make_serial"
    BY <1>14 DEF Plain, Change
  <2> DEFINE q == SerialSeq(k)
             v == [min |-> 1, max |-> 9]
             x == Expr("nextval", {q})
             own == Stmt("own_sequence", q, k)
  <2>2. PhaseOf(c) = 12 /\ Statements(c, fl) = MakeSerialSql(k)
    BY <2>1, OriginPhases
  <2>3. Statements(c, fl) = <<Stmt("ensure", q, One(q, v)), Set(k, "default", x), own>>
    BY <2>2 DEF MakeSerialSql
  <2>4. InScope(q) /\ q[1] = "sequence" /\ q[2] = k[2]
    BY <1>1, SerialSeqIs
  <2>5. q \in Identifiers
    BY <1>1, <1>14 DEF NewIs
  <2>6. own.do = "own_sequence" /\ own.on = q /\ own.with = k
    BY DEF Stmt
  <2>7. x.uses = {q}
    BY DEF Expr
  <2>8. v.min = 1 /\ v.max = 9
    OBVIOUS
  <2> HIDE DEF q, x, own, v
  <2>9. NewIs(q, v)
    <3>1. NewValue(q, v) = [min |-> v.min, max |-> v.max, owner |-> {}, last |-> v.min, kept |-> FALSE]
      BY <2>4 DEF NewValue
    <3>2. IsValue(q, NewValue(q, v))
      BY <2>4, <2>8, <3>1 DEF IsValue, IsSequence, InBounds
    <3>3. NamesNoKey(q, NewValue(q, v))
      BY <2>4 DEF NamesNoKey, UsesOf, Deparsed
    <3> QED
      BY <2>4, <2>5, <3>2, <3>3 DEF NewIs
  <2>10. Serves(Stmt("ensure", q, One(q, v)), 12, s, t, fl, allow, all)
    <3>1. "ensure" \in Makes /\ q[1] \notin Deparsed \cup {"table", "constraint", "index"}
      BY <2>4 DEF Makes, Deparsed
    <3> QED
      BY <2>4, <2>9, <3>1, MakeServes
  <2>11. SetOK(k, [facet |-> "default", value |-> x])
    BY <2>4, <2>7 DEF SetOK
  <2>12. Serves(Set(k, "default", x), 12, s, t, fl, allow, all)
    BY <1>1, <2>11, SetServes
  <2>13. Serves(own, 12, s, t, fl, allow, all)
    <3>1. StmtOK(own)
      BY <2>4, <2>6 DEF StmtOK
    <3> QED
      BY <2>4, <2>6, <3>1, OtherServes DEF Makes, Drops
  <2> QED
    BY <2>2, <2>3, <2>10, <2>12, <2>13, RendersThree
<1> QED
  BY <1>3, <1>4, <1>5, <1>6, <1>7, <1>8, <1>9, <1>10, <1>11, <1>12, <1>13, <1>14 DEF OneColumnChange

LEMMA ColumnServes ==
  ASSUME NEW s, Offered(s), NEW t, Within(t), NEW all, NEW fl, NEW allow \in BOOLEAN,
         NEW c, ColumnChange(c, s, t, all)
  PROVE  RendersOK(c, s, t, fl, allow, all)
<1> DEFINE k == c.on
<1>1. k[1] = "column"
  BY DEF ColumnChange
<1>2. CASE c = Change("add_column", k, s[k], FALSE) /\ k \in DOMAIN s
  <2>1. c.op = "add_column" /\ c.to = s[k] /\ c.replaced = FALSE
    BY <1>2 DEF Change
  <2>2. PhaseOf(c) = 12 /\ Statements(c, fl) = EnsureSql(c)
    BY <2>1, FacetPhases
  <2>3. Statements(c, fl) = <<Stmt("ensure", k, One(k, s[k]))>>
    BY <2>1, <2>2 DEF EnsureSql
  <2> HIDE DEF k
  <2>4. "ensure" \in Makes
    BY DEF Makes
  <2>5. PhaseOf(c) # 0 /\ (k[1] \in Deparsed \cup {"table"} => PhaseOf(c) > 9)
    BY <1>1, <2>2 DEF Deparsed
  <2> QED
    BY <1>2, <2>3, <2>4, <2>5, RendersMake
<1>3. CASE c = Plain("drop_column", k) /\ k \in DOMAIN t
  <2>1. c.op = "drop_column"
    BY <1>3 DEF Plain, Change
  <2>2. PhaseOf(c) = 13 /\ Statements(c, fl) = <<DropStmt(k)>>
    BY <2>1, OriginPhases, AddPhases
  <2>3. Gated(c, allow) \/ allow
    BY <2>1 DEF Gated, Destructive, Manual
  <2>4. InScope(k)
    BY <1>3 DEF Within
  <2> HIDE DEF k
  <2>5. PhaseOf(c) # 0
    BY <2>2
  <2> QED
    BY <1>1, <2>2, <2>3, <2>4, <2>5, RendersDrop DEF Deparsed
<1>4. CASE k \in DOMAIN s \cap DOMAIN t /\ OneColumnChange(c, k, s[k], t[k])
  BY <1>1, <1>4, OneColumnServes
<1> QED
  BY <1>2, <1>3, <1>4 DEF ColumnChange

(* What a table's definition holds, as a catalog of its own. *)
LEMMA TableDefIs ==
  ASSUME NEW s, IsCatalog(s), NEW q \in DOMAIN s, q[1] = "table"
  PROVE  LET def == TableDef(s, q) IN
         /\ IsCatalog(def) /\ q \in DOMAIN def /\ DOMAIN def \subseteq DOMAIN s
         /\ \A id \in DOMAIN def : /\ def[id] = s[id] /\ id[1] # "trigger"
                                   /\ id = q \/ id \in PartsOf(s, q)
<1> DEFINE def == TableDef(s, q)
<1>1. /\ DOMAIN def = {q} \cup {p \in PartsOf(s, q) : p[1] # "trigger"}
      /\ \A id \in DOMAIN def : def[id] = s[id]
  BY DEF TableDef
<1>2. DOMAIN def \in SUBSET DOMAIN s
  BY <1>1 DEF PartsOf
<1> HIDE DEF def
<1>3. IsCatalog(def)
  BY <1>2, FS_Subset DEF IsCatalog
<1> QED
  BY <1>1, <1>2, <1>3 DEF def

(* A statement for each part of one kind. *)
LEMMA EachPart ==
  ASSUME NEW def, IsCatalog(def), NEW kind, NEW q, NEW g,
         \A k \in PiecesOf(def, kind, q) : IsSeq(g[k])
  PROVE  /\ IsSeq(Pass(Parts(def, kind, q), g))
         /\ \A c \in ToSet(Pass(Parts(def, kind, q), g)) :
              \E k \in PiecesOf(def, kind, q) : c \in ToSet(g[k])
<1>1. IsSeq(Parts(def, kind, q)) /\ ToSet(Parts(def, kind, q)) = PiecesOf(def, kind, q)
  BY KeysAre
<1> QED
  BY <1>1, PassIs

LEMMA EnsureTableServes ==
  ASSUME NEW s, Offered(s), NEW t, NEW all, NEW fl, NEW allow, NEW q \in DOMAIN s, q[1] = "table"
  PROVE  LET def == TableDef(s, q)
             group == [id \in {i \in DOMAIN def : Inline(def, i)} |-> def[id]]
         IN  Serves(Stmt("ensure", q, group), 11, s, t, fl, allow, all)
<1> DEFINE def == TableDef(s, q)
           group == [id \in {i \in DOMAIN def : Inline(def, i)} |-> def[id]]
           st == Stmt("ensure", q, group)
<1>1. /\ IsCatalog(def) /\ q \in DOMAIN def /\ DOMAIN def \subseteq DOMAIN s
      /\ \A id \in DOMAIN def : /\ def[id] = s[id] /\ id[1] # "trigger"
                                /\ id = q \/ id \in PartsOf(s, q)
  BY TableDefIs DEF Offered, IsReading
<1> HIDE DEF def
<1>2. /\ group = [g \in DOMAIN group |-> group[g]] /\ q \in DOMAIN group
      /\ DOMAIN group \in SUBSET DOMAIN def
  BY <1>1 DEF Inline
<1>3. \A g \in DOMAIN group : /\ g \in DOMAIN s /\ group[g] = s[g]
                              /\ g[1] \in {"table", "column", "constraint"}
  BY <1>1 DEF Inline
<1>4. st.do = "ensure" /\ st.on = q /\ st.with = group
  BY DEF Stmt
<1> HIDE DEF group, st
<1>5. IsFiniteSet(DOMAIN group)
  BY <1>1, <1>2, FS_Subset DEF IsCatalog
<1>6. ASSUME NEW g \in DOMAIN group
      PROVE  g = q \/ (g[1] \in {"column", "constraint"} /\ SameRelation(g, q))
  <2>1. g = q \/ (g \in PartsOf(s, q) /\ g \in Identifiers)
    BY <1>1, <1>2 DEF IsCatalog
  <2>2. ASSUME g \in PartsOf(s, q), g \in Identifiers
        PROVE  g[1] # "table" /\ SameRelation(g, q)
    BY <2>2, IdShape DEF PartsOf, Things
  <2> QED
    BY <1>3, <2>1, <2>2
<1>7. Together(q, group)
  <2>1. \A g \in DOMAIN group : NewIs(g, group[g])
    BY <1>3 DEF Offered
  <2> QED
    BY <1>2, <1>5, <1>6, <2>1 DEF Together
<1>8. StmtOK(st)
  BY <1>4, <1>7 DEF StmtOK
<1>9. InScope(q)
  BY DEF Offered
<1>10. \A g \in DOMAIN st.with : g \in DOMAIN s /\ st.with[g] = s[g]
  BY <1>3, <1>4
<1> QED
  BY <1>4, <1>8, <1>9, <1>10 DEF Serves, Makes, Drops, st, group, def

(* A new object of the source, whatever the change it comes with. *)
LEMMA NewServes ==
  ASSUME NEW s, Offered(s), NEW t, NEW all, NEW fl, NEW allow, NEW k \in DOMAIN s,
         NEW n, n # 0, n > 9
  PROVE  Serves(Stmt("create", k, One(k, s[k])), n, s, t, fl, allow, all)
<1>1. NewIs(k, s[k]) /\ InScope(k) /\ "create" \in Makes
  BY DEF Offered, Makes
<1> QED
  BY <1>1, MakeServes

LEMMA CreateTableServes ==
  ASSUME NEW s, Offered(s), NEW t, NEW all, NEW fl, NEW allow, NEW q \in DOMAIN s, q[1] = "table"
  PROVE  LET sql == CreateTableSql(q, TableDef(s, q)) IN
         IsSeq(sql) /\ \A st \in ToSet(sql) : Serves(st, 11, s, t, fl, allow, all)
<1> DEFINE def == TableDef(s, q)
           group == [id \in {i \in DOMAIN def : Inline(def, i)} |-> def[id]]
           a == Stmt("ensure", q, group)
           g == [k \in PiecesOf(def, "index", q) |-> <<Stmt("create", k, One(k, def[k]))>>]
           b == Pass(Parts(def, "index", q), g)
<1>1. /\ IsCatalog(def) /\ DOMAIN def \subseteq DOMAIN s
      /\ \A id \in DOMAIN def : def[id] = s[id]
  BY TableDefIs DEF Offered, IsReading
<1>2. Serves(a, 11, s, t, fl, allow, all)
  BY EnsureTableServes
<1>3. CreateTableSql(q, def) = <<a>> \o b
  <2> DEFINE ks == Parts(def, "index", q)
  <2>1. ToSet(ks) = PiecesOf(def, "index", q)
    BY <1>1, KeysAre
  <2>2. \A i \in DOMAIN ks : ks[i] \in PiecesOf(def, "index", q)
    BY <2>1 DEF ToSet
  <2> HIDE DEF def, group, ks
  <2>3. [i \in DOMAIN ks |-> g[ks[i]]] = [i \in DOMAIN ks |-> <<Stmt("create", ks[i], One(ks[i], def[ks[i]]))>>]
    BY <2>2
  <2>4. CreateTableSql(q, def) = <<a>> \o FlattenSeq([i \in DOMAIN ks |-> <<Stmt("create", ks[i], One(ks[i], def[ks[i]]))>>])
    BY DEF CreateTableSql, Each, ks, group
  <2> QED
    BY <2>3, <2>4 DEF Pass, ks
<1>4. \A k \in PiecesOf(def, "index", q) :
        /\ k \in DOMAIN s /\ def[k] = s[k] /\ IsSeq(g[k])
        /\ ToSet(g[k]) = {Stmt("create", k, One(k, s[k]))}
  BY <1>1, Listed DEF PiecesOf, PartsOf
<1> HIDE DEF def, group, a, g
<1>5. /\ IsSeq(b)
      /\ \A c \in ToSet(b) : \E k \in PiecesOf(def, "index", q) : c \in ToSet(g[k])
  BY <1>1, <1>4, EachPart
<1>6. ASSUME NEW c \in ToSet(b) PROVE Serves(c, 11, s, t, fl, allow, all)
  <2>1. PICK k \in DOMAIN s : c = Stmt("create", k, One(k, s[k]))
    BY <1>4, <1>5
  <2>2. 11 # 0 /\ 11 > 9
    OBVIOUS
  <2> QED
    BY <2>1, <2>2, NewServes
<1> HIDE DEF b
<1>7. IsSeq(<<a>>) /\ ToSet(<<a>>) = {a}
  BY Listed
<1>8. IsSeq(<<a>> \o b) /\ ToSet(<<a>> \o b) = ToSet(<<a>>) \cup ToSet(b)
  BY <1>5, <1>7, Joined
<1> QED
  BY <1>2, <1>3, <1>6, <1>7, <1>8 DEF def

LEMMA ForeignKeysServe ==
  ASSUME NEW s, Offered(s), NEW t, NEW all, NEW fl, NEW allow, NEW q \in DOMAIN s, q[1] = "table"
  PROVE  LET sql == ForeignKeysOf(q, TableDef(s, q)) IN
         IsSeq(sql) /\ \A st \in ToSet(sql) : Serves(st, 18, s, t, fl, allow, all)
<1> DEFINE def == TableDef(s, q)
           g == [k \in PiecesOf(def, "constraint", q) |->
                   IF def[k].kind = "foreign" THEN AddConstraintSql(k, def[k], TRUE) ELSE <<>>]
           b == Pass(Parts(def, "constraint", q), g)
<1>1. /\ IsCatalog(def) /\ DOMAIN def \subseteq DOMAIN s
      /\ \A id \in DOMAIN def : def[id] = s[id]
  BY TableDefIs DEF Offered, IsReading
<1>2. ForeignKeysOf(q, def) = b
  <2> DEFINE ks == Parts(def, "constraint", q)
  <2>1. ToSet(ks) = PiecesOf(def, "constraint", q)
    BY <1>1, KeysAre
  <2>2. \A i \in DOMAIN ks : ks[i] \in PiecesOf(def, "constraint", q)
    BY <2>1 DEF ToSet
  <2> HIDE DEF def, ks
  <2>3. [i \in DOMAIN ks |-> g[ks[i]]]
          = [i \in DOMAIN ks |-> IF def[ks[i]].kind = "foreign"
                                 THEN AddConstraintSql(ks[i], def[ks[i]], TRUE) ELSE <<>>]
    BY <2>2
  <2>4. ForeignKeysOf(q, def)
          = FlattenSeq([i \in DOMAIN ks |-> IF def[ks[i]].kind = "foreign"
                                 THEN AddConstraintSql(ks[i], def[ks[i]], TRUE) ELSE <<>>])
    BY DEF ForeignKeysOf, Each, ks
  <2> QED
    BY <2>3, <2>4 DEF Pass, ks
<1>3. ASSUME NEW k \in PiecesOf(def, "constraint", q)
      PROVE  IsSeq(g[k]) /\ \A st \in ToSet(g[k]) : Serves(st, 18, s, t, fl, allow, all)
  <2>1. k \in DOMAIN s /\ def[k] = s[k] /\ k[1] = "constraint"
    BY <1>1 DEF PiecesOf, PartsOf
  <2>2. g[k] = IF s[k].kind = "foreign" THEN AddConstraintSql(k, s[k], TRUE) ELSE <<>>
    BY <2>1
  <2> HIDE DEF def, g
  <2>3. 18 # 0 /\ 18 > 9
    OBVIOUS
  <2>4. LET p == AddConstraintSql(k, s[k], TRUE) IN
        IsSeq(p) /\ \A st \in ToSet(p) : Serves(st, 18, s, t, fl, allow, all)
    BY <2>1, <2>3, AddServes
  <2>5. IsSeq(<<>>) /\ ToSet(<<>>) = {}
    BY Listed
  <2> QED
    BY <2>2, <2>4, <2>5
<1> HIDE DEF def, g
<1>4. /\ IsSeq(b)
      /\ \A c \in ToSet(b) : \E k \in PiecesOf(def, "constraint", q) : c \in ToSet(g[k])
  BY <1>1, <1>3, EachPart
<1> QED
  BY <1>2, <1>3, <1>4 DEF def

LEMMA RlsServes ==
  ASSUME NEW s, Offered(s), NEW t, NEW all, NEW fl, NEW allow, NEW q \in DOMAIN s, q[1] = "table"
  PROVE  LET sql == RlsOf(q, TableDef(s, q)) IN
         IsSeq(sql) /\ \A st \in ToSet(sql) : Serves(st, 24, s, t, fl, allow, all)
<1> DEFINE def == TableDef(s, q)
           x == When(def[q].rls, Set(q, "rls", TRUE))
           y == When(def[q].forced, Set(q, "forced", TRUE))
           g == [k \in PiecesOf(def, "policy", q) |-> <<Stmt("create", k, One(k, def[k]))>>]
           b == Pass(Parts(def, "policy", q), g)
<1>1. /\ IsCatalog(def) /\ DOMAIN def \subseteq DOMAIN s /\ q \in DOMAIN def
      /\ \A id \in DOMAIN def : def[id] = s[id]
  BY TableDefIs DEF Offered, IsReading
<1>2. RlsOf(q, def) = x \o y \o b
  <2> DEFINE ks == Parts(def, "policy", q)
  <2>1. ToSet(ks) = PiecesOf(def, "policy", q)
    BY <1>1, KeysAre
  <2>2. \A i \in DOMAIN ks : ks[i] \in PiecesOf(def, "policy", q)
    BY <2>1 DEF ToSet
  <2> HIDE DEF def, ks
  <2>3. [i \in DOMAIN ks |-> g[ks[i]]] = [i \in DOMAIN ks |-> <<Stmt("create", ks[i], One(ks[i], def[ks[i]]))>>]
    BY <2>2
  <2>4. RlsOf(q, def) = x \o y \o FlattenSeq([i \in DOMAIN ks |-> <<Stmt("create", ks[i], One(ks[i], def[ks[i]]))>>])
    BY DEF RlsOf, Each, ks
  <2> QED
    BY <2>3, <2>4 DEF Pass, ks
<1>3. def[q].rls \in BOOLEAN /\ def[q].forced \in BOOLEAN /\ InScope(q)
  <2>1. {s[q].rls, s[q].forced} \subseteq BOOLEAN
    BY DEF Offered, IsReading
  <2> QED
    BY <1>1, <2>1 DEF Offered
<1>4. \A k \in PiecesOf(def, "policy", q) :
        /\ k \in DOMAIN s /\ def[k] = s[k] /\ IsSeq(g[k])
        /\ ToSet(g[k]) = {Stmt("create", k, One(k, s[k]))}
  BY <1>1, Listed DEF PiecesOf, PartsOf
<1> HIDE DEF def, g
<1>5. /\ IsSeq(b)
      /\ \A c \in ToSet(b) : \E k \in PiecesOf(def, "policy", q) : c \in ToSet(g[k])
  BY <1>1, <1>4, EachPart
<1>6. ASSUME NEW c \in ToSet(b) PROVE Serves(c, 24, s, t, fl, allow, all)
  <2>1. PICK k \in DOMAIN s : c = Stmt("create", k, One(k, s[k]))
    BY <1>4, <1>5
  <2>2. 24 # 0 /\ 24 > 9
    OBVIOUS
  <2> QED
    BY <2>1, <2>2, NewServes
<1>7. IsSeq(x) /\ \A c \in ToSet(x) : c = Set(q, "rls", TRUE)
  BY <1>3, WhenIs
<1>8. IsSeq(y) /\ \A c \in ToSet(y) : c = Set(q, "forced", TRUE)
  BY <1>3, WhenIs
<1>9. 24 # 0 /\ SetOK(q, [facet |-> "rls", value |-> TRUE])
      /\ SetOK(q, [facet |-> "forced", value |-> TRUE])
  BY DEF SetOK
<1>10. /\ Serves(Set(q, "rls", TRUE), 24, s, t, fl, allow, all)
       /\ Serves(Set(q, "forced", TRUE), 24, s, t, fl, allow, all)
  BY <1>3, <1>9, SetServes
<1> HIDE DEF x, y, b
<1>11. IsSeq(x \o y \o b) /\ ToSet(x \o y \o b) = ToSet(x) \cup ToSet(y) \cup ToSet(b)
  BY <1>5, <1>7, <1>8, JoinedThree
<1> QED
  BY <1>2, <1>6, <1>7, <1>8, <1>10, <1>11 DEF def

LEMMA TableServes ==
  ASSUME NEW s, Offered(s), NEW t, Within(t), NEW all, NEW fl, NEW allow \in BOOLEAN,
         NEW c, TableChange(c, s, t, all)
  PROVE  RendersOK(c, s, t, fl, allow, all)
<1> DEFINE k == c.on
<1>1. CASE c = CreateTable(s, k) /\ k \in DOMAIN s /\ k[1] = "table"
  <2>1. c.op = "create_table" /\ c.to = TableDef(s, k)
    BY <1>1 DEF CreateTable, Change
  <2>2. PhaseOf(c) = 11 /\ Statements(c, fl) = CreateTableSql(k, TableDef(s, k))
    BY <2>1, DropPhases
  <2> HIDE DEF k
  <2>3. LET sql == CreateTableSql(k, TableDef(s, k)) IN
        IsSeq(sql) /\ \A st \in ToSet(sql) : Serves(st, 11, s, t, fl, allow, all)
    BY <1>1, CreateTableServes
  <2>4. /\ IsSeq(Statements(c, fl))
        /\ \A st \in ToSet(Statements(c, fl)) : Serves(st, PhaseOf(c), s, t, fl, allow, all)
    BY <2>2, <2>3
  <2> QED
    BY <2>4, Renders
<1>2. CASE c = Plain("drop_table", k) /\ k \in DOMAIN t /\ k[1] = "table"
  <2>1. c.op = "drop_table"
    BY <1>2 DEF Plain, Change
  <2>2. PhaseOf(c) = 14 /\ Statements(c, fl) = <<DropStmt(k)>>
    BY <2>1, OriginPhases
  <2>3. Gated(c, allow) \/ allow
    BY <2>1 DEF Gated, Destructive, Manual
  <2>4. InScope(k)
    BY <1>2 DEF Within
  <2> HIDE DEF k
  <2>5. PhaseOf(c) # 0
    BY <2>2
  <2> QED
    BY <1>1, <2>2, <2>3, <2>4, <2>5, RendersDrop DEF Deparsed
<1>3. CASE RlsChange(c, k) /\ k \in DOMAIN s \cap DOMAIN t /\ k[1] = "table"
  <2>1. c.op \in {"enable_rls", "disable_rls", "force_rls", "unforce_rls"}
    BY <1>3 DEF RlsChange, Plain, Change
  <2>2. PhaseOf(c) = 25 /\ \E f \in {"rls", "forced"}, v \in BOOLEAN : Statements(c, fl) = <<Set(k, f, v)>>
    BY <2>1, LatePhases
  <2>3. PICK f \in {"rls", "forced"}, v \in BOOLEAN : Statements(c, fl) = <<Set(k, f, v)>>
    BY <2>2
  <2>4. PhaseOf(c) # 0 /\ InScope(k) /\ SetOK(k, [facet |-> f, value |-> v])
    BY <1>3, <2>2 DEF SetOK, Offered
  <2> HIDE DEF k
  <2> QED
    BY <2>3, <2>4, RendersSet
<1>4. CASE ColumnChange(c, s, t, all)
  BY <1>4, ColumnServes
<1>5. CASE ConstraintChange(c, s, t, all)
  BY <1>5, ConstraintServes
<1>6. CASE IndexChange(c, s, t, all)
  BY <1>6, IndexServes
<1>7. CASE PolicyChange(c, s, t, all)
  BY <1>7, PolicyServes
<1> QED
  BY <1>1, <1>2, <1>3, <1>4, <1>5, <1>6, <1>7 DEF TableChange

LEMMA WantsServe ==
  ASSUME NEW s, Offered(s), NEW t, Within(t), NEW all, NEW fl, NEW allow \in BOOLEAN,
         NEW c, Wants(c, s, t, all)
  PROVE  RendersOK(c, s, t, fl, allow, all)
<1>1. CASE SchemaChange(c, s, t)
  BY <1>1, SchemaServes
<1>2. CASE ExtensionChange(c, s, t)
  BY <1>2, ExtensionServes
<1>3. CASE EnumChange(c, s, t, all)
  BY <1>3, EnumServes
<1>4. CASE SequenceChange(c, s, t, all)
  BY <1>4, SequenceServes
<1>5. CASE TableChange(c, s, t, all)
  BY <1>5, TableServes
<1>6. CASE ViewChange(c, s, t, all)
  BY <1>6, ViewServes
<1>7. CASE RoutineChange(c, s, t, all)
  BY <1>7, RoutineServes
<1>8. CASE TriggerChange(c, s, t, all)
  BY <1>8, TriggerServes
<1> QED
  BY <1>1, <1>2, <1>3, <1>4, <1>5, <1>6, <1>7, <1>8 DEF Wants

(* Only a new table brings foreign keys and policies along. *)
LEMMA OnlyTables ==
  ASSUME NEW s, NEW t, NEW all, NEW c, Wants(c, s, t, all), c.op = "create_table"
  PROVE  c.on \in DOMAIN s /\ c.on[1] = "table" /\ c.to = TableDef(s, c.on)
<1>1. ~SchemaChange(c, s, t)
  BY DEF SchemaChange, Plain, Change
<1>2. ~ExtensionChange(c, s, t)
  BY DEF ExtensionChange, Plain, Change
<1>3. ~EnumChange(c, s, t, all)
  BY DEF EnumChange, LabelChange, Plain, Change
<1>4. ~SequenceChange(c, s, t, all)
  BY DEF SequenceChange, Plain, Change
<1>5. ~ViewChange(c, s, t, all)
  BY DEF ViewChange, Change
<1>6. ~RoutineChange(c, s, t, all)
  BY DEF RoutineChange, Change
<1>7. ~TriggerChange(c, s, t, all)
  BY DEF TriggerChange, Change
<1>8. ~ConstraintChange(c, s, t, all) /\ ~IndexChange(c, s, t, all) /\ ~PolicyChange(c, s, t, all)
  BY DEF ConstraintChange, IndexChange, PolicyChange, Change
<1>9. ~ColumnChange(c, s, t, all)
  BY DEF ColumnChange, OneColumnChange, SetDefault, Plain, Change
<1>10. ~RlsChange(c, c.on) /\ c # Plain("drop_table", c.on)
  BY DEF RlsChange, Plain, Change
<1>11. c = CreateTable(s, c.on) /\ c.on \in DOMAIN s /\ c.on[1] = "table"
  BY <1>1, <1>2, <1>3, <1>4, <1>5, <1>6, <1>7, <1>8, <1>9, <1>10 DEF Wants, TableChange
<1>12. CreateTable(s, c.on).to = TableDef(s, c.on)
  BY DEF CreateTable, Change
<1> QED
  BY <1>11, <1>12

(* The statements of one change in one phase. *)
OfPhase(c, n, fl, allow) ==
  CASE n = NewTableFks -> IF c.op = "create_table" THEN ForeignKeysOf(c.on, c.to) ELSE <<>>
    [] n = NewTableRls -> IF c.op = "create_table" THEN RlsOf(c.on, c.to) ELSE <<>>
    [] OTHER           -> IF PhaseOf(c) = n THEN Rendered(c, fl, allow) ELSE <<>>

LEMMA OfPhaseServes ==
  ASSUME NEW s, Offered(s), NEW t, Within(t), NEW all, NEW fl, NEW allow \in BOOLEAN,
         NEW c, Wants(c, s, t, all), NEW n
  PROVE  LET p == OfPhase(c, n, fl, allow) IN
         IsSeq(p) /\ \A st \in ToSet(p) : Serves(st, n, s, t, fl, allow, all)
<1> DEFINE p == OfPhase(c, n, fl, allow)
<1>1. IsSeq(<<>>) /\ ToSet(<<>>) = {}
  BY Listed
<1>2. CASE n = 18
  <2>1. p = IF c.op = "create_table" THEN ForeignKeysOf(c.on, c.to) ELSE <<>>
    BY <1>2 DEF OfPhase, NewTableFks, NewTableRls
  <2>2. CASE c.op = "create_table"
    <3>1. c.on \in DOMAIN s /\ c.on[1] = "table" /\ c.to = TableDef(s, c.on)
      BY <2>2, OnlyTables
    <3>2. p = ForeignKeysOf(c.on, TableDef(s, c.on))
      BY <2>1, <2>2, <3>1
    <3> QED
      BY <1>2, <3>1, <3>2, ForeignKeysServe
  <2> QED
    BY <1>1, <2>1, <2>2
<1>3. CASE n = 24
  <2>1. p = IF c.op = "create_table" THEN RlsOf(c.on, c.to) ELSE <<>>
    BY <1>3 DEF OfPhase, NewTableFks, NewTableRls
  <2>2. CASE c.op = "create_table"
    <3>1. c.on \in DOMAIN s /\ c.on[1] = "table" /\ c.to = TableDef(s, c.on)
      BY <2>2, OnlyTables
    <3>2. p = RlsOf(c.on, TableDef(s, c.on))
      BY <2>1, <2>2, <3>1
    <3> QED
      BY <1>3, <3>1, <3>2, RlsServes
  <2> QED
    BY <1>1, <2>1, <2>2
<1>4. CASE n # 18 /\ n # 24
  <2>1. p = IF PhaseOf(c) = n THEN Rendered(c, fl, allow) ELSE <<>>
    BY <1>4 DEF OfPhase, NewTableFks, NewTableRls
  <2>2. RendersOK(c, s, t, fl, allow, all)
    BY WantsServe
  <2> QED
    BY <1>1, <2>1, <2>2 DEF RendersOK
<1> QED
  BY <1>2, <1>3, <1>4

(* The list a plan puts into one phase. *)
InPhaseOf(plan, n, fl, allow) == [i \in DOMAIN plan |-> OfPhase(plan[i], n, fl, allow)]

LEMMA InPhaseServes ==
  ASSUME NEW s, Offered(s), NEW t, Within(t), NEW all, NEW fl, NEW allow \in BOOLEAN,
         NEW plan, IsSeq(plan), \A c \in ToSet(plan) : Wants(c, s, t, all), NEW n
  PROVE  LET p == InPhase(plan, n, fl, allow)
             m == InPhaseOf(plan, n, fl, allow)
         IN  /\ IsSeq(p) /\ \A st \in ToSet(p) : Serves(st, n, s, t, fl, allow, all)
             /\ \A c \in ToSet(plan) : ToSet(OfPhase(c, n, fl, allow)) \subseteq ToSet(p)
             /\ Len(m) = Len(plan) /\ DOMAIN m = DOMAIN plan
             /\ \E g : Spots(p, m, Len(plan), g)
<1> DEFINE p == InPhase(plan, n, fl, allow)
           m == InPhaseOf(plan, n, fl, allow)
<1>1. p = FlattenSeq(m)
  BY DEF InPhase, Each, InPhaseOf, OfPhase
<1>2. Len(plan) \in Nat /\ DOMAIN plan = 1..Len(plan)
  BY SeqDomain
<1>3. DOMAIN m = 1..Len(plan) /\ \A i \in DOMAIN plan : m[i] = OfPhase(plan[i], n, fl, allow)
  BY <1>2 DEF InPhaseOf
<1>4. \A i \in DOMAIN plan : plan[i] \in ToSet(plan)
  BY DEF ToSet
<1>5. \A i \in DOMAIN plan :
        IsSeq(m[i]) /\ \A st \in ToSet(m[i]) : Serves(st, n, s, t, fl, allow, all)
  BY <1>3, <1>4, OfPhaseServes
<1>6. IsSeq(m) /\ Len(m) = Len(plan)
  <2>1. m \in Seq({m[i] : i \in 1..Len(plan)})
    BY <1>2, <1>3 DEF InPhaseOf
  <2> HIDE DEF m
  <2>2. IsSeq(m)
    BY <2>1 DEF IsSeq
  <2> QED
    BY <1>2, <1>3, <2>2, SeqDomain
<1> HIDE DEF p, m
<1>7. /\ IsSeq(p) /\ ToSet(p) = UNION {ToSet(m[i]) : i \in DOMAIN m}
      /\ \E g : Spots(p, m, Len(m), g)
  BY <1>1, <1>2, <1>3, <1>5, <1>6, FlattenLaws
<1>8. \A st \in ToSet(p) : Serves(st, n, s, t, fl, allow, all)
  BY <1>2, <1>3, <1>5, <1>7
<1>9. ASSUME NEW c \in ToSet(plan) PROVE ToSet(OfPhase(c, n, fl, allow)) \subseteq ToSet(p)
  <2>1. PICK i \in DOMAIN plan : plan[i] = c
    BY DEF ToSet
  <2> QED
    BY <1>2, <1>3, <1>7, <2>1
<1> QED
  BY <1>2, <1>3, <1>6, <1>7, <1>8, <1>9 DEF p, m

(* A script, or what is left of one, with the phase each statement is in. *)
Phased(scr, ph, s, t, fl, allow, all) ==
  /\ IsSeq(scr) /\ Len(scr) > 0 /\ scr[Len(scr)] = Commit
  /\ \A i \in DOMAIN scr : ph[i] \in 0..28
  /\ \A i, j \in DOMAIN scr : i < j => ph[i] <= ph[j]
  /\ \A i, j \in DOMAIN scr : ph[i] = 1 /\ ph[j] = 1 => i = j
  /\ \A i \in DOMAIN scr :
       \/ ph[i] = 1 /\ scr[i] = Begin /\ i < Len(scr)
       \/ ph[i] = 28 /\ scr[i] = Commit /\ i = Len(scr)
       \/ /\ ph[i] \in (0..27) \ {1} /\ i < Len(scr)
          /\ Serves(scr[i], ph[i], s, t, fl, allow, all)

(* Nothing of the plan is left out but what is gated. *)
AllOf(scr, plan, fl, allow) ==
  \A c \in ToSet(plan), n \in (0..27) \ {1} :
    \A st \in ToSet(OfPhase(c, n, fl, allow)) : \E i \in DOMAIN scr : scr[i] = st

(* The script begins with its labels, outside of the transaction. *)
LabelsFirst(scr, ph, u) ==
  /\ DOMAIN u \subseteq DOMAIN scr /\ \A i \in DOMAIN u : scr[i] = u[i]
  /\ \A i \in DOMAIN scr : ph[i] = 0 <=> i \in DOMAIN u
  /\ \E i \in DOMAIN scr : ph[i] = 1

(* The phases inside the transaction. *)
PhasesOK(v, plan, s, t, fl, allow, all) ==
  /\ IsSeq(v)
  /\ \A c \in ToSet(plan), n \in 2..27 : ToSet(OfPhase(c, n, fl, allow)) \subseteq ToSet(v)
  /\ \E f : /\ \A p \in DOMAIN v : f[p] \in 2..27 /\ Serves(v[p], f[p], s, t, fl, allow, all)
            /\ \A p, q \in DOMAIN v : p < q => f[p] <= f[q]

LEMMA PhasesServe ==
  ASSUME NEW s, Offered(s), NEW t, Within(t), NEW all, NEW fl, NEW allow \in BOOLEAN,
         NEW plan, IsSeq(plan), \A c \in ToSet(plan) : Wants(c, s, t, all)
  PROVE  PhasesOK(Phases(plan, 2, 27, fl, allow), plan, s, t, fl, allow, all)
<1> DEFINE v == Phases(plan, 2, 27, fl, allow)
           m == [n \in 1..26 |-> InPhase(plan, 2 + n - 1, fl, allow)]
<1>1. v = FlattenSeq(m)
  <2>1. 27 - 2 + 1 = 26
    OBVIOUS
  <2> QED
    BY <2>1 DEF Phases
<1>2. \A n \in 1..26 :
        /\ IsSeq(m[n]) /\ \A st \in ToSet(m[n]) : Serves(st, 2 + n - 1, s, t, fl, allow, all)
        /\ \A c \in ToSet(plan) : ToSet(OfPhase(c, 2 + n - 1, fl, allow)) \subseteq ToSet(m[n])
        /\ m[n] = InPhase(plan, 2 + n - 1, fl, allow)
  BY InPhaseServes
<1>3. DOMAIN m = 1..26 /\ IsSeq(m) /\ Len(m) = 26
  <2>1. m \in Seq({m[n] : n \in 1..26}) /\ DOMAIN m = 1..26
    OBVIOUS
  <2> HIDE DEF m
  <2>2. IsSeq(m)
    BY <2>1 DEF IsSeq
  <2> QED
    BY <2>1, <2>2, SeqDomain
<1> HIDE DEF m, v
<1>4. /\ IsSeq(v) /\ ToSet(v) = UNION {ToSet(m[i]) : i \in DOMAIN m}
      /\ \E g : Spots(v, m, Len(m), g)
  BY <1>1, <1>2, <1>3, FlattenLaws
<1>5. PICK g : Spots(v, m, 26, g)
  BY <1>3, <1>4
<1> DEFINE f == [p \in DOMAIN v |-> g[p][1] + 1]
<1>6. \A p \in DOMAIN v : /\ g[p][1] \in 1..26 /\ v[p] \in ToSet(m[g[p][1]])
  BY <1>5 DEF Spots, ToSet
<1>7. \A p \in DOMAIN v : f[p] \in 2..27 /\ f[p] = g[p][1] + 1 /\ f[p] = 2 + g[p][1] - 1
  BY <1>6
<1>8. \A p, q \in DOMAIN v : p < q => f[p] <= f[q]
  <2> SUFFICES ASSUME NEW p \in DOMAIN v, NEW q \in DOMAIN v, p < q PROVE f[p] <= f[q]
    OBVIOUS
  <2>1. g[p][1] < g[q][1] \/ g[p][1] = g[q][1]
    BY <1>5 DEF Spots
  <2> QED
    BY <1>6, <2>1
<1>9. \A p \in DOMAIN v : Serves(v[p], f[p], s, t, fl, allow, all)
  BY <1>2, <1>6, <1>7
<1>10. \A c \in ToSet(plan), n \in 2..27 : ToSet(OfPhase(c, n, fl, allow)) \subseteq ToSet(v)
  <2> SUFFICES ASSUME NEW c \in ToSet(plan), NEW n \in 2..27
               PROVE  ToSet(OfPhase(c, n, fl, allow)) \subseteq ToSet(v)
    OBVIOUS
  <2>1. n - 1 \in 1..26 /\ 2 + (n - 1) - 1 = n
    OBVIOUS
  <2>2. ToSet(OfPhase(c, n, fl, allow)) \subseteq ToSet(m[n - 1])
    BY <1>2, <2>1
  <2> QED
    BY <1>3, <1>4, <2>1, <2>2
<1> HIDE DEF f
<1> QED
  BY <1>4, <1>7, <1>8, <1>9, <1>10 DEF v, PhasesOK

Some(plan) == plan # <<>>

LEMMA EmitServes ==
  ASSUME NEW s, Offered(s), NEW t, Within(t), NEW all, NEW fl, NEW allow \in BOOLEAN,
         NEW plan, IsSeq(plan), Some(plan), \A c \in ToSet(plan) : Wants(c, s, t, all)
  PROVE  LET scr == Emit(plan, fl, allow)
             u == InPhase(plan, 0, fl, allow)
         IN  /\ AllOf(scr, plan, fl, allow)
             /\ \E ph : Phased(scr, ph, s, t, fl, allow, all) /\ LabelsFirst(scr, ph, u)
<1> DEFINE scr == Emit(plan, fl, allow)
           u == InPhase(plan, 0, fl, allow)
           v == Phases(plan, 2, 27, fl, allow)
           bb == <<Begin>>
           cc == <<Commit>>
           a == u \o bb
           b == a \o v
<1>1. scr = b \o cc
  BY DEF Emit, LastPhase, Some
<1>2. /\ IsSeq(u) /\ \A st \in ToSet(u) : Serves(st, 0, s, t, fl, allow, all)
      /\ \A c \in ToSet(plan) : ToSet(OfPhase(c, 0, fl, allow)) \subseteq ToSet(u)
  BY InPhaseServes
<1>3. /\ IsSeq(v)
      /\ \A c \in ToSet(plan), n \in 2..27 : ToSet(OfPhase(c, n, fl, allow)) \subseteq ToSet(v)
      /\ \E f : /\ \A p \in DOMAIN v : f[p] \in 2..27 /\ Serves(v[p], f[p], s, t, fl, allow, all)
                /\ \A p, q \in DOMAIN v : p < q => f[p] <= f[q]
  <2>1. PhasesOK(v, plan, s, t, fl, allow, all)
    BY PhasesServe
  <2> HIDE DEF v
  <2> QED
    BY <2>1 DEF PhasesOK
<1>4. PICK f : /\ \A p \in DOMAIN v : f[p] \in 2..27 /\ Serves(v[p], f[p], s, t, fl, allow, all)
               /\ \A p, q \in DOMAIN v : p < q => f[p] <= f[q]
  BY <1>3
<1>5. /\ IsSeq(bb) /\ ToSet(bb) = {Begin} /\ Len(bb) = 1 /\ bb[1] = Begin
      /\ IsSeq(cc) /\ ToSet(cc) = {Commit} /\ Len(cc) = 1 /\ cc[1] = Commit
  <2>1. /\ IsSeq(bb) /\ ToSet(bb) = {Begin}
        /\ IsSeq(cc) /\ ToSet(cc) = {Commit}
    BY Listed
  <2> QED
    BY <2>1
<1> HIDE DEF scr, u, v, bb, cc
<1>51. IsSeq(u) /\ IsSeq(v) /\ IsSeq(bb) /\ IsSeq(cc)
  BY <1>2, <1>3, <1>5
<1> DEFINE x == Len(u)  y == Len(v)
<1>6. x \in Nat /\ y \in Nat /\ DOMAIN u = 1..x /\ DOMAIN v = 1..y
  BY <1>2, <1>3, SeqDomain
<1>7. /\ IsSeq(a) /\ Len(a) = x + 1 /\ ToSet(a) = ToSet(u) \cup {Begin}
      /\ (\A i \in 1..x : a[i] = u[i]) /\ a[x + 1] = Begin
  <2>1. /\ IsSeq(a) /\ Len(a) = Len(u) + Len(bb) /\ ToSet(a) = ToSet(u) \cup ToSet(bb)
        /\ \A i \in 1..Len(u) : a[i] = u[i]
        /\ \A i \in 1..Len(bb) : a[Len(u) + i] = bb[i]
    <3>1. /\ IsSeq(u \o bb) /\ Len(u \o bb) = Len(u) + Len(bb)
          /\ \A i \in 1..Len(u) : (u \o bb)[i] = u[i]
          /\ \A i \in 1..Len(bb) : (u \o bb)[Len(u) + i] = bb[i]
      BY <1>51, Concat
    <3>2. ToSet(u \o bb) = ToSet(u) \cup ToSet(bb)
      BY <1>51, Joined
    <3> QED
      BY <1>1, <3>1, <3>2
  <2>2. 1 \in 1..1
    OBVIOUS
  <2> QED
    BY <1>5, <2>1, <2>2
<1>71. IsSeq(a)
  BY <1>7
<1> HIDE DEF a
<1>8. /\ IsSeq(b) /\ Len(b) = x + 1 + y /\ ToSet(b) = ToSet(a) \cup ToSet(v)
      /\ (\A i \in 1..(x + 1) : b[i] = a[i]) /\ \A i \in 1..y : b[x + 1 + i] = v[i]
  <2>1. /\ IsSeq(b) /\ Len(b) = Len(a) + Len(v) /\ ToSet(b) = ToSet(a) \cup ToSet(v)
        /\ \A i \in 1..Len(a) : b[i] = a[i]
        /\ \A i \in 1..Len(v) : b[Len(a) + i] = v[i]
    <3>1. /\ IsSeq(a \o v) /\ Len(a \o v) = Len(a) + Len(v)
          /\ \A i \in 1..Len(a) : (a \o v)[i] = a[i]
          /\ \A i \in 1..Len(v) : (a \o v)[Len(a) + i] = v[i]
      BY <1>51, <1>71, Concat
    <3>2. ToSet(a \o v) = ToSet(a) \cup ToSet(v)
      BY <1>51, <1>71, Joined
    <3> QED
      BY <1>1, <3>1, <3>2
  <2> QED
    BY <1>7, <2>1
<1>81. IsSeq(b)
  BY <1>8
<1> HIDE DEF b
<1>9. /\ IsSeq(scr) /\ Len(scr) = x + y + 2 /\ ToSet(scr) = ToSet(b) \cup {Commit}
      /\ (\A i \in 1..(x + 1 + y) : scr[i] = b[i]) /\ scr[x + y + 2] = Commit
  <2>1. /\ IsSeq(scr) /\ Len(scr) = Len(b) + Len(cc) /\ ToSet(scr) = ToSet(b) \cup ToSet(cc)
        /\ \A i \in 1..Len(b) : scr[i] = b[i]
        /\ \A i \in 1..Len(cc) : scr[Len(b) + i] = cc[i]
    <3>1. /\ IsSeq(b \o cc) /\ Len(b \o cc) = Len(b) + Len(cc)
          /\ \A i \in 1..Len(b) : (b \o cc)[i] = b[i]
          /\ \A i \in 1..Len(cc) : (b \o cc)[Len(b) + i] = cc[i]
      BY <1>51, <1>81, Concat
    <3>2. ToSet(b \o cc) = ToSet(b) \cup ToSet(cc)
      BY <1>51, <1>81, Joined
    <3> QED
      BY <1>1, <3>1, <3>2
  <2>2. 1 \in 1..1 /\ x + 1 + y + 1 = x + y + 2
    BY <1>6
  <2> QED
    BY <1>5, <1>6, <1>8, <2>1, <2>2
<1>10. DOMAIN scr = 1..(x + y + 2)
  BY <1>9, SeqDomain
<1> HIDE DEF x, y
<1>11. /\ \A i \in 1..x : scr[i] = u[i]
       /\ scr[x + 1] = Begin
       /\ \A i \in (x + 2)..(x + y + 1) : i - (x + 1) \in 1..y /\ scr[i] = v[i - (x + 1)]
  <2>1. \A i \in 1..x : i \in 1..(x + 1) /\ i \in 1..(x + 1 + y)
    BY <1>6
  <2>2. x + 1 \in 1..(x + 1) /\ x + 1 \in 1..(x + 1 + y)
    BY <1>6
  <2>3. \A i \in (x + 2)..(x + y + 1) :
          i - (x + 1) \in 1..y /\ i \in 1..(x + 1 + y) /\ i = x + 1 + (i - (x + 1))
    BY <1>6
  <2>4. \A i \in 1..x : scr[i] = u[i]
    BY <1>7, <1>8, <1>9, <2>1
  <2>5. scr[x + 1] = Begin
    BY <1>7, <1>8, <1>9, <2>2
  <2>6. ASSUME NEW i \in (x + 2)..(x + y + 1) PROVE scr[i] = v[i - (x + 1)]
    <3>1. scr[i] = b[i]
      BY <1>9, <2>3
    <3>2. b[x + 1 + (i - (x + 1))] = v[i - (x + 1)]
      BY <1>8, <2>3
    <3> QED
      BY <2>3, <3>1, <3>2
  <2> QED
    BY <2>3, <2>4, <2>5, <2>6
<1> DEFINE h == [i \in (x + 2)..(x + y + 1) |-> f[i - (x + 1)]]
<1>120. \A i \in (x + 2)..(x + y + 1) : h[i] = f[i - (x + 1)]
  OBVIOUS
<1> HIDE DEF h
<1> DEFINE ph == [i \in 1..(x + y + 2) |->
                    IF i <= x THEN 0 ELSE IF i = x + 1 THEN 1
                    ELSE IF i = x + y + 2 THEN 28 ELSE h[i]]
<1>12. ASSUME NEW i \in 1..(x + y + 2)
       PROVE  \/ i \in 1..x /\ ph[i] = 0
              \/ i = x + 1 /\ ph[i] = 1
              \/ i \in (x + 2)..(x + y + 1) /\ ph[i] = h[i]
              \/ i = x + y + 2 /\ ph[i] = 28
  <2>1. CASE i <= x
    BY <1>6, <2>1
  <2>2. CASE i = x + 1
    BY <1>6, <2>2
  <2>3. CASE i = x + y + 2
    BY <1>6, <2>3
  <2>4. CASE ~(i <= x) /\ i # x + 1 /\ i # x + y + 2
    BY <1>6, <2>4
  <2> QED
    BY <2>1, <2>2, <2>3, <2>4
<1> HIDE DEF ph
<1>13. ASSUME NEW i \in (x + 2)..(x + y + 1)
       PROVE  h[i] \in 2..27 /\ Serves(scr[i], h[i], s, t, fl, allow, all)
  <2>1. i - (x + 1) \in DOMAIN v /\ scr[i] = v[i - (x + 1)] /\ h[i] = f[i - (x + 1)]
    BY <1>6, <1>11, <1>120
  <2> QED
    BY <1>4, <2>1
<1>14. ASSUME NEW i \in DOMAIN scr PROVE ph[i] \in 0..28
  <2>1. ASSUME i \in (x + 2)..(x + y + 1), ph[i] = h[i] PROVE ph[i] \in 0..28
    BY <1>13, <2>1
  <2>2. i \in 1..(x + y + 2)
    BY <1>10
  <2>3. \/ ph[i] = 0 \/ ph[i] = 1 \/ (i \in (x + 2)..(x + y + 1) /\ ph[i] = h[i])
        \/ ph[i] = 28
    BY <1>12, <2>2
  <2> QED
    BY <2>1, <2>3
<1>15. \A i, j \in DOMAIN scr : i < j => ph[i] <= ph[j]
  <2> SUFFICES ASSUME NEW i \in 1..(x + y + 2), NEW j \in 1..(x + y + 2), i < j
               PROVE  ph[i] <= ph[j]
    BY <1>10
  <2>1. CASE i \in 1..x /\ ph[i] = 0
    <3>1. ph[j] \in 0..28
      BY <1>10, <1>14
    <3> QED
      BY <2>1, <3>1
  <2>2. CASE i = x + 1 /\ ph[i] = 1
    <3>1. ~(j \in 1..x) /\ j # x + 1
      BY <1>6, <2>2
    <3>2. ph[j] \in 2..28
      <4>1. ASSUME j \in (x + 2)..(x + y + 1), ph[j] = h[j] PROVE ph[j] \in 2..28
        BY <1>13, <4>1
      <4> QED
        BY <1>12, <3>1, <4>1
    <3> QED
      BY <2>2, <3>2
  <2>3. CASE i \in (x + 2)..(x + y + 1) /\ ph[i] = h[i]
    <3>1. ph[i] \in 2..27
      BY <1>13, <2>3
    <3>2. ~(j \in 1..x) /\ j # x + 1
      BY <1>6, <2>3
    <3>3. CASE j \in (x + 2)..(x + y + 1) /\ ph[j] = h[j]
      <4>1. i - (x + 1) \in DOMAIN v /\ j - (x + 1) \in DOMAIN v
        BY <1>6, <1>11, <2>3, <3>3
      <4>2. i - (x + 1) < j - (x + 1)
        BY <1>6
      <4> QED
        BY <1>4, <1>120, <2>3, <3>3, <4>1, <4>2
    <3>4. CASE ph[j] = 28
      BY <3>1, <3>4
    <3> QED
      BY <1>12, <3>2, <3>3, <3>4
  <2>4. CASE i = x + y + 2
    BY <1>6, <2>4
  <2> QED
    BY <1>12, <2>1, <2>2, <2>3, <2>4
<1>16. \A i \in DOMAIN scr : /\ ph[i] = 1 <=> i = x + 1
                             /\ ph[i] = 0 <=> i \in 1..x
  <2> SUFFICES ASSUME NEW i \in 1..(x + y + 2)
               PROVE  (ph[i] = 1 <=> i = x + 1) /\ (ph[i] = 0 <=> i \in 1..x)
    BY <1>10
  <2>1. CASE i \in 1..x /\ ph[i] = 0
    BY <1>6, <2>1
  <2>2. CASE i = x + 1 /\ ph[i] = 1
    BY <1>6, <2>2
  <2>3. CASE i \in (x + 2)..(x + y + 1) /\ ph[i] = h[i]
    <3>1. ph[i] \in 2..27
      BY <1>13, <2>3
    <3>2. i # x + 1 /\ ~(i \in 1..x)
      BY <1>6, <2>3
    <3> QED
      BY <3>1, <3>2
  <2>4. CASE i = x + y + 2 /\ ph[i] = 28
    BY <1>6, <2>4
  <2> QED
    BY <1>12, <2>1, <2>2, <2>3, <2>4
<1>17. ASSUME NEW i \in DOMAIN scr
       PROVE  \/ ph[i] = 1 /\ scr[i] = Begin /\ i < Len(scr)
              \/ ph[i] = 28 /\ scr[i] = Commit /\ i = Len(scr)
              \/ /\ ph[i] \in (0..27) \ {1} /\ i < Len(scr)
                 /\ Serves(scr[i], ph[i], s, t, fl, allow, all)
  <2>1. CASE i \in 1..x /\ ph[i] = 0
    <3>1. i < Len(scr) /\ 0 \in (0..27) \ {1}
      BY <1>6, <1>9, <2>1
    <3>2. scr[i] \in ToSet(u)
      BY <1>6, <1>11, <2>1 DEF ToSet
    <3> QED
      BY <1>2, <2>1, <3>1, <3>2
  <2>2. CASE i = x + 1 /\ ph[i] = 1
    BY <1>6, <1>9, <1>11, <2>2
  <2>3. CASE i \in (x + 2)..(x + y + 1) /\ ph[i] = h[i]
    <3>1. i < Len(scr)
      BY <1>6, <1>9, <2>3
    <3>2. ph[i] \in (0..27) \ {1}
      BY <1>13, <2>3
    <3> QED
      BY <1>13, <2>3, <3>1, <3>2
  <2>4. CASE i = x + y + 2 /\ ph[i] = 28
    BY <1>9, <2>4
  <2> QED
    BY <1>10, <1>12, <2>1, <2>2, <2>3, <2>4
<1>18. Phased(scr, ph, s, t, fl, allow, all)
  <2>1. Len(scr) > 0 /\ scr[Len(scr)] = Commit
    BY <1>6, <1>9
  <2>2. \A i, j \in DOMAIN scr : ph[i] = 1 /\ ph[j] = 1 => i = j
    BY <1>16
  <2> QED
    BY <1>9, <1>14, <1>15, <1>17, <2>1, <2>2 DEF Phased
<1>19. LabelsFirst(scr, ph, u)
  <2>1. x + 1 \in DOMAIN scr /\ 1..x \subseteq DOMAIN scr
    BY <1>6, <1>10
  <2> QED
    BY <1>6, <1>11, <1>16, <2>1 DEF LabelsFirst
<1>20. AllOf(scr, plan, fl, allow)
  <2>1. ToSet(u) \subseteq ToSet(scr) /\ ToSet(v) \subseteq ToSet(scr)
    BY <1>7, <1>8, <1>9
  <2>2. \A n \in (0..27) \ {1} : n = 0 \/ n \in 2..27
    OBVIOUS
  <2>3. \A c \in ToSet(plan), n \in (0..27) \ {1} : ToSet(OfPhase(c, n, fl, allow)) \subseteq ToSet(scr)
    BY <1>2, <1>3, <2>1, <2>2
  <2> QED
    BY <2>3 DEF AllOf, ToSet
<1> QED
  BY <1>18, <1>19, <1>20 DEF scr, u

-----------------------------------------------------------------------------
(***************************************************************************)
(* What a statement does to each object.                                   *)
(***************************************************************************)
Kin(o, on) == o = on \/ (o[2] = on[2] /\ on[1] \in {"table", "column", "constraint"})

Made(o, d, e, st) ==
  /\ st.do \in Makes /\ o \in DOMAIN e /\ o \notin DOMAIN d /\ Kin(o, st.on)
  /\ o \in DOMAIN st.with \/ o[1] = "sequence"
  /\ o[1] \in {"constraint", "index"} => e[o] = st.with[o]

Tight(o, d, e, st) ==
  /\ st.do \in Makes /\ o \in DOMAIN d /\ o \in DOMAIN e /\ Kin(o, st.on)
  /\ o[1] = "column" /\ e[o].kept = d[o].kept

Gone(o, d, e, st) ==
  /\ st.do \in Drops /\ o \in DOMAIN d /\ o \notin DOMAIN e /\ st.on \in DOMAIN d
  /\ \/ o = st.on
     \/ /\ o \in Closure(d, st.on) /\ o[2] = st.on[2]
        /\ st.on[1] \in {"table", "view", "column"}
     \/ st.do = "drop_cascade" /\ o[1] = "constraint" /\ d[o].kind = "foreign"

AlteredAs(o, d, e, st) ==
  /\ st.do \notin Makes \cup Drops \cup {"replace"}
  /\ o = st.on /\ o \in DOMAIN d /\ o \in DOMAIN e
  /\ o[1] \in {"column", "table", "extension", "trigger", "sequence", "enum"}
  /\ o[1] \in {"table", "column", "sequence"} => e[o].kept = d[o].kept
  /\ o[1] = "enum" <=> st.do = "add_label"

Touched(o, d, e, st) ==
  \/ o \in DOMAIN d /\ o \in DOMAIN e /\ e[o] = d[o]
  \/ Made(o, d, e, st)
  \/ Tight(o, d, e, st)
  \/ st.do = "replace" /\ o = st.on /\ o[1] = "routine" /\ o \in DOMAIN e
  \/ Gone(o, d, e, st)
  \/ AlteredAs(o, d, e, st)

AllTouched(d, e, st) == \A o \in DOMAIN d \cup DOMAIN e : Touched(o, d, e, st)

MadeOK(d, e, group, new) ==
  /\ DOMAIN e = DOMAIN d \cup DOMAIN group \cup DOMAIN new
  /\ \A o \in DOMAIN d \ (DOMAIN group \cup DOMAIN new) : e[o] = Tightened(o, d[o], group)
  /\ \A g \in DOMAIN group : e[g] = Tightened(g, NewValue(g, group[g]), group)
  /\ DOMAIN group \cap DOMAIN d = {} /\ DOMAIN new \cap DOMAIN d = {}
  /\ \A q \in DOMAIN new :
       q[1] = "sequence" /\ \E c \in DOMAIN group : c[1] = "column" /\ c[2] = q[2]

LEMMA MadeIs ==
  ASSUME NEW d, IsDatabase(d), NEW group, NEW id, Together(id, group),
         CanCreate(d, id, group)
  PROVE  MadeOK(d, Created(d, group), group, NewSequences(group))
<1> DEFINE e == Created(d, group)  new == NewSequences(group)
<1>1. /\ e = [o \in DOMAIN e |-> e[o]]
      /\ DOMAIN e = DOMAIN d \cup DOMAIN group \cup DOMAIN new
      /\ \A o \in DOMAIN d \ (DOMAIN group \cup DOMAIN new) : e[o] = Tightened(o, d[o], group)
      /\ \A g \in DOMAIN group : e[g] = Tightened(g, NewValue(g, group[g]), group)
      /\ \A q \in DOMAIN new : e[q] = new[q]
  BY ZenonT(60), CreatedIs
<1>2. DOMAIN group \cap DOMAIN d = {} /\ DOMAIN new \cap DOMAIN d = {}
  BY CreatesNew
<1>3. /\ IsFiniteSet(DOMAIN new) /\ DOMAIN new \subseteq Identifiers
      /\ DOMAIN new \cap DOMAIN group = {}
      /\ DOMAIN new = {SerialSeq(c) : c \in SerialsOf(group)}
      /\ \A q \in DOMAIN new :
           /\ q[1] = "sequence" /\ Len(q) = 3
           /\ \E c \in SerialsOf(group) :
                /\ SerialSeq(c) = q /\ c[2] = q[2]
                /\ new[q] = [min |-> 1, max |-> 9, owner |-> {c}, last |-> 1, kept |-> FALSE]
      /\ SerialsOf(group) \subseteq DOMAIN group
  BY NewSequencesAre
<1> HIDE DEF e, new
<1>4. \A q \in DOMAIN new :
        q[1] = "sequence" /\ \E c \in DOMAIN group : c[1] = "column" /\ c[2] = q[2]
  BY <1>3 DEF SerialsOf
<1>5. MadeOK(d, e, group, new)
  BY <1>1, <1>2, <1>4 DEF MadeOK
<1> QED
  BY <1>5 DEF e, new

LEMMA MakeTouches ==
  ASSUME NEW d, IsDatabase(d), NEW group, NEW id, Together(id, group),
         CanCreate(d, id, group),
         NEW st, st.do \in Makes, st.on = id, st.with = group
  PROVE  AllTouched(d, Created(d, group), st)
<1> DEFINE e == Created(d, group)  new == NewSequences(group)
<1>0. MadeOK(d, e, group, new)
  BY MadeIs
<1>1. /\ DOMAIN e = DOMAIN d \cup DOMAIN group \cup DOMAIN new
      /\ \A o \in DOMAIN d \ (DOMAIN group \cup DOMAIN new) : e[o] = Tightened(o, d[o], group)
      /\ \A g \in DOMAIN group : e[g] = Tightened(g, NewValue(g, group[g]), group)
  <2> HIDE DEF e, new
  <2> QED
    BY <1>0 DEF MadeOK
<1>2. DOMAIN group \cap DOMAIN d = {} /\ DOMAIN new \cap DOMAIN d = {}
  <2> HIDE DEF e, new
  <2> QED
    BY <1>0 DEF MadeOK
<1>3. \A g \in DOMAIN group :
        /\ g = id \/ (id[1] = "table" /\ g[1] \in {"column", "constraint"} /\ SameRelation(g, id))
        /\ NewIs(g, group[g])
  BY DEF Together
<1>4. \A q \in DOMAIN new : q[1] = "sequence" /\ \E c \in DOMAIN group : c[1] = "column" /\ c[2] = q[2]
  <2> HIDE DEF e, new
  <2> QED
    BY <1>0 DEF MadeOK
<1> HIDE DEF e, new
<1>5. ASSUME NEW g \in DOMAIN group PROVE Made(g, d, e, st)
  <2>1. Kin(g, id)
    <3>1. CASE g = id
      BY <3>1 DEF Kin
    <3>2. CASE id[1] = "table" /\ SameRelation(g, id)
      BY <3>2 DEF Kin, SameRelation
    <3> QED
      BY <1>3, <3>1, <3>2
  <2>2. g[1] \in {"constraint", "index"} => e[g] = group[g]
    <3>1. SUFFICES ASSUME g[1] \in {"constraint", "index"} PROVE e[g] = group[g]
      OBVIOUS
    <3>2. NewValue(g, group[g]) = group[g]
      BY <3>1 DEF NewValue
    <3>3. Tightened(g, group[g], group) = group[g]
      BY <3>1 DEF Tightened
    <3> QED
      BY <1>1, <3>2, <3>3
  <2> QED
    BY <1>1, <1>2, <2>1, <2>2 DEF Made
<1>6. ASSUME NEW q \in DOMAIN new PROVE Made(q, d, e, st)
  <2>1. PICK c \in DOMAIN group : c[1] = "column" /\ c[2] = q[2]
    BY <1>4
  <2>2. Kin(q, id)
    <3>1. CASE c = id
      BY <2>1, <3>1 DEF Kin
    <3>2. CASE id[1] = "table" /\ SameRelation(c, id)
      BY <2>1, <3>2 DEF Kin, SameRelation
    <3> QED
      BY <1>3, <3>1, <3>2
  <2> QED
    BY <1>1, <1>2, <1>4, <2>2 DEF Made
<1>7. ASSUME NEW o \in DOMAIN d PROVE Touched(o, d, e, st)
  <2>1. o \in DOMAIN e /\ e[o] = Tightened(o, d[o], group)
    BY <1>1, <1>2
  <2>2. CASE ~(o[1] = "column" /\ o \in KeyedUse(group))
    <3>1. e[o] = d[o]
      BY <2>1, <2>2 DEF Tightened
    <3> QED
      BY <2>1, <3>1 DEF Touched
  <2>3. CASE o[1] = "column" /\ o \in KeyedUse(group)
    <3>1. PICK k \in DOMAIN group : /\ k[1] = "constraint" /\ group[k].kind = "primary"
                                    /\ o \in UsesOf(k, group[k])
      BY <2>3 DEF KeyedUse
    <3>2. NewValue(k, group[k]) = group[k]
      BY <3>1 DEF NewValue
    <3>3. IsConstraint(k, group[k])
      BY <1>3, <3>1, <3>2 DEF NewIs, IsValue
    <3>4. UsesOf(k, group[k]) = group[k].def.uses
      BY <3>1 DEF UsesOf, Deparsed
    <3>5. o[2] = k[2]
      BY <2>3, <3>1, <3>3, <3>4 DEF IsConstraint, SameRelation
    <3>6. Kin(o, id)
      <4>1. CASE k = id
        BY <3>1, <3>5, <4>1 DEF Kin
      <4>2. CASE id[1] = "table" /\ SameRelation(k, id)
        BY <3>5, <4>2 DEF Kin, SameRelation
      <4> QED
        BY <1>3, <4>1, <4>2
    <3>7. IsValue(o, d[o]) /\ NamesNoKey(o, d[o])
      BY InDatabase
    <3>8. e[o].kept = d[o].kept
      BY <2>1, <2>3, <3>7, TightenedIs
    <3> QED
      BY <2>1, <2>3, <3>6, <3>8 DEF Touched, Tight
  <2> QED
    BY <2>2, <2>3
<1> QED
  BY <1>1, <1>5, <1>6, <1>7 DEF AllTouched, Touched, e

LEMMA DropTouches ==
  ASSUME NEW d, IsDatabase(d), NEW st, st.do \in Drops, NEW fl, Accepts(d, st, fl), StmtOK(st)
  PROVE  AllTouched(d, Effect(d, st), st)
<1> DEFINE id == st.on  e == Effect(d, st)
<1>1. CASE id \notin DOMAIN d
  <2>1. e = d
    BY <1>1 DEF Effect, Drops
  <2> QED
    BY <2>1 DEF AllTouched, Touched
<1>2. CASE id \in DOMAIN d /\ st.do = "drop"
  <2>1. e = Without(d, Closure(d, id))
    BY <1>2 DEF Effect
  <2>2. DOMAIN e = DOMAIN d \ Closure(d, id) /\ \A o \in DOMAIN e : e[o] = d[o]
    BY <2>1 DEF Without
  <2> HIDE DEF e
  <2>3. ASSUME NEW o \in DOMAIN d, o \in Closure(d, id) PROVE Gone(o, d, e, st)
    <3>1. CASE o = id
      BY <1>2, <2>2, <2>3, <3>1 DEF Gone, Drops
    <3>2. CASE o # id
      <4>1. o[2] = id[2] /\ id[1] \in {"table", "view", "column"}
        BY <1>2, <2>3, <3>2, ClosureIs
      <4> QED
        BY <1>2, <2>2, <2>3, <4>1 DEF Gone, Drops
    <3> QED
      BY <3>1, <3>2
  <2>4. AllTouched(d, e, st)
    BY <2>2, <2>3 DEF AllTouched, Touched
  <2> QED
    BY <2>4 DEF e
<1>3. CASE id \in DOMAIN d /\ st.do = "drop_cascade"
  <2>1. e = Without(d, Closure(d, id) \cup Dependents(d, id))
    BY <1>3 DEF Effect
  <2>2. /\ DOMAIN e = DOMAIN d \ (Closure(d, id) \cup Dependents(d, id))
        /\ \A o \in DOMAIN e : e[o] = d[o]
    BY <2>1 DEF Without
  <2>3. id[1] = "constraint"
    BY <1>3 DEF StmtOK, IdentityDos
  <2>4. /\ Closure(d, id) = {id}
        /\ \A o \in Dependents(d, id) : o[1] = "constraint" /\ d[o].kind = "foreign"
    <3>1. id \in DOMAIN d /\ id[1] = "constraint"
      BY <1>3, <2>3
    <3> HIDE DEF id
    <3> QED
      BY ZenonT(60), <3>1, CascadeKeeps
  <2> HIDE DEF e
  <2>5. ASSUME NEW o \in DOMAIN d, o \in Closure(d, id) \cup Dependents(d, id)
        PROVE  Gone(o, d, e, st)
    BY <1>3, <2>2, <2>4, <2>5 DEF Gone, Drops
  <2>6. AllTouched(d, e, st)
    BY <2>2, <2>5 DEF AllTouched, Touched
  <2> QED
    BY <2>6 DEF e
<1> QED
  BY <1>1, <1>2, <1>3 DEF Drops

LEMMA AlterTouches ==
  ASSUME NEW d, IsDatabase(d), NEW st, NEW fl, Accepts(d, st, fl), StmtOK(st),
         st.do \notin Makes \cup Drops \cup {"replace"}
  PROVE  AllTouched(d, Effect(d, st), st)
<1> DEFINE id == st.on  e == Effect(d, st)
<1>0. d = [o \in DOMAIN d |-> d[o]]
  BY DEF IsDatabase
<1>1. CASE st.do = "validate"
  <2>1. e = d
    BY <1>1 DEF Effect
  <2> QED
    BY <2>1 DEF AllTouched, Touched
<1>2. CASE st.do = "set"
  <2> DEFINE f == st.with.facet  x == st.with.value  w == Faceted(d[id], f, x)
  <2>1. SetOK(id, st.with)
    BY <1>2 DEF StmtOK, IdentityDos
  <2>2. id \in DOMAIN d
    BY <1>2 DEF Accepts, CanSet
  <2>3. e = [d EXCEPT ![id] = w]
    <3>1. e = SetFacet(d, id, f, x)
      BY <1>2 DEF Effect
    <3> HIDE DEF e
    <3> QED
      BY <2>2, <3>1 DEF SetFacet, Faceted
  <2>4. f # "kept" /\ id[1] \in {"column", "table", "extension", "trigger"}
    BY <2>1 DEF SetOK
  <2>5. id[1] \in {"table", "column"} => w.kept = d[id].kept
    <3>1. SUFFICES ASSUME id[1] \in {"table", "column"} PROVE w.kept = d[id].kept
      OBVIOUS
    <3>2. IsValue(id, d[id])
      BY <2>2, InDatabase
    <3>3. "kept" \in DOMAIN d[id]
      <4>1. CASE id[1] = "table"
        <5>1. d[id] = [partition |-> d[id].partition, rls |-> d[id].rls,
                       forced |-> d[id].forced, kept |-> d[id].kept]
          BY <3>2, <4>1 DEF IsValue
        <5> DEFINE y == d[id]
        <5> HIDE DEF y
        <5>2. y = [partition |-> y.partition, rls |-> y.rls, forced |-> y.forced, kept |-> y.kept]
          BY <5>1 DEF y
        <5>3. "kept" \in DOMAIN y
          BY <5>2
        <5> QED
          BY <5>3 DEF y
      <4>2. CASE id[1] = "column"
        <5> DEFINE y == d[id]
        <5>1. IsColumn(id, y)
          BY <3>2, <4>2 DEF IsValue
        <5> HIDE DEF y
        <5>2. y = [type |-> y.type, notnull |-> y.notnull, default |-> y.default,
                   identity |-> y.identity, generated |-> y.generated, hidden |-> y.hidden,
                   kept |-> y.kept]
          BY <5>1 DEF IsColumn
        <5>3. "kept" \in DOMAIN y
          BY <5>2
        <5> QED
          BY <5>3 DEF y
      <4> QED
        BY <3>1, <4>1, <4>2
    <3> QED
      BY <2>4, <3>3 DEF Faceted
  <2> HIDE DEF e, id, w
  <2>6. DOMAIN e = DOMAIN d /\ e[id] = w /\ \A o \in DOMAIN d : o # id => e[o] = d[o]
    BY <1>0, <2>2, <2>3
  <2>7. AlteredAs(id, d, e, st)
    BY <1>2, <2>2, <2>4, <2>5, <2>6 DEF AlteredAs, Makes, Drops, id
  <2>8. AllTouched(d, e, st)
    BY <2>6, <2>7 DEF AllTouched, Touched
  <2> QED
    BY <2>8 DEF e
<1>3. CASE st.do \in IdentityDos
  <2> DEFINE v == d[id]
             x == IF st.do = "drop_identity" THEN "none" ELSE st.with
             w == [v EXCEPT !.identity = x]
  <2>1. id[1] = "column"
    BY <1>3 DEF StmtOK, IdentityDos
  <2>2. id \in DOMAIN d
    BY <1>3 DEF Accepts, CanAddIdentity, IdentityDos
  <2>3. e = [d EXCEPT ![id] = w]
    <3>1. e = [d EXCEPT ![id].identity = x]
      BY <1>3 DEF Effect, IdentityDos
    <3> HIDE DEF e, x, id
    <3> QED
      BY <2>2, <3>1
  <2>4. w.kept = v.kept
    <3> HIDE DEF v, x
    <3> QED
      OBVIOUS
  <2> HIDE DEF e, id, w
  <2>5. DOMAIN e = DOMAIN d /\ e[id] = w /\ \A o \in DOMAIN d : o # id => e[o] = d[o]
    BY <1>0, <2>2, <2>3
  <2>6. AlteredAs(id, d, e, st)
    BY <1>3, <2>1, <2>2, <2>4, <2>5 DEF AlteredAs, Makes, Drops, id, IdentityDos
  <2>7. AllTouched(d, e, st)
    BY <2>5, <2>6 DEF AllTouched, Touched
  <2> QED
    BY <2>7 DEF e
<1>4. CASE st.do \in {"own_sequence", "clamp", "resize"}
  <2> DEFINE v == d[id]
  <2>1. id[1] = "sequence"
    BY <1>4 DEF StmtOK, IdentityDos
  <2>2. id \in DOMAIN d
    BY <1>4 DEF Accepts
  <2>3. \E r : e = [d EXCEPT ![id] = r] /\ r.kept = v.kept
    <3>1. CASE st.do = "own_sequence"
      <4> DEFINE r == [v EXCEPT !.owner = {st.with}]
      <4>1. e = [d EXCEPT ![id] = r]
        BY <2>2, <3>1 DEF Effect
      <4>2. r.kept = v.kept
        <5> HIDE DEF v
        <5> QED
          OBVIOUS
      <4> HIDE DEF r, v, id, e
      <4> QED
        BY <4>1, <4>2
    <3>2. CASE st.do = "clamp"
      <4> DEFINE r == [v EXCEPT !.last = Clamped(v, st.with)]
      <4>1. e = [d EXCEPT ![id] = r]
        BY <2>2, <3>2 DEF Effect
      <4>2. r.kept = v.kept
        <5> HIDE DEF v
        <5> QED
          OBVIOUS
      <4> HIDE DEF r, v, id, e
      <4> QED
        BY <4>1, <4>2
    <3>3. CASE st.do = "resize"
      <4> DEFINE r == [v EXCEPT !.min = st.with.min, !.max = st.with.max]
      <4>1. e = [d EXCEPT ![id].min = st.with.min, ![id].max = st.with.max]
        BY <3>3 DEF Effect
      <4>2. e = [d EXCEPT ![id] = r]
        <5> HIDE DEF e, id
        <5> QED
          BY <2>2, <4>1
      <4>3. r.kept = v.kept
        <5> HIDE DEF v
        <5> QED
          OBVIOUS
      <4> HIDE DEF r, v, id, e
      <4> QED
        BY <4>2, <4>3
    <3> QED
      BY <1>4, <3>1, <3>2, <3>3
  <2> HIDE DEF v, e
  <2>4. PICK r : e = [d EXCEPT ![id] = r] /\ r.kept = v.kept
    BY <2>3
  <2> HIDE DEF id
  <2>5. DOMAIN e = DOMAIN d /\ e[id] = r /\ \A o \in DOMAIN d : o # id => e[o] = d[o]
    BY <1>0, <2>2, <2>4
  <2>6. AlteredAs(id, d, e, st)
    BY <1>4, <2>1, <2>2, <2>4, <2>5 DEF AlteredAs, Makes, Drops, id, v
  <2>7. AllTouched(d, e, st)
    BY <2>5, <2>6 DEF AllTouched, Touched
  <2> QED
    BY <2>7 DEF e
<1>5. CASE st.do = "add_label"
  <2>1. id[1] = "enum"
    BY <1>5 DEF StmtOK, IdentityDos
  <2>2. id \in DOMAIN d
    BY <1>5 DEF Accepts
  <2>3. DOMAIN e = DOMAIN d /\ \A o \in DOMAIN d : o # id => e[o] = d[o]
    <3>1. \/ e = d
          \/ e = [d EXCEPT ![id].labels = InsertLabel(@, st.with)]
      BY <1>5 DEF Effect
    <3> HIDE DEF e, id
    <3> QED
      BY <1>0, <2>2, <3>1
  <2> HIDE DEF e, id
  <2>4. AlteredAs(id, d, e, st)
    BY <1>5, <2>1, <2>2, <2>3 DEF AlteredAs, Makes, Drops, id
  <2>5. AllTouched(d, e, st)
    BY <2>3, <2>4 DEF AllTouched, Touched
  <2> QED
    BY <2>5 DEF e
<1>6. \/ st.do = "validate" \/ st.do = "set" \/ st.do \in IdentityDos
      \/ st.do \in {"own_sequence", "clamp", "resize"} \/ st.do = "add_label"
  BY DEF StmtOK, Makes, Drops
<1> QED
  BY <1>1, <1>2, <1>3, <1>4, <1>5, <1>6

(* A statement does one of six things to an object. *)
LEMMA EffectTouches ==
  ASSUME NEW d, IsDatabase(d), NEW st, NEW fl, StmtOK(st), Accepts(d, st, fl)
  PROVE  AllTouched(d, Effect(d, st), st)
<1>1. CASE st.do \in Makes
  <2>1. Together(st.on, st.with)
    BY <1>1 DEF StmtOK, IdentityDos, Makes
  <2>2. CASE Effect(d, st) = d
    BY <2>2 DEF AllTouched, Touched
  <2>3. CASE Effect(d, st) # d
    <3>1. Effect(d, st) = Created(d, st.with) /\ CanCreate(d, st.on, st.with)
      BY <1>1, <2>3 DEF Effect, Accepts, Makes
    <3> QED
      BY SMTT(60), <1>1, <2>1, <3>1, MakeTouches
  <2> QED
    BY <2>2, <2>3
<1>2. CASE st.do \in Drops
  BY <1>2, DropTouches
<1>3. CASE st.do = "replace"
  <2> DEFINE id == st.on  e == Effect(d, st)
  <2>1. id[1] = "routine" /\ st.with = [i \in {id} |-> st.with[id]]
    BY <1>3 DEF StmtOK, IdentityDos, One
  <2>2. e = Merge(d, st.with)
    BY <1>3 DEF Effect
  <2> HIDE DEF e, id
  <2>3. DOMAIN e = DOMAIN d \cup {id} /\ \A o \in DOMAIN d : o # id => e[o] = d[o]
    BY <2>1, <2>2 DEF Merge
  <2>4. AllTouched(d, e, st)
    BY <1>3, <2>1, <2>3 DEF AllTouched, Touched, id
  <2> QED
    BY <2>4 DEF e
<1>4. CASE st.do \notin Makes \cup Drops \cup {"replace"}
  BY <1>4, AlterTouches
<1> QED
  BY <1>1, <1>2, <1>3, <1>4

================================================================================
