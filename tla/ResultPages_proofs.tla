-------------------------- MODULE ResultPages_proofs --------------------------
(***************************************************************************)
(* Safety of the result pages for any ledgers, hosts that are asked about, *)
(* and delays of the browser; only the order of the rounds bounds these.   *)
(***************************************************************************)
EXTENDS ResultPages, FiniteSetTheorems, WellFoundedInduction, TLAPS

SafetySpec == Init /\ [][Next]_vars

-----------------------------------------------------------------------------
(* Induction, and what the operators on sequences do.                      *)

(* The natural numbers lie in every set that has 0 and each successor.     *)
LEMMA LessThanWF == IsWellFoundedOn({p \in Nat \X Nat : p[1] < p[2]}, Nat)
BY NatLessThanWellFounded DEF OpToRel

LEMMA SetInduction ==
  ASSUME NEW S, 0 \in S, \A n \in Nat : n \in S => n + 1 \in S
  PROVE  Nat \subseteq S
<1> DEFINE R == {p \in Nat \X Nat : p[1] < p[2]}
           T == Nat \ S
<1>1. SUFFICES ASSUME T # {} PROVE FALSE
  OBVIOUS
<1>2. PICK x \in T : \A y \in T : <<y, x>> \notin R
  <2> HIDE DEF T, R
  <2>1. IsWellFoundedOn(R, Nat)
    BY LessThanWF DEF R
  <2>2. T \subseteq Nat
    BY DEF T
  <2>3. QED BY <2>1, <2>2, <1>1, WFMin
<1>3. x \in Nat /\ x # 0 /\ x - 1 \in Nat
  OBVIOUS
<1>4. x - 1 \in T /\ <<x - 1, x>> \in R
  BY <1>3
<1>5. QED BY <1>2, <1>4

(* A set of numbers up to n has a greatest.                                *)
LEMMA Greatest ==
  ASSUME NEW n \in Nat, NEW s \in SUBSET (1..n), s # {}
  PROVE  Max(s) \in s /\ \A y \in s : y <= Max(s)
<1> DEFINE Has(m) == \A t \in SUBSET (1..m) : t # {} => \E x \in t : \A y \in t : x >= y
           S == {m \in Nat : Has(m)}
<1>1. 0 \in S
  <2>1. \A t \in SUBSET (1..0) : t = {}
    OBVIOUS
  <2>2. QED BY <2>1
<1>2. ASSUME NEW m \in Nat, m \in S
      PROVE  m + 1 \in S
  <2> SUFFICES ASSUME NEW t \in SUBSET (1..(m + 1)), t # {}
               PROVE  \E x \in t : \A y \in t : x >= y
    OBVIOUS
  <2>1. CASE m + 1 \in t
    BY <2>1
  <2>2. CASE m + 1 \notin t
    <3>1. t \in SUBSET (1..m)
      BY <2>2
    <3>2. QED BY <3>1, <1>2
  <2>3. QED BY <2>1, <2>2
<1>3. Has(n)
  <2> HIDE DEF Has
  <2>1. Nat \subseteq S
    <3> HIDE DEF S
    <3>1. QED BY <1>1, <1>2, SetInduction
  <2>2. QED BY <2>1
<1>4. \E x \in s : \A y \in s : x >= y
  BY <1>3
<1>5. Max(s) \in s /\ \A y \in s : Max(s) >= y
  BY <1>4 DEF Max
<1>6. QED BY <1>5

LEMMA GreatestIs ==
  ASSUME NEW n \in Nat, NEW s \in SUBSET (1..(n + 1)), n + 1 \in s
  PROVE  Max(s) = n + 1
<1>1. n + 1 \in Nat /\ s # {}
  OBVIOUS
<1>2. Max(s) \in s /\ \A y \in s : y <= Max(s)
  BY <1>1, Greatest
<1>3. Max(s) \in 1..(n + 1) /\ n + 1 <= Max(s)
  BY <1>2
<1>4. QED BY <1>3

(* A sequence that lists a finite set.                                     *)
LEMMA ListsAll ==
  ASSUME NEW S, IsFiniteSet(S)
  PROVE  /\ SetToSeq(S) \in Seq(S)
         /\ ToSet(SetToSeq(S)) = S
         /\ Len(SetToSeq(S)) = Cardinality(S)
         /\ IsInjective(SetToSeq(S))
<1> DEFINE n == Cardinality(S)
           f == SetToSeq(S)
<1>1. n \in Nat /\ ExistsBijection(1..n, S)
  BY FS_CardinalityType
<1>2. \E g \in [1..n -> S] : IsInjective(g)
  BY <1>1 DEF ExistsBijection, Bijection, Injection
<1>3. f \in [1..n -> S] /\ IsInjective(f)
  BY <1>2 DEF SetToSeq
<1>4. f \in Injection(1..n, S)
  BY <1>3 DEF Injection
<1> HIDE DEF f
<1>5. Cardinality(1..n) = n
  BY <1>1, FS_Interval
<1>6. f \in Surjection(1..n, S)
  BY <1>4, <1>5, FS_Injection
<1>7. ToSet(f) = S
  BY <1>3, <1>6 DEF ToSet, Surjection
<1>8. f \in Seq(S) /\ Len(f) = n
  BY <1>1, <1>3
<1>9. QED BY <1>3, <1>7, <1>8 DEF f

(* The image of a finite set is finite.                                    *)
LEMMA FiniteImage ==
  ASSUME NEW S, IsFiniteSet(S), NEW f
  PROVE  IsFiniteSet({f[x] : x \in S})
<1> DEFINE g == [x \in S |-> f[x]]
           T == {f[x] : x \in S}
<1>1. g \in Surjection(S, T)
  BY DEF Surjection
<1>2. QED BY <1>1, FS_Surjection

LEMMA FiniteProjections ==
  ASSUME NEW S, IsFiniteSet(S)
  PROVE  IsFiniteSet({p[1] : p \in S}) /\ IsFiniteSet({p[2] : p \in S})
<1>1. IsFiniteSet({[p \in S |-> p[1]][q] : q \in S})
  BY FiniteImage
<1>2. IsFiniteSet({[p \in S |-> p[2]][q] : q \in S})
  BY FiniteImage
<1>3. /\ {[p \in S |-> p[1]][q] : q \in S} = {p[1] : p \in S}
      /\ {[p \in S |-> p[2]][q] : q \in S} = {p[2] : p \in S}
  OBVIOUS
<1>4. QED BY <1>1, <1>2, <1>3

LEMMA RangeOfConcat ==
  ASSUME NEW T, NEW s \in Seq(T), NEW t \in Seq(T)
  PROVE  Range(s \o t) = Range(s) \union Range(t)
<1>1. /\ Len(s) \in Nat /\ Len(t) \in Nat /\ Len(s \o t) = Len(s) + Len(t)
      /\ \A i \in 1..Len(s) : (s \o t)[i] = s[i]
      /\ \A i \in 1..Len(t) : (s \o t)[Len(s) + i] = t[i]
      /\ s \o t \in Seq(T)
  OBVIOUS
<1>2. \A i \in 1..(Len(s) + Len(t)) : i \in 1..Len(s) \/ \E j \in 1..Len(t) : i = Len(s) + j
  <2> TAKE i \in 1..(Len(s) + Len(t))
  <2>1. i > Len(s) => i - Len(s) \in 1..Len(t) /\ i = Len(s) + (i - Len(s))
    BY <1>1
  <2>2. QED BY <1>1, <2>1
<1>3. /\ DOMAIN s = 1..Len(s) /\ DOMAIN t = 1..Len(t)
      /\ DOMAIN (s \o t) = 1..(Len(s) + Len(t))
  BY <1>1
<1>4. Range(s \o t) \subseteq Range(s) \union Range(t)
  BY <1>1, <1>2, <1>3 DEF Range
<1>5. \A i \in 1..Len(s) : i \in 1..(Len(s) + Len(t))
  BY <1>1
<1>6. \A i \in 1..Len(t) : Len(s) + i \in 1..(Len(s) + Len(t))
  BY <1>1
<1>7. Range(s) \subseteq Range(s \o t)
  BY <1>1, <1>3, <1>5 DEF Range
<1>8. Range(t) \subseteq Range(s \o t)
  <2>1. \A i \in 1..Len(t) : t[i] \in Range(s \o t)
    BY <1>1, <1>3, <1>6 DEF Range
  <2>2. QED BY <1>3, <2>1 DEF Range
<1>9. QED BY <1>4, <1>7, <1>8

LEMMA ConcatStarts ==
  ASSUME NEW T, NEW s \in Seq(T), NEW t \in Seq(T), s # <<>>
  PROVE  s \o t # <<>> /\ (s \o t)[1] = s[1]
<1>1. Len(s) \in Nat /\ Len(s) # 0 /\ Len(t) \in Nat
  OBVIOUS
<1>2. QED BY <1>1

(* g joins the first n sequences.                                          *)
Joins(n, g, seqs) ==
  g = [i \in 1..n |-> IF i = 1 THEN seqs[i] ELSE g[i - 1] \o seqs[i]]

LEMMA SomethingJoins ==
  ASSUME NEW n \in Nat, NEW seqs
  PROVE  \E g : Joins(n, g, seqs)
<1> DEFINE S == {m \in Nat : \E g : Joins(m, g, seqs)}
<1>1. 0 \in S
  <2>1. Joins(0, [i \in 1..0 |-> 0], seqs)
    BY DEF Joins
  <2>2. QED BY <2>1
<1>2. ASSUME NEW m \in Nat, m \in S
      PROVE  m + 1 \in S
  <2>1. PICK g : Joins(m, g, seqs)
    BY <1>2
  <2> DEFINE last == IF m + 1 = 1 THEN seqs[m + 1] ELSE g[m] \o seqs[m + 1]
  <2> HIDE DEF last
  <2> DEFINE h == [i \in 1..(m + 1) |-> IF i = m + 1 THEN last ELSE g[i]]
  <2>2. h[m + 1] = last /\ \A i \in 1..m : h[i] = g[i]
    OBVIOUS
  <2>3. \A i \in 1..m : g[i] = IF i = 1 THEN seqs[i] ELSE g[i - 1] \o seqs[i]
    BY <2>1 DEF Joins
  <2>4. h = [i \in 1..(m + 1) |-> h[i]]
    OBVIOUS
  <2> HIDE DEF h
  <2> USE DEF last
  <2>5. \A i \in 1..(m + 1) : h[i] = IF i = 1 THEN seqs[i] ELSE h[i - 1] \o seqs[i]
    <3> TAKE i \in 1..(m + 1)
    <3>1. CASE i = m + 1
      <4>1. i # 1 => i - 1 \in 1..m /\ i - 1 = m
        BY <3>1
      <4>2. QED BY <2>2, <3>1, <4>1
    <3>2. CASE i # m + 1
      <4>1. i \in 1..m /\ (i # 1 => i - 1 \in 1..m)
        BY <3>2
      <4>2. QED BY <2>2, <2>3, <4>1
    <3>3. QED BY <3>1, <3>2
  <2>6. Joins(m + 1, h, seqs)
    BY <2>4, <2>5 DEF Joins
  <2>7. QED BY <2>6
<1>3. Nat \subseteq S
  <2> HIDE DEF S
  <2>1. QED BY <1>1, <1>2, SetInduction
<1>4. QED BY <1>3

(* FlattenSeq joins sequences: it has the members of all of them.          *)
LEMMA Flattened ==
  ASSUME NEW T, NEW seqs \in Seq(Seq(T))
  PROVE  /\ FlattenSeq(seqs) \in Seq(T)
         /\ Range(FlattenSeq(seqs)) = UNION {Range(seqs[i]) : i \in DOMAIN seqs}
         /\ seqs # <<>> /\ seqs[1] # <<>> =>
              FlattenSeq(seqs) # <<>> /\ FlattenSeq(seqs)[1] = seqs[1][1]
<1> DEFINE n == Len(seqs)
           g == CHOOSE f : Joins(n, f, seqs)
<1>1. n \in Nat /\ DOMAIN seqs = 1..n /\ \A i \in 1..n : seqs[i] \in Seq(T)
  OBVIOUS
<1>2. CASE n = 0
  <2>1. seqs = <<>> /\ FlattenSeq(seqs) = <<>>
    BY <1>2 DEF FlattenSeq
  <2>2. Range(<<>>) = {} /\ DOMAIN seqs = {}
    BY <2>1 DEF Range
  <2>3. <<>> \in Seq(T)
    OBVIOUS
  <2>4. UNION {Range(seqs[i]) : i \in DOMAIN seqs} = {}
    BY <2>2
  <2>5. QED BY <2>1, <2>2, <2>3, <2>4
<1>3. CASE n # 0
  <2>1. FlattenSeq(seqs) = g[n]
    BY <1>3 DEF FlattenSeq, Joins
  <2>2. Joins(n, g, seqs)
    BY <1>1, SomethingJoins
  <2> HIDE DEF g, n
  <2>3. \A i \in 1..n : g[i] = IF i = 1 THEN seqs[i] ELSE g[i - 1] \o seqs[i]
    BY <2>2 DEF Joins
  <2> DEFINE S == {k \in Nat : k + 1 <= n =>
                     /\ g[k + 1] \in Seq(T)
                     /\ Range(g[k + 1]) = UNION {Range(seqs[i]) : i \in 1..(k + 1)}
                     /\ seqs[1] # <<>> => g[k + 1] # <<>> /\ g[k + 1][1] = seqs[1][1]}
  <2>4. 0 \in S
    <3>1. 1 <= n => g[1] = seqs[1] /\ seqs[1] \in Seq(T)
      BY <1>1, <2>3
    <3>2. UNION {Range(seqs[i]) : i \in 1..1} = Range(seqs[1])
      <4>1. 1..1 = {1}
        OBVIOUS
      <4>2. QED BY <4>1
    <3>3. 0 + 1 = 1 /\ 0 \in Nat
      OBVIOUS
    <3>4. QED BY <3>1, <3>2, <3>3
  <2>5. ASSUME NEW k \in Nat, k \in S
        PROVE  k + 1 \in S
    <3> DEFINE j == k + 1
    <3> SUFFICES ASSUME j + 1 <= n
                 PROVE  /\ g[j + 1] \in Seq(T)
                        /\ Range(g[j + 1]) = UNION {Range(seqs[i]) : i \in 1..(j + 1)}
                        /\ seqs[1] # <<>> => g[j + 1] # <<>> /\ g[j + 1][1] = seqs[1][1]
      OBVIOUS
    <3>1. /\ g[j] \in Seq(T)
          /\ Range(g[j]) = UNION {Range(seqs[i]) : i \in 1..j}
          /\ seqs[1] # <<>> => g[j] # <<>> /\ g[j][1] = seqs[1][1]
      BY <1>1, <2>5
    <3>2. g[j + 1] = g[j] \o seqs[j + 1] /\ seqs[j + 1] \in Seq(T)
      <4>1. j \in Nat /\ j + 1 \in 1..n /\ j + 1 # 1
        BY <1>1
      <4> HIDE DEF j
      <4>2. PICK i \in 1..n : i = j + 1
        BY <4>1
      <4>3. i # 1 /\ i - 1 = j
        BY <4>1, <4>2
      <4>4. g[i] = g[i - 1] \o seqs[i] /\ seqs[i] \in Seq(T)
        BY <1>1, <2>3, <4>3
      <4>5. QED BY <4>2, <4>3, <4>4
    <3>3. Range(g[j] \o seqs[j + 1]) = Range(g[j]) \union Range(seqs[j + 1])
      <4> HIDE DEF j
      <4>1. QED BY <3>1, <3>2, RangeOfConcat
    <3>4. 1..(j + 1) = (1..j) \union {j + 1}
      OBVIOUS
    <3>5. UNION {Range(seqs[i]) : i \in 1..(j + 1)}
            = (UNION {Range(seqs[i]) : i \in 1..j}) \union Range(seqs[j + 1])
      BY <3>4
    <3>6. g[j] \o seqs[j + 1] \in Seq(T)
      BY <3>1, <3>2
    <3>7. g[j] # <<>> => g[j] \o seqs[j + 1] # <<>> /\ (g[j] \o seqs[j + 1])[1] = g[j][1]
      <4> HIDE DEF j
      <4>1. QED BY <3>1, <3>2, ConcatStarts
    <3>8. QED BY <3>1, <3>2, <3>3, <3>5, <3>6, <3>7
  <2>6. n - 1 \in S /\ n - 1 + 1 = n
    <3>1. n - 1 \in Nat
      BY <1>1, <1>3
    <3>2. n - 1 + 1 = n
      BY <1>1
    <3> HIDE DEF S
    <3>3. Nat \subseteq S
      BY <2>4, <2>5, SetInduction
    <3>4. QED BY <3>1, <3>2, <3>3
  <2>7. QED BY <1>1, <2>1, <2>6
<1>4. QED BY <1>2, <1>3

(* If no sequence is empty, the l-th member is of one of the first l.      *)
LEMMA FlattenedInOrder ==
  ASSUME NEW T, NEW seqs \in Seq(Seq(T)), \A i \in DOMAIN seqs : seqs[i] # <<>>,
         NEW l \in DOMAIN FlattenSeq(seqs)
  PROVE  \E i \in DOMAIN seqs : i <= l /\ FlattenSeq(seqs)[l] \in Range(seqs[i])
<1> DEFINE n == Len(seqs)
           g == CHOOSE f : Joins(n, f, seqs)
<1>1. n \in Nat /\ DOMAIN seqs = 1..n /\ \A i \in 1..n : seqs[i] \in Seq(T) /\ seqs[i] # <<>>
  OBVIOUS
<1>2. n # 0
  <2>1. n = 0 => DOMAIN FlattenSeq(seqs) = {}
    BY DEF FlattenSeq
  <2>2. QED BY <2>1
<1>3. FlattenSeq(seqs) = g[n]
  BY <1>2 DEF FlattenSeq, Joins
<1>4. Joins(n, g, seqs)
  BY <1>1, SomethingJoins
<1> HIDE DEF g, n
<1>5. \A i \in 1..n : g[i] = IF i = 1 THEN seqs[i] ELSE g[i - 1] \o seqs[i]
  BY <1>4 DEF Joins
<1> DEFINE Early(k) == \A x \in DOMAIN g[k] : \E i \in 1..k : i <= x /\ g[k][x] \in Range(seqs[i])
           S == {k \in Nat : k + 1 <= n => g[k + 1] \in Seq(T) /\ Len(g[k + 1]) >= k + 1 /\ Early(k + 1)}
<1>6. 0 \in S
  <2> SUFFICES ASSUME 1 <= n PROVE g[1] \in Seq(T) /\ Len(g[1]) >= 1 /\ Early(1)
    OBVIOUS
  <2>1. g[1] = seqs[1] /\ seqs[1] \in Seq(T) /\ seqs[1] # <<>>
    BY <1>1, <1>5
  <2>2. Len(g[1]) \in Nat /\ Len(g[1]) # 0 /\ DOMAIN g[1] = 1..Len(g[1])
    BY <2>1
  <2>3. \A x \in DOMAIN g[1] : 1 <= x /\ g[1][x] \in Range(seqs[1])
    BY <2>1, <2>2 DEF Range
  <2>4. QED BY <2>1, <2>2, <2>3
<1>7. ASSUME NEW k \in Nat, k \in S
      PROVE  k + 1 \in S
  <2> DEFINE j == k + 1
  <2>1. j \in Nat /\ j + 1 \in Nat /\ j >= 1
    OBVIOUS
  <2> SUFFICES ASSUME j + 1 <= n
               PROVE  g[j + 1] \in Seq(T) /\ Len(g[j + 1]) >= j + 1 /\ Early(j + 1)
    OBVIOUS
  <2>2. g[j] \in Seq(T) /\ Len(g[j]) >= j /\ Early(j)
    BY <1>1, <1>7
  <2> HIDE DEF j
  <2>3. g[j + 1] = g[j] \o seqs[j + 1] /\ seqs[j + 1] \in Seq(T) /\ seqs[j + 1] # <<>>
    <3>1. PICK i \in 1..n : i = j + 1
      BY <1>1, <2>1
    <3>2. i # 1 /\ i - 1 = j
      BY <2>1, <3>1
    <3>3. g[i] = g[i - 1] \o seqs[i] /\ seqs[i] \in Seq(T) /\ seqs[i] # <<>>
      BY <1>1, <1>5, <3>2
    <3>4. QED BY <3>1, <3>2, <3>3
  <2> DEFINE a == g[j]
             b == seqs[j + 1]
  <2>4. /\ Len(a) \in Nat /\ Len(b) \in Nat /\ Len(b) >= 1 /\ Len(a) >= j
        /\ DOMAIN a = 1..Len(a) /\ DOMAIN b = 1..Len(b)
        /\ a \o b \in Seq(T) /\ Len(a \o b) = Len(a) + Len(b)
        /\ DOMAIN (a \o b) = 1..(Len(a) + Len(b))
        /\ \A x \in 1..Len(a) : (a \o b)[x] = a[x]
        /\ \A x \in 1..Len(b) : (a \o b)[Len(a) + x] = b[x]
    <3>1. a \in Seq(T) /\ b \in Seq(T) /\ b # <<>> /\ Len(a) >= j
      BY <2>2, <2>3
    <3> HIDE DEF a, b
    <3>2. QED BY <3>1
  <2>5. ASSUME NEW x \in DOMAIN (a \o b)
        PROVE  \E i \in 1..(j + 1) : i <= x /\ (a \o b)[x] \in Range(seqs[i])
    <3>1. CASE x \in DOMAIN a
      <4>1. PICK i \in 1..j : i <= x /\ a[x] \in Range(seqs[i])
        BY <2>2, <3>1
      <4>2. i \in 1..(j + 1) /\ (a \o b)[x] = a[x]
        BY <2>1, <2>4, <3>1
      <4>3. QED BY <4>1, <4>2
    <3>2. CASE x \notin DOMAIN a
      <4> HIDE DEF a, b
      <4>1. x - Len(a) \in 1..Len(b) /\ x = Len(a) + (x - Len(a)) /\ j + 1 <= x
        <5>1. x \in 1..(Len(a) + Len(b)) /\ x \notin 1..Len(a)
          BY <2>4, <3>2
        <5>2. \A p \in Nat, q \in Nat :
                p >= j /\ x \in 1..(p + q) /\ x \notin 1..p =>
                  x - p \in 1..q /\ x = p + (x - p) /\ j + 1 <= x
          BY <2>1
        <5>3. QED BY <2>4, <5>1, <5>2
      <4>2. (a \o b)[x] = b[x - Len(a)]
        BY <2>4, <4>1
      <4>3. (a \o b)[x] \in Range(b)
        BY <2>4, <4>1, <4>2 DEF Range
      <4>4. j + 1 \in 1..(j + 1)
        BY <2>1
      <4>5. QED BY <4>1, <4>3, <4>4 DEF b
    <3>3. QED BY <3>1, <3>2
  <2>6. Len(a \o b) >= j + 1
    <3>1. \A p \in Nat, q \in Nat : p >= j /\ q >= 1 => p + q >= j + 1
      BY <2>1
    <3> HIDE DEF a, b
    <3>2. QED BY <2>4, <3>1
  <2>7. QED BY <2>3, <2>4, <2>5, <2>6
<1>8. n - 1 \in S /\ n - 1 + 1 = n
  <2>1. n - 1 \in Nat /\ n - 1 + 1 = n
    BY <1>1, <1>2
  <2> HIDE DEF S
  <2>2. Nat \subseteq S
    BY <1>6, <1>7, SetInduction
  <2>3. QED BY <2>1, <2>2
<1>9. Early(n)
  <2>1. n - 1 + 1 <= n => Early(n - 1 + 1)
    <3> HIDE DEF Early
    <3>1. QED BY <1>8
  <2> HIDE DEF Early
  <2>2. QED BY <1>1, <1>8, <2>1
<1>10. QED BY <1>1, <1>3, <1>9

(* g gathers the members that a set of numbers up to n names, each once.   *)
Grow(seen, e) == IF Contains(seen, e) THEN seen ELSE Append(seen, e)
Gathers(n, g, list) ==
  g = [s \in SUBSET (1..n) |-> IF s = {} THEN <<>> ELSE Grow(g[s \ {Max(s)}], list[Max(s)])]

LEMMA GathersNext ==
  ASSUME NEW n \in Nat, NEW list, NEW g, Gathers(n, g, list)
  PROVE  \E h : Gathers(n + 1, h, list)
<1> DEFINE h == [s \in SUBSET (1..(n + 1)) |->
                   IF n + 1 \in s THEN Grow(g[s \ {n + 1}], list[n + 1]) ELSE g[s]]
<1>1. ASSUME NEW s \in SUBSET (1..(n + 1))
      PROVE  h[s] = IF s = {} THEN <<>> ELSE Grow(h[s \ {Max(s)}], list[Max(s)])
  <2>1. CASE s = {}
    <3>1. h[s] = g[s] /\ s \in SUBSET (1..n)
      BY <2>1
    <3> HIDE DEF h
    <3>2. QED BY <2>1, <3>1 DEF Gathers
  <2>2. CASE n + 1 \in s
    <3>1. Max(s) = n + 1
      BY <2>2, GreatestIs
    <3>2. s \ {n + 1} \in SUBSET (1..(n + 1)) /\ n + 1 \notin s \ {n + 1}
      OBVIOUS
    <3>3. h[s \ {n + 1}] = g[s \ {n + 1}]
      BY <3>2
    <3>4. h[s] = Grow(g[s \ {n + 1}], list[n + 1])
      BY <2>2
    <3> HIDE DEF h
    <3>5. QED BY <2>2, <3>1, <3>3, <3>4
  <2>3. CASE s # {} /\ n + 1 \notin s
    <3> DEFINE top == Max(s)
    <3>1. s \in SUBSET (1..n)
      BY <2>3
    <3>2. /\ s \ {top} \in SUBSET (1..(n + 1)) /\ s \ {top} \in SUBSET (1..n)
          /\ n + 1 \notin s \ {top}
      BY <2>3, <3>1
    <3>3. h[s] = g[s] /\ h[s \ {top}] = g[s \ {top}]
      BY <2>3, <3>2
    <3>4. g[s] = Grow(g[s \ {top}], list[top])
      BY <2>3, <3>1 DEF Gathers
    <3> HIDE DEF h
    <3>5. QED BY <2>3, <3>3, <3>4
  <2>4. QED BY <2>1, <2>2, <2>3
<1>2. Gathers(n + 1, h, list)
  <2>1. h = [s \in SUBSET (1..(n + 1)) |-> h[s]]
    OBVIOUS
  <2> HIDE DEF h
  <2>2. QED BY <1>1, <2>1 DEF Gathers
<1>3. QED BY <1>2

LEMMA SomethingGathers ==
  ASSUME NEW n \in Nat, NEW list
  PROVE  \E g : Gathers(n, g, list)
<1> DEFINE S == {m \in Nat : \E g : Gathers(m, g, list)}
<1>1. 0 \in S
  <2>1. Gathers(0, [s \in SUBSET (1..0) |-> <<>>], list)
    BY DEF Gathers
  <2>2. QED BY <2>1
<1>2. \A m \in Nat : m \in S => m + 1 \in S
  BY GathersNext
<1>3. Nat \subseteq S
  <2> HIDE DEF S
  <2>1. QED BY <1>1, <1>2, SetInduction
<1>4. QED BY <1>3

LEMMA AppendIs ==
  ASSUME NEW T, NEW s \in Seq(T), NEW e \in T
  PROVE  /\ Append(s, e) \in Seq(T) /\ Range(Append(s, e)) = Range(s) \union {e}
         /\ IsInjective(s) /\ e \notin Range(s) => IsInjective(Append(s, e))
<1> DEFINE a == Append(s, e)
<1>1. /\ a \in Seq(T) /\ Len(s) \in Nat /\ DOMAIN s = 1..Len(s) /\ DOMAIN a = 1..(Len(s) + 1)
      /\ \A i \in 1..Len(s) : a[i] = s[i]
      /\ a[Len(s) + 1] = e
  OBVIOUS
<1> HIDE DEF a
<1>2. \A i \in DOMAIN a : i \in DOMAIN s \/ i = Len(s) + 1
  BY <1>1
<1>3. Len(s) + 1 \in DOMAIN a /\ \A i \in DOMAIN s : i \in DOMAIN a
  BY <1>1
<1>4. Range(a) = Range(s) \union {e}
  BY <1>1, <1>2, <1>3 DEF Range
<1>5. ASSUME IsInjective(s), e \notin Range(s)
      PROVE  IsInjective(a)
  <2>1. \A i \in DOMAIN s : s[i] # e
    BY <1>5 DEF Range
  <2>2. \A i \in DOMAIN s, j \in DOMAIN s : s[i] = s[j] => i = j
    BY <1>5 DEF IsInjective
  <2>3. QED BY <1>1, <1>2, <2>1, <2>2 DEF IsInjective
<1>6. QED BY <1>1, <1>4, <1>5 DEF a

LEMMA GrowsBy ==
  ASSUME NEW T, NEW seen \in Seq(T), NEW e \in T
  PROVE  /\ Grow(seen, e) \in Seq(T)
         /\ Range(Grow(seen, e)) = Range(seen) \union {e}
         /\ seen # <<>> => Grow(seen, e) # <<>> /\ Grow(seen, e)[1] = seen[1]
         /\ seen = <<>> => Grow(seen, e) = <<e>>
         /\ IsInjective(seen) => IsInjective(Grow(seen, e))
<1>1. CASE Contains(seen, e)
  BY <1>1 DEF Grow, Contains, Range
<1>2. CASE ~ Contains(seen, e)
  <2>1. Grow(seen, e) = Append(seen, e) /\ Append(seen, e) = seen \o <<e>>
    BY <1>2 DEF Grow
  <2>2. Range(seen \o <<e>>) = Range(seen) \union Range(<<e>>)
    <3>1. <<e>> \in Seq(T)
      OBVIOUS
    <3>2. QED BY <3>1, RangeOfConcat
  <2>3. Range(<<e>>) = {e}
    BY DEF Range
  <2>4. seen # <<>> => Append(seen, e) # <<>> /\ Append(seen, e)[1] = seen[1]
    OBVIOUS
  <2>5. Append(seen, e) \in Seq(T)
    OBVIOUS
  <2>6. seen = <<>> => Append(seen, e) = <<e>>
    <3>1. Append(<<>>, e) = <<e>>
      OBVIOUS
    <3>2. QED BY <3>1
  <2>7. IsInjective(seen) => IsInjective(Append(seen, e))
    <3>1. e \notin Range(seen)
      BY <1>2 DEF Contains, Range
    <3>2. QED BY <3>1, AppendIs
  <2>8. QED BY <2>1, <2>2, <2>3, <2>4, <2>5, <2>6, <2>7
<1>3. QED BY <1>1, <1>2

(* FirstSeen lists the members of a list, the first first.                 *)
LEMMA FirstSeenIs ==
  ASSUME NEW T, NEW list \in Seq(T)
  PROVE  /\ FirstSeen(list) \in Seq(T)
         /\ Range(FirstSeen(list)) = Range(list)
         /\ IsInjective(FirstSeen(list))
         /\ list # <<>> => FirstSeen(list) # <<>> /\ FirstSeen(list)[1] = list[1]
<1> DEFINE n == Len(list)
           all == CHOOSE g : Gathers(n, g, list)
<1>1. n \in Nat /\ DOMAIN list = 1..n /\ \A i \in 1..n : list[i] \in T
  OBVIOUS
<1>2. FirstSeen(list) = all[1..n]
  <2>1. FirstSeen(list) = (CHOOSE iter : iter = [s \in SUBSET DOMAIN list |->
          IF s = {} THEN <<>> ELSE Grow(iter[s \ {Max(s)}], list[Max(s)])])[DOMAIN list]
    BY DEF FirstSeen, FoldLeft, MapThenFoldSet, Grow
  <2>2. QED BY <1>1, <2>1 DEF Gathers
<1>3. Gathers(n, all, list)
  BY <1>1, SomethingGathers
<1> HIDE DEF all, n
<1> DEFINE Is(k) == /\ all[1..k] \in Seq(T)
                    /\ Range(all[1..k]) = {list[i] : i \in 1..k}
                    /\ IsInjective(all[1..k])
                    /\ k > 0 => all[1..k] # <<>> /\ all[1..k][1] = list[1]
           S == {k \in Nat : k <= n => Is(k)}
<1>4. 0 \in S
  <2>1. all[1..0] = <<>>
    BY <1>1, <1>3 DEF Gathers
  <2>2. Range(<<>>) = {} /\ {list[i] : i \in 1..0} = {}
    BY DEF Range
  <2>3. <<>> \in Seq(T) /\ IsInjective(<<>>)
    BY DEF IsInjective
  <2>4. Is(0)
    BY <2>1, <2>2, <2>3
  <2>5. QED BY <2>4
<1>5. ASSUME NEW k \in Nat, k \in S
      PROVE  k + 1 \in S
  <2> SUFFICES ASSUME k + 1 <= n PROVE Is(k + 1)
    OBVIOUS
  <2>1. Is(k)
    BY <1>1, <1>5
  <2> DEFINE s == 1..(k + 1)
  <2>2. s \in SUBSET (1..n) /\ s # {} /\ s \in SUBSET (1..(k + 1)) /\ k + 1 \in s
    <3>1. \A i \in s : i \in 1..n
      BY <1>1
    <3>2. s \in SUBSET (1..n)
      BY <3>1
    <3>3. k + 1 \in s
      OBVIOUS
    <3>4. QED BY <3>2, <3>3
  <2>3. Max(s) = k + 1
    BY <2>2, GreatestIs
  <2>4. s \ {k + 1} = 1..k /\ s = (1..k) \union {k + 1}
    OBVIOUS
  <2>5. all[s] = Grow(all[1..k], list[k + 1])
    <3> HIDE DEF s
    <3>1. all[s] = Grow(all[s \ {Max(s)}], list[Max(s)])
      BY <1>3, <2>2 DEF Gathers
    <3>2. QED BY <2>3, <2>4, <3>1
  <2>6. list[k + 1] \in T
    BY <1>1, <2>2
  <2>7. /\ all[s] \in Seq(T)
        /\ Range(all[s]) = Range(all[1..k]) \union {list[k + 1]}
        /\ all[1..k] # <<>> => all[s] # <<>> /\ all[s][1] = all[1..k][1]
        /\ all[1..k] = <<>> => all[s] = <<list[k + 1]>>
        /\ IsInjective(all[1..k]) => IsInjective(all[s])
    <3> DEFINE seen == all[1..k]
               e == list[k + 1]
    <3>1. seen \in Seq(T) /\ e \in T /\ all[s] = Grow(seen, e)
      BY <2>1, <2>5, <2>6
    <3> HIDE DEF s, seen, e
    <3>2. /\ all[s] \in Seq(T)
          /\ Range(all[s]) = Range(seen) \union {e}
          /\ seen # <<>> => all[s] # <<>> /\ all[s][1] = seen[1]
          /\ seen = <<>> => all[s] = <<e>>
          /\ IsInjective(seen) => IsInjective(all[s])
      BY <3>1, GrowsBy
    <3>3. QED BY <3>2 DEF seen, e
  <2>8. {list[i] : i \in s} = {list[i] : i \in 1..k} \union {list[k + 1]}
    BY <2>4
  <2>9. all[s] # <<>> /\ all[s][1] = list[1]
    <3> HIDE DEF s
    <3>1. CASE k = 0
      <4>1. all[1..0] = <<>>
        BY <1>1, <1>3 DEF Gathers
      <4>2. QED BY <2>7, <3>1, <4>1
    <3>2. CASE k > 0
      BY <2>1, <2>7, <3>2
    <3>3. QED BY <3>1, <3>2
  <2>10. QED BY <2>1, <2>7, <2>8, <2>9
<1>6. Is(n)
  <2>1. Nat \subseteq S
    <3> HIDE DEF S
    <3>1. QED BY <1>4, <1>5, SetInduction
  <2> HIDE DEF Is
  <2>2. QED BY <1>1, <2>1
<1>7. Range(list) = {list[i] : i \in 1..n}
  BY <1>1 DEF Range
<1>8. list # <<>> => n > 0
  BY DEF n
<1>9. QED BY <1>2, <1>6, <1>7, <1>8

-----------------------------------------------------------------------------
(* The chaincodes' answers list hosts of the ledger.                       *)
Node == {"e", "i", "app", "url"} \X Nat

LEMMA SeenIs ==
  ASSUME NEW L \in Ledgers, NEW d \in DOMAIN L
  PROVE  Seen(L, d) \subseteq Node \X Node /\ IsFiniteSet(Seen(L, d))
<1>1. CASE L[d] = NoData
  BY <1>1, FS_EmptySet DEF Seen
<1>2. CASE L[d] # NoData
  <2>1. L[d] \subseteq Nat \X Nat /\ IsFiniteSet(L[d])
    BY <1>2, PagesAssumption
  <2>2. \A i \in Nat : Outer(i) \in Node /\ Inner(i) \in Node
    BY DEF Outer, Inner, Ext, Inside, App, Url, Node
  <2> DEFINE f == [p \in L[d] |-> <<Outer(p[1]), Inner(p[2])>>]
  <2>3. Seen(L, d) = {f[p] : p \in L[d]}
    BY <1>2 DEF Seen
  <2>4. IsFiniteSet({f[p] : p \in L[d]})
    <3> HIDE DEF f
    <3>1. QED BY <2>1, FiniteImage
  <2>5. Seen(L, d) \subseteq Node \X Node
    BY <2>1, <2>2, <1>2 DEF Seen
  <2>6. QED BY <2>3, <2>4, <2>5
<1>3. QED BY <1>1, <1>2

LEMMA DaysAre ==
  ASSUME NEW L \in Ledgers
  PROVE  /\ Len(L) \in Nat /\ DOMAIN L = 1..Len(L)
         /\ Visits(L) \subseteq Node \X Node /\ IsFiniteSet(Visits(L))
<1>1. Len(L) \in Nat /\ DOMAIN L = 1..Len(L)
  BY PagesAssumption
<1> DEFINE f == [d \in DOMAIN L |-> Seen(L, d)]
           S == {f[d] : d \in DOMAIN L}
<1>2. IsFiniteSet(DOMAIN L)
  BY <1>1, FS_Interval
<1>3. IsFiniteSet(S)
  <2> HIDE DEF f
  <2>1. QED BY <1>2, FiniteImage
<1>4. \A T \in S : IsFiniteSet(T) /\ T \subseteq Node \X Node
  BY SeenIs
<1>5. Visits(L) = UNION S
  BY DEF Visits
<1> HIDE DEF S
<1>6. IsFiniteSet(UNION S) /\ UNION S \subseteq Node \X Node
  BY <1>3, <1>4, FS_UNION
<1>7. QED BY <1>1, <1>5, <1>6

(* Who was attacked by a, and who attacked v, on any day.                  *)
AttackedBy(L, a) == {p[2] : p \in {q \in Visits(L) : q[1] = a}}
AttackersOf(L, v) == {p[1] : p \in {q \in Visits(L) : q[2] = v}}

(* Lists of a set per day, joined, have the members of all.                *)
LEMMA DailyLists ==
  ASSUME NEW L \in Ledgers, NEW f, DOMAIN f = DOMAIN L,
         \A d \in DOMAIN L : f[d] \subseteq Node /\ IsFiniteSet(f[d])
  PROVE  /\ FlattenSeq([d \in DOMAIN L |-> SetToSeq(f[d])]) \in Seq(Node)
         /\ Range(FlattenSeq([d \in DOMAIN L |-> SetToSeq(f[d])])) = UNION {f[d] : d \in DOMAIN L}
<1> DEFINE lists == [d \in DOMAIN L |-> SetToSeq(f[d])]
<1>1. \A d \in DOMAIN L : lists[d] \in Seq(Node) /\ Range(lists[d]) = f[d]
  <2> TAKE d \in DOMAIN L
  <2>1. lists[d] = SetToSeq(f[d])
    OBVIOUS
  <2>2. SetToSeq(f[d]) \in Seq(f[d]) /\ ToSet(SetToSeq(f[d])) = f[d]
    BY ListsAll
  <2> HIDE DEF lists
  <2>3. QED BY <2>1, <2>2 DEF ToSet, Range
<1>2. lists \in Seq(Seq(Node)) /\ DOMAIN lists = DOMAIN L
  BY <1>1, DaysAre
<1> HIDE DEF lists
<1>3. FlattenSeq(lists) \in Seq(Node)
  BY <1>2, Flattened
<1>4. Range(FlattenSeq(lists)) = UNION {Range(lists[d]) : d \in DOMAIN L}
  BY <1>2, Flattened
<1>5. {Range(lists[d]) : d \in DOMAIN L} = {f[d] : d \in DOMAIN L}
  BY <1>1
<1>6. QED BY <1>3, <1>4, <1>5 DEF lists

LEMMA VictimsAre ==
  ASSUME NEW L \in Ledgers, NEW a
  PROVE  /\ honeypotsIdentifyVictims(L, a) \in Seq(Node)
         /\ Range(honeypotsIdentifyVictims(L, a)) = AttackedBy(L, a)
<1> DEFINE f == [d \in DOMAIN L |-> {p[2] : p \in {q \in Seen(L, d) : q[1] = a}}]
<1>1. \A d \in DOMAIN L : f[d] \subseteq Node /\ IsFiniteSet(f[d])
  <2> TAKE d \in DOMAIN L
  <2> DEFINE S == {q \in Seen(L, d) : q[1] = a}
  <2>1. S \subseteq Seen(L, d) /\ Seen(L, d) \subseteq Node \X Node /\ IsFiniteSet(Seen(L, d))
    BY SeenIs
  <2>2. IsFiniteSet(S)
    BY <2>1, FS_Subset
  <2>3. IsFiniteSet({p[2] : p \in S})
    <3> HIDE DEF S
    <3>1. QED BY <2>2, FiniteProjections
  <2>4. {p[2] : p \in S} \subseteq Node
    BY <2>1
  <2>5. QED BY <2>3, <2>4
<1>2. honeypotsIdentifyVictims(L, a) = FlattenSeq([d \in DOMAIN L |-> SetToSeq(f[d])])
  BY DEF honeypotsIdentifyVictims
<1>3. UNION {f[d] : d \in DOMAIN L} = AttackedBy(L, a)
  BY DEF AttackedBy, Visits
<1>4. DOMAIN f = DOMAIN L
  OBVIOUS
<1> HIDE DEF f
<1>5. /\ FlattenSeq([d \in DOMAIN L |-> SetToSeq(f[d])]) \in Seq(Node)
      /\ Range(FlattenSeq([d \in DOMAIN L |-> SetToSeq(f[d])])) = UNION {f[d] : d \in DOMAIN L}
  BY <1>1, <1>4, DailyLists
<1>6. QED BY <1>2, <1>3, <1>5

LEMMA AttackersAre ==
  ASSUME NEW L \in Ledgers, NEW v
  PROVE  /\ honeypotsIdentifyAttackers(L, v) \in Seq(Node)
         /\ Range(honeypotsIdentifyAttackers(L, v)) = AttackersOf(L, v)
<1> DEFINE f == [d \in DOMAIN L |-> {p[1] : p \in {q \in Seen(L, d) : q[2] = v}}]
<1>1. \A d \in DOMAIN L : f[d] \subseteq Node /\ IsFiniteSet(f[d])
  <2> TAKE d \in DOMAIN L
  <2> DEFINE S == {q \in Seen(L, d) : q[2] = v}
  <2>1. S \subseteq Seen(L, d) /\ Seen(L, d) \subseteq Node \X Node /\ IsFiniteSet(Seen(L, d))
    BY SeenIs
  <2>2. IsFiniteSet(S)
    BY <2>1, FS_Subset
  <2>3. IsFiniteSet({p[1] : p \in S})
    <3> HIDE DEF S
    <3>1. QED BY <2>2, FiniteProjections
  <2>4. {p[1] : p \in S} \subseteq Node
    BY <2>1
  <2>5. QED BY <2>3, <2>4
<1>2. honeypotsIdentifyAttackers(L, v) = FlattenSeq([d \in DOMAIN L |-> SetToSeq(f[d])])
  BY DEF honeypotsIdentifyAttackers
<1>3. UNION {f[d] : d \in DOMAIN L} = AttackersOf(L, v)
  BY DEF AttackersOf, Visits
<1>4. DOMAIN f = DOMAIN L
  OBVIOUS
<1> HIDE DEF f
<1>5. /\ FlattenSeq([d \in DOMAIN L |-> SetToSeq(f[d])]) \in Seq(Node)
      /\ Range(FlattenSeq([d \in DOMAIN L |-> SetToSeq(f[d])])) = UNION {f[d] : d \in DOMAIN L}
  BY <1>1, <1>4, DailyLists
<1>6. QED BY <1>2, <1>3, <1>5

(* A list made of a part of what was seen.                                 *)
LEMMA PartListed ==
  ASSUME NEW L \in Ledgers, NEW S, S \subseteq Visits(L)
  PROVE  /\ SetToSeq({p[1] : p \in S}) \in Seq(Node)
         /\ Range(SetToSeq({p[1] : p \in S})) = {p[1] : p \in S}
         /\ {p[2] : p \in S} \subseteq Node /\ IsFiniteSet({p[2] : p \in S})
<1>1. IsFiniteSet(S) /\ S \subseteq Node \X Node
  BY DaysAre, FS_Subset
<1>2. IsFiniteSet({p[1] : p \in S}) /\ IsFiniteSet({p[2] : p \in S})
  BY <1>1, FiniteProjections
<1>3. {p[1] : p \in S} \subseteq Node /\ {p[2] : p \in S} \subseteq Node
  BY <1>1
<1> DEFINE T == {p[1] : p \in S}
<1> HIDE DEF T
<1>4. SetToSeq(T) \in Seq(T) /\ ToSet(SetToSeq(T)) = T /\ T \subseteq Node
  BY <1>2, <1>3, ListsAll DEF T
<1>5. SetToSeq(T) \in Seq(Node) /\ Range(SetToSeq(T)) = T
  BY <1>4 DEF ToSet, Range
<1>6. QED BY <1>2, <1>3, <1>5 DEF T

LEMMA VisitorsAre ==
  ASSUME NEW L \in Ledgers, NEW u
  PROVE  /\ urlIdentifyVictimApps(L, u) \in Seq(Node)
         /\ Range(urlIdentifyVictimApps(L, u)) = AttackersOf(L, u)
<1> DEFINE S == {q \in Visits(L) : q[2] = u}
<1>1. S \subseteq Visits(L)
  OBVIOUS
<1> HIDE DEF S
<1>2. QED BY <1>1, PartListed DEF urlIdentifyVictimApps, AttackersOf, S

LEMMA SuspiciousAre ==
  ASSUME NEW L \in Ledgers, NEW app
  PROVE  LET apps == urlIdentifySuspiciousApps(L, app) IN
           /\ apps \in [AttackedBy(L, app) -> Seq(Node)]
           /\ \A u \in AttackedBy(L, app) : apps[u] # <<>>
           /\ AttackedBy(L, app) \subseteq Node /\ IsFiniteSet(AttackedBy(L, app))
<1> DEFINE S == {q \in Visits(L) : q[1] = app}
           On(u) == UNION {{q \in Seen(L, d) : q[2] = u} :
                             d \in {e \in DOMAIN L : <<app, u>> \in Seen(L, e)}}
<1>1. S \subseteq Visits(L) /\ \A u : On(u) \subseteq Visits(L)
  BY DEF Visits
<1>2. ASSUME NEW u \in AttackedBy(L, app) PROVE app \in {p[1] : p \in On(u)}
  <2>1. PICK q \in S : u = q[2] /\ q[1] = app
    BY DEF AttackedBy
  <2>2. PICK e \in DOMAIN L : q \in Seen(L, e)
    BY DEF Visits
  <2>3. q = <<app, u>>
    <3>1. q \in Node \X Node
      BY <2>2, SeenIs
    <3>2. QED BY <2>1, <3>1
  <2>4. q \in On(u)
    BY <2>1, <2>2, <2>3
  <2>5. QED BY <2>1, <2>4
<1> HIDE DEF S, On
<1>3. AttackedBy(L, app) = {p[2] : p \in S}
  BY DEF AttackedBy, S
<1>4. AttackedBy(L, app) \subseteq Node /\ IsFiniteSet(AttackedBy(L, app))
  BY <1>1, <1>3, PartListed
<1>5. \A u : /\ SetToSeq({p[1] : p \in On(u)}) \in Seq(Node)
              /\ Range(SetToSeq({p[1] : p \in On(u)})) = {p[1] : p \in On(u)}
  BY <1>1, PartListed
<1>6. urlIdentifySuspiciousApps(L, app)
        = [u \in AttackedBy(L, app) |-> SetToSeq({p[1] : p \in On(u)})]
  BY DEF urlIdentifySuspiciousApps, AttackedBy, On
<1>7. ASSUME NEW u \in AttackedBy(L, app) PROVE SetToSeq({p[1] : p \in On(u)}) # <<>>
  <2>1. Range(<<>>) = {}
    BY DEF Range
  <2>2. QED BY <1>5, <1>2, <2>1
<1>8. QED BY <1>4, <1>5, <1>6, <1>7

LEMMA SpoofedAre ==
  ASSUME NEW L \in Ledgers
  PROVE  LET urls == {Url(i) : i \in Spoofed} IN
           /\ urlSpoofedApps(L) \in [urls -> Seq(Node)]
           /\ urls \subseteq Node /\ IsFiniteSet(urls)
<1> DEFINE f == [i \in Spoofed |-> Url(i)]
<1>1. {Url(i) : i \in Spoofed} = {f[i] : i \in Spoofed}
  OBVIOUS
<1>2. IsFiniteSet({f[i] : i \in Spoofed})
  <2> HIDE DEF f
  <2>1. QED BY PagesAssumption, FiniteImage
<1>3. {Url(i) : i \in Spoofed} \subseteq Node
  BY PagesAssumption DEF Url, Node
<1>4. \A u : urlIdentifyVictimApps(L, u) \in Seq(Node)
  BY VisitorsAre
<1>5. QED BY <1>1, <1>2, <1>3, <1>4 DEF urlSpoofedApps

-----------------------------------------------------------------------------
(* Page Q3 of honeypots throws only after an import: every attacker that   *)
(* its first request lists attacked the queried host.                      *)
Pages == HoneypotsPages \union GtmwPages \union NidsPages
Phases == {"round", "A2", "A1", "search", "drawn", "threw", "hung"}

(* What page Q3 has been answered so far.                                  *)
Answers == phase = "A1" /\ moves = 0 =>
             /\ attackers = honeypotsIdentifyAttackers(ledger, queried)
             /\ \A k \in 1..Len(victims) :
                  victims[k] = honeypotsIdentifyVictims(ledger, attackers[k])

CallInv == /\ page \in Pages
           /\ ledger \in Ledgers /\ moves \in Nat
           /\ phase \in Phases
           /\ attackers \in Seq(Node) /\ victims \in Seq(Seq(Node))
           /\ phase \in {"A2", "A1"} => page = "honeypotsQ3"
           /\ phase = "round" => page # "honeypotsQ3" /\ table = {}
           /\ phase = "A2" => victims = <<>>
           /\ phase = "A1" => Len(victims) < Len(attackers)
           /\ Answers
           /\ ThrowsOnlyIfMoved

LEMMA CallInvInit == Init => CallInv
BY PagesAssumption DEF Init, CallInv, Pages, Phases, Answers, ThrowsOnlyIfMoved, HoneypotsPages, GtmwPages, NidsPages

(* The hosts of the graph are those of the page, which stays the same.     *)
LEMMA SameAnswers ==
  ASSUME page' = page, NEW L, NEW a
  PROVE  /\ honeypotsIdentifyVictims(L, a)' = honeypotsIdentifyVictims(L, a)
         /\ honeypotsIdentifyAttackers(L, a)' = honeypotsIdentifyAttackers(L, a)
BY DEF honeypotsIdentifyVictims, honeypotsIdentifyAttackers, Seen, Outer, Inner

(* Nothing of this is about what a page shows.                             *)
LEMMA CallInvSame ==
  ASSUME CallInv, UNCHANGED <<page, queried, ledger, moves, phase, table, attackers, victims, honest>>
  PROVE  CallInv'
BY SameAnswers DEF CallInv, Answers, ThrowsOnlyIfMoved

LEMMA CallInvRests ==
  ASSUME CallInv, UNCHANGED <<page, ledger, moves, attackers, victims>>,
         phase' \in {"drawn", "search", "hung"}
  PROVE  CallInv'
BY DEF CallInv, Answers, ThrowsOnlyIfMoved, Phases

LEMMA CallInvThrows ==
  ASSUME CallInv, UNCHANGED <<query, ledger, moves, asked>>, phase' = "threw",
         page = "honeypotsQ3" => moves > 0,
         page = "gtmwQ1" /\ honest => table' = {}
  PROVE  CallInv'
BY DEF CallInv, Answers, ThrowsOnlyIfMoved, Phases, query, asked

LEMMA CallInvDecide ==
  ASSUME CallInv, Decide
  PROVE  CallInv'
<1> USE DEF query, asked, animation, canvas, search
<1>1. CASE AcceptHoneypotsQ1 \/ AcceptHoneypotsQ2 \/ RejectHoneypots \/ AcceptGtmwQ2 \/ RejectGtmw
           \/ RejectNids
  <2>1. UNCHANGED <<page, ledger, moves, attackers, victims>> /\ phase' = "drawn"
    BY <1>1 DEF AcceptHoneypotsQ1, AcceptHoneypotsQ2, RejectHoneypots, AcceptGtmwQ2, RejectGtmw,
                RejectNids, Accepted, Rejected, Draw
  <2>2. QED BY <2>1, CallInvRests
<1>2. CASE AcceptNidsQ1 \/ AcceptNidsQ2 \/ AcceptNidsQ3
  <2>1. UNCHANGED <<page, ledger, moves, attackers, victims>> /\ phase' \in {"drawn", "search"}
    BY <1>2 DEF AcceptNidsQ1, AcceptNidsQ2, AcceptNidsQ3, NidsAccepted, NoAnimation, StartSearch, Draw
  <2>2. QED BY <2>1, CallInvRests
<1>3. CASE AcceptGtmwQ1
  <2>1. CASE phase' = "drawn"
    <3>1. UNCHANGED <<page, ledger, moves, attackers, victims>>
      BY <1>3, <2>1 DEF AcceptGtmwQ1, Accepted, Draw, Throw
    <3>2. QED BY <2>1, <3>1, CallInvRests
  <2>2. CASE phase' # "drawn"
    <3>1. UNCHANGED <<query, ledger, moves, asked>> /\ phase' = "threw" /\ page = "gtmwQ1" /\ ~ honest
      BY <1>3, <2>2 DEF AcceptGtmwQ1, Accepted, Draw, Throw
    <3>2. QED BY <3>1, CallInvThrows
  <2>3. QED BY <2>1, <2>2
<1>4. CASE AcceptGtmwQ3
  <2>1. /\ page = "gtmwQ3" /\ UNCHANGED <<query, ledger, moves, asked>>
        /\ phase' \in {"drawn", "threw"}
    BY <1>4 DEF AcceptGtmwQ3, Accepted, Draw, Throw
  <2>2. CASE phase' = "drawn"
    BY <2>1, <2>2, CallInvRests
  <2>3. CASE phase' = "threw"
    BY <2>1, <2>3, CallInvThrows
  <2>4. QED BY <2>1, <2>2, <2>3
<1>5. CASE AcceptRefusal
  <2>1. UNCHANGED <<query, ledger, moves, asked, table>> /\ phase = "round" /\ phase' = "threw"
    BY <1>5 DEF AcceptRefusal, Throw
  <2>2. page # "honeypotsQ3" /\ table = {}
    BY <2>1 DEF CallInv
  <2>3. QED BY <2>1, <2>2, CallInvThrows
<1>6. CASE getQ3FinalResult
  <2>1. page = "honeypotsQ3" /\ UNCHANGED <<query, ledger, moves, phase, asked>>
    BY <1>6 DEF getQ3FinalResult
  <2>2. QED BY <2>1, SameAnswers DEF CallInv, Answers, ThrowsOnlyIfMoved
<1>7. QED BY <1>1, <1>2, <1>3, <1>4, <1>5, <1>6 DEF Decide

(* What the last answers for the attackers are.                            *)
LEMMA LastAnswersAre ==
  ASSUME NEW answers, attackers \in Seq(Node), NEW a \in Range(attackers)
  PROVE  \E k \in 1..Len(attackers) :
           attackers[k] = a /\ LastAnswers(answers)[a] = answers[k]
<1> DEFINE I == {i \in 1..Len(attackers) : attackers[i] = a}
<1>1. I \in SUBSET (1..Len(attackers)) /\ I # {} /\ Len(attackers) \in Nat
  BY DEF Range
<1>2. Max(I) \in I
  <2> HIDE DEF I
  <2>1. QED BY <1>1, Greatest
<1>3. SelectLastInSeq(attackers, LAMBDA b : b = a) = Max(I)
  BY <1>1 DEF SelectLastInSeq
<1>4. LastAnswers(answers)[a] = answers[Max(I)]
  BY <1>3 DEF LastAnswers
<1>5. QED BY <1>2, <1>4

(* Without an import the last answers list the victims of each attacker.   *)
AllAnswered(answers) ==
  /\ attackers = honeypotsIdentifyAttackers(ledger, queried)
  /\ \A k \in 1..Len(attackers) : answers[k] = honeypotsIdentifyVictims(ledger, attackers[k])

LEMMA VictimsAnswered ==
  ASSUME attackers \in Seq(Node), ledger \in Ledgers, NEW answers, AllAnswered(answers)
  PROVE  /\ \A a \in Range(attackers) :
              LastAnswers(answers)[a] = honeypotsIdentifyVictims(ledger, a)
         /\ <<>> \notin Range(LastAnswers(answers))
<1>1. \A a \in Range(attackers) : LastAnswers(answers)[a] = honeypotsIdentifyVictims(ledger, a)
  BY LastAnswersAre DEF AllAnswered
<1>2. ASSUME NEW a \in Range(attackers)
      PROVE  LastAnswers(answers)[a] # <<>>
  <2>1. a \in AttackersOf(ledger, queried)
    BY AttackersAre DEF AllAnswered
  <2>2. queried \in AttackedBy(ledger, a)
    BY <2>1 DEF AttackersOf, AttackedBy
  <2>3. Range(honeypotsIdentifyVictims(ledger, a)) # {}
    BY <2>2, VictimsAre
  <2>4. Range(<<>>) = {}
    BY DEF Range
  <2>5. QED BY <1>1, <2>3, <2>4
<1>3. DOMAIN LastAnswers(answers) = Range(attackers)
  BY DEF LastAnswers
<1>4. QED BY <1>1, <1>2, <1>3 DEF Range

LEMMA CallInvAsk ==
  ASSUME CallInv, AskAttackers \/ AskVictims \/ AskFails \/ Commit
  PROVE  CallInv'
<1> USE DEF query, asked, animation, canvas, search
<1>1. CASE AskAttackers
  <2>1. /\ UNCHANGED <<page, queried, ledger, moves, victims, table>> /\ phase' \in {"drawn", "A1"}
        /\ attackers' = honeypotsIdentifyAttackers(ledger, queried)
        /\ page = "honeypotsQ3" /\ victims = <<>> /\ ledger \in Ledgers
        /\ phase' = "A1" => attackers' # <<>>
    BY <1>1 DEF AskAttackers, Draw, CallInv
  <2>2. attackers' \in Seq(Node)
    BY <2>1, AttackersAre
  <2>3. Answers'
    BY <2>1, SameAnswers DEF Answers
  <2>4. QED BY <2>1, <2>2, <2>3 DEF CallInv, Phases, ThrowsOnlyIfMoved
<1>2. CASE AskVictims
  <2> DEFINE new == honeypotsIdentifyVictims(ledger, attackers[Len(victims) + 1])
  <2>1. /\ UNCHANGED <<page, queried, ledger, moves, attackers, table, honest>>
        /\ victims' = Append(victims, new)
        /\ phase = "A1" /\ page = "honeypotsQ3" /\ ledger \in Ledgers /\ moves \in Nat
        /\ victims \in Seq(Seq(Node)) /\ attackers \in Seq(Node) /\ Len(victims) < Len(attackers)
    BY <1>2 DEF AskVictims, Draw, Throw, CallInv
  <2>2. new \in Seq(Node)
    BY <2>1, VictimsAre
  <2>3. /\ victims' \in Seq(Seq(Node)) /\ Len(victims') = Len(victims) + 1
        /\ \A k \in 1..Len(victims) : victims'[k] = victims[k]
        /\ victims'[Len(victims) + 1] = new
    <3> HIDE DEF new
    <3>1. QED BY <2>1, <2>2
  <2>4. moves = 0 => /\ attackers = honeypotsIdentifyAttackers(ledger, queried)
                     /\ \A k \in 1..Len(victims') :
                          victims'[k] = honeypotsIdentifyVictims(ledger, attackers[k])
    <3>1. Len(victims) \in Nat
      BY <2>1
    <3>2. QED BY <2>1, <2>3, <3>1 DEF CallInv, Answers
  <2>5. CASE Len(victims') < Len(attackers)
    <3>1. phase' = "A1"
      BY <1>2, <2>5 DEF AskVictims
    <3>2. Answers'
      BY <2>1, <2>4, SameAnswers DEF Answers
    <3>3. QED BY <2>1, <2>3, <2>5, <3>1, <3>2 DEF CallInv, Phases, ThrowsOnlyIfMoved
  <2>6. CASE ~ (Len(victims') < Len(attackers))
    <3>1. Len(victims') = Len(attackers)
      BY <2>1, <2>3, <2>6
    <3>2. moves = 0 => AllAnswered(victims')
      BY <2>4, <3>1 DEF AllAnswered
    <3>3. moves = 0 => <<>> \notin Range(LastAnswers(victims'))
      BY <2>1, <3>2, VictimsAnswered
    <3>4. CASE <<>> \in Range(LastAnswers(victims'))
      <4>1. phase' = "threw" /\ moves > 0
        BY <1>2, <2>1, <2>6, <3>3, <3>4 DEF AskVictims, Throw
      <4>2. QED BY <2>1, <2>3, <4>1 DEF CallInv, Phases, ThrowsOnlyIfMoved, Answers
    <3>5. CASE <<>> \notin Range(LastAnswers(victims'))
      <4>1. phase' = "drawn"
        BY <1>2, <2>6, <3>5 DEF AskVictims, Draw
      <4>2. QED BY <2>1, <2>3, <4>1 DEF CallInv, Phases, ThrowsOnlyIfMoved, Answers
    <3>6. QED BY <3>4, <3>5
  <2>7. QED BY <2>5, <2>6
<1>3. CASE AskFails
  <2>1. UNCHANGED <<page, ledger, moves, attackers, victims>> /\ phase' = "hung"
    BY <1>3 DEF AskFails
  <2>2. QED BY <2>1, CallInvRests
<1>4. CASE Commit
  <2>1. /\ UNCHANGED <<page, phase, table, attackers, victims>>
        /\ ledger' \in Ledgers /\ moves' = moves + 1 /\ phase \in {"A2", "A1"}
    BY <1>4 DEF Commit
  <2>2. QED BY <2>1 DEF CallInv, Answers, ThrowsOnlyIfMoved
<1>5. QED BY <1>1, <1>2, <1>3, <1>4

LEMMA CallInvNext == CallInv /\ [Next]_vars => CallInv'
<1> SUFFICES ASSUME CallInv, [Next]_vars PROVE CallInv'
  OBVIOUS
<1> USE DEF query, asked, animation, canvas, search
<1>1. CASE Decide
  BY <1>1, CallInvDecide
<1>2. CASE AskAttackers \/ AskVictims \/ AskFails \/ Commit
  BY <1>2, CallInvAsk
<1>3. CASE Search \/ (Animate /\ Same) \/ LoadGraph \/ UNCHANGED vars
  <2>1. UNCHANGED <<page, queried, ledger, moves, phase, table, attackers, victims, honest>>
    BY <1>3 DEF Search, Same, LoadGraph, vars
  <2>2. QED BY <2>1, CallInvSame
<1>4. CASE Searched
  <2>1. UNCHANGED <<page, ledger, moves, attackers, victims>> /\ phase' = "drawn"
    BY <1>4 DEF Searched, Draw
  <2>2. QED BY <2>1, CallInvRests
<1>5. QED BY <1>1, <1>2, <1>3, <1>4 DEF Next, Work

LEMMA CallInvHolds == SafetySpec => []CallInv
BY CallInvInit, CallInvNext, PTL DEF SafetySpec

(* Page Q3 of honeypots throws only after an import between its requests,  *)
(* page Q1 of gtmw only on an error text, unless its first node lies.      *)
THEOREM ThrowsAreRare == Spec => []ThrowsOnlyIfMoved
<1>1. CallInv => ThrowsOnlyIfMoved
  BY DEF CallInv
<1>2. QED BY <1>1, CallInvHolds, PTL DEF Spec, SafetySpec

-----------------------------------------------------------------------------
(* What the timeouts still have to highlight.                              *)
Named == Ends(CaseTwo) \union {"signature"}
Host == Node \union Named \union {Nothing}
Link == (Host \X Host) \union {Nothing}
MarkSet == [link : Link, host : Host, round : 0..2]
Timer == {t \in [wait : Int, marks : Seq(MarkSet), series : BOOLEAN] :
            ~ t.series => Len(t.marks) = 1}

MarksOf(ts) == UNION {Range(t.marks) : t \in Range(ts)}

LEMMA RangeOfOne ==
  ASSUME NEW T, NEW x \in T
  PROVE  <<x>> \in Seq(T) /\ Range(<<x>>) = {x}
BY DEF Range

LEMMA AfterIs ==
  ASSUME NEW w \in Int, NEW m \in MarkSet
  PROVE  After(w, m) \in Timer /\ Range(After(w, m).marks) = {m} /\ After(w, m).marks[1] = m
<1>1. <<m>> \in Seq(MarkSet) /\ Range(<<m>>) = {m} /\ Len(<<m>>) = 1 /\ <<m>>[1] = m
  BY RangeOfOne
<1>2. QED BY <1>1 DEF After, Timer

LEMMA SeriesIs ==
  ASSUME NEW w \in Int, NEW ms \in Seq(MarkSet)
  PROVE  Series(w, ms) \in Timer
BY DEF Series, Timer

LEMMA MarksOfConcat ==
  ASSUME NEW s \in Seq(Timer), NEW t \in Seq(Timer)
  PROVE  s \o t \in Seq(Timer) /\ MarksOf(s \o t) = MarksOf(s) \union MarksOf(t)
<1>1. Range(s \o t) = Range(s) \union Range(t)
  BY RangeOfConcat
<1>2. s \o t \in Seq(Timer)
  OBVIOUS
<1>3. QED BY <1>1, <1>2 DEF MarksOf

LEMMA MarksOfOne ==
  ASSUME NEW t \in Timer
  PROVE  <<t>> \in Seq(Timer) /\ MarksOf(<<t>>) = Range(t.marks)
<1>1. <<t>> \in Seq(Timer) /\ Range(<<t>>) = {t}
  BY RangeOfOne
<1>2. QED BY <1>1 DEF MarksOf

LEMMA RemoveAtIs ==
  ASSUME NEW T, NEW s \in Seq(T), NEW i \in DOMAIN s
  PROVE  /\ RemoveAt(s, i) \in Seq(T)
         /\ Len(RemoveAt(s, i)) = Len(s) - 1
         /\ \A k \in 1..(Len(s) - 1) : RemoveAt(s, i)[k] = IF k < i THEN s[k] ELSE s[k + 1]
<1> DEFINE a == SubSeq(s, 1, i - 1)
           b == SubSeq(s, i + 1, Len(s))
<1>1. i \in 1..Len(s) /\ Len(s) \in Nat
  OBVIOUS
<1>2. a \in Seq(T) /\ Len(a) = i - 1 /\ \A k \in 1..(i - 1) : a[k] = s[k]
  BY <1>1
<1>3. b \in Seq(T) /\ Len(b) = Len(s) - i /\ \A k \in 1..(Len(s) - i) : b[k] = s[k + i]
  BY <1>1
<1>4. RemoveAt(s, i) = a \o b
  BY DEF RemoveAt
<1> HIDE DEF a, b
<1>5. a \o b \in Seq(T) /\ Len(a \o b) = Len(s) - 1
  BY <1>1, <1>2, <1>3
<1>6. ASSUME NEW k \in 1..(Len(s) - 1)
      PROVE  (a \o b)[k] = IF k < i THEN s[k] ELSE s[k + 1]
  <2>1. CASE k < i
    BY <1>1, <1>2, <1>3, <2>1
  <2>2. CASE ~ (k < i)
    <3>1. k - Len(a) \in 1..(Len(s) - i) /\ k - Len(a) + i = k + 1
      BY <1>1, <1>2, <2>2
    <3>2. (a \o b)[k] = b[k - Len(a)]
      BY <1>1, <1>2, <1>3, <2>2
    <3>3. QED BY <1>3, <2>2, <3>1, <3>2
  <2>3. QED BY <2>1, <2>2
<1>7. QED BY <1>4, <1>5, <1>6

(* What is left by removing one member.                                    *)
LEMMA RangeWithout ==
  ASSUME NEW T, NEW s \in Seq(T), NEW i \in DOMAIN s
  PROVE  Range(RemoveAt(s, i)) \union {s[i]} = Range(s)
<1> DEFINE r == RemoveAt(s, i)
<1>1. /\ r \in Seq(T) /\ Len(r) = Len(s) - 1
      /\ \A k \in 1..(Len(s) - 1) : r[k] = IF k < i THEN s[k] ELSE s[k + 1]
  BY RemoveAtIs
<1> HIDE DEF r
<1>2. i \in 1..Len(s) /\ Len(s) \in Nat /\ DOMAIN r = 1..(Len(s) - 1)
  BY <1>1
<1>3. ASSUME NEW x \in Range(r)
      PROVE  x \in Range(s)
  <2>1. PICK k \in 1..(Len(s) - 1) : x = r[k]
    BY <1>2 DEF Range
  <2>2. k \in DOMAIN s /\ k + 1 \in DOMAIN s
    BY <1>2
  <2>3. QED BY <1>1, <2>1, <2>2 DEF Range
<1>4. ASSUME NEW x \in Range(s), x # s[i]
      PROVE  x \in Range(r)
  <2>1. PICK k \in 1..Len(s) : x = s[k] /\ k # i
    BY <1>4 DEF Range
  <2>2. CASE k < i
    <3>1. k \in 1..(Len(s) - 1) /\ r[k] = s[k]
      BY <1>1, <1>2, <2>2
    <3>2. QED BY <1>2, <2>1, <3>1 DEF Range
  <2>3. CASE k > i
    <3>1. k - 1 \in 1..(Len(s) - 1) /\ ~ (k - 1 < i) /\ (k - 1) + 1 = k
      BY <1>2, <2>3
    <3>2. r[k - 1] = s[k]
      BY <1>1, <3>1
    <3>3. QED BY <1>2, <2>1, <3>1, <3>2 DEF Range
  <2>4. QED BY <1>2, <2>1, <2>2, <2>3
<1>5. s[i] \in Range(s)
  BY DEF Range
<1>6. QED BY <1>3, <1>4, <1>5 DEF r

LEMMA MarksWithout ==
  ASSUME NEW ts \in Seq(Timer), NEW i \in DOMAIN ts
  PROVE  /\ RemoveAt(ts, i) \in Seq(Timer)
         /\ MarksOf(ts) = MarksOf(RemoveAt(ts, i)) \union Range(ts[i].marks)
<1>1. RemoveAt(ts, i) \in Seq(Timer) /\ Range(RemoveAt(ts, i)) \union {ts[i]} = Range(ts)
  BY RemoveAtIs, RangeWithout
<1>2. QED BY <1>1 DEF MarksOf

(* A series is left as a timeout per mark.                                 *)
LEMMA SpreadIs ==
  ASSUME NEW ms \in Seq(MarkSet)
  PROVE  /\ Spread(ms) \in Seq(Timer) /\ Len(Spread(ms)) = Len(ms)
         /\ \A k \in 1..Len(ms) : Spread(ms)[k] = After(2 * k, ms[k])
         /\ MarksOf(Spread(ms)) = Range(ms)
<1> DEFINE s == Spread(ms)
<1>1. Len(ms) \in Nat /\ DOMAIN ms = 1..Len(ms) /\ \A k \in 1..Len(ms) : ms[k] \in MarkSet
  OBVIOUS
<1>2. DOMAIN s = 1..Len(ms) /\ \A k \in 1..Len(ms) : s[k] = After(2 * k, ms[k])
  BY <1>1 DEF Spread
<1>3. \A k \in 1..Len(ms) : s[k] \in Timer /\ Range(s[k].marks) = {ms[k]}
  <2> TAKE k \in 1..Len(ms)
  <2>1. ms[k] \in MarkSet /\ 2 * k \in Int /\ s[k] = After(2 * k, ms[k])
    BY <1>1, <1>2
  <2>2. QED BY <2>1, AfterIs
<1>4. s \in Seq(Timer) /\ Len(s) = Len(ms)
  <2>1. s = [k \in 1..Len(ms) |-> s[k]]
    BY <1>1 DEF Spread
  <2> HIDE DEF s
  <2>2. QED BY <1>1, <1>2, <1>3, <2>1
<1> HIDE DEF s
<1>5. MarksOf(s) = UNION {Range(s[k].marks) : k \in 1..Len(ms)}
  BY <1>2 DEF MarksOf, Range
<1>6. UNION {Range(s[k].marks) : k \in 1..Len(ms)} = {ms[k] : k \in 1..Len(ms)}
  <2>1. UNION {Range(s[k].marks) : k \in 1..Len(ms)} = UNION {{ms[k]} : k \in 1..Len(ms)}
    BY <1>3
  <2>2. QED BY <2>1
<1>7. Range(ms) = {ms[k] : k \in 1..Len(ms)}
  BY <1>1 DEF Range
<1>8. QED BY <1>2, <1>4, <1>5, <1>6, <1>7 DEF s

-----------------------------------------------------------------------------
(* What a step of the animation does with the timeouts.                    *)
Animated == /\ timers \in Seq(Timer)
            /\ \A i \in DOMAIN timers : timers[i].wait >= - MaxLate
            /\ picture \in Seq(MarkSet) /\ missed \in Nat
            /\ loaded \in BOOLEAN
            /\ Nothing \notin hosts /\ Nothing \notin links

(* Either nothing is highlighted and every mark is kept,                   *)
KeepsMarks == MarksOf(timers') = MarksOf(timers) /\ UNCHANGED <<picture, missed>>

(* or one mark is, or is missed.                                           *)
Highlights(i) ==
  /\ FirstDue(i) /\ ~ timers[i].series
  /\ timers[i].marks[1] \in MarkSet /\ DOMAIN timers[i].marks = {1}
  /\ MarksOf(timers) = MarksOf(timers') \union {timers[i].marks[1]}
  /\ IF loaded THEN picture' = Append(picture, Visible(timers[i].marks[1])) /\ missed' = missed
     ELSE picture' = picture /\ missed' = missed + 1

LEMMA VisibleIs ==
  ASSUME NEW m \in MarkSet
  PROVE  /\ Visible(m) \in MarkSet /\ Visible(m).round = m.round
         /\ Visible(m).host = IF m.host \in hosts THEN m.host ELSE Nothing
         /\ Visible(m).link = IF m.link \in links THEN m.link ELSE Nothing
<1>1. Nothing \in Host /\ Nothing \in Link
  BY DEF Host, Link
<1>2. QED BY <1>1 DEF Visible, MarkSet

LEMMA StartSteps ==
  ASSUME Animated, StartSeries
  PROVE  Animated' /\ KeepsMarks
<1>1. PICK i \in DOMAIN timers :
        /\ FirstDue(i) /\ timers[i].series
        /\ timers' = RemoveAt(timers, i) \o Spread(timers[i].marks)
        /\ UNCHANGED <<canvas, picture, missed>>
  BY DEF StartSeries
<1> DEFINE rest == RemoveAt(timers, i)
           new == Spread(timers[i].marks)
           ms == timers[i].marks
<1>2. timers \in Seq(Timer) /\ timers[i] \in Timer /\ ms \in Seq(MarkSet)
  BY DEF Animated, Timer
<1>3. /\ rest \in Seq(Timer) /\ MarksOf(timers) = MarksOf(rest) \union Range(ms)
      /\ Range(rest) \union {timers[i]} = Range(timers)
  BY <1>2, MarksWithout, RangeWithout
<1>4. /\ new \in Seq(Timer) /\ Len(new) = Len(ms) /\ MarksOf(new) = Range(ms)
      /\ \A k \in 1..Len(ms) : new[k] = After(2 * k, ms[k])
  BY <1>2, SpreadIs
<1> HIDE DEF rest, new, ms
<1>5. timers' = rest \o new
  BY <1>1 DEF rest, new
<1>6. timers' \in Seq(Timer) /\ MarksOf(timers') = MarksOf(timers)
  BY <1>3, <1>4, <1>5, MarksOfConcat
<1>7. Range(timers') = Range(rest) \union Range(new)
  BY <1>3, <1>4, <1>5, RangeOfConcat
<1>8. \A t \in Range(rest) : t.wait >= - MaxLate
  BY <1>3 DEF Animated, Range
<1>9. \A t \in Range(new) : t.wait >= - MaxLate
  <2> TAKE t \in Range(new)
  <2>1. PICK k \in 1..Len(ms) : t = new[k]
    BY <1>4 DEF Range
  <2>2. t.wait = 2 * k /\ k \in Nat
    <3>1. Len(ms) \in Nat /\ t = After(2 * k, ms[k])
      BY <1>2, <1>4, <2>1
    <3>2. QED BY <3>1 DEF After
  <2>3. QED BY <2>2, LateAssumption
<1>10. \A j \in DOMAIN timers' : timers'[j].wait >= - MaxLate
  BY <1>7, <1>8, <1>9 DEF Range
<1>11. QED BY <1>1, <1>6, <1>10 DEF Animated, KeepsMarks, canvas

LEMMA TickSteps ==
  ASSUME Animated, Tick
  PROVE  Animated' /\ KeepsMarks
<1>1. /\ DOMAIN timers' = DOMAIN timers
      /\ \A i \in DOMAIN timers : /\ timers[i] \in Timer
                                  /\ timers'[i] = [timers[i] EXCEPT !.wait = @ - 1]
                                  /\ timers[i].wait > - MaxLate
  BY DEF Tick, Animated
<1>2. \A i \in DOMAIN timers : /\ timers'[i] \in Timer /\ timers'[i].marks = timers[i].marks
                               /\ timers'[i].wait >= - MaxLate
  BY <1>1, LateAssumption DEF Timer
<1>3. timers' \in Seq(Timer)
  <2>1. timers' = [i \in 1..Len(timers) |-> timers'[i]] /\ Len(timers) \in Nat
        /\ DOMAIN timers = 1..Len(timers)
    BY DEF Tick, Animated
  <2>2. QED BY <1>2, <2>1
<1>4. MarksOf(timers') = MarksOf(timers)
  <2>1. \A ts : MarksOf(ts) = UNION {Range(ts[i].marks) : i \in DOMAIN ts}
    BY DEF MarksOf, Range
  <2>2. {Range(timers'[i].marks) : i \in DOMAIN timers'} = {Range(timers[i].marks) : i \in DOMAIN timers}
    BY <1>1, <1>2
  <2>3. QED BY <2>1, <2>2
<1>5. QED BY <1>1, <1>2, <1>3, <1>4 DEF Tick, Animated, KeepsMarks, canvas

LEMMA HighlightSteps ==
  ASSUME Animated, Highlight
  PROVE  Animated' /\ \E i \in DOMAIN timers : Highlights(i) /\ timers' = RemoveAt(timers, i)
<1>1. PICK i \in DOMAIN timers :
        /\ FirstDue(i) /\ ~ timers[i].series
        /\ timers' = RemoveAt(timers, i)
        /\ IF loaded THEN picture' = Append(picture, Visible(timers[i].marks[1])) /\ missed' = missed
           ELSE picture' = picture /\ missed' = missed + 1
        /\ UNCHANGED canvas
  BY DEF Highlight
<1>2. /\ timers \in Seq(Timer) /\ timers[i] \in Timer /\ timers[i].marks \in Seq(MarkSet)
      /\ Len(timers[i].marks) = 1
  BY <1>1 DEF Animated, Timer
<1>3. /\ timers[i].marks[1] \in MarkSet /\ DOMAIN timers[i].marks = {1}
      /\ Range(timers[i].marks) = {timers[i].marks[1]}
  BY <1>2 DEF Range
<1>4. /\ timers' \in Seq(Timer) /\ MarksOf(timers) = MarksOf(timers') \union Range(timers[i].marks)
      /\ Range(timers') \union {timers[i]} = Range(timers)
  BY <1>1, <1>2, MarksWithout, RangeWithout
<1>5. \A j \in DOMAIN timers' : timers'[j].wait >= - MaxLate
  <2>1. \A t \in Range(timers) : t.wait >= - MaxLate
    BY DEF Animated, Range
  <2>2. QED BY <1>4, <2>1 DEF Range
<1>6. picture' \in Seq(MarkSet) /\ missed' \in Nat
  <2> DEFINE new == Visible(timers[i].marks[1])
  <2>1. new \in MarkSet
    BY <1>3, VisibleIs
  <2> HIDE DEF new
  <2>2. picture' = picture \/ picture' = Append(picture, new)
    BY <1>1 DEF new
  <2>3. picture' \in Seq(MarkSet)
    BY <2>1, <2>2 DEF Animated
  <2>4. missed' \in Nat
    <3>1. missed' = missed \/ missed' = missed + 1
      BY <1>1
    <3>2. QED BY <3>1 DEF Animated
  <2>5. QED BY <2>3, <2>4
<1>7. Highlights(i)
  BY <1>1, <1>3, <1>4 DEF Highlights
<1>8. QED BY <1>1, <1>4, <1>5, <1>6, <1>7 DEF Animated, canvas

-----------------------------------------------------------------------------
(* Mark k of timeout i is highlighted before mark l of timeout j, however  *)
(* late the browser is.  A series of marks may itself start late, and so   *)
(* late that one due after it starts at once: then only the places in the  *)
(* two count, but for delays up to one second.                             *)
Precedes(ts, i, k, j, l) ==
  \/ ~ ts[i].series /\ ~ ts[j].series /\ i < j /\ ts[i].wait <= ts[j].wait
  \/ /\ ~ ts[i].series /\ ts[j].series
     /\ ts[i].wait <= ts[j].wait + 2 * l \/ ts[i].wait <= 2 * l
  \/ ts[i].series /\ ts[j].series /\ i = j /\ k < l
  \/ /\ ts[i].series /\ ts[j].series /\ i < j /\ ts[i].wait <= ts[j].wait
     /\ k <= l \/ (MaxLate <= 2 /\ ts[i].wait + 2 * k + 2 <= ts[j].wait + 2 * l)

(* The marks of each pair are highlighted one before the other.            *)
Ordered(ts, pairs) ==
  \A i \in DOMAIN ts, j \in DOMAIN ts : \A k \in DOMAIN ts[i].marks, l \in DOMAIN ts[j].marks :
    <<ts[i].marks[k], ts[j].marks[l]>> \in pairs => Precedes(ts, i, k, j, l)

LEMMA RemoveKeepsOrder ==
  ASSUME NEW ts \in Seq(Timer), NEW i \in DOMAIN ts, NEW pairs, Ordered(ts, pairs)
  PROVE  Ordered(RemoveAt(ts, i), pairs)
<1> DEFINE r == RemoveAt(ts, i)
           old(k) == IF k < i THEN k ELSE k + 1
<1>1. /\ r \in Seq(Timer) /\ Len(r) = Len(ts) - 1
      /\ \A k \in 1..(Len(ts) - 1) : r[k] = IF k < i THEN ts[k] ELSE ts[k + 1]
  BY RemoveAtIs
<1> HIDE DEF r
<1>2. Len(ts) \in Nat /\ i \in 1..Len(ts) /\ DOMAIN ts = 1..Len(ts) /\ DOMAIN r = 1..(Len(ts) - 1)
  BY <1>1
<1>3. \A k \in DOMAIN r : k \in Nat /\ old(k) \in DOMAIN ts /\ r[k] = ts[old(k)]
  BY <1>1, <1>2
<1>4. \A a \in DOMAIN r, b \in DOMAIN r : (a < b <=> old(a) < old(b)) /\ (a = b <=> old(a) = old(b))
  BY <1>2
<1> SUFFICES ASSUME NEW a \in DOMAIN r, NEW b \in DOMAIN r,
                    NEW k \in DOMAIN r[a].marks, NEW l \in DOMAIN r[b].marks,
                    <<r[a].marks[k], r[b].marks[l]>> \in pairs
             PROVE  Precedes(r, a, k, b, l)
  BY DEF Ordered, r
<1>5. PICK x \in DOMAIN ts : x = old(a) /\ r[a] = ts[x]
  BY <1>3
<1>6. PICK y \in DOMAIN ts : y = old(b) /\ r[b] = ts[y]
  BY <1>3
<1>7. Precedes(ts, x, k, y, l)
  BY <1>5, <1>6 DEF Ordered
<1>8. (a < b <=> x < y) /\ (a = b <=> x = y)
  BY <1>4, <1>5, <1>6
<1>9. QED BY <1>5, <1>6, <1>7, <1>8 DEF Precedes

LEMMA TickKeepsOrder ==
  ASSUME Animated, Tick, NEW pairs, Ordered(timers, pairs)
  PROVE  Ordered(timers', pairs)
<1>1. /\ DOMAIN timers' = DOMAIN timers
      /\ \A i \in DOMAIN timers : /\ timers'[i].wait = timers[i].wait - 1 /\ timers[i].wait \in Int
                                  /\ timers'[i].marks = timers[i].marks
                                  /\ timers'[i].series = timers[i].series
  <2>1. \A i \in DOMAIN timers : timers[i] \in Timer
    BY DEF Animated
  <2>2. QED BY <2>1 DEF Tick, Timer
<1> SUFFICES ASSUME NEW i \in DOMAIN timers, NEW j \in DOMAIN timers,
                    NEW k \in DOMAIN timers[i].marks, NEW l \in DOMAIN timers[j].marks,
                    <<timers[i].marks[k], timers[j].marks[l]>> \in pairs
             PROVE  Precedes(timers', i, k, j, l)
  BY <1>1 DEF Ordered
<1>2. Precedes(timers, i, k, j, l)
  BY DEF Ordered
<1>3. i \in Int /\ j \in Int /\ k \in Int /\ l \in Int
  <2>1. timers \in Seq(Timer) /\ timers[i].marks \in Seq(MarkSet) /\ timers[j].marks \in Seq(MarkSet)
    BY DEF Animated, Timer
  <2>2. QED BY <2>1
<1>4. QED BY <1>1, <1>2, <1>3 DEF Precedes

(* Nothing comes before what is highlighted.                               *)
LEMMA HighlightIsFirst ==
  ASSUME Animated, NEW j \in DOMAIN timers, Highlights(j), NEW pairs, Ordered(timers, pairs),
         NEW m \in MarksOf(timers)
  PROVE  <<m, timers[j].marks[1]>> \notin pairs
<1> SUFFICES ASSUME <<m, timers[j].marks[1]>> \in pairs PROVE FALSE
  OBVIOUS
<1>1. PICK i \in DOMAIN timers : m \in Range(timers[i].marks)
  BY DEF MarksOf, Range
<1>2. PICK k \in DOMAIN timers[i].marks : m = timers[i].marks[k]
  BY <1>1 DEF Range
<1>3. Precedes(timers, i, k, j, 1)
  BY <1>2 DEF Ordered, Highlights
<1>4. ~ timers[j].series /\ FirstDue(j)
  BY DEF Highlights
<1>5. i < j /\ timers[i].wait <= timers[j].wait
  BY <1>3, <1>4 DEF Precedes
<1>6. i \in Int /\ j \in Int /\ timers[i].wait \in Int /\ timers[j].wait \in Int
  <2>1. timers \in Seq(Timer) /\ timers[i] \in Timer /\ timers[j] \in Timer
    BY DEF Animated
  <2>2. QED BY <2>1 DEF Timer
<1>7. QED BY <1>4, <1>5, <1>6 DEF FirstDue

LEMMA StartKeepsOrder ==
  ASSUME Animated, StartSeries, NEW pairs, Ordered(timers, pairs)
  PROVE  Ordered(timers', pairs)
<1>1. PICK i \in DOMAIN timers :
        /\ FirstDue(i) /\ timers[i].series
        /\ timers' = RemoveAt(timers, i) \o Spread(timers[i].marks)
  BY DEF StartSeries
<1> DEFINE rest == RemoveAt(timers, i)
           new == Spread(timers[i].marks)
           ms == timers[i].marks
           old(k) == IF k < i THEN k ELSE k + 1
           n == Len(rest)
<1>2. /\ timers \in Seq(Timer) /\ timers[i] \in Timer /\ ms \in Seq(MarkSet)
      /\ Len(ms) \in Nat /\ DOMAIN ms = 1..Len(ms)
      /\ i \in 1..Len(timers) /\ Len(timers) \in Nat /\ DOMAIN timers = 1..Len(timers)
      /\ timers[i].wait \in Int /\ timers[i].wait <= 0 /\ (MaxLate <= 2 => timers[i].wait >= -2)
  <2>1. timers \in Seq(Timer) /\ timers[i].wait <= 0 /\ timers[i].wait >= - MaxLate
    BY <1>1 DEF Animated, FirstDue
  <2>2. timers[i] \in Timer
    BY <2>1
  <2>3. ms \in Seq(MarkSet) /\ timers[i].wait \in Int
    BY <2>2 DEF Timer
  <2>4. timers[i].wait <= 0 /\ (MaxLate <= 2 => timers[i].wait >= -2)
    BY <2>1, <2>3, LateAssumption
  <2> HIDE DEF ms
  <2>5. QED BY <2>1, <2>2, <2>3, <2>4 DEF ms
<1>3. /\ rest \in Seq(Timer) /\ n = Len(timers) - 1
      /\ \A k \in 1..n : rest[k] = IF k < i THEN timers[k] ELSE timers[k + 1]
  BY <1>2, RemoveAtIs
<1>4. Ordered(rest, pairs)
  BY <1>2, RemoveKeepsOrder
<1>5. /\ new \in Seq(Timer) /\ Len(new) = Len(ms)
      /\ \A k \in 1..Len(ms) : new[k] = After(2 * k, ms[k])
  BY <1>2, SpreadIs
<1> HIDE DEF rest, new, ms, n
<1>6. /\ timers' = rest \o new /\ n \in Nat /\ rest \in Seq(Timer) /\ new \in Seq(Timer) /\ Len(rest) = n
      /\ DOMAIN rest = 1..n
  BY <1>1, <1>3, <1>5 DEF rest, new, n
<1>7. /\ DOMAIN timers' = 1..(n + Len(ms))
      /\ \A k \in 1..n : timers'[k] = rest[k]
      /\ \A k \in 1..Len(ms) : timers'[n + k] = new[k]
  <2>1. /\ DOMAIN (rest \o new) = 1..(Len(rest) + Len(new))
        /\ \A k \in 1..Len(rest) : (rest \o new)[k] = rest[k]
        /\ \A k \in 1..Len(new) : (rest \o new)[Len(rest) + k] = new[k]
    <3>1. rest \in Seq(Timer) /\ new \in Seq(Timer)
      BY <1>6
    <3>2. QED BY <3>1
  <2>2. timers' = rest \o new /\ Len(rest) = n /\ Len(new) = Len(ms)
    BY <1>5, <1>6
  <2>3. QED BY <2>1, <2>2
<1>8. ASSUME NEW x \in DOMAIN timers'
      PROVE  x \in 1..n \/ \E k \in 1..Len(ms) : x = n + k
  <2>1. x \in Nat /\ (x > n => x - n \in 1..Len(ms) /\ x = n + (x - n))
    BY <1>2, <1>6, <1>7
  <2>2. CASE x > n
    BY <2>1, <2>2
  <2>3. CASE ~ (x > n)
    <3>1. x \in 1..n
      BY <1>6, <1>7, <1>2, <2>3
    <3>2. QED BY <3>1
  <2>4. QED BY <2>2, <2>3
<1>9. ASSUME NEW k \in 1..Len(ms)
      PROVE  LET t == timers'[n + k] IN
               t.wait = 2 * k /\ ~ t.series /\ DOMAIN t.marks = {1} /\ t.marks[1] = ms[k]
  <2>1. timers'[n + k] = After(2 * k, ms[k])
    BY <1>5, <1>7
  <2>2. QED BY <2>1 DEF After
<1>10. ASSUME NEW x \in 1..n
       PROVE  \E y \in DOMAIN timers : y # i /\ timers'[x] = timers[y] /\ timers[y] \in Timer
  <2>1. old(x) \in DOMAIN timers /\ old(x) # i /\ timers'[x] = timers[old(x)]
    BY <1>2, <1>3, <1>7
  <2>2. QED BY <1>2, <2>1
<1> SUFFICES ASSUME NEW x \in DOMAIN timers', NEW y \in DOMAIN timers',
                    NEW k \in DOMAIN timers'[x].marks, NEW l \in DOMAIN timers'[y].marks,
                    <<timers'[x].marks[k], timers'[y].marks[l]>> \in pairs
             PROVE  Precedes(timers', x, k, y, l)
  BY DEF Ordered
<1>11. CASE x \in 1..n /\ y \in 1..n
  <2>1. Precedes(rest, x, k, y, l)
    BY <1>4, <1>6, <1>7, <1>11 DEF Ordered
  <2>2. QED BY <1>7, <1>11, <2>1 DEF Precedes
<1>12. CASE x \in 1..n /\ y \notin 1..n
  <2>1. PICK b \in 1..Len(ms) : y = n + b
    BY <1>8, <1>12
  <2>2. PICK a \in DOMAIN timers : a # i /\ timers'[x] = timers[a] /\ timers[a] \in Timer
    BY <1>10, <1>12
  <2>3. timers'[y].wait = 2 * b /\ ~ timers'[y].series /\ l = 1 /\ timers'[y].marks[1] = ms[b]
    BY <1>9, <2>1
  <2>4. Precedes(timers, a, k, i, b)
    BY <1>2, <2>2, <2>3 DEF Ordered, ms
  <2>5. /\ ~ timers[a].series
        /\ timers[a].wait <= timers[i].wait + 2 * b \/ timers[a].wait <= 2 * b
    <3>1. timers[a].wait \in Int /\ timers[i].wait \in Int /\ a \in Int /\ i \in Int
      BY <1>2, <2>2 DEF Timer
    <3>2. ~ (a < i /\ timers[a].wait <= timers[i].wait)
      BY <1>1, <3>1 DEF FirstDue
    <3>3. QED BY <1>1, <2>2, <2>4, <3>2 DEF Precedes
  <2>6. timers[a].wait <= 2 * b /\ x < y
    <3>1. timers[a].wait \in Int /\ b \in Int
      BY <1>2, <2>2 DEF Timer
    <3>2. timers[a].wait <= 2 * b
      BY <1>2, <2>5, <3>1
    <3>3. x < y
      BY <1>2, <1>6, <1>12, <2>1
    <3>4. QED BY <3>2, <3>3
  <2>7. QED BY <2>2, <2>3, <2>5, <2>6 DEF Precedes
<1>13. CASE x \notin 1..n /\ y \in 1..n
  <2>1. PICK a \in 1..Len(ms) : x = n + a
    BY <1>8, <1>13
  <2>2. PICK b \in DOMAIN timers : b # i /\ timers'[y] = timers[b] /\ timers[b] \in Timer
    BY <1>10, <1>13
  <2>3. timers'[x].wait = 2 * a /\ ~ timers'[x].series /\ k = 1 /\ timers'[x].marks[1] = ms[a]
    BY <1>9, <2>1
  <2>4. Precedes(timers, i, a, b, l)
    BY <1>2, <2>2, <2>3 DEF Ordered, ms
  <2>5. /\ timers[b].series
        /\ a <= l \/ (MaxLate <= 2 /\ timers[i].wait + 2 * a + 2 <= timers[b].wait + 2 * l)
    BY <1>1, <2>2, <2>4 DEF Precedes
  <2>6. 2 * a <= timers[b].wait + 2 * l \/ 2 * a <= 2 * l
    <3>1. timers[b].wait \in Int /\ l \in Int /\ a \in Int
      <4>1. timers[b].marks \in Seq(MarkSet) /\ timers[b].wait \in Int
        BY <2>2 DEF Timer
      <4>2. QED BY <2>2, <4>1
    <3>2. QED BY <1>2, <2>5, <3>1
  <2>7. QED BY <2>2, <2>3, <2>5, <2>6 DEF Precedes
<1>14. CASE x \notin 1..n /\ y \notin 1..n
  <2>1. PICK a \in 1..Len(ms) : x = n + a
    BY <1>8, <1>14
  <2>2. PICK b \in 1..Len(ms) : y = n + b
    BY <1>8, <1>14
  <2>3. timers'[x].wait = 2 * a /\ ~ timers'[x].series /\ k = 1 /\ timers'[x].marks[1] = ms[a]
    BY <1>9, <2>1
  <2>4. timers'[y].wait = 2 * b /\ ~ timers'[y].series /\ l = 1 /\ timers'[y].marks[1] = ms[b]
    BY <1>9, <2>2
  <2>5. Precedes(timers, i, a, i, b)
    BY <1>2, <2>3, <2>4 DEF Ordered, ms
  <2>6. a < b
    BY <1>1, <1>2, <2>5 DEF Precedes
  <2>7. x < y /\ 2 * a <= 2 * b
    BY <1>6, <2>1, <2>2, <2>6
  <2>8. QED BY <2>3, <2>4, <2>7 DEF Precedes
<1>15. QED BY <1>11, <1>12, <1>13, <1>14

-----------------------------------------------------------------------------
(* What the scripts register.                                              *)
Fresh == {t \in Timer : t.wait \in Nat}

LEMMA FreshIs ==
  ASSUME NEW s \in Seq(Fresh)
  PROVE  s \in Seq(Timer) /\ \A i \in DOMAIN s : s[i].wait >= - MaxLate
<1>1. \A i \in DOMAIN s : s[i] \in Timer /\ s[i].wait \in Nat
  BY DEF Fresh
<1>2. s \in Seq(Timer)
  BY <1>1
<1>3. QED BY <1>1, <1>2, LateAssumption

LEMMA FreshConcat ==
  ASSUME NEW s \in Seq(Fresh), NEW t \in Seq(Fresh)
  PROVE  s \o t \in Seq(Fresh) /\ MarksOf(s \o t) = MarksOf(s) \union MarksOf(t)
<1>1. s \o t \in Seq(Fresh)
  OBVIOUS
<1>2. s \in Seq(Timer) /\ t \in Seq(Timer)
  BY FreshIs
<1>3. QED BY <1>1, <1>2, MarksOfConcat

LEMMA FreshAfter ==
  ASSUME NEW w \in Nat, NEW m \in MarkSet
  PROVE  <<After(w, m)>> \in Seq(Fresh) /\ MarksOf(<<After(w, m)>>) = {m}
<1> DEFINE t == After(w, m)
<1>1. t \in Timer /\ Range(t.marks) = {m}
  BY AfterIs
<1>2. t.wait = w
  BY DEF After
<1> HIDE DEF t
<1>3. t \in Fresh /\ <<t>> \in Seq(Timer) /\ MarksOf(<<t>>) = {m}
  BY <1>1, <1>2, MarksOfOne DEF Fresh
<1>4. <<t>> \in Seq(Fresh)
  BY <1>3, RangeOfOne
<1>5. QED BY <1>3, <1>4 DEF t

LEMMA FreshSeries ==
  ASSUME NEW w \in Nat, NEW ms \in Seq(MarkSet)
  PROVE  <<Series(w, ms)>> \in Seq(Fresh) /\ MarksOf(<<Series(w, ms)>>) = Range(ms)
<1> DEFINE t == Series(w, ms)
<1>1. t \in Timer
  BY SeriesIs
<1>2. t.wait = w /\ t.marks = ms
  BY DEF Series
<1> HIDE DEF t
<1>3. t \in Fresh /\ <<t>> \in Seq(Timer) /\ MarksOf(<<t>>) = Range(ms)
  BY <1>1, <1>2, MarksOfOne DEF Fresh
<1>4. <<t>> \in Seq(Fresh)
  BY <1>3, RangeOfOne
<1>5. QED BY <1>3, <1>4 DEF t

LEMMA FreshSpread ==
  ASSUME NEW ms \in Seq(MarkSet)
  PROVE  Spread(ms) \in Seq(Fresh) /\ MarksOf(Spread(ms)) = Range(ms)
<1> DEFINE s == Spread(ms)
<1>1. /\ s \in Seq(Timer) /\ Len(s) = Len(ms) /\ MarksOf(s) = Range(ms)
      /\ \A k \in 1..Len(ms) : s[k] = After(2 * k, ms[k])
  BY SpreadIs
<1> HIDE DEF s
<1>2. ASSUME NEW k \in 1..Len(ms)
      PROVE  s[k] \in Fresh
  <2>1. s[k].wait = 2 * k /\ k \in Nat
    <3>1. Len(ms) \in Nat /\ s[k] = After(2 * k, ms[k])
      BY <1>1
    <3>2. QED BY <3>1 DEF After
  <2>2. s[k] \in Timer
    BY <1>1
  <2>3. QED BY <2>1, <2>2 DEF Fresh
<1>3. s \in Seq(Fresh)
  BY <1>1, <1>2
<1>4. QED BY <1>1, <1>3 DEF s

(* A host of no round, and links from or to one host.                      *)
Alone(host) == {Mark(Nothing, host, 0)}
InnerOf(o, S, r) == {Mark(<<o, v>>, v, r) : v \in S}
OuterOf(o, S, r) == {Mark(<<v, o>>, v, r) : v \in S}

LEMMA MarkFields ==
  ASSUME NEW link, NEW host, NEW r
  PROVE  /\ Mark(link, host, r).link = link /\ Mark(link, host, r).host = host
         /\ Mark(link, host, r).round = r
BY DEF Mark

LEMMA RoundsAre ==
  ASSUME NEW o, NEW S, NEW r
  PROVE  /\ \A m \in InnerOf(o, S, r) : m.round = r
         /\ \A m \in OuterOf(o, S, r) : m.round = r
         /\ \A m \in Alone(o) : m.round = 0
BY DEF InnerOf, OuterOf, Alone, Mark

LEMMA MarkIs ==
  ASSUME NEW link \in Link, NEW host \in Host, NEW r \in 0..2
  PROVE  Mark(link, host, r) \in MarkSet
BY DEF Mark, MarkSet

LEMMA ToInnerIs ==
  ASSUME NEW o \in Host, NEW list \in Seq(Host), NEW r \in 0..2
  PROVE  /\ ToInner(o, list, r) \in Seq(MarkSet) /\ Len(ToInner(o, list, r)) = Len(list)
         /\ Range(ToInner(o, list, r)) = InnerOf(o, Range(list), r)
<1> DEFINE s == ToInner(o, list, r)
<1>1. /\ Len(list) \in Nat /\ DOMAIN list = 1..Len(list)
      /\ \A k \in 1..Len(list) : list[k] \in Host
  OBVIOUS
<1>2. s = [k \in 1..Len(list) |-> Mark(<<o, list[k]>>, list[k], r)]
  BY <1>1 DEF ToInner
<1>3. \A k \in 1..Len(list) : s[k] \in MarkSet
  <2> TAKE k \in 1..Len(list)
  <2>1. <<o, list[k]>> \in Link
    BY <1>1 DEF Link
  <2>2. QED BY <1>1, <1>2, <2>1, MarkIs
<1>4. s = [k \in 1..Len(list) |-> s[k]]
  BY <1>2
<1>5. Range(s) = {Mark(<<o, list[k]>>, list[k], r) : k \in 1..Len(list)}
  BY <1>2 DEF Range
<1>6. Range(list) = {list[k] : k \in 1..Len(list)}
  BY <1>1 DEF Range
<1> HIDE DEF s
<1>7. s \in Seq(MarkSet) /\ Len(s) = Len(list)
  BY <1>1, <1>3, <1>4
<1>8. QED BY <1>5, <1>6, <1>7 DEF s, InnerOf

LEMMA ToOuterIs ==
  ASSUME NEW o \in Host, NEW list \in Seq(Host), NEW r \in 0..2
  PROVE  /\ ToOuter(list, o, r) \in Seq(MarkSet) /\ Len(ToOuter(list, o, r)) = Len(list)
         /\ Range(ToOuter(list, o, r)) = OuterOf(o, Range(list), r)
<1> DEFINE s == ToOuter(list, o, r)
<1>1. /\ Len(list) \in Nat /\ DOMAIN list = 1..Len(list)
      /\ \A k \in 1..Len(list) : list[k] \in Host
  OBVIOUS
<1>2. s = [k \in 1..Len(list) |-> Mark(<<list[k], o>>, list[k], r)]
  BY <1>1 DEF ToOuter
<1>3. \A k \in 1..Len(list) : s[k] \in MarkSet
  <2> TAKE k \in 1..Len(list)
  <2>1. <<list[k], o>> \in Link
    BY <1>1 DEF Link
  <2>2. QED BY <1>1, <1>2, <2>1, MarkIs
<1>4. s = [k \in 1..Len(list) |-> s[k]]
  BY <1>2
<1>5. Range(s) = {Mark(<<list[k], o>>, list[k], r) : k \in 1..Len(list)}
  BY <1>2 DEF Range
<1>6. Range(list) = {list[k] : k \in 1..Len(list)}
  BY <1>1 DEF Range
<1> HIDE DEF s
<1>7. s \in Seq(MarkSet) /\ Len(s) = Len(list)
  BY <1>1, <1>3, <1>4
<1>8. QED BY <1>5, <1>6, <1>7 DEF s, OuterOf

(* Lists of marks, one per member of a list, joined.                       *)
LEMMA JoinedMarks ==
  ASSUME NEW n \in Nat, NEW f, \A i \in 1..n : f[i] \in Seq(MarkSet)
  PROVE  /\ FlattenSeq([i \in 1..n |-> f[i]]) \in Seq(MarkSet)
         /\ Range(FlattenSeq([i \in 1..n |-> f[i]])) = UNION {Range(f[i]) : i \in 1..n}
<1> DEFINE s == [i \in 1..n |-> f[i]]
<1>1. s \in Seq(Seq(MarkSet)) /\ DOMAIN s = 1..n
  OBVIOUS
<1>2. {Range(s[i]) : i \in 1..n} = {Range(f[i]) : i \in 1..n}
  OBVIOUS
<1> HIDE DEF s
<1>3. FlattenSeq(s) \in Seq(MarkSet) /\ Range(FlattenSeq(s)) = UNION {Range(s[i]) : i \in 1..n}
  BY <1>1, Flattened
<1>4. QED BY <1>2, <1>3 DEF s

LEMMA JoinedInOrder ==
  ASSUME NEW n \in Nat, NEW f, \A i \in 1..n : f[i] \in Seq(MarkSet) /\ f[i] # <<>>,
         NEW l \in DOMAIN FlattenSeq([i \in 1..n |-> f[i]])
  PROVE  \E i \in 1..n : i <= l /\ FlattenSeq([j \in 1..n |-> f[j]])[l] \in Range(f[i])
<1> DEFINE s == [i \in 1..n |-> f[i]]
<1>1. s \in Seq(Seq(MarkSet)) /\ DOMAIN s = 1..n /\ \A i \in 1..n : s[i] # <<>> /\ s[i] = f[i]
  OBVIOUS
<1>2. l \in DOMAIN FlattenSeq(s)
  OBVIOUS
<1> HIDE DEF s
<1>3. \E i \in DOMAIN s : i <= l /\ FlattenSeq(s)[l] \in Range(s[i])
  BY <1>1, <1>2, FlattenedInOrder
<1>4. \E i \in 1..n : i <= l /\ FlattenSeq(s)[l] \in Range(f[i])
  BY <1>1, <1>3
<1>5. QED BY <1>4 DEF s

LEMMA IsMark ==
  ASSUME NEW s, NEW i \in DOMAIN s, NEW k \in DOMAIN s[i].marks
  PROVE  s[i].marks[k] \in MarksOf(s)
BY DEF MarksOf, Range

LEMMA OneAfterOther ==
  ASSUME NEW a, NEW b
  PROVE  <<a>> \o <<b>> = <<a, b>>
<1> DEFINE T == {a, b}
           c == <<a>> \o <<b>>
           d == <<a, b>>
<1>1. <<a>> \in Seq(T) /\ <<b>> \in Seq(T) /\ d \in Seq(T)
  OBVIOUS
<1>2. Len(c) = 2 /\ c[1] = a /\ c[2] = b /\ c \in Seq(T)
  BY <1>1
<1>3. Len(d) = 2 /\ d[1] = a /\ d[2] = b
  OBVIOUS
<1> HIDE DEF c, d
<1>4. \A i \in 1..2 : c[i] = d[i]
  <2>1. \A i \in 1..2 : i = 1 \/ i = 2
    OBVIOUS
  <2>2. QED BY <1>2, <1>3, <2>1
<1>5. c = d
  BY <1>1, <1>2, <1>3, <1>4
<1>6. QED BY <1>5 DEF c, d

(* Timeouts of one script before those of another.                         *)
Across(s, i, k, t, j, l) ==
  \/ ~ s[i].series /\ ~ t[j].series /\ s[i].wait <= t[j].wait
  \/ ~ s[i].series /\ t[j].series /\ s[i].wait <= t[j].wait + 2 * l
  \/ /\ s[i].series /\ t[j].series /\ s[i].wait <= t[j].wait
     /\ k <= l \/ (MaxLate <= 2 /\ s[i].wait + 2 * k + 2 <= t[j].wait + 2 * l)

LEMMA ConcatOrder ==
  ASSUME NEW s \in Seq(Timer), NEW t \in Seq(Timer), NEW pairs,
         Ordered(s, pairs), Ordered(t, pairs),
         \A m \in MarksOf(t), before \in MarksOf(s) : <<m, before>> \notin pairs,
         \A i \in DOMAIN s, j \in DOMAIN t :
           \A k \in DOMAIN s[i].marks, l \in DOMAIN t[j].marks :
             <<s[i].marks[k], t[j].marks[l]>> \in pairs => Across(s, i, k, t, j, l)
  PROVE  Ordered(s \o t, pairs)
<1> DEFINE c == s \o t
           n == Len(s)
<1>1. /\ n \in Nat /\ Len(t) \in Nat /\ DOMAIN s = 1..n /\ DOMAIN t = 1..Len(t)
      /\ DOMAIN c = 1..(n + Len(t))
      /\ \A x \in 1..n : c[x] = s[x]
      /\ \A x \in 1..Len(t) : c[n + x] = t[x]
  OBVIOUS
<1> HIDE DEF c, n
<1>2. ASSUME NEW x \in DOMAIN c, x \notin 1..n
      PROVE  \E y \in 1..Len(t) : x = n + y
  <2>1. x - n \in 1..Len(t) /\ x = n + (x - n)
    BY <1>1, <1>2
  <2>2. QED BY <2>1
<1> SUFFICES ASSUME NEW x \in DOMAIN c, NEW y \in DOMAIN c,
                    NEW k \in DOMAIN c[x].marks, NEW l \in DOMAIN c[y].marks,
                    <<c[x].marks[k], c[y].marks[l]>> \in pairs
             PROVE  Precedes(c, x, k, y, l)
  BY DEF Ordered, c
<1>3. CASE x \in 1..n /\ y \in 1..n
  <2>1. Precedes(s, x, k, y, l)
    BY <1>1, <1>3 DEF Ordered
  <2>2. QED BY <1>1, <1>3, <2>1 DEF Precedes
<1>4. CASE x \in 1..n /\ y \notin 1..n
  <2>1. PICK b \in 1..Len(t) : y = n + b
    BY <1>2, <1>4
  <2>2. c[x] = s[x] /\ c[y] = t[b] /\ x < y
    BY <1>1, <1>4, <2>1
  <2>3. Across(s, x, k, t, b, l)
    BY <1>1, <1>4, <2>2
  <2>4. QED BY <2>2, <2>3 DEF Across, Precedes
<1>5. CASE x \notin 1..n /\ y \in 1..n
  <2>1. PICK a \in 1..Len(t) : x = n + a
    BY <1>2, <1>5
  <2>2. c[x] = t[a] /\ c[y] = s[y]
    BY <1>1, <1>5, <2>1
  <2>3. c[x].marks[k] \in MarksOf(t) /\ c[y].marks[l] \in MarksOf(s)
    BY <1>1, <1>5, <2>2, IsMark
  <2>4. QED BY <2>3
<1>6. CASE x \notin 1..n /\ y \notin 1..n
  <2>1. PICK a \in 1..Len(t) : x = n + a
    BY <1>2, <1>6
  <2>2. PICK b \in 1..Len(t) : y = n + b
    BY <1>2, <1>6
  <2>3. c[x] = t[a] /\ c[y] = t[b] /\ (a < b <=> x < y) /\ (a = b <=> x = y)
    BY <1>1, <2>1, <2>2
  <2>4. Precedes(t, a, k, b, l)
    BY <1>1, <2>3 DEF Ordered
  <2>5. QED BY <2>3, <2>4 DEF Precedes
<1>7. QED BY <1>3, <1>4, <1>5, <1>6

LEMMA NoOrder ==
  ASSUME NEW s, NEW pairs, \A m \in MarksOf(s), other \in MarksOf(s) : <<m, other>> \notin pairs
  PROVE  Ordered(s, pairs)
BY DEF Ordered, MarksOf, Range

(* What is registered first and has no part in the order.                  *)
LEMMA ApartOrder ==
  ASSUME NEW s \in Seq(Timer), NEW t \in Seq(Timer), NEW pairs, Ordered(t, pairs),
         \A m \in MarksOf(s), other \in MarksOf(s) \union MarksOf(t) :
           <<m, other>> \notin pairs /\ <<other, m>> \notin pairs
  PROVE  Ordered(s \o t, pairs)
<1>1. Ordered(s, pairs)
  BY NoOrder
<1>2. \A i \in DOMAIN s : \A k \in DOMAIN s[i].marks : s[i].marks[k] \in MarksOf(s)
  BY DEF MarksOf, Range
<1>3. \A i \in DOMAIN t : \A k \in DOMAIN t[i].marks : t[i].marks[k] \in MarksOf(t)
  BY DEF MarksOf, Range
<1>4. QED BY <1>1, <1>2, <1>3, ConcatOrder

(* The first round before the second; or, when timeouts may be more than a *)
(* second late, what leads to a link of the second before it.              *)
Leads(before, m) == m.link = <<before.host, m.host>> \/ m.link = <<m.host, before.host>>
Rounds == {pair \in MarkSet \X MarkSet :
             /\ pair[1].round = 1 /\ pair[2].round = 2
             /\ MaxLate <= 2 \/ Leads(pair[1], pair[2])}

LEMMA RoundsOf ==
  ASSUME NEW before, NEW m, <<before, m>> \in Rounds
  PROVE  before.round = 1 /\ m.round = 2 /\ (MaxLate <= 2 \/ Leads(before, m))
BY DEF Rounds

(* What leads to a link has no later place in its round.                   *)
InPlace(first, second) ==
  \A k \in DOMAIN first, l \in DOMAIN second : Leads(first[k], second[l]) => k <= l

LEMMA TwoRoundsAre ==
  ASSUME NEW first \in Seq(MarkSet), NEW second \in Seq(MarkSet),
         \A m \in Range(first) : m.round = 1, \A m \in Range(second) : m.round = 2,
         InPlace(first, second)
  PROVE  /\ TwoRounds(first, second) \in Seq(Fresh)
         /\ MarksOf(TwoRounds(first, second)) = Range(first) \union Range(second)
         /\ Ordered(TwoRounds(first, second), Rounds)
<1> DEFINE a == Series(2, first)
           b == Series(2 * Len(first) + 2, second)
           s == <<a>>
           t == <<b>>
<1>1. Len(first) \in Nat /\ 2 * Len(first) + 2 \in Nat
  OBVIOUS
<1>2. s \in Seq(Fresh) /\ t \in Seq(Fresh) /\ MarksOf(s) = Range(first) /\ MarksOf(t) = Range(second)
  BY <1>1, FreshSeries
<1>3. TwoRounds(first, second) = s \o t
  <2>1. TwoRounds(first, second) = <<a, b>>
    BY DEF TwoRounds
  <2> HIDE DEF a, b
  <2>2. <<a, b>> = <<a>> \o <<b>>
    BY OneAfterOther
  <2>3. QED BY <2>1, <2>2
<1>4. a.series /\ a.marks = first /\ a.wait = 2
  BY DEF Series
<1>5. b.series /\ b.marks = second /\ b.wait = 2 * Len(first) + 2
  BY DEF Series
<1>6. DOMAIN s = {1} /\ DOMAIN t = {1} /\ s[1] = a /\ t[1] = b
  OBVIOUS
<1> HIDE DEF a, b, s, t
<1>7. Ordered(s, Rounds) /\ Ordered(t, Rounds)
  <2>1. /\ \A m \in MarksOf(s), other \in MarksOf(s) : <<m, other>> \notin Rounds
        /\ \A m \in MarksOf(t), other \in MarksOf(t) : <<m, other>> \notin Rounds
    BY <1>2, RoundsOf
  <2>2. QED BY <2>1, NoOrder
<1>8. \A m \in MarksOf(t), before \in MarksOf(s) : <<m, before>> \notin Rounds
  BY <1>2 DEF Rounds
<1>9. ASSUME NEW i \in DOMAIN s, NEW j \in DOMAIN t,
             NEW k \in DOMAIN s[i].marks, NEW l \in DOMAIN t[j].marks,
             <<s[i].marks[k], t[j].marks[l]>> \in Rounds
      PROVE  Across(s, i, k, t, j, l)
  <2>1. i = 1 /\ j = 1 /\ k \in 1..Len(first) /\ l \in 1..Len(second) /\ Len(second) \in Nat
    BY <1>4, <1>5, <1>6
  <2>2. 2 <= 2 * Len(first) + 2 /\ 2 + 2 * k + 2 <= 2 * Len(first) + 2 + 2 * l
    BY <1>1, <2>1
  <2>3. k <= l \/ MaxLate <= 2
    BY <1>4, <1>5, <1>6, <1>9 DEF Rounds, InPlace
  <2>4. QED BY <1>4, <1>5, <1>6, <2>1, <2>2, <2>3 DEF Across
<1>10. s \in Seq(Timer) /\ t \in Seq(Timer)
  BY <1>2, FreshIs
<1>11. Ordered(s \o t, Rounds)
  BY <1>7, <1>8, <1>9, <1>10, ConcatOrder
<1>12. QED BY <1>2, <1>3, <1>11, FreshConcat

-----------------------------------------------------------------------------
(* The scripts of honeypots and gtmw.                                      *)
LEMMA NodeIsHost == Node \subseteq Host /\ Nothing \in Host /\ Nothing \in Link
                    /\ \A list \in Seq(Node) : list \in Seq(Host) /\ Range(list) \subseteq Node
<1>1. Node \subseteq Host /\ Nothing \in Host /\ Nothing \in Link
  BY DEF Host, Link
<1>2. \A list \in Seq(Node) : list \in Seq(Host) /\ Range(list) \subseteq Node
  BY <1>1 DEF Range
<1>3. QED BY <1>1, <1>2

LEMMA JustIs ==
  ASSUME NEW host \in Host, NEW w \in Nat
  PROVE  /\ Just(host) \in Seq(Fresh) /\ MarksOf(Just(host)) = Alone(host)
         /\ <<After(w, Mark(Nothing, host, 0))>> \in Seq(Fresh)
         /\ MarksOf(<<After(w, Mark(Nothing, host, 0))>>) = Alone(host)
<1>1. Mark(Nothing, host, 0) \in MarkSet
  BY NodeIsHost, MarkIs
<1> DEFINE m == Mark(Nothing, host, 0)
<1> HIDE DEF m
<1>2. \A v \in Nat : <<After(v, m)>> \in Seq(Fresh) /\ MarksOf(<<After(v, m)>>) = {m}
  BY <1>1, FreshAfter DEF m
<1>3. Just(host) = <<After(2, m)>>
  BY DEF Just, m
<1>4. QED BY <1>2, <1>3 DEF Alone, m

LEMMA OneRoundIs ==
  ASSUME NEW host \in Host, NEW ms \in Seq(MarkSet)
  PROVE  /\ Just(host) \o <<Series(2, ms)>> \in Seq(Fresh)
         /\ MarksOf(Just(host) \o <<Series(2, ms)>>) = Alone(host) \union Range(ms)
<1>1. Just(host) \in Seq(Fresh) /\ MarksOf(Just(host)) = Alone(host)
  BY JustIs
<1>2. <<Series(2, ms)>> \in Seq(Fresh) /\ MarksOf(<<Series(2, ms)>>) = Range(ms)
  BY FreshSeries
<1>3. QED BY <1>1, <1>2, FreshConcat

LEMMA VisualizeQ1Is ==
  ASSUME queried \in Host, NEW list \in Seq(Node)
  PROVE  /\ VisualizeQ1(list) \in Seq(Fresh)
         /\ MarksOf(VisualizeQ1(list)) = Alone(queried) \union InnerOf(queried, Range(list), 1)
<1>1. ToInner(queried, list, 1) \in Seq(MarkSet)
      /\ Range(ToInner(queried, list, 1)) = InnerOf(queried, Range(list), 1)
  BY NodeIsHost, ToInnerIs
<1>2. VisualizeQ1(list) = Just(queried) \o <<Series(2, ToInner(queried, list, 1))>>
  BY DEF VisualizeQ1
<1>3. QED BY <1>1, <1>2, OneRoundIs

LEMMA VisualizeQ2Is ==
  ASSUME queried \in Host, NEW list \in Seq(Node)
  PROVE  /\ VisualizeQ2(list) \in Seq(Fresh) /\ visualizeGTMWQ2(list) = VisualizeQ2(list)
         /\ MarksOf(VisualizeQ2(list)) = Alone(queried) \union OuterOf(queried, Range(list), 1)
<1>1. ToOuter(list, queried, 1) \in Seq(MarkSet)
      /\ Range(ToOuter(list, queried, 1)) = OuterOf(queried, Range(list), 1)
  BY NodeIsHost, ToOuterIs
<1>2. VisualizeQ2(list) = Just(queried) \o <<Series(2, ToOuter(list, queried, 1))>>
      /\ visualizeGTMWQ2(list) = VisualizeQ2(list)
  BY DEF VisualizeQ2, visualizeGTMWQ2
<1>3. QED BY <1>1, <1>2, OneRoundIs

(* The marks of the second round: links from a to each host of of[a].      *)
Victims(S, of) == UNION {InnerOf(a, Range(of[a]), 2) : a \in S}
Users(S, of) == UNION {OuterOf(u, Range(of[u]), 2) : u \in S}

LEMMA VictimMarks ==
  ASSUME NEW keys \in Seq(Node), NEW of, \A a \in Range(keys) : of[a] \in Seq(Node)
  PROVE  LET ms == FlattenSeq([i \in DOMAIN keys |-> ToInner(keys[i], of[keys[i]], 2)]) IN
           ms \in Seq(MarkSet) /\ Range(ms) = Victims(Range(keys), of)
<1> DEFINE n == Len(keys)
           f == [i \in 1..n |-> ToInner(keys[i], of[keys[i]], 2)]
           ms == FlattenSeq([i \in DOMAIN keys |-> ToInner(keys[i], of[keys[i]], 2)])
<1>1. n \in Nat /\ DOMAIN keys = 1..n /\ Range(keys) = {keys[i] : i \in 1..n}
  BY DEF Range
<1>2. ASSUME NEW i \in 1..n
      PROVE  f[i] \in Seq(MarkSet) /\ Range(f[i]) = InnerOf(keys[i], Range(of[keys[i]]), 2)
  <2>1. f[i] = ToInner(keys[i], of[keys[i]], 2)
    OBVIOUS
  <2>2. keys[i] \in Node /\ of[keys[i]] \in Seq(Node)
    BY <1>1
  <2>3. keys[i] \in Host /\ of[keys[i]] \in Seq(Host)
    BY <2>2, NodeIsHost
  <2> HIDE DEF f
  <2>4. QED BY <2>1, <2>3, ToInnerIs
<1>3. ms = FlattenSeq([i \in 1..n |-> f[i]])
  BY <1>1
<1> HIDE DEF f, n, ms
<1>4. ms \in Seq(MarkSet) /\ Range(ms) = UNION {Range(f[i]) : i \in 1..n}
  BY <1>1, <1>2, <1>3, JoinedMarks
<1>5. {Range(f[i]) : i \in 1..n} = {InnerOf(a, Range(of[a]), 2) : a \in Range(keys)}
  BY <1>1, <1>2
<1>6. QED BY <1>4, <1>5 DEF Victims, ms

LEMMA UserMarks ==
  ASSUME NEW urls \in Seq(Node), NEW apps, \A u \in Range(urls) : apps[u] \in Seq(Node)
  PROVE  Visitors(apps, urls) \in Seq(MarkSet) /\ Range(Visitors(apps, urls)) = Users(Range(urls), apps)
<1> DEFINE n == Len(urls)
           f == [i \in 1..n |-> ToOuter(apps[urls[i]], urls[i], 2)]
           ms == Visitors(apps, urls)
<1>1. n \in Nat /\ DOMAIN urls = 1..n /\ Range(urls) = {urls[i] : i \in 1..n}
  BY DEF Range
<1>2. ASSUME NEW i \in 1..n
      PROVE  f[i] \in Seq(MarkSet) /\ Range(f[i]) = OuterOf(urls[i], Range(apps[urls[i]]), 2)
  <2>1. f[i] = ToOuter(apps[urls[i]], urls[i], 2)
    OBVIOUS
  <2>2. urls[i] \in Node /\ apps[urls[i]] \in Seq(Node)
    BY <1>1
  <2>3. urls[i] \in Host /\ apps[urls[i]] \in Seq(Host)
    BY <2>2, NodeIsHost
  <2> HIDE DEF f
  <2>4. QED BY <2>1, <2>3, ToOuterIs
<1>3. ms = FlattenSeq([i \in 1..n |-> f[i]])
  BY <1>1 DEF Visitors
<1> HIDE DEF f, n, ms
<1>4. ms \in Seq(MarkSet) /\ Range(ms) = UNION {Range(f[i]) : i \in 1..n}
  BY <1>1, <1>2, <1>3, JoinedMarks
<1>5. {Range(f[i]) : i \in 1..n} = {OuterOf(u, Range(apps[u]), 2) : u \in Range(urls)}
  BY <1>1, <1>2
<1>6. QED BY <1>4, <1>5 DEF Users, ms

(* The links of a host come at its own place in the first round or later,  *)
(* as each host before it has one.                                         *)
LEMMA VictimsInPlace ==
  ASSUME NEW keys \in Seq(Node), IsInjective(keys), NEW of, NEW host,
         \A a \in Range(keys) : of[a] \in Seq(Node) /\ of[a] # <<>>
  PROVE  InPlace(ToOuter(keys, host, 1),
                 FlattenSeq([i \in DOMAIN keys |-> ToInner(keys[i], of[keys[i]], 2)]))
<1> DEFINE n == Len(keys)
           f == [i \in 1..n |-> ToInner(keys[i], of[keys[i]], 2)]
           first == ToOuter(keys, host, 1)
           second == FlattenSeq([i \in DOMAIN keys |-> ToInner(keys[i], of[keys[i]], 2)])
<1>1. n \in Nat /\ DOMAIN keys = 1..n /\ Range(keys) = {keys[i] : i \in 1..n}
  BY DEF Range
<1>2. ASSUME NEW i \in 1..n
      PROVE  /\ f[i] \in Seq(MarkSet) /\ f[i] # <<>>
             /\ Range(f[i]) = InnerOf(keys[i], Range(of[keys[i]]), 2)
  <2>1. f[i] = ToInner(keys[i], of[keys[i]], 2)
    OBVIOUS
  <2>2. keys[i] \in Node /\ of[keys[i]] \in Seq(Node) /\ of[keys[i]] # <<>>
    BY <1>1
  <2>3. keys[i] \in Host /\ of[keys[i]] \in Seq(Host)
    BY <2>2, NodeIsHost
  <2> HIDE DEF f
  <2>4. f[i] \in Seq(MarkSet) /\ Range(f[i]) = InnerOf(keys[i], Range(of[keys[i]]), 2)
    BY <2>1, <2>3, ToInnerIs
  <2>5. DOMAIN f[i] = DOMAIN of[keys[i]] /\ DOMAIN of[keys[i]] # {}
    BY <2>1, <2>2 DEF ToInner
  <2>6. QED BY <2>4, <2>5
<1>3. second = FlattenSeq([i \in 1..n |-> f[i]])
  BY <1>1
<1>4. DOMAIN first = 1..n /\ \A k \in 1..n : first[k].host = keys[k]
  BY <1>1 DEF ToOuter, Mark
<1> HIDE DEF f, n, first, second
<1>5. ASSUME NEW k \in DOMAIN first, NEW l \in DOMAIN second, Leads(first[k], second[l])
      PROVE  k <= l
  <2>1. PICK i \in 1..n : i <= l /\ second[l] \in Range(f[i])
    BY <1>1, <1>2, <1>3, JoinedInOrder
  <2>2. PICK v : second[l] = Mark(<<keys[i], v>>, v, 2)
    BY <1>2, <2>1 DEF InnerOf
  <2>3. keys[i] = keys[k]
    BY <1>4, <1>5, <2>2, MarkFields DEF Leads
  <2>4. i = k
    BY <1>1, <1>4, <2>3 DEF IsInjective
  <2>5. QED BY <2>1, <2>4
<1>6. InPlace(first, second)
  BY <1>5 DEF InPlace
<1>7. QED BY <1>6 DEF first, second

LEMMA UsersInPlace ==
  ASSUME NEW urls \in Seq(Node), IsInjective(urls), NEW apps, NEW app,
         \A u \in Range(urls) : apps[u] \in Seq(Node) /\ apps[u] # <<>>
  PROVE  InPlace(ToInner(app, urls, 1), Visitors(apps, urls))
<1> DEFINE n == Len(urls)
           f == [i \in 1..n |-> ToOuter(apps[urls[i]], urls[i], 2)]
           first == ToInner(app, urls, 1)
           second == Visitors(apps, urls)
<1>1. n \in Nat /\ DOMAIN urls = 1..n /\ Range(urls) = {urls[i] : i \in 1..n}
  BY DEF Range
<1>2. ASSUME NEW i \in 1..n
      PROVE  /\ f[i] \in Seq(MarkSet) /\ f[i] # <<>>
             /\ Range(f[i]) = OuterOf(urls[i], Range(apps[urls[i]]), 2)
  <2>1. f[i] = ToOuter(apps[urls[i]], urls[i], 2)
    OBVIOUS
  <2>2. urls[i] \in Node /\ apps[urls[i]] \in Seq(Node) /\ apps[urls[i]] # <<>>
    BY <1>1
  <2>3. urls[i] \in Host /\ apps[urls[i]] \in Seq(Host)
    BY <2>2, NodeIsHost
  <2> HIDE DEF f
  <2>4. f[i] \in Seq(MarkSet) /\ Range(f[i]) = OuterOf(urls[i], Range(apps[urls[i]]), 2)
    BY <2>1, <2>3, ToOuterIs
  <2>5. DOMAIN f[i] = DOMAIN apps[urls[i]] /\ DOMAIN apps[urls[i]] # {}
    BY <2>1, <2>2 DEF ToOuter
  <2>6. QED BY <2>4, <2>5
<1>3. second = FlattenSeq([i \in 1..n |-> f[i]])
  BY <1>1 DEF Visitors
<1>4. DOMAIN first = 1..n /\ \A k \in 1..n : first[k].host = urls[k]
  BY <1>1 DEF ToInner, Mark
<1> HIDE DEF f, n, first, second
<1>5. ASSUME NEW k \in DOMAIN first, NEW l \in DOMAIN second, Leads(first[k], second[l])
      PROVE  k <= l
  <2>1. PICK i \in 1..n : i <= l /\ second[l] \in Range(f[i])
    BY <1>1, <1>2, <1>3, JoinedInOrder
  <2>2. PICK v : second[l] = Mark(<<v, urls[i]>>, v, 2)
    BY <1>2, <2>1 DEF OuterOf
  <2>3. urls[i] = urls[k]
    BY <1>4, <1>5, <2>2, MarkFields DEF Leads
  <2>4. i = k
    BY <1>1, <1>4, <2>3 DEF IsInjective
  <2>5. QED BY <2>1, <2>4
<1>6. InPlace(first, second)
  BY <1>5 DEF InPlace
<1>7. QED BY <1>6 DEF first, second

(* A script of two rounds after marks of no round.                         *)
LEMMA TwoRoundScript ==
  ASSUME NEW s \in Seq(Fresh), \A m \in MarksOf(s) : m.round = 0,
         NEW first \in Seq(MarkSet), NEW second \in Seq(MarkSet),
         \A m \in Range(first) : m.round = 1, \A m \in Range(second) : m.round = 2,
         InPlace(first, second)
  PROVE  /\ s \o TwoRounds(first, second) \in Seq(Fresh)
         /\ MarksOf(s \o TwoRounds(first, second)) = MarksOf(s) \union Range(first) \union Range(second)
         /\ Ordered(s \o TwoRounds(first, second), Rounds)
<1> DEFINE t == TwoRounds(first, second)
<1>1. t \in Seq(Fresh) /\ MarksOf(t) = Range(first) \union Range(second) /\ Ordered(t, Rounds)
  BY TwoRoundsAre
<1> HIDE DEF t
<1>2. s \o t \in Seq(Fresh) /\ MarksOf(s \o t) = MarksOf(s) \union MarksOf(t)
  BY <1>1, FreshConcat
<1>3. s \in Seq(Timer) /\ t \in Seq(Timer)
  BY <1>1, FreshIs
<1>4. \A m \in MarksOf(s), other \in MarksOf(s) \union MarksOf(t) :
        <<m, other>> \notin Rounds /\ <<other, m>> \notin Rounds
  BY DEF Rounds
<1>5. Ordered(s \o t, Rounds)
  BY <1>1, <1>3, <1>4, ApartOrder
<1>6. QED BY <1>1, <1>2, <1>5 DEF t

LEMMA VisualizeQ3Is ==
  ASSUME queried \in Host, NEW keys \in Seq(Node), IsInjective(keys), NEW of,
         \A a \in Range(keys) : of[a] \in Seq(Node) /\ of[a] # <<>>
  PROVE  /\ VisualizeQ3(keys, of) \in Seq(Fresh)
         /\ MarksOf(VisualizeQ3(keys, of))
              = Alone(queried) \union OuterOf(queried, Range(keys), 1) \union Victims(Range(keys), of)
         /\ Ordered(VisualizeQ3(keys, of), Rounds)
<1> DEFINE first == ToOuter(keys, queried, 1)
           second == FlattenSeq([i \in DOMAIN keys |-> ToInner(keys[i], of[keys[i]], 2)])
           s == <<After(3, Mark(Nothing, queried, 0))>>
<1>1. first \in Seq(MarkSet) /\ Range(first) = OuterOf(queried, Range(keys), 1)
  BY NodeIsHost, ToOuterIs
<1>2. second \in Seq(MarkSet) /\ Range(second) = Victims(Range(keys), of)
  BY VictimMarks
<1>3. s \in Seq(Fresh) /\ MarksOf(s) = Alone(queried)
  BY JustIs
<1>4. VisualizeQ3(keys, of) = s \o TwoRounds(first, second)
  BY DEF VisualizeQ3
<1>5. InPlace(first, second)
  BY VictimsInPlace
<1> HIDE DEF first, second, s
<1>6. /\ \A m \in MarksOf(s) : m.round = 0
      /\ \A m \in Range(first) : m.round = 1
      /\ \A m \in Range(second) : m.round = 2
  BY <1>1, <1>2, <1>3, RoundsAre DEF Victims
<1> DEFINE all == s \o TwoRounds(first, second)
<1>7. all \in Seq(Fresh) /\ MarksOf(all) = MarksOf(s) \union Range(first) \union Range(second)
      /\ Ordered(all, Rounds)
  BY <1>1, <1>2, <1>3, <1>6, <1>5, TwoRoundScript
<1>8. QED BY <1>1, <1>2, <1>3, <1>4, <1>7

LEMMA VisualizeQ3CutIs ==
  ASSUME queried \in Host, NEW keys \in Seq(Node)
  PROVE  /\ VisualizeQ3Cut(keys) \in Seq(Fresh)
         /\ MarksOf(VisualizeQ3Cut(keys)) = Alone(queried) \union OuterOf(queried, Range(keys), 1)
<1> DEFINE first == ToOuter(keys, queried, 1)
           a == After(3, Mark(Nothing, queried, 0))
           b == Series(2, first)
<1>1. first \in Seq(MarkSet) /\ Range(first) = OuterOf(queried, Range(keys), 1)
  BY NodeIsHost, ToOuterIs
<1>2. <<a>> \in Seq(Fresh) /\ MarksOf(<<a>>) = Alone(queried)
  BY JustIs
<1>3. VisualizeQ3Cut(keys) = <<a, b>>
  BY DEF VisualizeQ3Cut
<1>4. <<b>> \in Seq(Fresh) /\ MarksOf(<<b>>) = Range(first)
  <2> HIDE DEF first
  <2>1. QED BY <1>1, FreshSeries
<1> HIDE DEF a, b, first
<1>5. VisualizeQ3Cut(keys) = <<a>> \o <<b>>
  BY <1>3, OneAfterOther
<1>6. QED BY <1>1, <1>2, <1>4, <1>5, FreshConcat

(* The URLs of an answer of gtmw.                                          *)
LEMMA UrlsAre ==
  ASSUME NEW apps, DOMAIN apps \subseteq Node, IsFiniteSet(DOMAIN apps)
  PROVE  /\ SetToSeq(DOMAIN apps) \in Seq(Node) /\ IsInjective(SetToSeq(DOMAIN apps))
         /\ Range(SetToSeq(DOMAIN apps)) = DOMAIN apps
<1> DEFINE urls == SetToSeq(DOMAIN apps)
<1>1. urls \in Seq(DOMAIN apps) /\ ToSet(urls) = DOMAIN apps /\ IsInjective(urls)
  BY ListsAll
<1> HIDE DEF urls
<1>2. urls \in Seq(Node)
  BY <1>1
<1>3. QED BY <1>1, <1>2 DEF ToSet, Range, urls

LEMMA VisualizeGTMWQ1Is ==
  ASSUME queried \in Host, NEW apps, DOMAIN apps \subseteq Node, IsFiniteSet(DOMAIN apps),
         \A u \in DOMAIN apps : apps[u] \in Seq(Node) /\ apps[u] # <<>>
  PROVE  /\ visualizeGTMWQ1(apps) \in Seq(Fresh)
         /\ MarksOf(visualizeGTMWQ1(apps))
              = Alone(queried) \union InnerOf(queried, DOMAIN apps, 1) \union Users(DOMAIN apps, apps)
         /\ Ordered(visualizeGTMWQ1(apps), Rounds)
<1> DEFINE urls == SetToSeq(DOMAIN apps)
           first == ToInner(queried, urls, 1)
           second == Visitors(apps, urls)
           s == Just(queried) \o Just(queried)
<1>1. urls \in Seq(Node) /\ Range(urls) = DOMAIN apps /\ IsInjective(urls)
  BY UrlsAre
<1>2. visualizeGTMWQ1(apps) = Just(queried) \o Just(queried) \o TwoRounds(first, second)
  BY DEF visualizeGTMWQ1
<1>3. Just(queried) \in Seq(Fresh) /\ MarksOf(Just(queried)) = Alone(queried)
  BY JustIs
<1>4. s \in Seq(Fresh) /\ MarksOf(s) = Alone(queried)
  BY <1>3, FreshConcat
<1> HIDE DEF urls
<1>5. first \in Seq(MarkSet) /\ Range(first) = InnerOf(queried, DOMAIN apps, 1)
  BY <1>1, NodeIsHost, ToInnerIs
<1>6. second \in Seq(MarkSet) /\ Range(second) = Users(DOMAIN apps, apps)
  BY <1>1, UserMarks
<1>7. InPlace(first, second)
  BY <1>1, UsersInPlace
<1> HIDE DEF first, second
<1>8. visualizeGTMWQ1(apps) = s \o TwoRounds(first, second)
  BY <1>2
<1> HIDE DEF s
<1>9. /\ \A m \in MarksOf(s) : m.round = 0
      /\ \A m \in Range(first) : m.round = 1
      /\ \A m \in Range(second) : m.round = 2
  BY <1>4, <1>5, <1>6, RoundsAre DEF Users
<1> DEFINE all == s \o TwoRounds(first, second)
<1>10. all \in Seq(Fresh) /\ MarksOf(all) = MarksOf(s) \union Range(first) \union Range(second)
      /\ Ordered(all, Rounds)
  BY <1>4, <1>5, <1>6, <1>9, <1>7, TwoRoundScript
<1>11. QED BY <1>4, <1>5, <1>6, <1>8, <1>10

(* Hosts or links one after another, then a series.                        *)
LEMMA SpreadThenSeries ==
  ASSUME NEW ms \in Seq(MarkSet), NEW w \in Nat, NEW list \in Seq(MarkSet), NEW pairs,
         Ordered(Spread(ms), pairs), Ordered(<<Series(w, list)>>, pairs),
         \A k \in 1..Len(ms), l \in 1..Len(list) :
           /\ <<ms[k], list[l]>> \in pairs => 2 * k <= w + 2 * l
           /\ <<list[l], ms[k]>> \notin pairs
  PROVE  /\ Spread(ms) \o <<Series(w, list)>> \in Seq(Fresh)
         /\ MarksOf(Spread(ms) \o <<Series(w, list)>>) = Range(ms) \union Range(list)
         /\ Ordered(Spread(ms) \o <<Series(w, list)>>, pairs)
<1> DEFINE s == Spread(ms)
           b == Series(w, list)
           t == <<b>>
<1>1. s \in Seq(Fresh) /\ t \in Seq(Fresh) /\ MarksOf(s) = Range(ms) /\ MarksOf(t) = Range(list)
  BY FreshSpread, FreshSeries
<1>2. Len(s) = Len(ms) /\ \A k \in 1..Len(ms) : s[k] = After(2 * k, ms[k])
  BY SpreadIs
<1>3. b.series /\ b.marks = list /\ b.wait = w /\ DOMAIN t = {1} /\ t[1] = b
  BY DEF Series
<1>4. Ordered(s, pairs) /\ Ordered(t, pairs)
  OBVIOUS
<1> HIDE DEF s, b, t
<1>5. Len(ms) \in Nat /\ Len(list) \in Nat /\ DOMAIN s = 1..Len(ms)
      /\ Range(ms) = {ms[k] : k \in 1..Len(ms)} /\ Range(list) = {list[k] : k \in 1..Len(list)}
  <2>1. Len(ms) \in Nat /\ Len(list) \in Nat /\ DOMAIN ms = 1..Len(ms) /\ DOMAIN list = 1..Len(list)
    OBVIOUS
  <2>2. DOMAIN s = 1..Len(ms)
    BY <1>1, <1>2
  <2>3. QED BY <2>1, <2>2 DEF Range
<1>6. \A m \in MarksOf(t), before \in MarksOf(s) : <<m, before>> \notin pairs
  BY <1>1, <1>5
<1>7. ASSUME NEW i \in DOMAIN s, NEW j \in DOMAIN t,
             NEW k \in DOMAIN s[i].marks, NEW l \in DOMAIN t[j].marks,
             <<s[i].marks[k], t[j].marks[l]>> \in pairs
      PROVE  Across(s, i, k, t, j, l)
  <2>1. ~ s[i].series /\ s[i].wait = 2 * i /\ s[i].marks[k] = ms[i]
    BY <1>2, <1>5 DEF After
  <2>2. t[j].series /\ t[j].wait = w /\ l \in 1..Len(list) /\ t[j].marks[l] = list[l]
    BY <1>3
  <2>3. 2 * i <= w + 2 * l
    BY <1>5, <1>7, <2>1, <2>2
  <2>4. QED BY <2>1, <2>2, <2>3 DEF Across
<1>8. s \in Seq(Timer) /\ t \in Seq(Timer)
  BY <1>1, FreshIs
<1>9. Ordered(s \o t, pairs)
  BY <1>4, <1>6, <1>7, <1>8, ConcatOrder
<1>10. s \o t \in Seq(Fresh) /\ MarksOf(s \o t) = MarksOf(s) \union MarksOf(t)
  BY <1>1, FreshConcat
<1>11. QED BY <1>1, <1>9, <1>10 DEF s, t, b

(* The hosts of a list, without links.                                     *)
HostsAlone(S, r) == {Mark(Nothing, h, r) : h \in S}
AloneEach(list, r) == [i \in DOMAIN list |-> Mark(Nothing, list[i], r)]
AfterEach(list, r) == [i \in DOMAIN list |-> After(2 * i, Mark(Nothing, list[i], r))]

LEMMA HostsAloneAre ==
  ASSUME NEW list \in Seq(Host), NEW r \in 0..2
  PROVE  /\ AloneEach(list, r) \in Seq(MarkSet) /\ Len(AloneEach(list, r)) = Len(list)
         /\ Range(AloneEach(list, r)) = HostsAlone(Range(list), r)
         /\ AfterEach(list, r) = Spread(AloneEach(list, r))
<1> DEFINE ms == [i \in DOMAIN list |-> Mark(Nothing, list[i], r)]
<1>1. DOMAIN list = 1..Len(list) /\ Len(list) \in Nat /\ \A i \in DOMAIN list : list[i] \in Host
  OBVIOUS
<1>2. \A i \in 1..Len(list) : ms[i] = Mark(Nothing, list[i], r) /\ Mark(Nothing, list[i], r) \in MarkSet
  BY <1>1, NodeIsHost, MarkIs
<1>3. ms \in Seq(MarkSet) /\ Len(ms) = Len(list)
  <2>1. ms = [i \in 1..Len(list) |-> ms[i]]
    BY <1>1
  <2> HIDE DEF ms
  <2>2. QED BY <1>1, <1>2, <2>1
<1>4. Range(ms) = {Mark(Nothing, list[i], r) : i \in 1..Len(list)}
  BY <1>1 DEF Range
<1>5. Range(list) = {list[i] : i \in 1..Len(list)}
  BY <1>1 DEF Range
<1>6. [i \in DOMAIN list |-> After(2 * i, Mark(Nothing, list[i], r))] = Spread(ms)
  <2>1. DOMAIN ms = DOMAIN list
    OBVIOUS
  <2>2. \A i \in DOMAIN list : After(2 * i, Mark(Nothing, list[i], r)) = After(2 * i, ms[i])
    OBVIOUS
  <2> HIDE DEF ms
  <2>3. QED BY <2>1, <2>2 DEF Spread
<1>7. QED BY <1>3, <1>4, <1>5, <1>6 DEF HostsAlone, AloneEach, AfterEach

LEMMA VisualizeGTMWQ3Is ==
  ASSUME NEW apps, DOMAIN apps \subseteq Node, IsFiniteSet(DOMAIN apps),
         \A u \in DOMAIN apps : apps[u] \in Seq(Node)
  PROVE  /\ visualizeGTMWQ3(apps) \in Seq(Fresh)
         /\ MarksOf(visualizeGTMWQ3(apps)) = HostsAlone(DOMAIN apps, 1) \union Users(DOMAIN apps, apps)
         /\ Ordered(visualizeGTMWQ3(apps), Rounds)
<1> DEFINE urls == SetToSeq(DOMAIN apps)
           first == AloneEach(urls, 1)
           second == Visitors(apps, urls)
           w == 2 * (Len(urls) + 1)
<1>1. urls \in Seq(Node) /\ Range(urls) = DOMAIN apps
  BY UrlsAre
<1>2. visualizeGTMWQ3(apps) = AfterEach(urls, 1) \o <<Series(w, second)>>
  BY DEF visualizeGTMWQ3, AfterEach
<1> HIDE DEF urls
<1>3. second \in Seq(MarkSet) /\ Range(second) = Users(DOMAIN apps, apps)
  BY <1>1, UserMarks
<1>4. /\ first \in Seq(MarkSet) /\ Range(first) = HostsAlone(DOMAIN apps, 1)
      /\ visualizeGTMWQ3(apps) = Spread(first) \o <<Series(w, second)>>
      /\ Len(first) = Len(urls)
  <2>1. urls \in Seq(Host)
    BY <1>1, NodeIsHost
  <2>2. first \in Seq(MarkSet) /\ Range(first) = HostsAlone(Range(urls), 1)
        /\ AfterEach(urls, 1) = Spread(first) /\ Len(first) = Len(urls)
    BY <2>1, HostsAloneAre
  <2>3. QED BY <1>1, <1>2, <2>2
<1>5. w \in Nat /\ Len(first) = Len(urls) /\ Len(urls) \in Nat
  BY <1>1, <1>4
<1> HIDE DEF first, second
<1>6. \A m \in Range(first) : m.round = 1
  BY <1>4 DEF HostsAlone, Mark
<1>7. \A m \in Range(second) : m.round = 2
  BY <1>3, RoundsAre DEF Users
<1>8. Ordered(Spread(first), Rounds)
  <2>1. MarksOf(Spread(first)) = Range(first)
    BY <1>4, FreshSpread
  <2>2. QED BY <1>6, <2>1, NoOrder DEF Rounds
<1>9. Ordered(<<Series(w, second)>>, Rounds)
  <2>1. MarksOf(<<Series(w, second)>>) = Range(second)
    BY <1>3, <1>5, FreshSeries
  <2>2. QED BY <1>7, <2>1, NoOrder DEF Rounds
<1>10. ASSUME NEW k \in 1..Len(first), NEW l \in 1..Len(second)
       PROVE  2 * k <= w + 2 * l /\ <<second[l], first[k]>> \notin Rounds
  <2>1. Len(second) \in Nat /\ first[k] \in Range(first)
    BY <1>3, <1>4 DEF Range
  <2>2. QED BY <1>5, <1>6, <2>1 DEF Rounds
<1> DEFINE all == Spread(first) \o <<Series(w, second)>>
<1> HIDE DEF w
<1>11. all \in Seq(Fresh) /\ MarksOf(all) = Range(first) \union Range(second) /\ Ordered(all, Rounds)
  BY <1>3, <1>4, <1>5, <1>8, <1>9, <1>10, SpreadThenSeries
<1>12. QED BY <1>3, <1>4, <1>11

-----------------------------------------------------------------------------
(* A loop over a list keeps the members that are in a set.                 *)
Picks(n, g, list, set) ==
  g = [i \in 0..n |-> IF i = 0 THEN <<>>
                      ELSE IF list[i] \in set THEN Append(g[i - 1], list[i]) ELSE g[i - 1]]

LEMMA SomethingPicks ==
  ASSUME NEW n \in Nat, NEW list, NEW set
  PROVE  \E g : Picks(n, g, list, set)
<1> DEFINE S == {m \in Nat : \E g : Picks(m, g, list, set)}
<1>1. 0 \in S
  <2> DEFINE g == [i \in 0..0 |-> <<>>]
  <2>1. \A i \in 0..0 : g[i] = IF i = 0 THEN <<>>
                      ELSE IF list[i] \in set THEN Append(g[i - 1], list[i]) ELSE g[i - 1]
    OBVIOUS
  <2>2. g = [i \in 0..0 |-> g[i]]
    OBVIOUS
  <2> HIDE DEF g
  <2>3. Picks(0, g, list, set)
    BY <2>1, <2>2 DEF Picks
  <2>4. QED BY <2>3
<1>2. ASSUME NEW m \in Nat, m \in S
      PROVE  m + 1 \in S
  <2>1. PICK g : Picks(m, g, list, set)
    BY <1>2
  <2> DEFINE last == IF list[m + 1] \in set THEN Append(g[m], list[m + 1]) ELSE g[m]
  <2> HIDE DEF last
  <2> DEFINE h == [i \in 0..(m + 1) |-> IF i = m + 1 THEN last ELSE g[i]]
  <2>2. h[m + 1] = last /\ \A i \in 0..m : h[i] = g[i]
    OBVIOUS
  <2>3. \A i \in 0..m : g[i] = IF i = 0 THEN <<>>
                      ELSE IF list[i] \in set THEN Append(g[i - 1], list[i]) ELSE g[i - 1]
    BY <2>1 DEF Picks
  <2>4. h = [i \in 0..(m + 1) |-> h[i]]
    OBVIOUS
  <2> HIDE DEF h
  <2>5. \A i \in 0..(m + 1) : h[i] = IF i = 0 THEN <<>>
                      ELSE IF list[i] \in set THEN Append(h[i - 1], list[i]) ELSE h[i - 1]
    <3> TAKE i \in 0..(m + 1)
    <3>1. CASE i = m + 1
      <4>1. i # 0 /\ i - 1 \in 0..m /\ i - 1 = m
        BY <3>1
      <4>2. QED BY <2>2, <3>1, <4>1 DEF last
    <3>2. CASE i # m + 1
      <4>1. i \in 0..m /\ (i # 0 => i - 1 \in 0..m)
        BY <3>2
      <4>2. QED BY <2>2, <2>3, <4>1
    <3>3. QED BY <3>1, <3>2
  <2>6. Picks(m + 1, h, list, set)
    BY <2>4, <2>5 DEF Picks
  <2>7. QED BY <2>6
<1>3. Nat \subseteq S
  <2> HIDE DEF S
  <2>1. QED BY <1>1, <1>2, SetInduction
<1>4. QED BY <1>3

LEMMA OnlyIs ==
  ASSUME NEW T, NEW list \in Seq(T), NEW set
  PROVE  /\ Only(list, set) \in Seq(T)
         /\ Range(Only(list, set)) = Range(list) \intersect set
         /\ IsInjective(list) => IsInjective(Only(list, set))
<1> DEFINE n == Len(list)
           g == CHOOSE f : Picks(n, f, list, set)
<1>1. n \in Nat /\ DOMAIN list = 1..n /\ \A i \in 1..n : list[i] \in T
  OBVIOUS
<1>2. Only(list, set) = g[n]
  BY DEF Only, Picks
<1>3. Picks(n, g, list, set)
  BY <1>1, SomethingPicks
<1> HIDE DEF n, g
<1>4. /\ g[0] = <<>>
      /\ \A k \in Nat : k + 1 <= n =>
           g[k + 1] = IF list[k + 1] \in set THEN Append(g[k], list[k + 1]) ELSE g[k]
  <2>1. \A i \in 0..n : g[i] = IF i = 0 THEN <<>>
                      ELSE IF list[i] \in set THEN Append(g[i - 1], list[i]) ELSE g[i - 1]
    BY <1>3 DEF Picks
  <2>2. 0 \in 0..n /\ \A k \in Nat : k + 1 <= n => k + 1 \in 0..n /\ k + 1 # 0 /\ (k + 1) - 1 = k
    BY <1>1
  <2>3. QED BY <2>1, <2>2
<1> DEFINE Kept(k) == {list[i] : i \in 1..k} \intersect set
           Is(k) == /\ g[k] \in Seq(T) /\ Range(g[k]) = Kept(k)
                    /\ IsInjective(list) => IsInjective(g[k])
           S == {k \in Nat : k <= n => Is(k)}
<1>5. 0 \in S
  <2>1. <<>> \in Seq(T) /\ Range(<<>>) = {} /\ IsInjective(<<>>)
    BY DEF Range, IsInjective
  <2>2. Kept(0) = {}
    OBVIOUS
  <2>3. QED BY <1>4, <2>1, <2>2
<1>6. ASSUME NEW k \in Nat, k \in S
      PROVE  k + 1 \in S
  <2> SUFFICES ASSUME k + 1 <= n PROVE Is(k + 1)
    OBVIOUS
  <2>1. Is(k) /\ k + 1 \in 1..n /\ list[k + 1] \in T
    BY <1>1, <1>6
  <2>2. {list[i] : i \in 1..(k + 1)} = {list[i] : i \in 1..k} \union {list[k + 1]}
    <3>1. \A i \in 1..(k + 1) : i \in 1..k \/ i = k + 1
      OBVIOUS
    <3>2. k + 1 \in 1..(k + 1) /\ \A i \in 1..k : i \in 1..(k + 1)
      OBVIOUS
    <3>3. QED BY <3>1, <3>2
  <2>3. CASE list[k + 1] \in set
    <3>1. g[k + 1] = Append(g[k], list[k + 1])
      BY <1>4, <2>3
    <3>2. Kept(k + 1) = Kept(k) \union {list[k + 1]}
      BY <2>2, <2>3
    <3>3. IsInjective(list) => list[k + 1] \notin Kept(k)
      <4>1. \A i \in 1..k : i \in 1..n /\ i # k + 1
        BY <1>1, <2>1
      <4>2. QED BY <1>1, <2>1, <4>1 DEF IsInjective
    <3> HIDE DEF Kept
    <3>4. g[k] \in Seq(T) /\ list[k + 1] \in T
      BY <2>1
    <3>5. /\ Append(g[k], list[k + 1]) \in Seq(T)
          /\ Range(Append(g[k], list[k + 1])) = Range(g[k]) \union {list[k + 1]}
          /\ IsInjective(g[k]) /\ list[k + 1] \notin Range(g[k])
               => IsInjective(Append(g[k], list[k + 1]))
      BY <3>4, AppendIs
    <3>6. QED BY <2>1, <3>1, <3>2, <3>3, <3>5
  <2>4. CASE list[k + 1] \notin set
    <3>1. g[k + 1] = g[k] /\ Kept(k + 1) = Kept(k)
      BY <1>4, <2>2, <2>4
    <3>2. QED BY <2>1, <3>1
  <2>5. QED BY <2>3, <2>4
<1>7. Is(n)
  <2> HIDE DEF Is
  <2>1. Nat \subseteq S
    <3> HIDE DEF S
    <3>1. QED BY <1>5, <1>6, SetInduction
  <2>2. QED BY <1>1, <2>1
<1>8. Range(list) = {list[i] : i \in 1..n}
  BY <1>1 DEF Range
<1>9. QED BY <1>2, <1>7, <1>8

-----------------------------------------------------------------------------
(* The search of a nids page.  Its literals name no link twice.            *)
Literal == IF page = "nidsQ1" THEN CannedPaths ELSE IF page = "nidsQ3" THEN CannedDamages ELSE <<>>
Places == {queried} \union {Near(l) : l \in Range(graph)} \union {Far(l) : l \in Range(graph)}
Met == searched \union Range(queue)

LEMMA ListIs ==
  ASSUME NEW n \in Nat, NEW s, NEW T, s = [i \in 1..n |-> s[i]], \A i \in 1..n : s[i] \in T
  PROVE  s \in Seq(T)
OBVIOUS

LEMMA PathsAre ==
  /\ CannedPaths \in Seq(CaseTwo) /\ IsInjective(CannedPaths)
  /\ \A l \in Range(CannedPaths) : l = <<l[1], l[2]>>
<1>1. DOMAIN CannedPaths = 1..12 /\ CannedPaths = [i \in 1..12 |-> CannedPaths[i]]
  BY DEF CannedPaths
<1>2. \A i \in 1..12 : i = 1 \/ i = 2 \/ i = 3 \/ i = 4 \/ i = 5 \/ i = 6 \/ i = 7 \/ i = 8 \/ i = 9
                       \/ i = 10 \/ i = 11 \/ i = 12
  OBVIOUS
<1>3. CannedPaths \in Seq(CaseTwo)
  <2>1. \A i \in 1..12 : CannedPaths[i] \in CaseTwo
    BY <1>1 DEF CaseTwo, Range
  <2>2. QED BY <1>1, <2>1, ListIs
<1>4. IsInjective(CannedPaths)
  BY <1>1, <1>2 DEF IsInjective, CannedPaths
<1>5. \A i \in 1..12 : CannedPaths[i] = <<CannedPaths[i][1], CannedPaths[i][2]>>
  BY <1>2 DEF CannedPaths
<1>6. QED BY <1>1, <1>3, <1>4, <1>5 DEF Range

LEMMA DamagesAre ==
  /\ CannedDamages \in Seq(CaseTwo) /\ IsInjective(CannedDamages)
  /\ \A l \in Range(CannedDamages) : l = <<l[1], l[2]>>
<1>1. DOMAIN CannedDamages = 1..6 /\ CannedDamages = [i \in 1..6 |-> CannedDamages[i]]
  BY DEF CannedDamages
<1>2. \A i \in 1..6 : i = 1 \/ i = 2 \/ i = 3 \/ i = 4 \/ i = 5 \/ i = 6
  OBVIOUS
<1>3. CannedDamages \in Seq(CaseTwo)
  <2>1. \A i \in 1..6 : CannedDamages[i] \in CaseTwo
    BY <1>1 DEF CaseTwo, Range
  <2>2. QED BY <1>1, <2>1, ListIs
<1>4. IsInjective(CannedDamages)
  BY <1>1, <1>2 DEF IsInjective, CannedDamages
<1>5. \A i \in 1..6 : CannedDamages[i] = <<CannedDamages[i][1], CannedDamages[i][2]>>
  BY <1>2 DEF CannedDamages
<1>6. QED BY <1>1, <1>3, <1>4, <1>5 DEF Range

LEMMA HitsAre ==
  /\ CannedHits \in Seq(CaseTwo) /\ CannedHits # <<>>
  /\ \A l \in Range(CannedHits) : l = <<l[1], l[2]>> /\ l[1] = "10.40"
<1>1. DOMAIN CannedHits = 1..4 /\ CannedHits = [i \in 1..4 |-> CannedHits[i]]
  BY DEF CannedHits
<1>2. \A i \in 1..4 : i = 1 \/ i = 2 \/ i = 3 \/ i = 4
  OBVIOUS
<1>3. CannedHits \in Seq(CaseTwo)
  <2>1. \A i \in 1..4 : CannedHits[i] \in CaseTwo
    BY <1>1 DEF CaseTwo, Range
  <2>2. QED BY <1>1, <2>1, ListIs
<1>4. CannedHits # <<>>
  <2>1. DOMAIN <<>> = {} /\ 1 \in 1..4
    OBVIOUS
  <2>2. QED BY <1>1, <2>1
<1>5. \A i \in 1..4 : /\ CannedHits[i] = <<CannedHits[i][1], CannedHits[i][2]>>
                      /\ CannedHits[i][1] = "10.40"
  BY <1>2 DEF CannedHits
<1>6. QED BY <1>1, <1>3, <1>4, <1>5 DEF Range

(* The links of the nids graph join hosts of it.                           *)
LEMMA CaseTwoIs ==
  /\ \A l \in CaseTwo : l = <<l[1], l[2]>> /\ l[1] \in Ends(CaseTwo) /\ l[2] \in Ends(CaseTwo)
  /\ CaseTwo \subseteq Link /\ Ends(CaseTwo) \subseteq Host
<1>1. \A l \in CaseTwo : l = <<l[1], l[2]>>
  BY PathsAre, DamagesAre, HitsAre DEF CaseTwo
<1>2. \A l \in CaseTwo : l[1] \in Ends(CaseTwo) /\ l[2] \in Ends(CaseTwo)
  BY DEF Ends
<1>3. Ends(CaseTwo) \subseteq Host
  BY DEF Host, Named
<1>4. ASSUME NEW l \in CaseTwo
      PROVE  l \in Link
  <2>1. l = <<l[1], l[2]>> /\ l[1] \in Host /\ l[2] \in Host
    BY <1>1, <1>2, <1>3
  <2>2. <<l[1], l[2]>> \in Host \X Host
    BY <2>1
  <2>3. QED BY <2>1, <2>2 DEF Link
<1>5. QED BY <1>1, <1>2, <1>3, <1>4

LEMMA LiteralIs ==
  Literal \in Seq(CaseTwo) /\ IsInjective(Literal) /\ Range(Literal) \subseteq CaseTwo
<1>1. <<>> \in Seq(CaseTwo) /\ IsInjective(<<>>)
  BY DEF IsInjective
<1>2. Literal \in Seq(CaseTwo) /\ IsInjective(Literal)
  BY <1>1, PathsAre, DamagesAre DEF Literal
<1>3. QED BY <1>2 DEF Range

(* What was found so far, and what is still to be visited.                 *)
Chained(list) ==
  \A n \in DOMAIN list :
    Near(list[n]) = queried \/ \E k \in 1..(n - 1) : Near(list[n]) = Far(list[k])

Searching ==
  /\ page \in {"nidsQ1", "nidsQ3"} /\ queried = Canned[page]
  /\ queue \in Seq(Places) /\ searched \subseteq Places /\ queried \in Met
  /\ \A h \in Met : h = queried \/ \E k \in DOMAIN edges : h = Far(edges[k])
  /\ \A l \in Range(graph) : Near(l) \in searched => l \in Range(edges) /\ Far(l) \in Met
  /\ \A l \in Range(edges) : Near(l) \in searched
  /\ \A set \in SUBSET Places : queried \in set /\ Closed(set) => Met \subseteq set

SearchInv ==
  /\ graph = Literal /\ backward = (page = "nidsQ1")
  /\ edges \in Seq(Range(graph)) /\ IsInjective(edges)
  /\ Chained(edges)
  /\ phase = "round" => edges = <<>>
  /\ phase = "search" => Searching

(* Appended lists.                                                         *)
LEMMA ConcatIs ==
  ASSUME NEW T, NEW s \in Seq(T), NEW t \in Seq(T)
  PROVE  /\ s \o t \in Seq(T) /\ Range(s \o t) = Range(s) \union Range(t)
         /\ DOMAIN s = 1..Len(s) /\ DOMAIN t = 1..Len(t) /\ Len(s) \in Nat /\ Len(t) \in Nat
         /\ DOMAIN (s \o t) = 1..(Len(s) + Len(t))
         /\ \A i \in 1..Len(s) : (s \o t)[i] = s[i]
         /\ \A x \in DOMAIN (s \o t) : x \in 1..Len(s) \/ \E i \in 1..Len(t) : x = Len(s) + i
         /\ \A i \in 1..Len(t) : (s \o t)[Len(s) + i] = t[i]
         /\ (IsInjective(s) /\ IsInjective(t) /\ Range(s) \intersect Range(t) = {})
              => IsInjective(s \o t)
<1> DEFINE c == s \o t
           n == Len(s)
<1>1. /\ n \in Nat /\ Len(t) \in Nat /\ DOMAIN s = 1..n /\ DOMAIN t = 1..Len(t)
      /\ c \in Seq(T) /\ DOMAIN c = 1..(n + Len(t))
      /\ \A i \in 1..n : c[i] = s[i]
      /\ \A i \in 1..Len(t) : c[n + i] = t[i]
  OBVIOUS
<1>2. Range(c) = Range(s) \union Range(t)
  BY RangeOfConcat
<1> HIDE DEF c, n
<1>3. ASSUME NEW x \in DOMAIN c
      PROVE  x \in 1..n \/ \E i \in 1..Len(t) : x = n + i
  <2>1. CASE x \in 1..n
    BY <2>1
  <2>2. CASE x \notin 1..n
    <3>1. x - n \in 1..Len(t) /\ x = n + (x - n)
      BY <1>1, <2>2
    <3>2. QED BY <3>1
  <2>3. QED BY <2>1, <2>2
<1>4. ASSUME IsInjective(s), IsInjective(t), Range(s) \intersect Range(t) = {},
             NEW x \in DOMAIN c, NEW y \in DOMAIN c, c[x] = c[y]
      PROVE  x = y
  <2>1. \A i \in 1..n, j \in 1..Len(t) : s[i] # t[j]
    BY <1>1, <1>4 DEF Range
  <2>2. \A i \in 1..n, j \in 1..n : s[i] = s[j] => i = j
    BY <1>1, <1>4 DEF IsInjective
  <2>3. \A i \in 1..Len(t), j \in 1..Len(t) : t[i] = t[j] => i = j
    BY <1>1, <1>4 DEF IsInjective
  <2>4. CASE x \in 1..n
    <3>1. y \in 1..n
      BY <1>1, <1>3, <1>4, <2>1, <2>4
    <3>2. QED BY <1>1, <1>4, <2>2, <2>4, <3>1
  <2>5. CASE x \notin 1..n
    <3>1. PICK i \in 1..Len(t) : x = n + i
      BY <1>3, <2>5
    <3>2. y \notin 1..n
      BY <1>1, <1>4, <2>1, <3>1
    <3>3. PICK j \in 1..Len(t) : y = n + j
      BY <1>3, <3>2
    <3>4. t[i] = t[j]
      BY <1>1, <1>4, <3>1, <3>3
    <3>5. QED BY <2>3, <3>1, <3>3, <3>4
  <2>6. QED BY <2>4, <2>5
<1>5. (IsInjective(s) /\ IsInjective(t) /\ Range(s) \intersect Range(t) = {}) => IsInjective(c)
  BY <1>4 DEF IsInjective
<1>6. QED BY <1>1, <1>2, <1>3, <1>5 DEF c, n

(* One pass of the search.                                                 *)
Leaving(h) == {l \in Range(graph) : Near(l) = h}

LEMMA VisitIs ==
  ASSUME SearchInv, phase = "search", Visit
  PROVE  \E h \in Places, new \in Seq(Range(graph)) :
           /\ Range(queue) = {h} \union Range(Tail(queue))
           /\ Range(new) = Leaving(h) \ Range(edges) /\ edges' = edges \o new
           /\ edges' \in Seq(Range(graph)) /\ IsInjective(edges')
           /\ Range(edges') = Range(edges) \union Leaving(h)
           /\ queue' \in Seq(Places) /\ searched' = searched \union {h}
           /\ Range(queue') = Range(Tail(queue)) \union ({Far(l) : l \in Leaving(h)} \ searched)
<1> DEFINE h == Head(queue)
           hits == Hits(h)
           new == NotIn(hits, edges)
           leads == [i \in DOMAIN hits |-> Far(hits[i])]
           ahead == Ahead(hits)
<1>1. /\ queue # <<>> /\ queue \in Seq(Places)
      /\ edges \in Seq(Range(graph)) /\ IsInjective(edges)
      /\ graph \in Seq(Range(graph)) /\ IsInjective(graph)
  <2>1. graph \in Seq(Range(graph)) /\ IsInjective(graph)
    BY LiteralIs DEF SearchInv, Range
  <2>2. QED BY <2>1 DEF SearchInv, Searching, Visit
<1>2. h \in Places /\ Tail(queue) \in Seq(Places) /\ Range(queue) = {h} \union Range(Tail(queue))
  <2>1. h \in Places /\ Tail(queue) \in Seq(Places) /\ <<h>> \in Seq(Places) /\ queue = <<h>> \o Tail(queue)
    <3>1. h \in Places /\ Tail(queue) \in Seq(Places)
      BY <1>1
    <3>2. <<h>> \in Seq(Places)
      BY <3>1, RangeOfOne
    <3>3. /\ Len(queue) = 1 + Len(Tail(queue)) /\ Len(Tail(queue)) \in Nat
          /\ \A i \in 1..Len(Tail(queue)) : Tail(queue)[i] = queue[i + 1]
          /\ queue[1] = h
      BY <1>1
    <3>4. queue = <<h>> \o Tail(queue)
      BY <1>1, <3>1, <3>2, <3>3
    <3>5. QED BY <3>1, <3>2, <3>4
  <2>2. Range(<<h>> \o Tail(queue)) = Range(<<h>>) \union Range(Tail(queue))
    BY <2>1, RangeOfConcat
  <2>3. Range(<<h>>) = {h}
    BY RangeOfOne
  <2> HIDE DEF h
  <2>4. QED BY <2>1, <2>2, <2>3
<1>3. hits \in Seq(Range(graph)) /\ IsInjective(hits) /\ Range(hits) = Leaving(h)
  BY <1>1, OnlyIs DEF Hits, Leaving
<1> HIDE DEF h, hits
<1>4. /\ new \in Seq(Range(graph)) /\ IsInjective(new) /\ Range(new) = Leaving(h) \ Range(edges)
  BY <1>3, OnlyIs DEF NotIn
<1>5. leads \in Seq(Places) /\ Range(leads) = {Far(l) : l \in Leaving(h)}
  <2>1. DOMAIN hits = 1..Len(hits) /\ Len(hits) \in Nat /\ Range(hits) = {hits[i] : i \in 1..Len(hits)}
    BY <1>3 DEF Range
  <2>2. \A i \in 1..Len(hits) : Far(hits[i]) \in Places
    BY <1>3 DEF Places
  <2>3. leads \in Seq(Places)
    BY <2>1, <2>2
  <2>4. Range(leads) = {Far(hits[i]) : i \in 1..Len(hits)}
    BY <2>1 DEF Range
  <2>5. QED BY <1>3, <2>1, <2>3, <2>4
<1>6. ahead \in Seq(Places) /\ Range(ahead) = {Far(l) : l \in Leaving(h)} \ searched
  <2>1. ahead = Only(leads, Range(leads) \ searched)
    BY DEF Ahead
  <2> HIDE DEF ahead, leads
  <2>2. QED BY <1>5, <2>1, OnlyIs
<1>7. edges' = edges \o new /\ queue' = Tail(queue) \o ahead /\ searched' = searched \union {h}
  BY DEF Visit, h, hits
<1> HIDE DEF new, ahead
<1>8. /\ edges' \in Seq(Range(graph)) /\ IsInjective(edges')
      /\ Range(edges') = Range(edges) \union Leaving(h)
  <2>1. Range(edges) \intersect Range(new) = {}
    BY <1>4
  <2>2. QED BY <1>1, <1>4, <1>7, <2>1, ConcatIs
<1>9. queue' \in Seq(Places) /\ Range(queue') = Range(Tail(queue)) \union Range(ahead)
  <2>1. Tail(queue) \in Seq(Places) /\ ahead \in Seq(Places)
    BY <1>2, <1>6
  <2>2. /\ Tail(queue) \o ahead \in Seq(Places)
        /\ Range(Tail(queue) \o ahead) = Range(Tail(queue)) \union Range(ahead)
    BY <2>1, ConcatIs
  <2>3. QED BY <1>7, <2>2
<1>10. QED BY <1>2, <1>4, <1>6, <1>7, <1>8, <1>9

LEMMA SearchInvInit == Init => SearchInv
<1> SUFFICES ASSUME Init PROVE SearchInv
  OBVIOUS
<1>1. graph = Literal /\ backward = (page = "nidsQ1") /\ edges = <<>> /\ phase # "search"
  BY DEF Init, Literal
<1>2. <<>> \in Seq(Range(graph)) /\ IsInjective(<<>>) /\ Chained(<<>>)
  BY DEF IsInjective, Chained
<1>3. QED BY <1>1, <1>2 DEF SearchInv

LEMMA SearchKeeps ==
  ASSUME SearchInv, UNCHANGED <<query, search>>, phase' = phase \/ phase' \notin {"round", "search"}
  PROVE  SearchInv'
<1>1. UNCHANGED <<page, queried, graph, backward, queue, searched, edges>>
  BY DEF query, search
<1>2. Chained(edges)' /\ Literal' = Literal
  BY <1>1 DEF SearchInv, Chained, Literal, Near, Far
<1>3. phase' = "search" => Searching'
  <2> SUFFICES ASSUME phase = "search" PROVE Searching'
    OBVIOUS
  <2>1. Searching
    BY DEF SearchInv
  <2>2. Places' = Places /\ Met' = Met
    BY <1>1 DEF Places, Met, Near, Far
  <2>3. \A l : Near(l)' = Near(l) /\ Far(l)' = Far(l)
    BY <1>1 DEF Near, Far
  <2>4. \A set : Closed(set)' = Closed(set)
    BY <1>1 DEF Closed, Near, Far
  <2>5. Canned[page]' = Canned[page]
    BY <1>1
  <2>6. QED BY <1>1, <2>1, <2>2, <2>3, <2>4, <2>5 DEF Searching
<1>4. QED BY <1>1, <1>2, <1>3 DEF SearchInv

LEMMA SearchStarts ==
  ASSUME SearchInv, phase = "round", page \in {"nidsQ1", "nidsQ3"}, StartSearch
  PROVE  SearchInv'
<1>1. /\ UNCHANGED <<page, queried, graph, backward>> /\ queried = Canned[page]
      /\ queue' = <<queried>> /\ searched' = {} /\ edges' = <<>> /\ phase' = "search"
  BY DEF StartSearch, SearchFrom, query
<1>2. queried \in Places' /\ Places' = Places
  BY <1>1 DEF Places, Near, Far
<1>3. <<queried>> \in Seq(Places) /\ Range(<<queried>>) = {queried}
  BY <1>2, RangeOfOne
<1>4. Met' = {queried}
  BY <1>1, <1>3 DEF Met
<1>5. <<>> \in Seq(Range(graph)) /\ IsInjective(<<>>) /\ Range(<<>>) = {} /\ DOMAIN <<>> = {}
  BY DEF IsInjective, Range
<1>6. Searching'
  <2>1. (page \in {"nidsQ1", "nidsQ3"} /\ queried = Canned[page])'
    BY <1>1
  <2>2. (queue \in Seq(Places) /\ searched \subseteq Places /\ queried \in Met)'
    BY <1>1, <1>2, <1>3, <1>4
  <2>3. (\A h \in Met : h = queried \/ \E k \in DOMAIN edges : h = Far(edges[k]))'
    BY <1>1, <1>4
  <2>4. (\A l \in Range(graph) : Near(l) \in searched => l \in Range(edges) /\ Far(l) \in Met)'
    BY <1>1
  <2>5. (\A l \in Range(edges) : Near(l) \in searched)'
    BY <1>1, <1>5
  <2>6. (\A set \in SUBSET Places : queried \in set /\ Closed(set) => Met \subseteq set)'
    BY <1>1, <1>4
  <2>7. QED BY <2>1, <2>2, <2>3, <2>4, <2>5, <2>6 DEF Searching
<1>7. Chained(edges)' /\ Literal' = Literal
  BY <1>1, <1>5 DEF Chained, Literal
<1>8. QED BY <1>1, <1>5, <1>6, <1>7 DEF SearchInv

LEMMA SearchGoesOn ==
  ASSUME SearchInv, Search
  PROVE  SearchInv'
<1>1. Visit /\ phase = "search" /\ phase' = phase /\ UNCHANGED <<page, queried, graph, backward>> /\ Searching
  BY DEF Search, query, SearchInv
<1>2. PICK h \in Places, new \in Seq(Range(graph)) :
           /\ Range(queue) = {h} \union Range(Tail(queue))
           /\ Range(new) = Leaving(h) \ Range(edges) /\ edges' = edges \o new
           /\ edges' \in Seq(Range(graph)) /\ IsInjective(edges')
           /\ Range(edges') = Range(edges) \union Leaving(h)
           /\ queue' \in Seq(Places) /\ searched' = searched \union {h}
           /\ Range(queue') = Range(Tail(queue)) \union ({Far(l) : l \in Leaving(h)} \ searched)
  BY <1>1, VisitIs
<1>3. /\ Places' = Places /\ \A l : Near(l)' = Near(l) /\ Far(l)' = Far(l)
      /\ \A set : Closed(set)' = Closed(set)
  BY <1>1 DEF Places, Near, Far, Closed
<1>4. Met' = Met \union {Far(l) : l \in Leaving(h)}
  BY <1>2 DEF Met
<1>5. h \in Met
  BY <1>2 DEF Met
<1>6. /\ edges \in Seq(Range(graph)) /\ Len(edges) \in Nat /\ DOMAIN edges = 1..Len(edges)
      /\ DOMAIN edges' = 1..(Len(edges) + Len(new)) /\ Len(new) \in Nat /\ DOMAIN new = 1..Len(new)
      /\ \A k \in 1..Len(edges) : edges'[k] = edges[k]
      /\ \A k \in 1..Len(new) : edges'[Len(edges) + k] = new[k]
      /\ \A x \in DOMAIN edges' : x \in 1..Len(edges) \/ \E k \in 1..Len(new) : x = Len(edges) + k
  <2>1. edges \in Seq(Range(graph))
    BY DEF SearchInv
  <2>2. QED BY <1>2, <2>1, ConcatIs
<1>7. h = queried \/ \E k \in 1..Len(edges) : h = Far(edges[k])
  BY <1>1, <1>5, <1>6 DEF Searching
<1>8. \A k \in 1..Len(new) : Near(new[k]) = h
  BY <1>2, <1>6 DEF Range, Leaving
<1>9. Chained(edges)'
  <2> SUFFICES ASSUME NEW n \in DOMAIN edges'
               PROVE  Near(edges'[n]) = queried \/ \E k \in 1..(n - 1) : Near(edges'[n]) = Far(edges'[k])
    BY <1>1, <1>3 DEF Chained
  <2>1. CASE n \in 1..Len(edges)
    <3>1. Near(edges[n]) = queried \/ \E k \in 1..(n - 1) : Near(edges[n]) = Far(edges[k])
      BY <1>6, <2>1 DEF SearchInv, Chained
    <3>2. \A k \in 1..(n - 1) : k \in 1..Len(edges)
      BY <1>6, <2>1
    <3>3. QED BY <1>6, <2>1, <3>1, <3>2
  <2>2. CASE n \notin 1..Len(edges)
    <3>1. PICK j \in 1..Len(new) : n = Len(edges) + j
      BY <1>6, <2>2
    <3>2. Near(edges'[n]) = h
      BY <1>6, <1>8, <3>1
    <3>3. \A k \in 1..Len(edges) : k \in 1..(n - 1)
      BY <1>6, <3>1
    <3>4. QED BY <1>6, <1>7, <3>2, <3>3
  <2>3. QED BY <2>1, <2>2
<1>10. Searching'
  <2>1. (page \in {"nidsQ1", "nidsQ3"} /\ queried = Canned[page])'
    BY <1>1 DEF Searching
  <2>2. (queue \in Seq(Places) /\ searched \subseteq Places /\ queried \in Met)'
    BY <1>1, <1>2, <1>3, <1>4 DEF Searching
  <2>3. (\A x \in Met : x = queried \/ \E k \in DOMAIN edges : x = Far(edges[k]))'
    <3> SUFFICES ASSUME NEW x \in Met', x # queried
                 PROVE  \E k \in DOMAIN edges' : x = Far(edges'[k])
      BY <1>1, <1>3
    <3>1. CASE x \in Met
      <4>1. PICK k \in 1..Len(edges) : x = Far(edges[k])
        BY <1>1, <1>6, <3>1 DEF Searching
      <4>2. k \in DOMAIN edges'
        BY <1>6
      <4>3. QED BY <1>6, <4>1, <4>2
    <3>2. CASE x \notin Met
      <4>1. PICK l \in Leaving(h) : x = Far(l)
        BY <1>4, <3>2
      <4>2. l \in Range(edges')
        BY <1>2
      <4>3. QED BY <4>1, <4>2 DEF Range
    <3>3. QED BY <3>1, <3>2
  <2>4. (\A l \in Range(graph) : Near(l) \in searched => l \in Range(edges) /\ Far(l) \in Met)'
    <3> SUFFICES ASSUME NEW l \in Range(graph), Near(l) \in searched'
                 PROVE  l \in Range(edges') /\ Far(l) \in Met'
      BY <1>1, <1>3
    <3>1. CASE Near(l) \in searched
      <4>1. l \in Range(edges) /\ Far(l) \in Met
        BY <1>1, <3>1 DEF Searching
      <4>2. QED BY <1>2, <1>4, <4>1
    <3>2. CASE Near(l) \notin searched
      <4>1. l \in Leaving(h)
        BY <1>2, <3>2 DEF Leaving
      <4>2. QED BY <1>2, <1>4, <4>1
    <3>3. QED BY <3>1, <3>2
  <2>5. (\A l \in Range(edges) : Near(l) \in searched)'
    <3> SUFFICES ASSUME NEW l \in Range(edges')
                 PROVE  Near(l) \in searched'
      BY <1>1, <1>3
    <3>1. CASE l \in Range(edges)
      BY <1>1, <1>2, <3>1 DEF Searching
    <3>2. CASE l \notin Range(edges)
      <4>1. l \in Leaving(h)
        BY <1>2, <3>2
      <4>2. QED BY <1>2, <4>1 DEF Leaving
    <3>3. QED BY <3>1, <3>2
  <2>6. (\A set \in SUBSET Places : queried \in set /\ Closed(set) => Met \subseteq set)'
    <3> SUFFICES ASSUME NEW set \in SUBSET Places, queried \in set, Closed(set)
                 PROVE  Met' \subseteq set
      BY <1>1, <1>3
    <3>1. Met \subseteq set
      BY <1>1 DEF Searching
    <3>2. \A l \in Leaving(h) : Far(l) \in set
      BY <1>5, <3>1 DEF Closed, Leaving
    <3>3. QED BY <1>4, <3>1, <3>2
  <2>7. QED BY <2>1, <2>2, <2>3, <2>4, <2>5, <2>6 DEF Searching
<1>11. Literal' = Literal
  BY <1>1 DEF Literal
<1>12. QED BY <1>1, <1>2, <1>9, <1>10, <1>11 DEF SearchInv

LEMMA SearchInvNext == SearchInv /\ [Next]_vars => SearchInv'
<1> SUFFICES ASSUME SearchInv, [Next]_vars PROVE SearchInv'
  OBVIOUS
<1>1. CASE Search
  BY <1>1, SearchGoesOn
<1>2. CASE AcceptNidsQ1 \/ AcceptNidsQ3
  <2>1. CASE StartSearch
    <3>1. phase = "round" /\ page \in {"nidsQ1", "nidsQ3"}
      BY <1>2 DEF AcceptNidsQ1, AcceptNidsQ3, NidsAccepted
    <3>2. QED BY <2>1, <3>1, SearchStarts
  <2>2. CASE ~ StartSearch
    <3>1. UNCHANGED <<query, search>> /\ phase' = "drawn"
      BY <1>2, <2>2 DEF AcceptNidsQ1, AcceptNidsQ3, NoAnimation, Draw
    <3>2. QED BY <3>1, SearchKeeps
  <2>3. QED BY <2>1, <2>2
<1>3. CASE AcceptHoneypotsQ1 \/ AcceptHoneypotsQ2 \/ RejectHoneypots \/ AcceptGtmwQ1 \/ AcceptGtmwQ2
           \/ AcceptGtmwQ3 \/ AcceptRefusal \/ RejectGtmw \/ AcceptNidsQ2 \/ RejectNids
  <2>1. UNCHANGED <<query, search>> /\ phase' \in {"drawn", "threw"}
    BY <1>3 DEF AcceptHoneypotsQ1, AcceptHoneypotsQ2, RejectHoneypots, AcceptGtmwQ1, AcceptGtmwQ2,
                AcceptGtmwQ3, AcceptRefusal, RejectGtmw, AcceptNidsQ2, RejectNids,
                Accepted, Rejected, NidsAccepted, NoAnimation, Draw, Throw
  <2>2. QED BY <2>1, SearchKeeps
<1>4. CASE getQ3FinalResult \/ Commit \/ (Animate /\ Same) \/ LoadGraph \/ UNCHANGED vars
  <2>1. UNCHANGED <<query, search>> /\ phase' = phase
    BY <1>4 DEF getQ3FinalResult, Commit, Same, LoadGraph, vars
  <2>2. QED BY <2>1, SearchKeeps
<1>5. CASE Searched \/ AskAttackers \/ AskVictims \/ AskFails
  <2>1. UNCHANGED <<query, search>> /\ phase' \notin {"round", "search"}
    BY <1>5 DEF Searched, AskAttackers, AskVictims, AskFails, Draw, Throw
  <2>2. QED BY <2>1, SearchKeeps
<1>6. QED BY <1>1, <1>2, <1>3, <1>4, <1>5 DEF Next, Decide, Work

LEMMA SearchInvHolds == SafetySpec => []SearchInv
BY SearchInvInit, SearchInvNext, PTL DEF SafetySpec

(* At the end of a search of nids Q1 or Q3 the links found are those that  *)
(* leave a host which can be reached, each once.                           *)
LEMMA SearchEnds ==
  ASSUME SearchInv
  PROVE  SearchIsClosure
<1> SUFFICES ASSUME phase = "search", queue = <<>>
             PROVE  Range(edges) = Closure(queried) /\ Len(edges) = Cardinality(Range(edges))
  BY DEF SearchIsClosure
<1>1. Searching /\ edges \in Seq(Range(graph)) /\ IsInjective(edges)
  BY DEF SearchInv
<1>2. Met = searched
  BY DEF Met, Range
<1>3. Closed(searched) /\ searched \in SUBSET Places /\ queried \in searched
  BY <1>1, <1>2 DEF Closed, Searching
<1>4. Closure(queried) = {l \in Range(graph) :
        \A set \in SUBSET Places : queried \in set /\ Closed(set) => Near(l) \in set}
  BY DEF Closure, Places
<1>5. Range(edges) \subseteq Closure(queried)
  <2> SUFFICES ASSUME NEW l \in Range(edges)
               PROVE  l \in Closure(queried)
    OBVIOUS
  <2>1. l \in Range(graph) /\ Near(l) \in searched
    BY <1>1 DEF Searching, Range
  <2>2. QED BY <1>1, <1>2, <1>4, <2>1 DEF Searching
<1>6. Closure(queried) \subseteq Range(edges)
  <2> SUFFICES ASSUME NEW l \in Closure(queried)
               PROVE  l \in Range(edges)
    OBVIOUS
  <2>1. l \in Range(graph) /\ Near(l) \in searched
    BY <1>3, <1>4
  <2>2. QED BY <1>1, <2>1 DEF Searching
<1>7. Len(edges) = Cardinality(Range(edges))
  <2>1. Len(edges) \in Nat /\ DOMAIN edges = 1..Len(edges) /\ edges \in [1..Len(edges) -> Range(edges)]
    BY <1>1 DEF Range
  <2>2. ExistsBijection(1..Len(edges), Range(edges))
    BY <1>1, <2>1 DEF ExistsBijection, Bijection, Injection, Surjection, Range, IsInjective
  <2>3. QED BY <2>1, <2>2, FS_CountingElements
<1>8. QED BY <1>5, <1>6, <1>7

(* The searches of nids Q1 and Q3 find all links of the way, and no other. *)
THEOREM SearchFindsAll == Spec => []SearchIsClosure
BY SearchInvHolds, SearchEnds, PTL DEF Spec, SafetySpec

-----------------------------------------------------------------------------
(* Where a page stands: its graph, and nothing registered before it draws. *)
StageInv ==
  /\ Animated
  /\ hosts = HostsOf(page) /\ links = LinksOf(page)
  /\ page \notin NidsPages => loaded
  /\ queried \in Host
  /\ page \in NidsPages => queried \in {Canned[page], Nothing}
  /\ phase \notin {"drawn", "threw"} => timers = <<>> /\ picture = <<>> /\ missed = 0

(* A step that draws, maybe in vain,                                       *)
Registers ==
  /\ phase \notin {"drawn", "threw"} /\ phase' \in {"drawn", "threw"}
  /\ timers' \in Seq(Fresh)
  /\ UNCHANGED <<picture, missed, canvas, query, ledger, moves>>

(* and one that does not.                                                  *)
Rests ==
  /\ phase' = phase \/ (phase \notin {"drawn", "threw"} /\ phase' \notin {"drawn", "threw"})
  /\ UNCHANGED <<animation, canvas, query>>

LEMMA CannedAreNamed ==
  /\ CannedVictim \in Ends(CaseTwo) /\ CannedAttacker \in Ends(CaseTwo)
  /\ \A p \in NidsPages : Canned[p] \in Host
<1>1. <<"60.33", "60.113">> \in CaseTwo
  <2>1. CannedPaths[9] = <<"60.33", "60.113">> /\ 9 \in DOMAIN CannedPaths
    BY DEF CannedPaths
  <2>2. QED BY <2>1 DEF CaseTwo, Range
<1>2. <<"10.6", "60.6">> \in CaseTwo
  <2>1. CannedDamages[1] = <<"10.6", "60.6">> /\ 1 \in DOMAIN CannedDamages
    BY DEF CannedDamages
  <2>2. QED BY <2>1 DEF CaseTwo, Range
<1>3. CannedVictim \in Ends(CaseTwo)
  <2>1. <<"60.33", "60.113">>[2] \in Ends(CaseTwo)
    BY <1>1, CaseTwoIs
  <2>2. QED BY <2>1 DEF CannedVictim
<1>4. CannedAttacker \in Ends(CaseTwo)
  <2>1. <<"10.6", "60.6">>[1] \in Ends(CaseTwo)
    BY <1>2, CaseTwoIs
  <2>2. QED BY <2>1 DEF CannedAttacker
<1>5. QED BY <1>3, <1>4 DEF Canned, NidsPages, Host, Named

LEMMA OuterInnerAre ==
  ASSUME NEW i \in Nat
  PROVE  Outer(i) \in Node /\ Inner(i) \in Node
BY DEF Outer, Inner, Ext, Inside, App, Url, Node

LEMMA QueriedIsHost ==
  ASSUME Init
  PROVE  queried \in Host /\ (page \in NidsPages => queried \in {Canned[page], Nothing})
<1>1. queried \in Inputs /\ page \in HoneypotsPages \union GtmwPages \union NidsPages
  BY DEF Init
<1>2. Node \subseteq Host /\ Nothing \in Host /\ \A p \in NidsPages : Canned[p] \in Host
  BY CannedAreNamed DEF Host
<1>3. \A i \in Queried : Outer(i) \in Node /\ Inner(i) \in Node
  BY PagesAssumption, OuterInnerAre
<1>4. CASE page \in NidsPages
  <2>1. queried \in {Canned[page], Nothing}
    BY <1>1, <1>4 DEF Inputs, NidsPages
  <2>2. QED BY <1>2, <1>4, <2>1
<1>5. CASE page \in {"honeypotsQ1", "gtmwQ1"}
  BY <1>1, <1>2, <1>3, <1>5 DEF Inputs, NidsPages
<1>6. CASE page \in {"honeypotsQ2", "honeypotsQ3", "gtmwQ2"}
  BY <1>1, <1>2, <1>3, <1>6 DEF Inputs, NidsPages
<1>7. CASE page = "gtmwQ3"
  BY <1>1, <1>2, <1>7 DEF Inputs, NidsPages
<1>8. QED BY <1>1, <1>4, <1>5, <1>6, <1>7 DEF HoneypotsPages, GtmwPages

LEMMA NothingApart ==
  ASSUME page \in Pages
  PROVE  Nothing \notin HostsOf(page) /\ Nothing \notin LinksOf(page)
<1>1. Nothing \notin LinksOf(page)
  BY NothingAssumption DEF LinksOf, Pages
<1>2. \A i \in 0..15 : Nothing \notin {Ext(i), Inside(i), App(i), Url(i)}
  BY NothingAssumption
<1>3. \A i \in 0..15 : Nothing # Outer(i) /\ Nothing # Inner(i)
  BY <1>2 DEF Outer, Inner
<1>4. QED BY <1>1, <1>3, NothingAssumption DEF HostsOf

LEMMA StageInvInit == Init => StageInv
<1> SUFFICES ASSUME Init PROVE StageInv
  OBVIOUS
<1>1. Nothing \notin HostsOf(page) /\ Nothing \notin LinksOf(page)
  BY NothingApart DEF Init, Pages
<1>2. <<>> \in Seq(Timer) /\ DOMAIN <<>> = {} /\ <<>> \in Seq(MarkSet)
  OBVIOUS
<1>3. Animated
  BY <1>1, <1>2 DEF Init, Animated
<1>4. QED BY <1>3, QueriedIsHost DEF Init, StageInv

LEMMA StageRegisters ==
  ASSUME StageInv, Registers
  PROVE  StageInv'
<1>1. timers' \in Seq(Timer) /\ \A i \in DOMAIN timers' : timers'[i].wait >= - MaxLate
  BY FreshIs DEF Registers
<1>2. Animated'
  BY <1>1 DEF Registers, StageInv, Animated, canvas
<1>3. HostsOf(page)' = HostsOf(page) /\ LinksOf(page)' = LinksOf(page)
  BY DEF HostsOf, LinksOf, Outer, Inner, Registers, query
<1>4. QED BY <1>2, <1>3 DEF Registers, StageInv, canvas, query

LEMMA StageRests ==
  ASSUME StageInv, Rests
  PROVE  StageInv'
<1>1. HostsOf(page)' = HostsOf(page) /\ LinksOf(page)' = LinksOf(page)
  BY DEF HostsOf, LinksOf, Outer, Inner, Rests, query
<1>2. Animated'
  BY DEF Rests, StageInv, Animated, canvas, animation
<1>3. QED BY <1>1, <1>2 DEF Rests, StageInv, Animated, canvas, query, animation

LEMMA StageAnimates ==
  ASSUME StageInv, phase \in {"drawn", "threw"} \/ timers # <<>>, (Animate /\ Same) \/ LoadGraph
  PROVE  StageInv'
<1>1. /\ UNCHANGED <<page, queried, hosts, links, phase>>
      /\ loaded' = loaded \/ loaded' = TRUE
  BY DEF Animate, Same, LoadGraph, Load, StartSeries, Highlight, Tick, canvas, query
<1>2. Animated'
  <2>1. CASE LoadGraph
    BY <2>1 DEF LoadGraph, Load, StageInv, Animated, animation
  <2>2. CASE Animate
    BY <2>2, StartSteps, TickSteps, HighlightSteps DEF Animate, StageInv
  <2>3. QED BY <2>1, <2>2
<1>3. phase \in {"drawn", "threw"}
  BY DEF StageInv
<1>4. HostsOf(page)' = HostsOf(page) /\ LinksOf(page)' = LinksOf(page)
  BY <1>1 DEF HostsOf, LinksOf, Outer, Inner
<1>5. QED BY <1>1, <1>2, <1>3, <1>4 DEF StageInv

-----------------------------------------------------------------------------
(* What each step registers: marks, of which a first round comes before a  *)
(* second.                                                                 *)
Drawing(marks) == Registers /\ MarksOf(timers') = marks /\ Ordered(timers', Rounds)

LEMMA OneRoundOrder ==
  ASSUME NEW s, \A m \in MarksOf(s) : m.round # 2
  PROVE  Ordered(s, Rounds)
BY NoOrder DEF Rounds

LEMMA NoScript == <<>> \in Seq(Fresh) /\ MarksOf(<<>>) = {} /\ Ordered(<<>>, Rounds)
<1>1. Range(<<>>) = {}
  BY DEF Range
<1>2. MarksOf(<<>>) = {}
  BY <1>1 DEF MarksOf
<1>3. QED BY <1>2, OneRoundOrder

LEMMA DrawsScript ==
  ASSUME NEW script \in Seq(Fresh), Ordered(script, Rounds), Draw(script) \/ Throw(script),
         phase \notin {"drawn", "threw"}
  PROVE  Drawing(MarksOf(script))
BY DEF Draw, Throw, Registers, Drawing

LEMMA HoneypotsQ1Draws ==
  ASSUME StageInv, CallInv, AcceptHoneypotsQ1
  PROVE  Drawing(Alone(queried) \union InnerOf(queried, AttackedBy(ledger, queried), 1))
<1> DEFINE list == honeypotsIdentifyVictims(ledger, queried)
<1>1. list \in Seq(Node) /\ Range(list) = AttackedBy(ledger, queried)
  BY VictimsAre DEF CallInv
<1> HIDE DEF list
<1>2. /\ VisualizeQ1(list) \in Seq(Fresh)
      /\ MarksOf(VisualizeQ1(list)) = Alone(queried) \union InnerOf(queried, Range(list), 1)
  BY <1>1, VisualizeQ1Is DEF StageInv
<1>3. Ordered(VisualizeQ1(list), Rounds)
  <2>1. \A m \in MarksOf(VisualizeQ1(list)) : m.round # 2
    BY <1>2, RoundsAre
  <2>2. QED BY <2>1, OneRoundOrder
<1>4. Draw(VisualizeQ1(list)) /\ phase = "round"
  BY DEF AcceptHoneypotsQ1, Accepted, list
<1>5. QED BY <1>1, <1>2, <1>3, <1>4, DrawsScript

LEMMA OuterScript ==
  ASSUME queried \in Host, NEW list \in Seq(Node)
  PROVE  /\ VisualizeQ2(list) \in Seq(Fresh) /\ visualizeGTMWQ2(list) = VisualizeQ2(list)
         /\ MarksOf(VisualizeQ2(list)) = Alone(queried) \union OuterOf(queried, Range(list), 1)
         /\ Ordered(VisualizeQ2(list), Rounds)
<1>1. \A m \in MarksOf(VisualizeQ2(list)) : m.round # 2
  BY VisualizeQ2Is, RoundsAre
<1>2. QED BY <1>1, VisualizeQ2Is, OneRoundOrder

LEMMA HoneypotsQ2Draws ==
  ASSUME StageInv, CallInv, AcceptHoneypotsQ2
  PROVE  Drawing(Alone(queried) \union OuterOf(queried, AttackersOf(ledger, queried), 1))
<1> DEFINE list == honeypotsIdentifyAttackers(ledger, queried)
<1>1. list \in Seq(Node) /\ Range(list) = AttackersOf(ledger, queried)
  BY AttackersAre DEF CallInv
<1> HIDE DEF list
<1>2. /\ VisualizeQ2(list) \in Seq(Fresh) /\ Ordered(VisualizeQ2(list), Rounds)
      /\ MarksOf(VisualizeQ2(list)) = Alone(queried) \union OuterOf(queried, Range(list), 1)
  BY <1>1, OuterScript DEF StageInv
<1>3. Draw(VisualizeQ2(list)) /\ phase = "round"
  BY DEF AcceptHoneypotsQ2, Accepted, list
<1>4. QED BY <1>1, <1>2, <1>3, DrawsScript

LEMMA JustOrder ==
  ASSUME queried \in Host, NEW w \in Nat
  PROVE  /\ Just(queried) \in Seq(Fresh) /\ MarksOf(Just(queried)) = Alone(queried)
         /\ Ordered(Just(queried), Rounds)
         /\ <<After(w, Mark(Nothing, queried, 0))>> \in Seq(Fresh)
         /\ MarksOf(<<After(w, Mark(Nothing, queried, 0))>>) = Alone(queried)
         /\ Ordered(<<After(w, Mark(Nothing, queried, 0))>>, Rounds)
<1>1. /\ Just(queried) \in Seq(Fresh) /\ MarksOf(Just(queried)) = Alone(queried)
      /\ <<After(w, Mark(Nothing, queried, 0))>> \in Seq(Fresh)
      /\ MarksOf(<<After(w, Mark(Nothing, queried, 0))>>) = Alone(queried)
  BY JustIs
<1>2. \A m \in Alone(queried) : m.round # 2
  BY RoundsAre
<1>3. QED BY <1>1, <1>2, OneRoundOrder

LEMMA RejectedDraws ==
  ASSUME StageInv, RejectHoneypots \/ RejectGtmw \/ RejectNids
  PROVE  (\E marks \in {{}, Alone(queried)} : Drawing(marks)) /\ verdict' = "rejected" /\ phase' = "drawn"
<1>1. PICK script \in {<<>>, Just(queried)} : Draw(script) /\ phase = "round" /\ verdict' = "rejected"
  BY DEF RejectHoneypots, RejectGtmw, RejectNids, Rejected
<1>2. script \in Seq(Fresh) /\ MarksOf(script) \in {{}, Alone(queried)} /\ Ordered(script, Rounds)
  BY JustOrder, NoScript DEF StageInv
<1>3. QED BY <1>1, <1>2, DrawsScript DEF Draw

(* Without an animation, or with an exception before the first timeout.    *)
LEMMA NothingDraws ==
  ASSUME Draw(<<>>) \/ Throw(<<>>), phase = "round"
  PROVE  Drawing({})
BY NoScript, DrawsScript

LEMMA FirstAnswersAre ==
  ASSUME CallInv, NEW L \in FirstAnswers
  PROVE  L \in Ledgers /\ (honest => L = ledger)
BY DEF CallInv, FirstAnswers

LEMMA GtmwQ1Draws ==
  ASSUME StageInv, CallInv, AcceptGtmwQ1
  PROVE  \/ Drawing({}) /\ phase' = "threw"
         \/ \E L \in FirstAnswers : LET apps == urlIdentifySuspiciousApps(L, queried) IN
              /\ phase' = "drawn"
              /\ Drawing(Alone(queried) \union InnerOf(queried, DOMAIN apps, 1) \union Users(DOMAIN apps, apps))
<1>1. CASE Throw(<<>>)
  <2>1. phase = "round" /\ phase' = "threw"
    BY <1>1 DEF AcceptGtmwQ1, Accepted, Throw
  <2>2. QED BY <1>1, <2>1, NothingDraws
<1>2. CASE ~ Throw(<<>>)
  <2>1. PICK L \in FirstAnswers : Draw(visualizeGTMWQ1(urlIdentifySuspiciousApps(L, queried)))
    BY <1>2 DEF AcceptGtmwQ1
  <2> DEFINE apps == urlIdentifySuspiciousApps(L, queried)
             script == visualizeGTMWQ1(apps)
  <2>2. apps \in [AttackedBy(L, queried) -> Seq(Node)] /\ AttackedBy(L, queried) \subseteq Node
        /\ IsFiniteSet(AttackedBy(L, queried)) /\ \A u \in AttackedBy(L, queried) : apps[u] # <<>>
    BY FirstAnswersAre, SuspiciousAre
  <2>3. Draw(visualizeGTMWQ1(apps)) /\ phase = "round"
    BY <2>1 DEF AcceptGtmwQ1, Accepted
  <2> HIDE DEF apps
  <2>4. /\ DOMAIN apps \subseteq Node /\ IsFiniteSet(DOMAIN apps)
        /\ \A u \in DOMAIN apps : apps[u] \in Seq(Node) /\ apps[u] # <<>>
    BY <2>2
  <2>5. /\ script \in Seq(Fresh)
        /\ MarksOf(script) = Alone(queried) \union InnerOf(queried, DOMAIN apps, 1) \union Users(DOMAIN apps, apps)
        /\ Ordered(script, Rounds)
    BY <2>4, VisualizeGTMWQ1Is DEF StageInv
  <2>6. Draw(script)
    BY <2>3
  <2> HIDE DEF script
  <2>7. Drawing(MarksOf(script)) /\ phase' = "drawn"
    BY <2>3, <2>5, <2>6, DrawsScript DEF Draw
  <2>8. QED BY <2>5, <2>7 DEF apps
<1>3. QED BY <1>1, <1>2

LEMMA GtmwQ3Draws ==
  ASSUME StageInv, CallInv, AcceptGtmwQ3
  PROVE  \/ Drawing({}) /\ phase' = "threw"
         \/ \E L \in FirstAnswers : LET apps == urlSpoofedApps(L) IN
              /\ phase' = "drawn"
              /\ Drawing(HostsAlone(DOMAIN apps, 1) \union Users(DOMAIN apps, apps))
<1>1. CASE Throw(<<>>)
  <2>1. phase = "round" /\ phase' = "threw"
    BY <1>1 DEF AcceptGtmwQ3, Accepted, Throw
  <2>2. QED BY <1>1, <2>1, NothingDraws
<1>2. CASE ~ Throw(<<>>)
  <2>1. PICK L \in FirstAnswers : Draw(visualizeGTMWQ3(urlSpoofedApps(L)))
    BY <1>2 DEF AcceptGtmwQ3
  <2> DEFINE apps == urlSpoofedApps(L)
             urls == {Url(i) : i \in Spoofed}
             script == visualizeGTMWQ3(apps)
  <2>2. apps \in [urls -> Seq(Node)] /\ urls \subseteq Node /\ IsFiniteSet(urls)
    BY FirstAnswersAre, SpoofedAre
  <2>3. Draw(visualizeGTMWQ3(apps)) /\ phase = "round"
    BY <2>1 DEF AcceptGtmwQ3, Accepted
  <2> HIDE DEF apps, urls
  <2>4. /\ DOMAIN apps \subseteq Node /\ IsFiniteSet(DOMAIN apps)
        /\ \A u \in DOMAIN apps : apps[u] \in Seq(Node)
    BY <2>2
  <2>5. /\ script \in Seq(Fresh)
        /\ MarksOf(script) = HostsAlone(DOMAIN apps, 1) \union Users(DOMAIN apps, apps)
        /\ Ordered(script, Rounds)
    BY <2>4, VisualizeGTMWQ3Is
  <2>6. Draw(script)
    BY <2>3
  <2> HIDE DEF script
  <2>7. Drawing(MarksOf(script)) /\ phase' = "drawn"
    BY <2>3, <2>5, <2>6, DrawsScript DEF Draw
  <2>8. QED BY <2>5, <2>7 DEF apps
<1>3. QED BY <1>1, <1>2

LEMMA GtmwQ2Draws ==
  ASSUME StageInv, CallInv, AcceptGtmwQ2
  PROVE  IF Listed(ledger) # {}
         THEN Drawing(Alone(queried) \union OuterOf(queried, AttackersOf(ledger, queried), 1))
         ELSE Drawing(Alone(queried) \union {Mark(Nothing, Nothing, 1)})
<1>1. phase = "round"
  BY DEF AcceptGtmwQ2, Accepted
<1>2. CASE Listed(ledger) # {}
  <2> DEFINE list == urlIdentifyVictimApps(ledger, queried)
  <2>1. list \in Seq(Node) /\ Range(list) = AttackersOf(ledger, queried)
    BY VisitorsAre DEF CallInv
  <2> HIDE DEF list
  <2>2. /\ VisualizeQ2(list) \in Seq(Fresh) /\ visualizeGTMWQ2(list) = VisualizeQ2(list)
        /\ MarksOf(VisualizeQ2(list)) = Alone(queried) \union OuterOf(queried, Range(list), 1)
        /\ Ordered(VisualizeQ2(list), Rounds)
    BY <2>1, OuterScript DEF StageInv
  <2>3. Draw(visualizeGTMWQ2(list))
    BY <1>2 DEF AcceptGtmwQ2, list
  <2>4. QED BY <1>1, <1>2, <2>1, <2>2, <2>3, DrawsScript
<1>3. CASE Listed(ledger) = {}
  <2> DEFINE one == Mark(Nothing, Nothing, 1)
             ms == <<one>>
             script == Just(queried) \o <<Series(2, ms)>>
  <2>1. one \in MarkSet /\ one.round = 1
    <3>1. one \in MarkSet
      BY NodeIsHost, MarkIs
    <3>2. one.round = 1
      BY MarkFields
    <3>3. QED BY <3>1, <3>2
  <2>2. ms \in Seq(MarkSet) /\ Range(ms) = {one}
    BY <2>1, RangeOfOne
  <2>3. Draw(script)
    BY <1>3 DEF AcceptGtmwQ2
  <2> HIDE DEF one, ms
  <2>4. script \in Seq(Fresh) /\ MarksOf(script) = Alone(queried) \union {one}
    BY <2>2, OneRoundIs DEF StageInv
  <2> HIDE DEF script
  <2>5. \A m \in MarksOf(script) : m.round # 2
    <3>1. \A m \in Alone(queried) : m.round = 0
      BY RoundsAre
    <3>2. QED BY <2>1, <2>4, <3>1
  <2>6. Drawing(MarksOf(script))
    BY <1>1, <2>3, <2>4, <2>5, OneRoundOrder, DrawsScript
  <2>7. QED BY <1>3, <2>4, <2>6 DEF one
<1>4. QED BY <1>2, <1>3

(* Page Q3 of honeypots.                                                   *)
LEMMA AskAttackersDraws ==
  ASSUME StageInv, CallInv, AskAttackers
  PROVE  \/ Rests /\ phase' = "A1"
         \/ /\ Drawing(Alone(queried)) /\ phase' = "drawn"
            /\ Range(honeypotsIdentifyAttackers(ledger, queried)) = {}
<1>1. phase = "A2" /\ attackers' = honeypotsIdentifyAttackers(ledger, queried)
  BY DEF AskAttackers
<1>2. CASE attackers' = <<>>
  <2> DEFINE script == <<After(3, Mark(Nothing, queried, 0))>>
  <2>1. script \in Seq(Fresh) /\ MarksOf(script) = Alone(queried) /\ Ordered(script, Rounds)
    BY JustOrder DEF StageInv
  <2>2. Draw(script)
    BY <1>2 DEF AskAttackers
  <2> HIDE DEF script
  <2>3. Range(<<>>) = {}
    BY DEF Range
  <2>4. phase \notin {"drawn", "threw"} /\ phase' = "drawn"
    BY <1>1, <2>2 DEF Draw
  <2>5. Drawing(MarksOf(script))
    BY <2>1, <2>2, <2>4, DrawsScript
  <2>6. QED BY <1>1, <1>2, <2>1, <2>3, <2>4, <2>5
<1>3. CASE attackers' # <<>>
  BY <1>1, <1>3 DEF AskAttackers, Rests, query
<1>4. QED BY <1>2, <1>3

LEMMA Q3Keys ==
  ASSUME CallInv, NEW answers \in Seq(Seq(Node)), Len(answers) = Len(attackers)
  PROVE  /\ FirstSeen(attackers) \in Seq(Node) /\ Range(FirstSeen(attackers)) = Range(attackers)
         /\ IsInjective(FirstSeen(attackers))
         /\ \A a \in Range(attackers) : LastAnswers(answers)[a] \in Seq(Node)
<1>1. attackers \in Seq(Node)
  BY DEF CallInv
<1>2. /\ FirstSeen(attackers) \in Seq(Node) /\ Range(FirstSeen(attackers)) = Range(attackers)
      /\ IsInjective(FirstSeen(attackers))
  BY <1>1, FirstSeenIs
<1>3. \A k \in 1..Len(attackers) : answers[k] \in Seq(Node)
  OBVIOUS
<1>4. \A a \in Range(attackers) : LastAnswers(answers)[a] \in Seq(Node)
  BY <1>1, <1>3, LastAnswersAre
<1>5. QED BY <1>2, <1>4

LEMMA AskVictimsDraws ==
  ASSUME StageInv, CallInv, AskVictims
  PROVE  \/ Rests /\ phase' = "A1"
         \/ /\ Drawing(Alone(queried) \union OuterOf(queried, Range(attackers), 1))
            /\ phase' = "threw"
         \/ /\ Drawing(Alone(queried) \union OuterOf(queried, Range(attackers), 1)
                         \union Victims(Range(attackers), LastAnswers(victims')))
            /\ phase' = "drawn"
            /\ moves = 0 => AllAnswered(victims')
<1> DEFINE new == honeypotsIdentifyVictims(ledger, attackers[Len(victims) + 1])
           keys == FirstSeen(attackers)
           of == LastAnswers(victims')
<1>1. /\ victims' = Append(victims, new)
      /\ phase = "A1" /\ ledger \in Ledgers /\ moves \in Nat
      /\ victims \in Seq(Seq(Node)) /\ attackers \in Seq(Node) /\ Len(victims) < Len(attackers)
  BY DEF AskVictims, CallInv
<1>2. new \in Seq(Node)
  BY <1>1, VictimsAre
<1>3. /\ victims' \in Seq(Seq(Node)) /\ Len(victims') = Len(victims) + 1
      /\ \A k \in 1..Len(victims) : victims'[k] = victims[k]
      /\ victims'[Len(victims) + 1] = new
  <2> HIDE DEF new
  <2>1. QED BY <1>1, <1>2
<1>4. CASE Len(victims') < Len(attackers)
  BY <1>1, <1>4 DEF AskVictims, Rests, query
<1>5. CASE ~ (Len(victims') < Len(attackers))
  <2>1. Len(victims') = Len(attackers)
    BY <1>1, <1>3, <1>5
  <2>2. /\ keys \in Seq(Node) /\ Range(keys) = Range(attackers) /\ IsInjective(keys)
        /\ \A a \in Range(keys) : of[a] \in Seq(Node)
    BY <1>3, <2>1, Q3Keys
  <2>3. moves = 0 => AllAnswered(victims')
    <3>1. Len(victims) \in Nat
      BY <1>1
    <3>2. QED BY <1>1, <1>3, <2>1, <3>1 DEF CallInv, Answers, AllAnswered
  <2>4. CASE <<>> \in Range(of)
    <3> DEFINE script == VisualizeQ3Cut(keys)
    <3>1. Throw(script)
      BY <1>5, <2>4 DEF AskVictims
    <3> HIDE DEF keys, of
    <3>2. /\ script \in Seq(Fresh)
          /\ MarksOf(script) = Alone(queried) \union OuterOf(queried, Range(keys), 1)
      BY <2>2, VisualizeQ3CutIs DEF StageInv
    <3> HIDE DEF script
    <3>3. Ordered(script, Rounds)
      <4>1. \A m \in MarksOf(script) : m.round # 2
        BY <3>2, RoundsAre
      <4>2. QED BY <4>1, OneRoundOrder
    <3>4. phase \notin {"drawn", "threw"} /\ phase' = "threw"
      BY <1>1, <3>1 DEF Throw
    <3>5. Drawing(MarksOf(script))
      BY <3>1, <3>2, <3>3, <3>4, DrawsScript
    <3>6. QED BY <2>2, <3>2, <3>4, <3>5
  <2>5. CASE <<>> \notin Range(of)
    <3> DEFINE script == VisualizeQ3(keys, of)
    <3>1. Draw(script)
      BY <1>5, <2>5 DEF AskVictims
    <3>2. \A a \in Range(keys) : of[a] # <<>>
      <4>1. DOMAIN of = Range(attackers)
        BY DEF LastAnswers
      <4> HIDE DEF of, keys
      <4>2. QED BY <2>2, <2>5, <4>1 DEF Range
    <3> HIDE DEF keys, of
    <3>3. /\ script \in Seq(Fresh)
          /\ MarksOf(script)
               = Alone(queried) \union OuterOf(queried, Range(keys), 1) \union Victims(Range(keys), of)
          /\ Ordered(script, Rounds)
      BY <2>2, <3>2, VisualizeQ3Is DEF StageInv
    <3> HIDE DEF script
    <3>4. phase \notin {"drawn", "threw"} /\ phase' = "drawn"
      BY <1>1, <3>1 DEF Draw
    <3>5. Drawing(MarksOf(script))
      BY <3>1, <3>3, <3>4, DrawsScript
    <3>6. QED BY <2>2, <2>3, <3>3, <3>4, <3>5 DEF of
  <2>6. QED BY <2>4, <2>5
<1>6. QED BY <1>4, <1>5

-----------------------------------------------------------------------------
(* The scripts of the nids pages: links without hosts, and links with      *)
(* their ends.                                                             *)
BareMarks(S) == {Mark(l, Nothing, 1) : l \in S}
WithEnds(list) == [i \in DOMAIN list |-> Mark(list[i], list[i][2], 1)]
EndMarks(S) == {Mark(l, l[2], 1) : l \in S}

(* The members of a list of marks, one before the other.                   *)
Ascending(ms) == {<<ms[p[1]], ms[p[2]]>> : p \in {q \in (DOMAIN ms) \X (DOMAIN ms) : q[1] < q[2]}}

(* The order that the pictures of the nids pages rely on.                  *)
OrderQ1(list) == Ascending(Bare(list))
OrderQ2 == {<<Mark(Nothing, "10.40", 0), Mark(l, Nothing, 1)>> : l \in Range(CannedHits)}
OrderQ3(list) == Ascending(WithEnds(list)) \union {<<WithEnds(list)[i], Bare(list)[i]>> : i \in DOMAIN list}

LEMMA BareIs ==
  ASSUME NEW list \in Seq(CaseTwo)
  PROVE  /\ Bare(list) \in Seq(MarkSet) /\ Len(Bare(list)) = Len(list) /\ DOMAIN Bare(list) = 1..Len(list)
         /\ Range(Bare(list)) = BareMarks(Range(list))
         /\ \A k \in 1..Len(list) : Bare(list)[k] = Mark(list[k], Nothing, 1)
<1> DEFINE b == Bare(list)
<1>1. Len(list) \in Nat /\ DOMAIN list = 1..Len(list) /\ \A k \in 1..Len(list) : list[k] \in CaseTwo
  OBVIOUS
<1>2. DOMAIN b = 1..Len(list) /\ \A k \in 1..Len(list) : b[k] = Mark(list[k], Nothing, 1)
  BY <1>1 DEF Bare
<1>3. b = [k \in 1..Len(list) |-> b[k]]
  BY <1>1 DEF Bare
<1> HIDE DEF b
<1>4. ASSUME NEW k \in 1..Len(list)
      PROVE  b[k] \in MarkSet
  <2>1. list[k] \in Link /\ Nothing \in Host
    BY <1>1, CaseTwoIs, NodeIsHost
  <2>2. Mark(list[k], Nothing, 1) \in MarkSet
    BY <2>1, MarkIs
  <2>3. QED BY <1>2, <2>2
<1>5. b \in Seq(MarkSet)
  BY <1>1, <1>3, <1>4, ListIs
<1>6. Range(b) = BareMarks(Range(list))
  BY <1>1, <1>2 DEF Range, BareMarks
<1>7. Len(b) = Len(list)
  BY <1>1, <1>2, <1>5
<1>8. QED BY <1>2, <1>5, <1>6, <1>7 DEF b

LEMMA WithEndsIs ==
  ASSUME NEW list \in Seq(CaseTwo)
  PROVE  /\ WithEnds(list) \in Seq(MarkSet) /\ Len(WithEnds(list)) = Len(list)
         /\ DOMAIN WithEnds(list) = 1..Len(list)
         /\ Range(WithEnds(list)) = EndMarks(Range(list))
         /\ \A k \in 1..Len(list) : WithEnds(list)[k] = Mark(list[k], list[k][2], 1)
<1> DEFINE b == WithEnds(list)
<1>1. Len(list) \in Nat /\ DOMAIN list = 1..Len(list) /\ \A k \in 1..Len(list) : list[k] \in CaseTwo
  OBVIOUS
<1>2. DOMAIN b = 1..Len(list) /\ \A k \in 1..Len(list) : b[k] = Mark(list[k], list[k][2], 1)
  BY <1>1 DEF WithEnds
<1>3. b = [k \in 1..Len(list) |-> b[k]]
  BY <1>1 DEF WithEnds
<1> HIDE DEF b
<1>4. ASSUME NEW k \in 1..Len(list)
      PROVE  b[k] \in MarkSet
  <2>1. list[k] \in Link /\ list[k][2] \in Host
    BY <1>1, CaseTwoIs
  <2>2. Mark(list[k], list[k][2], 1) \in MarkSet
    BY <2>1, MarkIs
  <2>3. QED BY <1>2, <2>2
<1>5. b \in Seq(MarkSet)
  BY <1>1, <1>3, <1>4, ListIs
<1>6. Range(b) = EndMarks(Range(list))
  BY <1>1, <1>2 DEF Range, EndMarks
<1>7. Len(b) = Len(list)
  BY <1>1, <1>2, <1>5
<1>8. QED BY <1>2, <1>5, <1>6, <1>7 DEF b

(* Marks of a series in the order of the list.                             *)
LEMMA SeriesOrder ==
  ASSUME NEW ms, IsInjective(ms), NEW w
  PROVE  Ordered(<<Series(w, ms)>>, Ascending(ms))
<1> DEFINE s == <<Series(w, ms)>>
<1>1. DOMAIN s = {1} /\ s[1].series /\ s[1].marks = ms
  BY DEF Series
<1> HIDE DEF s
<1> SUFFICES ASSUME NEW k \in DOMAIN ms, NEW l \in DOMAIN ms, <<ms[k], ms[l]>> \in Ascending(ms)
             PROVE  Precedes(s, 1, k, 1, l)
  BY <1>1 DEF Ordered, s
<1>2. PICK p \in (DOMAIN ms) \X (DOMAIN ms) : p[1] < p[2] /\ ms[k] = ms[p[1]] /\ ms[l] = ms[p[2]]
  BY DEF Ascending
<1>3. k < l
  BY <1>2 DEF IsInjective
<1>4. QED BY <1>1, <1>3 DEF Precedes

LEMMA BareOnce ==
  ASSUME NEW list \in Seq(CaseTwo), IsInjective(list)
  PROVE  /\ IsInjective(Bare(list)) /\ IsInjective(WithEnds(list))
         /\ \A m \in BareMarks(CaseTwo) : m.link \in CaseTwo /\ m.host = Nothing /\ m.round = 1
         /\ \A m \in EndMarks(CaseTwo) : m.link \in CaseTwo /\ m.host \in Ends(CaseTwo) /\ m.round = 1
<1>1. /\ DOMAIN list = 1..Len(list)
      /\ \A k \in 1..Len(list) : Bare(list)[k].link = list[k] /\ WithEnds(list)[k].link = list[k]
  <2>1. \A k \in 1..Len(list) : Bare(list)[k] = Mark(list[k], Nothing, 1)
    BY BareIs
  <2>2. \A k \in 1..Len(list) : WithEnds(list)[k] = Mark(list[k], list[k][2], 1)
    BY WithEndsIs
  <2>3. QED BY <2>1, <2>2, MarkFields
<1>2. IsInjective(Bare(list)) /\ IsInjective(WithEnds(list))
  BY <1>1, BareIs, WithEndsIs DEF IsInjective
<1>3. QED BY <1>2, CaseTwoIs DEF BareMarks, EndMarks, Mark

LEMMA NidsQ1Is ==
  ASSUME NEW list \in Seq(CaseTwo), IsInjective(list)
  PROVE  LET s == VisualizeNIDSQ1(list) IN
           /\ s \in Seq(Fresh) /\ MarksOf(s) = Alone(CannedVictim) \union BareMarks(Range(list))
           /\ Ordered(s, OrderQ1(list))
<1> DEFINE one == Just(CannedVictim)
           two == <<Series(2, Bare(list))>>
<1>1. CannedVictim \in Host
  BY CannedAreNamed, CaseTwoIs
<1>2. one \in Seq(Fresh) /\ MarksOf(one) = Alone(CannedVictim)
  BY <1>1, JustIs
<1>3. two \in Seq(Fresh) /\ MarksOf(two) = BareMarks(Range(list))
  BY BareIs, FreshSeries
<1>4. Ordered(two, OrderQ1(list))
  BY BareOnce, SeriesOrder DEF OrderQ1
<1>5. \A m \in MarksOf(one) : m.link = Nothing
  BY <1>2 DEF Alone, Mark
<1>6. \A p \in OrderQ1(list) : p[1].link \in CaseTwo /\ p[2].link \in CaseTwo
  <2>1. DOMAIN list = 1..Len(list) /\ \A k \in 1..Len(list) : list[k] \in CaseTwo
    OBVIOUS
  <2>2. DOMAIN Bare(list) = 1..Len(list) /\ \A k \in 1..Len(list) : Bare(list)[k] = Mark(list[k], Nothing, 1)
    BY BareIs
  <2>3. \A k \in 1..Len(list) : Bare(list)[k].link \in CaseTwo
    BY <2>1, <2>2, MarkFields
  <2>4. QED BY <2>2, <2>3 DEF OrderQ1, Ascending
<1>7. Nothing \notin CaseTwo
  BY NothingAssumption
<1> HIDE DEF one, two
<1>8. one \in Seq(Timer) /\ two \in Seq(Timer)
  BY <1>2, <1>3, FreshIs
<1>9. Ordered(one \o two, OrderQ1(list))
  <2>1. ASSUME NEW m \in MarksOf(one), NEW other
        PROVE  <<m, other>> \notin OrderQ1(list) /\ <<other, m>> \notin OrderQ1(list)
    <3>1. <<m, other>>[1] = m /\ <<other, m>>[2] = m /\ m.link \notin CaseTwo
      BY <1>5, <1>7
    <3>2. QED BY <1>6, <3>1
  <2>2. QED BY <1>4, <1>8, <2>1, ApartOrder
<1>10. one \o two \in Seq(Fresh) /\ MarksOf(one \o two) = MarksOf(one) \union MarksOf(two)
  BY <1>2, <1>3, FreshConcat
<1>11. QED BY <1>2, <1>3, <1>9, <1>10 DEF VisualizeNIDSQ1, one, two

(* The hosts on the way of the alert of nids Q2, the attacker first.       *)
HitHosts == FirstSeen(FlattenSeq(CannedHits))

LEMMA HitHostsAre ==
  /\ HitHosts \in Seq(Ends(CaseTwo)) /\ IsInjective(HitHosts)
  /\ 1 \in DOMAIN HitHosts /\ HitHosts[1] = "10.40"
<1> DEFINE T == Ends(CaseTwo)
           all == FlattenSeq(CannedHits)
<1>1. CannedHits \in Seq(CaseTwo) /\ CannedHits # <<>>
      /\ \A l \in Range(CannedHits) : l = <<l[1], l[2]>> /\ l[1] = "10.40"
  BY HitsAre
<1>2. \A l \in CaseTwo : l \in Seq(T)
  <2>1. \A l \in CaseTwo : l = <<l[1], l[2]>> /\ l[1] \in T /\ l[2] \in T
    BY CaseTwoIs
  <2> HIDE DEF T
  <2>2. ASSUME NEW l \in CaseTwo
        PROVE  l \in Seq(T)
    <3>1. <<l[1], l[2]>> \in Seq(T)
      BY <2>1
    <3>2. QED BY <2>1, <3>1
  <2>3. QED BY <2>2
<1>3. CannedHits \in Seq(Seq(T))
  <2> HIDE DEF T
  <2>1. QED BY <1>1, <1>2
<1>4. CannedHits[1] # <<>> /\ CannedHits[1][1] = "10.40"
  <2>1. Len(CannedHits) \in Nat /\ Len(CannedHits) # 0 /\ DOMAIN CannedHits = 1..Len(CannedHits)
    BY <1>1
  <2>2. CannedHits[1] \in Range(CannedHits)
    BY <2>1 DEF Range
  <2>3. CannedHits[1] = <<CannedHits[1][1], CannedHits[1][2]>> /\ CannedHits[1][1] = "10.40"
    BY <1>1, <2>2
  <2>4. Len(<<CannedHits[1][1], CannedHits[1][2]>>) = 2 /\ Len(<<>>) = 0
    OBVIOUS
  <2>5. QED BY <2>3, <2>4
<1> HIDE DEF T, all
<1>5. all \in Seq(T) /\ all # <<>> /\ all[1] = "10.40"
  BY <1>1, <1>3, <1>4, Flattened DEF all
<1>6. /\ FirstSeen(all) \in Seq(T) /\ IsInjective(FirstSeen(all))
      /\ FirstSeen(all) # <<>> /\ FirstSeen(all)[1] = "10.40"
  BY <1>5, FirstSeenIs
<1>7. 1 \in DOMAIN FirstSeen(all)
  BY <1>6
<1>8. QED BY <1>6, <1>7 DEF HitHosts, all, T

LEMMA NidsQ2Is ==
  /\ VisualizeNIDSQ2 \in Seq(Fresh)
  /\ MarksOf(VisualizeNIDSQ2) = HostsAlone(Range(HitHosts), 0) \union BareMarks(Range(CannedHits))
  /\ Mark(Nothing, "10.40", 0) \in HostsAlone(Range(HitHosts), 0)
  /\ Ordered(VisualizeNIDSQ2, OrderQ2)
<1> DEFINE ms == AloneEach(HitHosts, 0)
           hits == FirstSeen(CannedHits)
           list == Bare(hits)
<1>1. /\ HitHosts \in Seq(Host) /\ IsInjective(HitHosts) /\ 1 \in DOMAIN HitHosts /\ HitHosts[1] = "10.40"
      /\ Nothing \notin Ends(CaseTwo) /\ Nothing \notin CaseTwo /\ "10.40" \in Ends(CaseTwo)
  <2>1. HitHosts \in Seq(Ends(CaseTwo)) /\ Ends(CaseTwo) \subseteq Host
    BY HitHostsAre, CaseTwoIs
  <2>2. HitHosts \in Seq(Host) /\ HitHosts[1] \in Ends(CaseTwo)
    BY <2>1, HitHostsAre
  <2>3. QED BY <2>2, HitHostsAre, NothingAssumption
<1>2. hits \in Seq(CaseTwo) /\ Range(hits) = Range(CannedHits)
  BY HitsAre, FirstSeenIs
<1>3. /\ ms \in Seq(MarkSet) /\ Len(ms) = Len(HitHosts) /\ Range(ms) = HostsAlone(Range(HitHosts), 0)
      /\ AfterEach(HitHosts, 0) = Spread(ms)
  BY <1>1, HostsAloneAre
<1>4. /\ list \in Seq(MarkSet) /\ Len(list) = Len(hits) /\ Range(list) = BareMarks(Range(CannedHits))
  <2> HIDE DEF hits
  <2>1. QED BY <1>2, BareIs
<1>5. \A k \in 1..Len(HitHosts) : ms[k].link = Nothing /\ ms[k].host = HitHosts[k]
  <2>1. DOMAIN HitHosts = 1..Len(HitHosts)
    BY <1>1
  <2>2. QED BY <2>1 DEF AloneEach, Mark
<1>6. \A m \in Range(list) : m.host = Nothing
  <2> HIDE DEF list
  <2>1. QED BY <1>4, MarkFields DEF BareMarks
<1>7. \A p \in OrderQ2 : p[1].host = "10.40" /\ p[1].link = Nothing /\ p[2].link \in CaseTwo
  <2>1. Range(CannedHits) \subseteq CaseTwo
    BY DEF CaseTwo
  <2>2. QED BY <2>1 DEF OrderQ2, Mark
<1> HIDE DEF ms, hits, list
<1>8. Ordered(Spread(ms), OrderQ2)
  <2>1. MarksOf(Spread(ms)) = HostsAlone(Range(HitHosts), 0)
    BY <1>3, FreshSpread
  <2>2. \A m \in MarksOf(Spread(ms)) : m.link = Nothing
    BY <2>1 DEF HostsAlone, Mark
  <2>3. \A m \in MarksOf(Spread(ms)), other \in MarksOf(Spread(ms)) : <<m, other>> \notin OrderQ2
    <3> TAKE m \in MarksOf(Spread(ms)), other \in MarksOf(Spread(ms))
    <3>1. <<m, other>>[2].link = Nothing
      BY <2>2
    <3>2. QED BY <1>1, <1>7, <3>1
  <2>4. QED BY <2>3, NoOrder
<1>9. Ordered(<<Series(2, list)>>, OrderQ2)
  <2>1. MarksOf(<<Series(2, list)>>) = Range(list)
    BY <1>4, FreshSeries
  <2>2. \A m \in Range(list), other \in Range(list) : <<m, other>> \notin OrderQ2
    <3> TAKE m \in Range(list), other \in Range(list)
    <3>1. <<m, other>>[1].host = Nothing
      BY <1>6
    <3>2. QED BY <1>1, <1>7, <3>1
  <2>3. QED BY <2>1, <2>2, NoOrder
<1>10. ASSUME NEW k \in 1..Len(ms), NEW l \in 1..Len(list)
       PROVE  /\ <<ms[k], list[l]>> \in OrderQ2 => 2 * k <= 2 + 2 * l
              /\ <<list[l], ms[k]>> \notin OrderQ2
  <2>1. <<list[l], ms[k]>> \notin OrderQ2
    <3>1. list[l] \in Range(list)
      BY <1>4 DEF Range
    <3>2. <<list[l], ms[k]>>[1].host = Nothing
      BY <1>6, <3>1
    <3>3. QED BY <1>1, <1>7, <3>2
  <2>2. ASSUME <<ms[k], list[l]>> \in OrderQ2
        PROVE  k = 1
    <3>1. <<ms[k], list[l]>>[1] = ms[k] /\ k \in DOMAIN HitHosts
      BY <1>1, <1>3
    <3>2. HitHosts[k] = HitHosts[1]
      BY <1>1, <1>3, <1>5, <1>7, <2>2, <3>1
    <3>3. QED BY <1>1, <3>1, <3>2 DEF IsInjective
  <2>3. l \in Nat /\ l >= 1
    BY <1>4
  <2>4. QED BY <2>1, <2>2, <2>3
<1> DEFINE s == Spread(ms) \o <<Series(2, list)>>
<1>11. /\ s \in Seq(Fresh) /\ MarksOf(s) = Range(ms) \union Range(list)
       /\ Ordered(s, OrderQ2)
  BY <1>3, <1>4, <1>8, <1>9, <1>10, SpreadThenSeries
<1>12. VisualizeNIDSQ2 = s
  BY <1>3 DEF VisualizeNIDSQ2, HitHosts, list, hits, AfterEach
<1>13. Mark(Nothing, "10.40", 0) \in HostsAlone(Range(HitHosts), 0)
  BY <1>1 DEF HostsAlone, Range
<1> HIDE DEF s
<1>14. QED BY <1>3, <1>4, <1>11, <1>12, <1>13

(* What the order of nids Q3 is about.                                     *)
LEMMA OrderQ3Is ==
  ASSUME NEW list \in Seq(CaseTwo), IsInjective(list), NEW p \in OrderQ3(list)
  PROVE  /\ p[1] \in EndMarks(Range(list))
         /\ p[2] \in EndMarks(Range(list)) \union BareMarks(Range(list))
         /\ \A i \in 1..Len(list), j \in 1..Len(list) :
              p = <<WithEnds(list)[i], WithEnds(list)[j]>> => i < j
         /\ \A i \in 1..Len(list), j \in 1..Len(list) :
              p = <<WithEnds(list)[i], Bare(list)[j]>> => i = j
<1> DEFINE e == WithEnds(list)
           b == Bare(list)
           n == Len(list)
<1>1. /\ n \in Nat /\ DOMAIN list = 1..n /\ DOMAIN e = 1..n /\ DOMAIN b = 1..n
      /\ Range(e) = EndMarks(Range(list)) /\ Range(b) = BareMarks(Range(list))
      /\ IsInjective(e) /\ IsInjective(b)
  BY WithEndsIs, BareIs, BareOnce
<1>2. \A i \in 1..n, j \in 1..n : e[i] # b[j]
  <2> TAKE i \in 1..n, j \in 1..n
  <2>1. list[i] \in CaseTwo
    BY <1>1
  <2>2. list[i][2] # Nothing
    BY <2>1, CaseTwoIs, NothingAssumption
  <2>3. e[i] = Mark(list[i], list[i][2], 1) /\ b[j] = Mark(list[j], Nothing, 1)
    BY WithEndsIs, BareIs
  <2>4. e[i].host = list[i][2] /\ b[j].host = Nothing
    <3> HIDE DEF e, b
    <3>1. QED BY <2>3, MarkFields
  <2>5. QED BY <2>2, <2>4
<1>3. OrderQ3(list) = Ascending(e) \union {<<e[i], b[i]>> : i \in 1..n}
  BY <1>1 DEF OrderQ3
<1> HIDE DEF e, b, n
<1>4. CASE p \in Ascending(e)
  <2>1. PICK q \in (1..n) \X (1..n) : q[1] < q[2] /\ p = <<e[q[1]], e[q[2]]>>
    BY <1>1, <1>4 DEF Ascending
  <2>2. p[1] \in Range(e) /\ p[2] \in Range(e)
    BY <1>1, <2>1 DEF Range
  <2>3. \A i \in 1..n, j \in 1..n : p = <<e[i], e[j]>> => i < j
    BY <1>1, <2>1 DEF IsInjective
  <2>4. \A i \in 1..n, j \in 1..n : p # <<e[i], b[j]>>
    BY <1>2, <2>1
  <2>5. QED BY <1>1, <2>2, <2>3, <2>4 DEF e, b, n
<1>5. CASE p \notin Ascending(e)
  <2>1. PICK a \in 1..n : p = <<e[a], b[a]>>
    BY <1>3, <1>5
  <2>2. p[1] \in Range(e) /\ p[2] \in Range(b)
    BY <1>1, <2>1 DEF Range
  <2>3. \A i \in 1..n, j \in 1..n : p # <<e[i], e[j]>>
    BY <1>2, <2>1
  <2>4. \A i \in 1..n, j \in 1..n : p = <<e[i], b[j]>> => i = j
    BY <1>1, <2>1 DEF IsInjective
  <2>5. QED BY <1>1, <2>2, <2>3, <2>4 DEF e, b, n
<1>6. QED BY <1>4, <1>5

LEMMA NidsQ3Is ==
  ASSUME NEW list \in Seq(CaseTwo), IsInjective(list)
  PROVE  LET s == VisualizeNIDSQ3(list) IN
           /\ s \in Seq(Fresh)
           /\ MarksOf(s) = EndMarks(Range(list)) \union Alone(CannedAttacker) \union BareMarks(Range(list))
           /\ Ordered(s, OrderQ3(list))
<1> DEFINE e == WithEnds(list)
           b == Bare(list)
           n == Len(list)
           P == OrderQ3(list)
           A == Spread(e)
           B == Just(CannedAttacker)
           C == <<Series(2, b)>>
<1>1. /\ n \in Nat /\ e \in Seq(MarkSet) /\ b \in Seq(MarkSet) /\ Len(e) = n /\ Len(b) = n
      /\ DOMAIN e = 1..n /\ DOMAIN b = 1..n
      /\ Range(e) = EndMarks(Range(list)) /\ Range(b) = BareMarks(Range(list))
  BY WithEndsIs, BareIs
<1>2. /\ \A m \in Range(e) : m.link \in CaseTwo /\ m.host \in Ends(CaseTwo)
      /\ \A m \in Range(b) : m.link \in CaseTwo /\ m.host = Nothing
  <2>1. Range(list) \subseteq CaseTwo
    BY DEF Range
  <2>2. EndMarks(Range(list)) \subseteq EndMarks(CaseTwo) /\ BareMarks(Range(list)) \subseteq BareMarks(CaseTwo)
    BY <2>1 DEF EndMarks, BareMarks
  <2>3. QED BY <1>1, <2>2, BareOnce
<1>3. Nothing \notin CaseTwo /\ Nothing \notin Ends(CaseTwo)
  BY NothingAssumption
<1>4. \A p \in P : p[1] \in Range(e) /\ p[2] \in Range(e) \union Range(b)
  BY <1>1, OrderQ3Is
<1>5. \A i \in 1..n, j \in 1..n : /\ <<e[i], e[j]>> \in P => i < j
                                  /\ <<e[i], b[j]>> \in P => i = j
  BY OrderQ3Is
<1>6. VisualizeNIDSQ3(list) = (A \o B) \o C
  <2>1. DOMAIN list = DOMAIN e
    BY DEF WithEnds
  <2>2. A = [i \in DOMAIN list |-> After(2 * i, Mark(list[i], list[i][2], 1))]
    BY DEF Spread, WithEnds
  <2>3. QED BY <2>2 DEF VisualizeNIDSQ3
<1> HIDE DEF e, b, n, P
<1>7. /\ A \in Seq(Fresh) /\ A \in Seq(Timer) /\ MarksOf(A) = Range(e) /\ DOMAIN A = 1..n
      /\ \A k \in 1..n : A[k] = After(2 * k, e[k])
  <2>1. A \in Seq(Fresh) /\ MarksOf(A) = Range(e)
    BY <1>1, FreshSpread
  <2>2. A \in Seq(Timer) /\ Len(A) = n /\ \A k \in 1..n : A[k] = After(2 * k, e[k])
    BY <1>1, SpreadIs
  <2> HIDE DEF A
  <2>3. DOMAIN A = 1..n
    BY <2>2
  <2>4. QED BY <2>1, <2>2, <2>3
<1>8. B \in Seq(Fresh) /\ B \in Seq(Timer) /\ MarksOf(B) = Alone(CannedAttacker)
  BY CannedAreNamed, CaseTwoIs, JustIs, FreshIs
<1>9. C \in Seq(Fresh) /\ C \in Seq(Timer) /\ MarksOf(C) = Range(b)
  BY <1>1, FreshSeries, FreshIs
<1>10. DOMAIN C = {1} /\ C[1].series /\ C[1].wait = 2 /\ C[1].marks = b
  BY DEF Series
<1> HIDE DEF A, B, C
<1>11. \A m \in MarksOf(B) : m.link = Nothing
  BY <1>8 DEF Alone, Mark
<1>12. \A k \in 1..n : /\ A[k].wait = 2 * k /\ ~ A[k].series /\ DOMAIN A[k].marks = {1}
                       /\ A[k].marks[1] = e[k]
  BY <1>7 DEF After
<1>13. Ordered(A, P)
  <2> SUFFICES ASSUME NEW i \in 1..n, NEW j \in 1..n, <<e[i], e[j]>> \in P
               PROVE  Precedes(A, i, 1, j, 1)
    BY <1>7, <1>12 DEF Ordered
  <2>1. i < j
    BY <1>5
  <2>2. 2 * i <= 2 * j
    <3>1. i \in Int /\ j \in Int
      BY <1>1
    <3>2. QED BY <2>1, <3>1
  <2>3. QED BY <1>12, <2>1, <2>2 DEF Precedes
<1>14. \A m \in MarksOf(B), other \in MarksOf(A) \union MarksOf(B) \union MarksOf(C) :
         <<m, other>> \notin P /\ <<other, m>> \notin P
  <2> SUFFICES ASSUME NEW m \in MarksOf(B), NEW other
               PROVE  <<m, other>> \notin P /\ <<other, m>> \notin P
    OBVIOUS
  <2>1. <<m, other>>[1] = m /\ <<other, m>>[2] = m /\ m.link \notin CaseTwo
    BY <1>3, <1>11
  <2>2. QED BY <1>2, <1>4, <2>1
<1>15. Ordered(B, P)
  BY <1>14, NoOrder
<1>16. Ordered(A \o B, P)
  <2>1. \A i \in DOMAIN A, j \in DOMAIN B : \A k \in DOMAIN A[i].marks, l \in DOMAIN B[j].marks :
          <<A[i].marks[k], B[j].marks[l]>> \notin P
    BY <1>14, IsMark
  <2>2. \A m \in MarksOf(B), before \in MarksOf(A) : <<m, before>> \notin P
    BY <1>14
  <2>3. QED BY <1>7, <1>8, <1>13, <1>15, <2>1, <2>2, ConcatOrder
<1> DEFINE D == A \o B
<1>17. D \in Seq(Fresh) /\ MarksOf(D) = MarksOf(A) \union MarksOf(B)
  BY <1>7, <1>8, FreshConcat
<1>18. /\ D \in Seq(Timer) /\ \A i \in 1..n : D[i] = A[i]
       /\ \A i \in DOMAIN D : i \in 1..n \/ \E x \in DOMAIN B : D[i] = B[x]
  <2>1. /\ DOMAIN A = 1..Len(A) /\ DOMAIN B = 1..Len(B) /\ Len(A) \in Nat /\ Len(B) \in Nat
        /\ D \in Seq(Timer)
        /\ \A i \in 1..Len(A) : D[i] = A[i]
        /\ \A x \in DOMAIN D : x \in 1..Len(A) \/ \E i \in 1..Len(B) : x = Len(A) + i
        /\ \A i \in 1..Len(B) : D[Len(A) + i] = B[i]
    BY <1>7, <1>8, ConcatIs
  <2> HIDE DEF D
  <2>2. QED BY <1>7, <2>1
<1>19. ASSUME NEW m \in MarksOf(C), NEW other PROVE <<m, other>> \notin P
  <2>1. <<m, other>>[1] = m /\ m.host = Nothing
    BY <1>2, <1>9
  <2>2. QED BY <1>2, <1>3, <1>4, <2>1
<1>20. Ordered(C, P)
  BY <1>19, NoOrder
<1>21. ASSUME NEW i \in DOMAIN D, NEW j \in DOMAIN C,
              NEW k \in DOMAIN D[i].marks, NEW l \in DOMAIN C[j].marks,
              <<D[i].marks[k], C[j].marks[l]>> \in P
       PROVE  Across(D, i, k, C, j, l)
  <2>1. j = 1 /\ l \in 1..n
    BY <1>1, <1>10
  <2>2. C[j].marks[l] \in MarksOf(C)
    BY IsMark
  <2>3. i \in 1..n
    <3> SUFFICES ASSUME i \notin 1..n PROVE FALSE
      OBVIOUS
    <3>1. PICK x \in DOMAIN B : D[i] = B[x]
      BY <1>18
    <3>2. D[i].marks[k] \in MarksOf(B)
      BY <3>1, IsMark
    <3>3. QED BY <1>14, <1>21, <2>2, <3>2
  <2>4. k = 1 /\ D[i].marks[k] = e[i] /\ D[i].wait = 2 * i /\ ~ D[i].series
    BY <1>12, <1>18, <2>3
  <2>5. C[j].marks[l] = b[l] /\ C[j].series /\ C[j].wait = 2
    BY <1>10, <2>1
  <2>6. i = l
    BY <1>5, <1>21, <2>1, <2>3, <2>4, <2>5
  <2>7. 2 * i <= 2 + 2 * l /\ i \in Nat
    BY <1>1, <2>1, <2>6
  <2>8. QED BY <2>4, <2>5, <2>7 DEF Across
<1> HIDE DEF D
<1>22. Ordered(D \o C, P)
  <2>1. \A m \in MarksOf(C), before \in MarksOf(D) : <<m, before>> \notin P
    BY <1>19
  <2>2. Ordered(D, P)
    BY <1>16 DEF D
  <2>3. QED BY <1>9, <1>18, <1>20, <1>21, <2>1, <2>2, ConcatOrder
<1>23. D \o C \in Seq(Fresh) /\ MarksOf(D \o C) = MarksOf(D) \union MarksOf(C)
  BY <1>9, <1>17, FreshConcat
<1>24. QED BY <1>1, <1>6, <1>7, <1>8, <1>9, <1>17, <1>22, <1>23 DEF D, P

(* The end of a search, and an alert of nids Q2.                           *)
LEMMA EdgesAre ==
  ASSUME SearchInv
  PROVE  edges \in Seq(CaseTwo) /\ IsInjective(edges)
<1>1. Range(graph) \subseteq CaseTwo
  BY LiteralIs DEF SearchInv
<1>2. QED BY <1>1 DEF SearchInv

LEMMA SingleRound ==
  ASSUME NEW host
  PROVE  /\ \A m \in Alone(host) : m.round = 0
         /\ \A S : /\ \A m \in BareMarks(S) : m.round = 1
                   /\ \A m \in EndMarks(S) : m.round = 1
                   /\ \A m \in HostsAlone(S, 0) : m.round = 0
                   /\ \A m \in HostsAlone(S, 1) : m.round = 1
BY DEF Alone, BareMarks, EndMarks, HostsAlone, Mark

LEMMA SearchedDraws ==
  ASSUME StageInv, SearchInv, Searched
  PROVE  /\ page \in {"nidsQ1", "nidsQ3"} /\ queried = Canned[page] /\ phase' = "drawn"
         /\ UNCHANGED edges
         /\ page = "nidsQ1" => /\ Drawing(Alone(queried) \union BareMarks(Range(edges)))
                               /\ Ordered(timers', OrderQ1(edges))
         /\ page = "nidsQ3" => /\ Drawing(EndMarks(Range(edges)) \union Alone(queried)
                                            \union BareMarks(Range(edges)))
                               /\ Ordered(timers', OrderQ3(edges))
<1>1. /\ page \in {"nidsQ1", "nidsQ3"} /\ queried = Canned[page]
      /\ edges \in Seq(CaseTwo) /\ IsInjective(edges) /\ phase = "search"
      /\ UNCHANGED edges
  BY EdgesAre DEF Searched, SearchInv, Searching, search
<1>2. /\ page = "nidsQ1" => queried = CannedVictim
      /\ page = "nidsQ3" => queried = CannedAttacker
  BY <1>1 DEF Canned
<1>3. CASE page = "nidsQ1"
  <2> DEFINE s == VisualizeNIDSQ1(edges)
  <2>1. /\ s \in Seq(Fresh) /\ MarksOf(s) = Alone(queried) \union BareMarks(Range(edges))
        /\ Ordered(s, OrderQ1(edges))
    BY <1>1, <1>2, <1>3, NidsQ1Is
  <2>2. Draw(s)
    BY <1>3 DEF Searched
  <2> HIDE DEF s
  <2>3. Ordered(s, Rounds)
    <3>1. \A m \in MarksOf(s) : m.round # 2
      BY <2>1, SingleRound
    <3>2. QED BY <3>1, OneRoundOrder
  <2>4. Drawing(MarksOf(s)) /\ timers' = s /\ phase' = "drawn"
    BY <1>1, <2>1, <2>2, <2>3, DrawsScript DEF Draw
  <2>5. QED BY <1>1, <1>3, <2>1, <2>4
<1>4. CASE page = "nidsQ3"
  <2> DEFINE s == VisualizeNIDSQ3(edges)
  <2>1. /\ s \in Seq(Fresh)
        /\ MarksOf(s) = EndMarks(Range(edges)) \union Alone(queried) \union BareMarks(Range(edges))
        /\ Ordered(s, OrderQ3(edges))
    BY <1>1, <1>2, <1>4, NidsQ3Is
  <2>2. Draw(s)
    BY <1>4 DEF Searched
  <2> HIDE DEF s
  <2>3. Ordered(s, Rounds)
    <3>1. \A m \in MarksOf(s) : m.round # 2
      BY <2>1, SingleRound
    <3>2. QED BY <3>1, OneRoundOrder
  <2>4. Drawing(MarksOf(s)) /\ timers' = s /\ phase' = "drawn"
    BY <1>1, <2>1, <2>2, <2>3, DrawsScript DEF Draw
  <2>5. QED BY <1>1, <1>4, <2>1, <2>4
<1>5. QED BY <1>1, <1>3, <1>4

LEMMA NidsQ2Draws ==
  ASSUME AcceptNidsQ2
  PROVE  \/ Drawing({})
         \/ /\ Drawing(HostsAlone(Range(HitHosts), 0) \union BareMarks(Range(CannedHits)))
            /\ Ordered(timers', OrderQ2)
<1>1. phase = "round"
  BY DEF AcceptNidsQ2, NidsAccepted
<1>2. CASE NoAnimation
  BY <1>1, <1>2, NothingDraws DEF NoAnimation
<1>3. CASE ~ NoAnimation
  <2> DEFINE s == VisualizeNIDSQ2
  <2>1. Draw(s)
    BY <1>3 DEF AcceptNidsQ2
  <2>2. /\ s \in Seq(Fresh) /\ Ordered(s, OrderQ2)
        /\ MarksOf(s) = HostsAlone(Range(HitHosts), 0) \union BareMarks(Range(CannedHits))
    BY NidsQ2Is
  <2> HIDE DEF s
  <2>3. Ordered(s, Rounds)
    <3>1. \A m \in MarksOf(s) : m.round # 2
      BY <2>2, SingleRound
    <3>2. QED BY <3>1, OneRoundOrder
  <2>4. Drawing(MarksOf(s)) /\ timers' = s
    BY <1>1, <2>1, <2>2, <2>3, DrawsScript DEF Draw
  <2>5. QED BY <2>2, <2>4
<1>4. QED BY <1>2, <1>3

(* What a step can be.                                                     *)
LEMMA StepsAre ==
  ASSUME StageInv, CallInv, SearchInv, [Next]_vars
  PROVE  Rests \/ (\E marks : Drawing(marks)) \/ (Animate /\ Same) \/ LoadGraph
<1>1. CASE AcceptHoneypotsQ1 \/ AcceptHoneypotsQ2
  BY <1>1, HoneypotsQ1Draws, HoneypotsQ2Draws
<1>2. CASE RejectHoneypots \/ RejectGtmw \/ RejectNids
  BY <1>2, RejectedDraws
<1>3. CASE AcceptGtmwQ1
  BY <1>3, GtmwQ1Draws
<1>4. CASE AcceptGtmwQ2
  BY <1>4, GtmwQ2Draws
<1>5. CASE AcceptGtmwQ3
  BY <1>5, GtmwQ3Draws
<1>6. CASE AcceptRefusal
  BY <1>6, NothingDraws DEF AcceptRefusal
<1>7. CASE AcceptNidsQ1 \/ AcceptNidsQ3
  <2>1. phase = "round" /\ (NoAnimation \/ StartSearch)
    BY <1>7 DEF AcceptNidsQ1, AcceptNidsQ3, NidsAccepted
  <2>2. CASE NoAnimation
    BY <2>1, <2>2, NothingDraws DEF NoAnimation
  <2>3. CASE StartSearch
    BY <2>1, <2>3 DEF StartSearch, Rests
  <2>4. QED BY <2>1, <2>2, <2>3
<1>8. CASE AcceptNidsQ2
  BY <1>8, NidsQ2Draws
<1>9. CASE Searched
  BY <1>9, SearchedDraws
<1>10. CASE AskAttackers
  BY <1>10, AskAttackersDraws
<1>11. CASE AskVictims
  BY <1>11, AskVictimsDraws
<1>12. CASE getQ3FinalResult \/ Search \/ AskFails \/ Commit \/ UNCHANGED vars
  BY <1>12 DEF getQ3FinalResult, Search, AskFails, Commit, vars, Rests
<1>13. CASE (Animate /\ Same) \/ LoadGraph
  BY <1>13
<1>14. QED BY <1>1, <1>2, <1>3, <1>4, <1>5, <1>6, <1>7, <1>8, <1>9, <1>10, <1>11, <1>12, <1>13
           DEF Next, Decide, Work

LEMMA StageInvNext ==
  ASSUME StageInv, CallInv, SearchInv, [Next]_vars
  PROVE  StageInv'
<1>1. CASE Rests
  BY <1>1, StageRests
<1>2. CASE \E marks : Drawing(marks)
  BY <1>2, StageRegisters DEF Drawing
<1>3. CASE (Animate /\ Same) \/ LoadGraph
  <2>1. phase \in {"drawn", "threw"} \/ timers # <<>>
    BY <1>3 DEF Animate, StartSeries, Highlight, Tick, FirstDue, LoadGraph
  <2>2. QED BY <1>3, <2>1, StageAnimates
<1>4. QED BY <1>1, <1>2, <1>3, StepsAre

LEMMA StageHolds == SafetySpec => [](StageInv /\ CallInv /\ SearchInv)
<1>1. Init => StageInv /\ CallInv /\ SearchInv
  BY StageInvInit, CallInvInit, SearchInvInit
<1>2. (StageInv /\ CallInv /\ SearchInv) /\ [Next]_vars => (StageInv /\ CallInv /\ SearchInv)'
  BY StageInvNext, CallInvNext, SearchInvNext
<1>3. QED BY <1>1, <1>2, PTL DEF SafetySpec

-----------------------------------------------------------------------------
(* A second round after the first.                                         *)
LEMMA MarksAreMarks ==
  ASSUME NEW ts \in Seq(Timer), NEW m \in MarksOf(ts)
  PROVE  m \in MarkSet
<1>1. PICK t \in Range(ts) : m \in Range(t.marks)
  BY DEF MarksOf
<1>2. t \in Timer
  BY <1>1 DEF Range
<1>3. t.marks \in Seq(MarkSet)
  BY <1>2 DEF Timer
<1>4. QED BY <1>1, <1>3 DEF Range

LEMMA EmptyMarks == MarksOf(<<>>) = {} /\ \A pairs : Ordered(<<>>, pairs)
BY NoScript, NoOrder

(* The order of a script outlives every step of the animation.             *)
LEMMA AnimateKeepsOrder ==
  ASSUME Animated, Animate, NEW pairs, Ordered(timers, pairs)
  PROVE  Ordered(timers', pairs)
<1>1. CASE Highlight
  <2>1. PICK i \in DOMAIN timers : timers' = RemoveAt(timers, i)
    BY <1>1 DEF Highlight
  <2>2. QED BY <2>1, RemoveKeepsOrder DEF Animated
<1>2. QED BY <1>1, StartKeepsOrder, TickKeepsOrder DEF Animate

(* What a step of the animation shows.                                     *)
LEMMA AnimateShows ==
  ASSUME Animated, Animate
  PROVE  \/ KeepsMarks
         \/ \E i \in DOMAIN timers : Highlights(i)
BY StartSteps, TickSteps, HighlightSteps DEF Animate

(* A second round that began is shown after every mark of the first.       *)
SecondBegan == \E n \in DOMAIN picture : picture[n].round = 2
RoundInv == /\ Ordered(timers, Rounds)
            /\ SecondBegan => \A m \in MarksOf(timers) : m.round # 1

LEMMA RoundInvIs == Animated /\ RoundInv => RoundTwoLast
<1> SUFFICES ASSUME Animated, RoundInv, 2 \in {m.round : m \in Shown(Len(picture))},
                    NEW i \in DOMAIN timers, NEW j \in DOMAIN timers[i].marks
             PROVE  timers[i].marks[j].round # 1
  BY DEF RoundTwoLast
<1>1. PICK n \in 1..Len(picture) : picture[n].round = 2
  BY DEF Shown
<1>2. SecondBegan
  BY <1>1 DEF SecondBegan, Animated
<1>3. timers[i].marks[j] \in MarksOf(timers)
  BY IsMark
<1>4. QED BY <1>2, <1>3 DEF RoundInv

LEMMA RoundInvAnimates ==
  ASSUME Animated, RoundInv, Animate, MaxLate <= 2
  PROVE  RoundInv'
<1>1. Ordered(timers', Rounds)
  BY AnimateKeepsOrder DEF RoundInv
<1>2. CASE KeepsMarks
  BY <1>1, <1>2 DEF KeepsMarks, RoundInv, SecondBegan
<1>3. CASE \E i \in DOMAIN timers : Highlights(i)
  <2>1. PICK i \in DOMAIN timers : Highlights(i)
    BY <1>3
  <2> DEFINE m == timers[i].marks[1]
             seen == Visible(m)
  <2>2. /\ m \in MarkSet /\ MarksOf(timers) = MarksOf(timers') \union {m}
        /\ picture' = Append(picture, seen) \/ picture' = picture
        /\ seen.round = m.round
    BY <2>1, VisibleIs DEF Highlights
  <2>3. \A other \in MarksOf(timers) : <<other, m>> \notin Rounds
    BY <2>1, HighlightIsFirst DEF RoundInv
  <2>4. m.round = 2 => \A other \in MarksOf(timers) : other.round # 1
    <3>1. \A other \in MarksOf(timers) : other \in MarkSet
      BY MarksAreMarks DEF Animated
    <3>2. QED BY <2>2, <2>3, <3>1 DEF Rounds
  <2>5. SecondBegan' => SecondBegan \/ m.round = 2
    <3> HIDE DEF m, seen
    <3>1. CASE picture' = Append(picture, seen)
      <4>1. picture \in Seq(MarkSet)
        BY DEF Animated
      <4>2. ASSUME NEW n \in DOMAIN picture', picture'[n].round = 2
            PROVE  SecondBegan \/ m.round = 2
        <5>1. CASE n \in DOMAIN picture
          <6>1. picture'[n] = picture[n]
            BY <3>1, <4>1, <5>1
          <6>2. QED BY <4>2, <5>1, <6>1 DEF SecondBegan
        <5>2. CASE n \notin DOMAIN picture
          <6>1. picture'[n] = seen
            BY <3>1, <4>1, <5>2
          <6>2. QED BY <2>2, <4>2, <6>1
        <5>3. QED BY <5>1, <5>2
      <4>3. QED BY <4>2 DEF SecondBegan
    <3>2. QED BY <2>2, <3>1 DEF SecondBegan
  <2> HIDE DEF m, seen
  <2>6. QED BY <1>1, <2>2, <2>4, <2>5 DEF RoundInv
<1>4. QED BY <1>2, <1>3, AnimateShows

LEMMA RoundInvNext ==
  ASSUME MaxLate <= 2, StageInv, CallInv, SearchInv, RoundInv, [Next]_vars
  PROVE  RoundInv'
<1>1. CASE Rests \/ LoadGraph
  BY <1>1 DEF Rests, LoadGraph, Load, animation, RoundInv, SecondBegan
<1>2. CASE \E marks : Drawing(marks)
  <2>1. picture = <<>> /\ picture' = picture /\ Ordered(timers', Rounds)
    BY <1>2 DEF Drawing, Registers, StageInv
  <2>2. DOMAIN picture' = {}
    BY <2>1
  <2>3. QED BY <2>1, <2>2 DEF RoundInv, SecondBegan
<1>3. CASE Animate
  BY <1>3, RoundInvAnimates DEF StageInv
<1>4. QED BY <1>1, <1>2, <1>3, StepsAre

(* A browser that is at most a second late shows nothing of the first      *)
(* round of a page once its second has begun, however many links each has. *)
THEOREM SecondRoundIsLast ==
  ASSUME MaxLate <= 2
  PROVE  Spec => []RoundTwoLast
<1>1. Init => StageInv /\ CallInv /\ SearchInv /\ RoundInv
  <2> SUFFICES ASSUME Init PROVE StageInv /\ CallInv /\ SearchInv /\ RoundInv
    OBVIOUS
  <2>1. timers = <<>> /\ DOMAIN picture = {}
    BY DEF Init
  <2>2. RoundInv
    BY <2>1, EmptyMarks DEF RoundInv, SecondBegan
  <2>3. QED BY <2>2, StageInvInit, CallInvInit, SearchInvInit
<1>2. (StageInv /\ CallInv /\ SearchInv /\ RoundInv) /\ [Next]_vars
        => (StageInv /\ CallInv /\ SearchInv /\ RoundInv)'
  BY StageInvNext, CallInvNext, SearchInvNext, RoundInvNext
<1>3. StageInv /\ RoundInv => RoundTwoLast
  BY RoundInvIs DEF StageInv
<1>4. QED BY <1>1, <1>2, <1>3, PTL DEF Spec

-----------------------------------------------------------------------------
(* The hosts that are, or will be, highlighted in a round.                 *)
HostsIn(marks, r) == {m.host : m \in {k \in marks : k.round = r}}
Drawn(r) == (HostsIn(MarksOf(timers), r) \intersect hosts)
              \union (HostsIn(Range(picture), r) \ {Nothing})

FinalRound == IF page \in {"honeypotsQ3", "gtmwQ1", "gtmwQ3"} THEN 2 ELSE 1

(* What page Q3 of honeypots makes of its own answers.                     *)
OwnVictims == UNION {AttackedBy(ledger, a) : a \in AttackersOf(ledger, queried)}

(* What is accepted, and what is drawn.                                    *)
TableInv == page = "honeypotsQ3" /\ moves = 0 /\ verdict = "accepted" => table = Listed(ledger)

DrawnInv ==
  phase = "drawn" =>
    /\ page \notin NidsPages \union {"honeypotsQ3"} =>
         /\ verdict = "accepted" /\ honest => Drawn(FinalRound) = table \intersect hosts
         /\ verdict = "rejected" => Drawn(FinalRound) = {}
    /\ page = "honeypotsQ3" /\ moves = 0 => Drawn(2) = OwnVictims \intersect hosts

(* The hosts in the marks of the scripts.                                  *)
LEMMA HostsInMarks ==
  /\ \A host : HostsIn(Alone(host), 1) = {} /\ HostsIn(Alone(host), 2) = {}
  /\ \A o, S, r : HostsIn(InnerOf(o, S, r), r) = S /\ HostsIn(OuterOf(o, S, r), r) = S
  /\ \A o, S : HostsIn(InnerOf(o, S, 1), 2) = {} /\ HostsIn(OuterOf(o, S, 1), 2) = {}
  /\ \A S : HostsIn(HostsAlone(S, 1), 2) = {}
  /\ \A a, b, r : HostsIn(a \union b, r) = HostsIn(a, r) \union HostsIn(b, r)
  /\ \A r : HostsIn({}, r) = {}
<1>1. \A host : HostsIn(Alone(host), 1) = {} /\ HostsIn(Alone(host), 2) = {}
  BY DEF HostsIn, Alone, Mark
<1>2. \A o, S, r : HostsIn(InnerOf(o, S, r), r) = S
  <2> TAKE o, S, r
  <2>1. \A v \in S : /\ Mark(<<o, v>>, v, r) \in InnerOf(o, S, r)
                     /\ Mark(<<o, v>>, v, r).round = r /\ Mark(<<o, v>>, v, r).host = v
    BY DEF InnerOf, Mark
  <2>2. \A m \in InnerOf(o, S, r) : m.host \in S
    BY DEF InnerOf, Mark
  <2>3. QED BY <2>1, <2>2 DEF HostsIn
<1>3. \A o, S, r : HostsIn(OuterOf(o, S, r), r) = S
  <2> TAKE o, S, r
  <2>1. \A v \in S : /\ Mark(<<v, o>>, v, r) \in OuterOf(o, S, r)
                     /\ Mark(<<v, o>>, v, r).round = r /\ Mark(<<v, o>>, v, r).host = v
    BY DEF OuterOf, Mark
  <2>2. \A m \in OuterOf(o, S, r) : m.host \in S
    BY DEF OuterOf, Mark
  <2>3. QED BY <2>1, <2>2 DEF HostsIn
<1>4. \A o, S : HostsIn(InnerOf(o, S, 1), 2) = {} /\ HostsIn(OuterOf(o, S, 1), 2) = {}
  BY DEF HostsIn, InnerOf, OuterOf, Mark
<1>5. \A S : HostsIn(HostsAlone(S, 1), 2) = {}
  BY DEF HostsIn, HostsAlone, Mark
<1>6. \A a, b, r : HostsIn(a \union b, r) = HostsIn(a, r) \union HostsIn(b, r)
  BY DEF HostsIn
<1>7. \A r : HostsIn({}, r) = {}
  BY DEF HostsIn
<1>8. QED BY <1>1, <1>2, <1>3, <1>4, <1>5, <1>6, <1>7

LEMMA HostsInBoth ==
  ASSUME NEW a, NEW b, NEW r
  PROVE  HostsIn(a \union b, r) = HostsIn(a, r) \union HostsIn(b, r)
BY DEF HostsIn

LEMMA HostsInFirst ==
  ASSUME NEW o, NEW S
  PROVE  /\ HostsIn(Alone(o) \union InnerOf(o, S, 1), 1) = S
         /\ HostsIn(Alone(o) \union OuterOf(o, S, 1), 1) = S
         /\ HostsIn(Alone(o) \union InnerOf(o, S, 1), 2) = {}
         /\ HostsIn(Alone(o) \union OuterOf(o, S, 1), 2) = {}
         /\ HostsIn(HostsAlone(S, 1), 2) = {}
         /\ HostsIn(Alone(o), 1) = {} /\ HostsIn(Alone(o), 2) = {}
<1>1. HostsIn(Alone(o), 1) = {} /\ HostsIn(Alone(o), 2) = {}
  BY HostsInMarks
<1>2. HostsIn(InnerOf(o, S, 1), 1) = S /\ HostsIn(InnerOf(o, S, 1), 2) = {}
  BY HostsInMarks
<1>3. HostsIn(OuterOf(o, S, 1), 1) = S /\ HostsIn(HostsAlone(S, 1), 2) = {}
  BY HostsInMarks
<1>4. HostsIn(Alone(o) \union InnerOf(o, S, 1), 1) = S
  BY <1>1, <1>2, HostsInBoth
<1>5. HostsIn(Alone(o) \union OuterOf(o, S, 1), 1) = S
  BY <1>1, <1>3, HostsInBoth
<1>6. HostsIn(Alone(o) \union InnerOf(o, S, 1), 2) = {}
  BY <1>1, <1>2, HostsInBoth
<1>7. HostsIn(Alone(o) \union OuterOf(o, S, 1), 2) = {}
  <2>1. HostsIn(OuterOf(o, S, 1), 2) = {}
    BY HostsInMarks
  <2>2. QED BY <1>1, <2>1, HostsInBoth
<1>8. QED BY <1>1, <1>3, <1>4, <1>5, <1>6, <1>7

LEMMA HostsInSecond ==
  ASSUME NEW S, NEW of
  PROVE  /\ HostsIn(Victims(S, of), 2) = UNION {Range(of[a]) : a \in S}
         /\ HostsIn(Users(S, of), 2) = UNION {Range(of[a]) : a \in S}
<1>1. HostsIn(Victims(S, of), 2) = UNION {HostsIn(InnerOf(a, Range(of[a]), 2), 2) : a \in S}
  BY DEF HostsIn, Victims
<1>2. HostsIn(Users(S, of), 2) = UNION {HostsIn(OuterOf(a, Range(of[a]), 2), 2) : a \in S}
  BY DEF HostsIn, Users
<1>3. \A a : /\ HostsIn(InnerOf(a, Range(of[a]), 2), 2) = Range(of[a])
             /\ HostsIn(OuterOf(a, Range(of[a]), 2), 2) = Range(of[a])
  BY HostsInMarks
<1>4. QED BY <1>1, <1>2, <1>3

(* What is drawn by a script.                                              *)
LEMMA DrawnFirst ==
  ASSUME StageInv, NEW marks, Drawing(marks), NEW r
  PROVE  /\ Drawn(r)' = HostsIn(marks, r) \intersect hosts
         /\ hosts' = hosts /\ page' = page /\ queried' = queried /\ honest' = honest
         /\ ledger' = ledger /\ moves' = moves /\ FinalRound' = FinalRound
<1>1. /\ picture' = <<>> /\ MarksOf(timers') = marks
      /\ hosts' = hosts /\ page' = page /\ queried' = queried /\ honest' = honest
      /\ ledger' = ledger /\ moves' = moves
  BY DEF Drawing, Registers, StageInv, canvas, query
<1>2. Range(picture') = {}
  BY <1>1 DEF Range
<1>3. HostsIn(Range(picture'), r) = {}
  BY <1>2, HostsInMarks
<1>4. Drawn(r)' = (HostsIn(MarksOf(timers'), r) \intersect hosts')
                    \union (HostsIn(Range(picture'), r) \ {Nothing})
  BY DEF Drawn, HostsIn, MarksOf
<1>5. QED BY <1>1, <1>3, <1>4 DEF FinalRound

(* Once a graph is there, the animation shows what was registered.         *)
LEMMA DrawnAnimates ==
  ASSUME Animated, Animate, loaded, NEW r
  PROVE  Drawn(r)' = Drawn(r) /\ hosts' = hosts
<1>1. hosts' = hosts
  BY DEF Animate, StartSeries, Highlight, Tick, canvas
<1>2. Drawn(r)' = (HostsIn(MarksOf(timers'), r) \intersect hosts)
                    \union (HostsIn(Range(picture'), r) \ {Nothing})
  BY <1>1 DEF Drawn, HostsIn, MarksOf
<1>3. CASE KeepsMarks
  BY <1>1, <1>2, <1>3 DEF KeepsMarks, Drawn
<1>4. CASE \E i \in DOMAIN timers : Highlights(i)
  <2>1. PICK i \in DOMAIN timers : Highlights(i)
    BY <1>4
  <2> DEFINE m == timers[i].marks[1]
             seen == Visible(m)
  <2>2. /\ m \in MarkSet /\ MarksOf(timers) = MarksOf(timers') \union {m}
        /\ picture' = Append(picture, seen) /\ seen.round = m.round /\ seen \in MarkSet
        /\ seen.host = IF m.host \in hosts THEN m.host ELSE Nothing
    BY <2>1, VisibleIs DEF Highlights
  <2> HIDE DEF m, seen
  <2>3. Range(picture') = Range(picture) \union {seen}
    BY <2>2, AppendIs DEF Animated
  <2>4. /\ HostsIn(MarksOf(timers), r) = HostsIn(MarksOf(timers'), r) \union HostsIn({m}, r)
        /\ HostsIn(Range(picture'), r) = HostsIn(Range(picture), r) \union HostsIn({seen}, r)
    <3>1. \A a, b : HostsIn(a \union b, r) = HostsIn(a, r) \union HostsIn(b, r)
      BY HostsInMarks
    <3>2. QED BY <2>2, <2>3, <3>1
  <2>5. HostsIn({m}, r) \intersect hosts = HostsIn({seen}, r) \ {Nothing}
    <3>1. Nothing \notin hosts
      BY DEF Animated
    <3>2. QED BY <2>2, <3>1 DEF HostsIn
  <2>6. QED BY <1>1, <1>2, <2>4, <2>5 DEF Drawn
<1>5. QED BY <1>1, <1>3, <1>4, AnimateShows

LEMMA SameOwn ==
  ASSUME page' = page, queried' = queried, ledger' = ledger
  PROVE  OwnVictims' = OwnVictims /\ (page = "honeypotsQ3" => Listed(ledger)' = Listed(ledger))
<1>1. \A L, d : Seen(L, d)' = Seen(L, d)
  BY DEF Seen, Outer, Inner
<1>2. \A L : Visits(L)' = Visits(L)
  BY <1>1 DEF Visits
<1>3. \A L, h : AttackedBy(L, h)' = AttackedBy(L, h) /\ AttackersOf(L, h)' = AttackersOf(L, h)
  BY <1>2 DEF AttackedBy, AttackersOf
<1>4. OwnVictims' = OwnVictims
  BY <1>3 DEF OwnVictims
<1>5. page = "honeypotsQ3" => Listed(ledger)' = Listed(ledger)
  BY <1>1 DEF Listed, honeypotsIdentifyPotentialVictims
<1>6. QED BY <1>4, <1>5

LEMMA TableInvNext ==
  ASSUME CallInv, TableInv, [Next]_vars
  PROVE  TableInv'
<1> SUFFICES ASSUME page' = "honeypotsQ3", moves' = 0, verdict' = "accepted"
             PROVE  table' = Listed(ledger)'
  BY DEF TableInv
<1>1. page' = page /\ queried' = queried
  BY DEF Next, Decide, Work, vars, query, Same, LoadGraph, Search, Searched, AskAttackers, AskVictims,
         AskFails, Commit, getQ3FinalResult, AcceptHoneypotsQ1, AcceptHoneypotsQ2, RejectHoneypots,
         AcceptGtmwQ1, AcceptGtmwQ2, AcceptGtmwQ3, AcceptRefusal, RejectGtmw, AcceptNidsQ1, AcceptNidsQ2,
         AcceptNidsQ3, RejectNids, NoAnimation, StartSearch, Draw, Throw
<1>2. phase # "round"
  BY <1>1 DEF CallInv
<1>3. CASE getQ3FinalResult
  <2>1. table' = Listed(ledger) /\ ledger' = ledger
    BY <1>3 DEF getQ3FinalResult
  <2>2. QED BY <1>1, <2>1, SameOwn
<1>4. CASE Commit
  <2>1. moves' = moves + 1 /\ moves \in Nat
    BY <1>4 DEF Commit, CallInv
  <2>2. QED BY <2>1
<1>5. CASE AskAttackers \/ AskVictims \/ AskFails \/ (Animate /\ Same) \/ LoadGraph \/ Search \/ Searched
           \/ UNCHANGED vars
  <2>1. UNCHANGED <<ledger, moves, verdict, table>>
    BY <1>5 DEF AskAttackers, AskVictims, AskFails, Same, LoadGraph, Search, Searched, vars, Draw, Throw
  <2>2. QED BY <1>1, <2>1, SameOwn DEF TableInv
<1>6. QED BY <1>2, <1>3, <1>4, <1>5
          DEF Next, Decide, Work, AcceptHoneypotsQ1, AcceptHoneypotsQ2, RejectHoneypots,
         AcceptGtmwQ1, AcceptGtmwQ2, AcceptGtmwQ3, AcceptRefusal, RejectGtmw, AcceptNidsQ1, AcceptNidsQ2,
         AcceptNidsQ3, RejectNids, NidsAccepted, Accepted, Rejected

(* The hosts of the answers that a round compares.                         *)
LEMMA ListedAre ==
  ASSUME CallInv
  PROVE  /\ page = "honeypotsQ1" => Listed(ledger) = AttackedBy(ledger, queried)
         /\ page \in {"honeypotsQ2", "gtmwQ2"} => Listed(ledger) = AttackersOf(ledger, queried)
         /\ page = "gtmwQ1" => LET apps == urlIdentifySuspiciousApps(ledger, queried) IN
              Listed(ledger) = UNION {Range(apps[u]) : u \in DOMAIN apps}
         /\ page = "gtmwQ3" => LET apps == urlSpoofedApps(ledger) IN
              Listed(ledger) = UNION {Range(apps[u]) : u \in DOMAIN apps}
<1>1. ledger \in Ledgers
  BY DEF CallInv
<1>2. \A apps : UNION {Range(s) : s \in Range(apps)} = UNION {Range(apps[u]) : u \in DOMAIN apps}
  BY DEF Range
<1>3. page = "honeypotsQ1" => Listed(ledger) = AttackedBy(ledger, queried)
  BY <1>1, VictimsAre DEF Listed
<1>4. page = "honeypotsQ2" => Listed(ledger) = AttackersOf(ledger, queried)
  BY <1>1, AttackersAre DEF Listed
<1>5. page = "gtmwQ2" => Listed(ledger) = AttackersOf(ledger, queried)
  BY <1>1, VisitorsAre DEF Listed
<1>6. page = "gtmwQ1" => LET apps == urlIdentifySuspiciousApps(ledger, queried) IN
        Listed(ledger) = UNION {Range(apps[u]) : u \in DOMAIN apps}
  <2> DEFINE apps == urlIdentifySuspiciousApps(ledger, queried)
  <2>1. page = "gtmwQ1" => Listed(ledger) = UNION {Range(s) : s \in Range(apps)}
    BY DEF Listed
  <2> HIDE DEF apps
  <2>2. page = "gtmwQ1" => Listed(ledger) = UNION {Range(apps[u]) : u \in DOMAIN apps}
    BY <1>2, <2>1
  <2>3. QED BY <2>2 DEF apps
<1>7. page = "gtmwQ3" => LET apps == urlSpoofedApps(ledger) IN
        Listed(ledger) = UNION {Range(apps[u]) : u \in DOMAIN apps}
  <2> DEFINE apps == urlSpoofedApps(ledger)
  <2>1. page = "gtmwQ3" => Listed(ledger) = UNION {Range(s) : s \in Range(apps)}
    BY DEF Listed
  <2> HIDE DEF apps
  <2>2. page = "gtmwQ3" => Listed(ledger) = UNION {Range(apps[u]) : u \in DOMAIN apps}
    BY <1>2, <2>1
  <2>3. QED BY <2>2 DEF apps
<1>8. QED BY <1>3, <1>4, <1>5, <1>6, <1>7

(* A page of one or two rounds draws the accepted hosts in the last.       *)
LEMMA DrawsAccepted ==
  ASSUME StageInv, NEW marks, Drawing(marks), phase' = "drawn",
         page # "honeypotsQ3", honest => HostsIn(marks, FinalRound) \intersect hosts = table' \intersect hosts,
         verdict' = "accepted"
  PROVE  DrawnInv'
<1>1. /\ Drawn(FinalRound)' = HostsIn(marks, FinalRound) \intersect hosts
      /\ hosts' = hosts /\ page' = page /\ honest' = honest /\ FinalRound' = FinalRound
  <2>1. FinalRound' = FinalRound
    BY DrawnFirst
  <2>2. \A r : Drawn(r)' = HostsIn(marks, r) \intersect hosts
    BY DrawnFirst
  <2>3. Drawn(FinalRound)' = HostsIn(marks, FinalRound') \intersect hosts
    BY <2>1, <2>2 DEF Drawn
  <2>4. QED BY <2>1, <2>3, DrawnFirst
<1>2. QED BY <1>1 DEF DrawnInv

LEMMA DrawnInvAccepts ==
  ASSUME StageInv, CallInv,
         AcceptHoneypotsQ1 \/ AcceptHoneypotsQ2 \/ AcceptGtmwQ1 \/ AcceptGtmwQ2 \/ AcceptGtmwQ3
  PROVE  DrawnInv'
<1>1. verdict' = "accepted" /\ table' = Listed(ledger)
  BY DEF AcceptHoneypotsQ1, AcceptHoneypotsQ2, AcceptGtmwQ1, AcceptGtmwQ2, AcceptGtmwQ3, Accepted
<1>2. Nothing \notin hosts
  BY DEF StageInv, Animated
<1>3. CASE AcceptHoneypotsQ1
  <2> DEFINE marks == Alone(queried) \union InnerOf(queried, AttackedBy(ledger, queried), 1)
  <2>1. page = "honeypotsQ1" /\ phase' = "drawn" /\ Drawing(marks)
    BY <1>3, HoneypotsQ1Draws DEF AcceptHoneypotsQ1, Draw
  <2>2. HostsIn(marks, 1) = AttackedBy(ledger, queried)
    BY HostsInFirst
  <2> HIDE DEF marks
  <2>3. QED BY <1>1, <2>1, <2>2, ListedAre, DrawsAccepted DEF FinalRound
<1>4. CASE AcceptHoneypotsQ2
  <2> DEFINE marks == Alone(queried) \union OuterOf(queried, AttackersOf(ledger, queried), 1)
  <2>1. page = "honeypotsQ2" /\ phase' = "drawn" /\ Drawing(marks)
    BY <1>4, HoneypotsQ2Draws DEF AcceptHoneypotsQ2, Draw
  <2>2. HostsIn(marks, 1) = AttackersOf(ledger, queried)
    BY HostsInFirst
  <2> HIDE DEF marks
  <2>3. QED BY <1>1, <2>1, <2>2, ListedAre, DrawsAccepted DEF FinalRound
<1>5. CASE AcceptGtmwQ2
  <2>1. page = "gtmwQ2" /\ phase' = "drawn"
    BY <1>5 DEF AcceptGtmwQ2, Draw
  <2>2. CASE Listed(ledger) # {}
    <3> DEFINE marks == Alone(queried) \union OuterOf(queried, AttackersOf(ledger, queried), 1)
    <3>1. Drawing(marks)
      BY <1>5, <2>2, GtmwQ2Draws
    <3>2. HostsIn(marks, 1) = AttackersOf(ledger, queried)
      BY HostsInFirst
    <3> HIDE DEF marks
    <3>3. QED BY <1>1, <2>1, <3>1, <3>2, ListedAre, DrawsAccepted DEF FinalRound
  <2>3. CASE Listed(ledger) = {}
    <3> DEFINE one == {Mark(Nothing, Nothing, 1)}
               marks == Alone(queried) \union one
    <3>1. Drawing(marks)
      BY <1>5, <2>3, GtmwQ2Draws
    <3>2. HostsIn(one, 1) = {Nothing}
      <4> DEFINE m == Mark(Nothing, Nothing, 1)
      <4>1. m.round = 1 /\ m.host = Nothing
        BY MarkFields
      <4> HIDE DEF m
      <4>2. HostsIn({m}, 1) = {Nothing}
        BY <4>1 DEF HostsIn
      <4>3. QED BY <4>2 DEF m
    <3> HIDE DEF one
    <3>3. HostsIn(marks, 1) = {Nothing}
      <4>1. HostsIn(marks, 1) = HostsIn(Alone(queried), 1) \union HostsIn(one, 1)
        BY HostsInBoth
      <4>2. HostsIn(Alone(queried), 1) = {}
        BY HostsInFirst
      <4>3. QED BY <3>2, <4>1, <4>2
    <3> HIDE DEF marks
    <3>4. HostsIn(marks, 1) \intersect hosts = table' \intersect hosts
      BY <1>1, <1>2, <2>3, <3>3
    <3>5. QED BY <1>1, <2>1, <3>1, <3>4, DrawsAccepted DEF FinalRound
  <2>4. QED BY <2>2, <2>3
<1>6. CASE AcceptGtmwQ1
  <2>1. page = "gtmwQ1"
    BY <1>6 DEF AcceptGtmwQ1
  <2>2. CASE phase' = "drawn"
    <3>1. PICK L \in FirstAnswers :
            LET apps == urlIdentifySuspiciousApps(L, queried) IN
              Drawing(Alone(queried) \union InnerOf(queried, DOMAIN apps, 1) \union Users(DOMAIN apps, apps))
      BY <1>6, <2>2, GtmwQ1Draws
    <3> DEFINE apps == urlIdentifySuspiciousApps(L, queried)
               D == DOMAIN apps
               marks == Alone(queried) \union InnerOf(queried, D, 1) \union Users(D, apps)
    <3>2. Drawing(marks)
      BY <3>1
    <3>3. honest => Listed(ledger) = UNION {Range(apps[u]) : u \in D}
      BY <2>1, FirstAnswersAre, ListedAre
    <3> HIDE DEF apps, D
    <3>4. HostsIn(marks, 2) = UNION {Range(apps[u]) : u \in D}
      <4>1. HostsIn(marks, 2) = HostsIn(Alone(queried) \union InnerOf(queried, D, 1), 2)
                                  \union HostsIn(Users(D, apps), 2)
        BY HostsInBoth
      <4>2. HostsIn(Alone(queried) \union InnerOf(queried, D, 1), 2) = {}
        BY HostsInFirst
      <4>3. HostsIn(Users(D, apps), 2) = UNION {Range(apps[u]) : u \in D}
        BY HostsInSecond
      <4>4. QED BY <4>1, <4>2, <4>3
    <3> HIDE DEF marks
    <3>5. FinalRound = 2
      BY <2>1 DEF FinalRound
    <3>6. QED BY <1>1, <2>1, <2>2, <3>2, <3>3, <3>4, <3>5, DrawsAccepted
  <2>3. CASE phase' # "drawn"
    BY <2>3 DEF DrawnInv
  <2>4. QED BY <2>2, <2>3
<1>7. CASE AcceptGtmwQ3
  <2>1. page = "gtmwQ3"
    BY <1>7 DEF AcceptGtmwQ3
  <2>2. CASE phase' = "drawn"
    <3>1. PICK L \in FirstAnswers :
            LET apps == urlSpoofedApps(L) IN
              Drawing(HostsAlone(DOMAIN apps, 1) \union Users(DOMAIN apps, apps))
      BY <1>7, <2>2, GtmwQ3Draws
    <3> DEFINE apps == urlSpoofedApps(L)
               D == DOMAIN apps
               marks == HostsAlone(D, 1) \union Users(D, apps)
    <3>2. Drawing(marks)
      BY <3>1
    <3>3. honest => Listed(ledger) = UNION {Range(apps[u]) : u \in D}
      BY <2>1, FirstAnswersAre, ListedAre
    <3> HIDE DEF apps, D
    <3>4. HostsIn(marks, 2) = UNION {Range(apps[u]) : u \in D}
      <4>1. HostsIn(marks, 2) = HostsIn(HostsAlone(D, 1), 2) \union HostsIn(Users(D, apps), 2)
        BY HostsInBoth
      <4>2. HostsIn(HostsAlone(D, 1), 2) = {}
        BY HostsInFirst
      <4>3. HostsIn(Users(D, apps), 2) = UNION {Range(apps[u]) : u \in D}
        BY HostsInSecond
      <4>4. QED BY <4>1, <4>2, <4>3
    <3> HIDE DEF marks
    <3>5. FinalRound = 2
      BY <2>1 DEF FinalRound
    <3>6. QED BY <1>1, <2>1, <2>2, <3>2, <3>3, <3>4, <3>5, DrawsAccepted
  <2>3. CASE phase' # "drawn"
    BY <2>3 DEF DrawnInv
  <2>4. QED BY <2>2, <2>3
<1>8. QED BY <1>3, <1>4, <1>5, <1>6, <1>7

LEMMA DrawnInvRejects ==
  ASSUME StageInv, CallInv, RejectHoneypots \/ RejectGtmw \/ RejectNids
  PROVE  DrawnInv'
<1>1. page # "honeypotsQ3" /\ verdict' = "rejected"
  BY DEF RejectHoneypots, RejectGtmw, RejectNids, Rejected, CallInv
<1>2. PICK marks \in {{}, Alone(queried)} : Drawing(marks)
  BY RejectedDraws
<1>3. HostsIn(marks, 1) = {} /\ HostsIn(marks, 2) = {}
  BY HostsInMarks
<1>4. \A r : Drawn(r)' = HostsIn(marks, r) \intersect hosts
  BY <1>2, DrawnFirst
<1>5. page' = page /\ (FinalRound' = 1 \/ FinalRound' = 2)
  BY <1>2, DrawnFirst DEF FinalRound
<1>6. Drawn(FinalRound)' = {}
  BY <1>3, <1>4, <1>5 DEF Drawn
<1>7. QED BY <1>1, <1>5, <1>6 DEF DrawnInv

(* Page Q3 draws the victims that its own requests named.                  *)
LEMMA DrawsOwn ==
  ASSUME StageInv, NEW marks, Drawing(marks), page = "honeypotsQ3",
         moves = 0 => HostsIn(marks, 2) = OwnVictims
  PROVE  DrawnInv'
<1>1. /\ Drawn(2)' = HostsIn(marks, 2) \intersect hosts
      /\ hosts' = hosts /\ page' = page /\ moves' = moves /\ queried' = queried /\ ledger' = ledger
  BY DrawnFirst
<1>2. OwnVictims' = OwnVictims
  BY <1>1, SameOwn
<1>3. QED BY <1>1, <1>2 DEF DrawnInv

LEMMA DrawnInvAsks ==
  ASSUME StageInv, CallInv, AskAttackers \/ AskVictims
  PROVE  DrawnInv'
<1>1. page = "honeypotsQ3" /\ ledger \in Ledgers /\ attackers \in Seq(Node)
  BY DEF AskAttackers, AskVictims, CallInv
<1>2. CASE phase' # "drawn"
  BY <1>2 DEF DrawnInv
<1>3. CASE AskAttackers /\ phase' = "drawn"
  <2>1. Drawing(Alone(queried)) /\ Range(honeypotsIdentifyAttackers(ledger, queried)) = {}
    BY <1>3, AskAttackersDraws
  <2>2. AttackersOf(ledger, queried) = {}
    BY <1>1, <2>1, AttackersAre
  <2>3. OwnVictims = {}
    BY <2>2 DEF OwnVictims
  <2>4. HostsIn(Alone(queried), 2) = {}
    BY HostsInFirst
  <2>5. QED BY <1>1, <2>1, <2>3, <2>4, DrawsOwn
<1>4. CASE AskVictims /\ phase' = "drawn"
  <2> DEFINE A == Range(attackers)
             of == LastAnswers(victims')
             first == Alone(queried) \union OuterOf(queried, A, 1)
             marks == first \union Victims(A, of)
  <2>1. Drawing(marks) /\ (moves = 0 => AllAnswered(victims'))
    BY <1>4, AskVictimsDraws
  <2>2. ASSUME moves = 0
        PROVE  /\ A = AttackersOf(ledger, queried)
               /\ \A a \in A : Range(of[a]) = AttackedBy(ledger, a)
    <3>1. AllAnswered(victims')
      BY <2>1, <2>2
    <3>2. A = AttackersOf(ledger, queried)
      BY <1>1, <3>1, AttackersAre DEF AllAnswered
    <3>3. \A a \in A : of[a] = honeypotsIdentifyVictims(ledger, a)
      BY <1>1, <3>1, VictimsAnswered
    <3>4. QED BY <1>1, <3>2, <3>3, VictimsAre
  <2>3. HostsIn(first, 2) = {}
    BY HostsInFirst
  <2> HIDE DEF A, of, first
  <2>4. HostsIn(marks, 2) = UNION {Range(of[a]) : a \in A}
    <3>1. HostsIn(marks, 2) = HostsIn(first, 2) \union HostsIn(Victims(A, of), 2)
      BY HostsInBoth
    <3>2. HostsIn(Victims(A, of), 2) = UNION {Range(of[a]) : a \in A}
      BY HostsInSecond
    <3>3. QED BY <2>3, <3>1, <3>2
  <2>5. moves = 0 => HostsIn(marks, 2) = OwnVictims
    BY <2>2, <2>4 DEF OwnVictims
  <2> HIDE DEF marks
  <2>6. QED BY <1>1, <2>1, <2>5, DrawsOwn
<1>5. QED BY <1>2, <1>3, <1>4

(* What was drawn stays, whatever the animation or the round do next.      *)
LEMMA DrawnInvStays ==
  ASSUME StageInv, DrawnInv, UNCHANGED <<query, ledger, moves, phase, hosts>>,
         page # "honeypotsQ3" => UNCHANGED <<verdict, table>>,
         page \notin NidsPages => \A r : Drawn(r)' = Drawn(r)
  PROVE  DrawnInv'
<1>1. FinalRound' = FinalRound /\ page' = page /\ queried' = queried /\ honest' = honest
  BY DEF FinalRound, query
<1>2. OwnVictims' = OwnVictims
  BY <1>1, SameOwn
<1>3. page \notin NidsPages => Drawn(FinalRound)' = Drawn(FinalRound) /\ Drawn(2)' = Drawn(2)
  <2>1. page \notin NidsPages => Drawn(2)' = Drawn(2)
    OBVIOUS
  <2>2. page \notin NidsPages => Drawn(1)' = Drawn(1)
    OBVIOUS
  <2>3. Drawn(FinalRound)' = IF FinalRound = 2 THEN Drawn(2)' ELSE Drawn(1)'
    BY <1>1 DEF Drawn, FinalRound
  <2>4. QED BY <2>1, <2>2, <2>3 DEF FinalRound
<1>4. "honeypotsQ3" \notin NidsPages
  BY DEF NidsPages
<1>5. QED BY <1>1, <1>2, <1>3, <1>4 DEF DrawnInv

LEMMA DrawnSame ==
  ASSUME UNCHANGED <<timers, picture, hosts>>
  PROVE  \A r : Drawn(r)' = Drawn(r)
BY DEF Drawn, HostsIn, MarksOf

LEMMA DrawnInvNext ==
  ASSUME StageInv, CallInv, SearchInv, DrawnInv, [Next]_vars
  PROVE  DrawnInv'
<1>1. CASE AcceptHoneypotsQ1 \/ AcceptHoneypotsQ2 \/ AcceptGtmwQ1 \/ AcceptGtmwQ2 \/ AcceptGtmwQ3
  BY <1>1, DrawnInvAccepts
<1>2. CASE RejectHoneypots \/ RejectGtmw \/ RejectNids
  BY <1>2, DrawnInvRejects
<1>3. CASE AskAttackers \/ AskVictims
  BY <1>3, DrawnInvAsks
<1>4. CASE AcceptRefusal \/ AskFails \/ Search \/ Commit
  <2>1. phase' # "drawn"
    BY <1>4 DEF AcceptRefusal, AskFails, Search, Commit, Throw
  <2>2. QED BY <2>1 DEF DrawnInv
<1>5. CASE AcceptNidsQ1 \/ AcceptNidsQ2 \/ AcceptNidsQ3
  <2>1. page \in NidsPages /\ page' = page
    BY <1>5 DEF AcceptNidsQ1, AcceptNidsQ2, AcceptNidsQ3, NoAnimation, StartSearch, Draw, NidsPages, query
  <2>2. QED BY <2>1 DEF DrawnInv, NidsPages
<1>6. CASE Searched
  <2>1. page \in NidsPages /\ page' = page
    BY <1>6 DEF Searched, Draw, SearchInv, Searching, NidsPages, query
  <2>2. QED BY <2>1 DEF DrawnInv, NidsPages
<1>7. CASE getQ3FinalResult
  <2>1. UNCHANGED <<query, ledger, moves, phase, canvas, animation>> /\ page = "honeypotsQ3"
    BY <1>7 DEF getQ3FinalResult
  <2>2. UNCHANGED <<timers, picture, hosts>>
    BY <2>1 DEF canvas, animation
  <2>3. QED BY <2>1, <2>2, DrawnSame, DrawnInvStays
<1>8. CASE LoadGraph
  <2>1. UNCHANGED <<query, ledger, moves, phase, verdict, table, hosts, timers, picture>>
    BY <1>8 DEF LoadGraph, Load, Same, animation
  <2>2. QED BY <2>1, DrawnSame, DrawnInvStays
<1>9. CASE Animate /\ Same
  <2>1. UNCHANGED <<query, ledger, moves, phase, verdict, table, hosts>>
    BY <1>9 DEF Same, Animate, StartSeries, Highlight, Tick, canvas
  <2>2. page \notin NidsPages => \A r : Drawn(r)' = Drawn(r)
    BY <1>9, DrawnAnimates DEF StageInv
  <2>3. QED BY <2>1, <2>2, DrawnInvStays
<1>10. CASE UNCHANGED vars
  <2>1. UNCHANGED <<query, ledger, moves, phase, verdict, table, hosts, timers, picture>>
    BY <1>10 DEF vars, canvas, animation
  <2>2. QED BY <2>1, DrawnSame, DrawnInvStays
<1>11. QED BY <1>1, <1>2, <1>3, <1>4, <1>5, <1>6, <1>7, <1>8, <1>9, <1>10
           DEF Next, Decide, Work

(* A complete picture.                                                     *)
LEMMA CompletePicture ==
  ASSUME StageInv, timers = <<>>
  PROVE  LastRound = Drawn(FinalRound)
<1>1. MarksOf(timers) = {}
  BY EmptyMarks
<1>2. HostsIn(MarksOf(timers), FinalRound) = {}
  BY <1>1 DEF HostsIn
<1>3. Shown(Len(picture)) = Range(picture)
  BY DEF Shown, Range, StageInv, Animated
<1>4. QED BY <1>2, <1>3 DEF LastRound, Drawn, HostsIn, FinalRound

LEMMA DrawnHolds == SafetySpec => [](StageInv /\ CallInv /\ SearchInv /\ TableInv /\ DrawnInv)
<1>1. Init => StageInv /\ CallInv /\ SearchInv /\ TableInv /\ DrawnInv
  <2> SUFFICES ASSUME Init PROVE StageInv /\ CallInv /\ SearchInv /\ TableInv /\ DrawnInv
    OBVIOUS
  <2>1. phase # "drawn" /\ verdict # "accepted"
    BY DEF Init
  <2>2. QED BY <2>1, StageInvInit, CallInvInit, SearchInvInit DEF TableInv, DrawnInv
<1>2. (StageInv /\ CallInv /\ SearchInv /\ TableInv /\ DrawnInv) /\ [Next]_vars
        => (StageInv /\ CallInv /\ SearchInv /\ TableInv /\ DrawnInv)'
  BY StageInvNext, CallInvNext, SearchInvNext, TableInvNext, DrawnInvNext
<1>3. QED BY <1>1, <1>2, PTL DEF SafetySpec

(* The hosts of a complete picture of honeypots Q1 and Q2 or of gtmw are   *)
(* those of the accepted answer that the page knows, if its first node is  *)
(* honest, and a rejected answer draws none.                               *)
THEOREM PicturesAreAccepted == Spec => []PictureIsAccepted
<1>1. StageInv /\ DrawnInv => PictureIsAccepted
  BY CompletePicture DEF DrawnInv, PictureIsAccepted, Settled
<1>2. Spec => SafetySpec
  BY PTL DEF Spec, SafetySpec
<1>3. QED BY <1>1, <1>2, DrawnHolds, PTL

(* Day by day, an attacker of the queried host has fewer victims.          *)
LEMMA PotentialVictimsAre ==
  ASSUME page = "honeypotsQ3", ledger \in Ledgers
  PROVE  /\ Listed(ledger) \subseteq OwnVictims
         /\ Cardinality({d \in DOMAIN ledger : Seen(ledger, d) # {}}) = 1 => Listed(ledger) = OwnVictims
<1> DEFINE of(d) == {p[2] : p \in {q \in Seen(ledger, d) : <<q[1], queried>> \in Seen(ledger, d)}}
<1>1. Listed(ledger) = UNION {of(d) : d \in DOMAIN ledger}
  BY DEF Listed, honeypotsIdentifyPotentialVictims
<1>2. \A d \in DOMAIN ledger : Seen(ledger, d) \subseteq Node \X Node
  BY SeenIs
<1>3. ASSUME NEW d \in DOMAIN ledger, NEW p \in Seen(ledger, d), <<p[1], queried>> \in Seen(ledger, d)
      PROVE  p[2] \in OwnVictims
  <2>1. p \in Visits(ledger) /\ <<p[1], queried>> \in Visits(ledger)
    BY <1>3 DEF Visits
  <2>2. p[2] \in AttackedBy(ledger, p[1])
    BY <2>1 DEF AttackedBy
  <2>3. p[1] \in AttackersOf(ledger, queried)
    <3>1. <<p[1], queried>>[1] \in AttackersOf(ledger, queried)
      BY <2>1 DEF AttackersOf
    <3>2. QED BY <3>1
  <2>4. QED BY <2>2, <2>3 DEF OwnVictims
<1>4. Listed(ledger) \subseteq OwnVictims
  <2>1. \A d \in DOMAIN ledger : of(d) \subseteq OwnVictims
    BY <1>3
  <2> HIDE DEF of
  <2>2. QED BY <1>1, <2>1
<1>5. ASSUME Cardinality({d \in DOMAIN ledger : Seen(ledger, d) # {}}) = 1
      PROVE  OwnVictims \subseteq Listed(ledger)
  <2> DEFINE days == {d \in DOMAIN ledger : Seen(ledger, d) # {}}
  <2>1. IsFiniteSet(days)
    <3>1. ledger \in Seq({NoData} \union SUBSET (Nat \X Nat))
      BY PagesAssumption
    <3>2. DOMAIN ledger = 1..Len(ledger) /\ Len(ledger) \in Nat
      BY <3>1
    <3>3. IsFiniteSet(1..Len(ledger))
      BY <3>2, FS_Interval
    <3>4. days \subseteq 1..Len(ledger)
      BY <3>2
    <3> HIDE DEF days
    <3>5. QED BY <3>3, <3>4, FS_Subset
  <2>2. \E d : days = {d}
    <3>1. Cardinality(days) = 1
      BY <1>5
    <3> HIDE DEF days
    <3>2. QED BY <2>1, <3>1, FS_Singleton
  <2>3. PICK day : days = {day}
    BY <2>2
  <2>4. day \in DOMAIN ledger /\ Visits(ledger) = Seen(ledger, day)
    BY <2>3 DEF Visits
  <2>5. ASSUME NEW a \in AttackersOf(ledger, queried), NEW v \in AttackedBy(ledger, a)
        PROVE  v \in of(day)
    <3>1. PICK q \in Seen(ledger, day) : q[2] = queried /\ q[1] = a
      BY <2>4 DEF AttackersOf
    <3>2. PICK p \in Seen(ledger, day) : p[1] = a /\ p[2] = v
      BY <2>4 DEF AttackedBy
    <3>3. q = <<a, queried>>
      BY <1>2, <2>4, <3>1
    <3>4. QED BY <3>1, <3>2, <3>3
  <2> HIDE DEF of
  <2>6. of(day) \subseteq Listed(ledger)
    BY <1>1, <2>4
  <2>7. QED BY <2>5, <2>6 DEF OwnVictims
<1>6. QED BY <1>4, <1>5

(* What page Q3 of honeypots draws from its own requests covers what the   *)
(* nodes accepted, and is no more than that when one day has data.         *)
THEOREM OwnDrawingsAgree == Spec => []OwnAnswersAgree
<1>1. StageInv /\ CallInv /\ TableInv /\ DrawnInv => OwnAnswersAgree
  <2> SUFFICES ASSUME StageInv, CallInv, TableInv, DrawnInv,
                      page = "honeypotsQ3", Settled, phase = "drawn", verdict = "accepted", moves = 0
               PROVE  /\ table \intersect hosts \subseteq LastRound
                      /\ Cardinality({d \in DOMAIN ledger : Seen(ledger, d) # {}}) = 1 =>
                           LastRound = table \intersect hosts
    BY DEF OwnAnswersAgree
  <2>1. LastRound = OwnVictims \intersect hosts
    BY CompletePicture DEF DrawnInv, Settled, FinalRound
  <2>2. table = Listed(ledger) /\ ledger \in Ledgers
    BY DEF TableInv, CallInv
  <2>3. QED BY <2>1, <2>2, PotentialVictimsAre
<1>2. Spec => SafetySpec
  BY PTL DEF Spec, SafetySpec
<1>3. QED BY <1>1, <1>2, DrawnHolds, PTL

-----------------------------------------------------------------------------
(* A picture grows from what the query is about.  A mark has grown when    *)
(* its link starts there, or at what an earlier mark highlights.           *)
Touches(before, m) ==
  \/ before.host \in hosts /\ before.host \in Ends({m.link})
  \/ before.link \in links /\ Ends({before.link}) \intersect Ends({m.link}) # {}

(* The order of the marks that a page relies on.                           *)
Before == CASE page = "nidsQ1" -> OrderQ1(edges)
            [] page = "nidsQ2" -> OrderQ2
            [] page = "nidsQ3" -> OrderQ3(edges)
            [] OTHER           -> Rounds

Grows(marks, m) ==
  \/ m.link \notin links
  \/ queried \in Ends({m.link})
  \/ \E before \in marks : <<before, m>> \in Before /\ Touches(before, m)

(* The same while the picture is drawn: the earlier mark is still to come, *)
(* or is shown unless a highlight was missed.                              *)
Follows(m) ==
  \/ m.link \notin links
  \/ queried \in Ends({m.link})
  \/ \E before \in MarkSet :
       /\ <<before, m>> \in Before /\ Touches(before, m)
       /\ before \in MarksOf(timers) \/ (missed = 0 => Visible(before) \in Range(picture))

GrowInv == /\ Ordered(timers, Before)
           /\ \A m \in MarksOf(timers) : Follows(m)
           /\ GrowsFromQueried

LEMMA EndsOfOne == \A l : Ends({l}) = {l[1], l[2]}
BY DEF Ends

(* What stays the same while a picture is drawn.                           *)
LEMMA SameGrowth ==
  ASSUME UNCHANGED <<query, hosts, links>>, edges' = edges \/ page \notin NidsPages
  PROVE  /\ Before' = Before /\ queried' = queried
         /\ \A b, m : Touches(b, m)' = Touches(b, m)
         /\ \A m : Visible(m)' = Visible(m)
<1>1. page' = page /\ queried' = queried
  BY DEF query
<1>2. Before' = Before
  <2>1. OrderQ1(edges)' = OrderQ1(edges') /\ OrderQ3(edges)' = OrderQ3(edges')
    BY DEF OrderQ1, OrderQ3, Ascending, Bare, WithEnds
  <2>2. CASE edges' = edges
    BY <1>1, <2>1, <2>2 DEF Before
  <2>3. CASE page \notin NidsPages
    BY <1>1, <2>3 DEF Before, NidsPages
  <2>4. QED BY <2>2, <2>3
<1>3. \A b, m : Touches(b, m)' = Touches(b, m)
  BY DEF Touches
<1>4. \A m : Visible(m)' = Visible(m)
  BY DEF Visible
<1>5. QED BY <1>1, <1>2, <1>3, <1>4

(* The next entry of a picture.                                            *)
LEMMA EntryGrows ==
  ASSUME StageInv, GrowInv, loaded, missed = 0, NEW i \in DOMAIN timers, Highlights(i)
  PROVE  LET seen == Visible(timers[i].marks[1])
             n == Len(picture) IN
           seen.link # Nothing =>
             Ends({seen.link}) \intersect ({queried} \union HostsShown(n) \union Ends(LinksShown(n))) # {}
<1> DEFINE m == timers[i].marks[1]
           seen == Visible(m)
           n == Len(picture)
           old == {queried} \union HostsShown(n) \union Ends(LinksShown(n))
<1>1. /\ m \in MarkSet /\ m \in MarksOf(timers) /\ Animated
  BY DEF Highlights, StageInv
<1>2. \A b \in MarkSet : /\ Visible(b).host = IF b.host \in hosts THEN b.host ELSE Nothing
                         /\ Visible(b).link = IF b.link \in links THEN b.link ELSE Nothing
  BY VisibleIs
<1> SUFFICES ASSUME seen.link # Nothing
             PROVE  Ends({seen.link}) \intersect old # {}
  OBVIOUS
<1>3. m.link \in links /\ seen.link = m.link
  BY <1>1, <1>2
<1>4. Shown(n) = Range(picture)
  BY <1>1 DEF Shown, Range, Animated
<1>5. Nothing \notin hosts /\ Nothing \notin links
  BY <1>1 DEF Animated
<1>6. Ordered(timers, Before) /\ Follows(m)
  BY <1>1 DEF GrowInv
<1>7. \A b : <<b, m>> \in Before => b \notin MarksOf(timers)
  BY <1>1, <1>6, HighlightIsFirst
<1> HIDE DEF m, seen
<1>8. CASE queried \in Ends({m.link})
  <2>1. queried \in old
    OBVIOUS
  <2>2. QED BY <1>3, <1>8, <2>1
<1>9. CASE queried \notin Ends({m.link})
  <2>1. PICK before \in MarkSet : /\ <<before, m>> \in Before /\ Touches(before, m)
                                  /\ before \in MarksOf(timers)
                                       \/ (missed = 0 => Visible(before) \in Range(picture))
    BY <1>3, <1>6, <1>9 DEF Follows
  <2>2. Visible(before) \in Shown(n)
    BY <1>4, <1>7, <2>1
  <2>3. CASE before.host \in hosts /\ before.host \in Ends({m.link})
    <3>1. Visible(before).host = before.host /\ before.host # Nothing
      BY <1>2, <1>5, <2>1, <2>3
    <3>2. before.host \in HostsShown(n)
      BY <2>2, <3>1 DEF HostsShown
    <3>3. before.host \in old
      BY <3>2
    <3>4. QED BY <1>3, <2>3, <3>3
  <2>4. CASE before.link \in links /\ Ends({before.link}) \intersect Ends({m.link}) # {}
    <3>1. Visible(before).link = before.link /\ before.link # Nothing
      BY <1>2, <1>5, <2>1, <2>4
    <3>2. before.link \in LinksShown(n)
      BY <2>2, <3>1 DEF LinksShown
    <3>3. Ends({before.link}) \subseteq Ends(LinksShown(n))
      BY <3>2 DEF Ends
    <3>4. Ends({before.link}) \subseteq old
      BY <3>3
    <3>5. QED BY <1>3, <2>4, <3>4
  <2>5. QED BY <2>1, <2>3, <2>4 DEF Touches
<1>10. QED BY <1>8, <1>9 DEF m, seen

(* An unchanged picture keeps having grown.                                *)
LEMMA PictureKept ==
  ASSUME UNCHANGED <<queried, picture>>, missed' = 0 => missed = 0, GrowsFromQueried
  PROVE  GrowsFromQueried'
<1>1. \A n : Shown(n)' = Shown(n)
  BY DEF Shown
<1>2. \A n : HostsShown(n)' = HostsShown(n) /\ LinksShown(n)' = LinksShown(n)
  BY <1>1 DEF HostsShown, LinksShown
<1>3. QED BY <1>2 DEF GrowsFromQueried

(* A mark follows another until that one is missed.                        *)
LEMMA FollowsOn ==
  ASSUME UNCHANGED <<query, hosts, links>>, edges' = edges \/ page \notin NidsPages,
         NEW m, Follows(m),
         \A b \in MarkSet : b \in MarksOf(timers) =>
            b \in MarksOf(timers') \/ (missed' = 0 => Visible(b) \in Range(picture')),
         missed' = 0 => missed = 0 /\ Range(picture) \subseteq Range(picture')
  PROVE  Follows(m)'
<1>1. /\ Before' = Before /\ queried' = queried /\ links' = links
      /\ \A b : Touches(b, m)' = Touches(b, m)
      /\ \A b : Visible(b)' = Visible(b)
  BY SameGrowth
<1>2. MarksOf(timers)' = MarksOf(timers') /\ Range(picture)' = Range(picture')
  BY DEF MarksOf, Range
<1>3. ASSUME NEW b \in MarkSet, <<b, m>> \in Before, Touches(b, m),
             b \in MarksOf(timers) \/ (missed = 0 => Visible(b) \in Range(picture))
      PROVE  /\ <<b, m>> \in Before' /\ Touches(b, m)'
             /\ b \in MarksOf(timers') \/ (missed' = 0 => Visible(b)' \in Range(picture'))
  BY <1>1, <1>3
<1>4. QED BY <1>1, <1>2, <1>3 DEF Follows

LEMMA GrowAnimates ==
  ASSUME StageInv, GrowInv, Animate, Same
  PROVE  GrowInv'
<1>1. UNCHANGED <<query, hosts, links, edges>> /\ Animated /\ missed \in Nat /\ picture \in Seq(MarkSet)
  BY DEF Same, search, Animate, StartSeries, Highlight, Tick, canvas, StageInv, Animated
<1>2. Before' = Before /\ queried' = queried
  BY <1>1, SameGrowth
<1>3. Ordered(timers, Before)'
  <2>1. Ordered(timers', Before)
    BY <1>1, AnimateKeepsOrder DEF GrowInv
  <2>2. Ordered(timers, Before)' = Ordered(timers', Before')
    BY DEF Ordered, Precedes
  <2>3. QED BY <1>2, <2>1, <2>2
<1>4. MarksOf(timers)' = MarksOf(timers')
  BY DEF MarksOf, Range
<1>5. CASE KeepsMarks
  <2>1. MarksOf(timers') = MarksOf(timers) /\ UNCHANGED <<picture, missed>>
    BY <1>5 DEF KeepsMarks
  <2>2. \A m \in MarksOf(timers') : Follows(m)'
    BY <1>1, <2>1, FollowsOn DEF GrowInv
  <2>3. GrowsFromQueried'
    BY <1>2, <2>1, PictureKept DEF GrowInv
  <2>4. QED BY <1>3, <1>4, <2>2, <2>3 DEF GrowInv
<1>6. CASE \E i \in DOMAIN timers : Highlights(i)
  <2>1. PICK i \in DOMAIN timers : Highlights(i)
    BY <1>6
  <2> DEFINE top == timers[i].marks[1]
             seen == Visible(top)
             n == Len(picture)
  <2>2. top \in MarkSet /\ MarksOf(timers) = MarksOf(timers') \union {top}
    BY <2>1 DEF Highlights
  <2>3. seen \in MarkSet
    BY <2>2, VisibleIs
  <2>4. CASE ~ loaded
    <3>1. picture' = picture /\ missed' = missed + 1
      BY <2>1, <2>4 DEF Highlights
    <3>2. missed' # 0
      BY <1>1, <3>1
    <3>3. \A m \in MarksOf(timers') : Follows(m)'
      BY <1>1, <2>2, <3>2, FollowsOn DEF GrowInv
    <3>4. GrowsFromQueried'
      BY <3>2 DEF GrowsFromQueried
    <3>5. QED BY <1>3, <1>4, <3>3, <3>4 DEF GrowInv
  <2>5. CASE loaded
    <3>1. picture' = Append(picture, seen) /\ missed' = missed
      BY <2>1, <2>5 DEF Highlights
    <3>2. missed = 0 => (seen.link # Nothing =>
            Ends({seen.link}) \intersect ({queried} \union HostsShown(n) \union Ends(LinksShown(n))) # {})
      BY <2>1, <2>5, EntryGrows
    <3> HIDE DEF seen
    <3>3. Range(picture') = Range(picture) \union {seen}
      BY <1>1, <2>3, <3>1, AppendIs
    <3>4. \A m \in MarksOf(timers') : Follows(m)'
      <4>1. \A b \in MarkSet : b \in MarksOf(timers) =>
              b \in MarksOf(timers') \/ (missed' = 0 => Visible(b) \in Range(picture'))
        BY <2>2, <3>3 DEF seen
      <4>2. QED BY <1>1, <2>2, <3>1, <3>3, <4>1, FollowsOn DEF GrowInv
    <3>5. /\ n \in Nat /\ DOMAIN picture = 1..n /\ DOMAIN picture' = 1..(n + 1)
          /\ \A k \in 1..n : picture'[k] = picture[k]
          /\ picture'[n + 1] = seen
      BY <1>1, <2>3, <3>1
    <3> HIDE DEF n
    <3>6. \A k \in 0..n : Shown(k)' = Shown(k)
      BY <3>5 DEF Shown
    <3>7. \A k \in 0..n : HostsShown(k)' = HostsShown(k) /\ LinksShown(k)' = LinksShown(k)
      BY <3>6 DEF HostsShown, LinksShown
    <3>8. GrowsFromQueried'
      <4> SUFFICES ASSUME missed' = 0, NEW k \in 1..(n + 1), picture'[k].link # Nothing
                   PROVE  Ends({picture'[k].link}) \intersect
                            ({queried'} \union HostsShown(k - 1)' \union Ends(LinksShown(k - 1)')) # {}
        BY <3>5 DEF GrowsFromQueried, Ends
      <4>1. k - 1 \in 0..n /\ (k = n + 1 \/ k \in 1..n) /\ missed = 0
        BY <3>1, <3>5
      <4>2. HostsShown(k - 1)' = HostsShown(k - 1) /\ LinksShown(k - 1)' = LinksShown(k - 1)
        BY <3>7, <4>1
      <4>3. CASE k \in 1..n
        <5>1. picture'[k] = picture[k] /\ k \in DOMAIN picture
          BY <3>5, <4>3
        <5>2. Ends({picture[k].link}) \intersect
                ({queried} \union HostsShown(k - 1) \union Ends(LinksShown(k - 1))) # {}
          BY <4>1, <5>1 DEF GrowInv, GrowsFromQueried
        <5>3. QED BY <1>2, <4>2, <5>1, <5>2
      <4>4. CASE k = n + 1
        <5>1. picture'[k] = seen /\ k - 1 = n
          BY <3>5, <4>4
        <5>2. Ends({seen.link}) \intersect
                ({queried} \union HostsShown(k - 1) \union Ends(LinksShown(k - 1))) # {}
          BY <3>2, <4>1, <5>1
        <5>3. QED BY <1>2, <4>2, <5>1, <5>2
      <4>5. QED BY <4>1, <4>3, <4>4
    <3>9. QED BY <1>3, <1>4, <3>4, <3>8 DEF GrowInv
  <2>6. QED BY <2>4, <2>5
<1>7. QED BY <1>1, <1>5, <1>6, AnimateShows

(* Before a page draws.                                                    *)
LEMMA NothingGrows ==
  ASSUME timers = <<>>, picture = <<>>
  PROVE  GrowInv
<1>1. MarksOf(timers) = {} /\ Ordered(timers, Before)
  BY EmptyMarks
<1>2. DOMAIN picture = {}
  OBVIOUS
<1>3. QED BY <1>1, <1>2 DEF GrowInv, GrowsFromQueried

LEMMA GrowRests ==
  ASSUME StageInv, GrowInv, Rests \/ LoadGraph, edges' = edges \/ phase \notin {"drawn", "threw"}
  PROVE  GrowInv'
<1>1. UNCHANGED <<query, hosts, links, timers, picture, missed>>
  BY DEF Rests, LoadGraph, Load, Same, animation, canvas
<1>2. CASE phase \notin {"drawn", "threw"}
  <2>1. timers' = <<>> /\ picture' = <<>>
    BY <1>1, <1>2 DEF StageInv
  <2>2. (timers = <<>> /\ picture = <<>> => GrowInv)'
    BY NothingGrows, PTL
  <2>3. QED BY <2>1, <2>2
<1>3. CASE edges' = edges
  <2>1. Before' = Before /\ queried' = queried
    BY <1>1, <1>3, SameGrowth
  <2>2. MarksOf(timers)' = MarksOf(timers)
    BY <1>1 DEF MarksOf, Range
  <2>3. Ordered(timers, Before)'
    BY <1>1, <2>1 DEF GrowInv, Ordered, Precedes
  <2>4. \A m \in MarksOf(timers) : Follows(m)'
    BY <1>1, <1>3, FollowsOn DEF GrowInv
  <2>5. GrowsFromQueried'
    BY <1>1, <2>1, PictureKept DEF GrowInv
  <2>6. QED BY <2>2, <2>3, <2>4, <2>5 DEF GrowInv
<1>4. QED BY <1>2, <1>3

(* Every link of a page's graph joins two of its hosts.                    *)
LEMMA LinksJoinHosts ==
  ASSUME StageInv, page \in Pages, NEW l \in links
  PROVE  l[1] \in hosts /\ l[2] \in hosts
<1>1. hosts = HostsOf(page) /\ links = LinksOf(page)
  BY DEF StageInv
<1>2. CASE page \in NidsPages
  <2>1. hosts = Ends(CaseTwo) /\ l \in CaseTwo
    BY <1>1, <1>2 DEF HostsOf, LinksOf, NidsPages, HoneypotsPages, GtmwPages
  <2>2. QED BY <2>1, CaseTwoIs
<1>3. CASE page \in HoneypotsPages
  <2>1. l \in HoneypotsLinks /\ hosts = {Ext(i) : i \in 0..15} \union {Inside(i) : i \in 0..15}
    <3>1. l \in HoneypotsLinks
      BY <1>1, <1>3 DEF LinksOf, NidsPages, HoneypotsPages, GtmwPages
    <3>2. hosts = {Outer(i) : i \in 0..15} \union {Inner(i) : i \in 0..15}
      BY <1>1, <1>3 DEF HostsOf, NidsPages, HoneypotsPages
    <3>3. \A i : Outer(i) = Ext(i) /\ Inner(i) = Inside(i)
      BY <1>3 DEF Outer, Inner
    <3>4. QED BY <3>1, <3>2, <3>3
  <2>2. \E i \in 0..15, j \in 0..15 : l = <<Ext(i), Inside(j)>>
    BY <2>1 DEF HoneypotsLinks
  <2>3. QED BY <2>1, <2>2
<1>4. CASE page \in GtmwPages
  <2>1. l \in basicNetworkTopology /\ hosts = {App(i) : i \in 0..15} \union {Url(i) : i \in 0..15}
    BY <1>1, <1>4 DEF HostsOf, LinksOf, NidsPages, HoneypotsPages, GtmwPages, Outer, Inner
  <2>2. \E i \in 0..15, j \in 0..15 : l = <<App(i), Url(j)>>
    BY <2>1 DEF basicNetworkTopology
  <2>3. QED BY <2>1, <2>2
<1>5. QED BY <1>2, <1>3, <1>4 DEF Pages

(* What a script registers has grown from the queried host.                *)
LEMMA GrowDraws ==
  ASSUME StageInv, NEW marks, Drawing(marks), edges' = edges,
         \A m \in marks : Grows(marks, m),
         page \in NidsPages => Ordered(timers', Before)
  PROVE  GrowInv'
<1>1. /\ UNCHANGED <<query, hosts, links>> /\ MarksOf(timers') = marks /\ picture' = <<>>
      /\ timers' \in Seq(Timer) /\ Ordered(timers', Rounds)
  BY FreshIs DEF Drawing, Registers, StageInv, canvas
<1>2. /\ Before' = Before /\ queried' = queried /\ links' = links
      /\ \A b, m : Touches(b, m)' = Touches(b, m)
  BY <1>1, SameGrowth
<1>3. MarksOf(timers)' = marks
  BY <1>1 DEF MarksOf, Range
<1>4. Ordered(timers, Before)'
  <2>1. page \notin NidsPages => Before = Rounds
    BY DEF Before, NidsPages
  <2>2. Ordered(timers', Before)
    BY <1>1, <2>1
  <2>3. Ordered(timers, Before)' = Ordered(timers', Before')
    BY DEF Ordered, Precedes
  <2>4. QED BY <1>2, <2>2, <2>3
<1>5. \A b \in marks : b \in MarkSet
  BY <1>1, MarksAreMarks
<1>6. \A m \in marks : Follows(m)'
  BY <1>2, <1>3, <1>5 DEF Grows, Follows
<1>7. GrowsFromQueried'
  <2>1. DOMAIN picture' = {}
    BY <1>1
  <2>2. QED BY <2>1 DEF GrowsFromQueried
<1>8. QED BY <1>3, <1>4, <1>6, <1>7 DEF GrowInv

(* Links of the queried host, and hosts without links.                     *)
LEMMA FirstMarksGrow ==
  ASSUME StageInv, NEW marks, NEW S, NEW host
  PROVE  /\ \A m \in Alone(host) : Grows(marks, m)
         /\ \A m \in HostsAlone(S, 1) : Grows(marks, m)
         /\ \A m \in HostsAlone(S, 0) : Grows(marks, m)
         /\ \A m \in InnerOf(queried, S, 1) : Grows(marks, m)
         /\ \A m \in OuterOf(queried, S, 1) : Grows(marks, m)
         /\ Grows(marks, Mark(Nothing, Nothing, 1))
<1>1. Nothing \notin links
  BY DEF StageInv, Animated
<1>2. \A h, r : Mark(Nothing, h, r).link = Nothing
  BY MarkFields
<1>3. \A h, r : Grows(marks, Mark(Nothing, h, r))
  BY <1>1, <1>2 DEF Grows
<1>4. \A v, r : /\ queried \in Ends({Mark(<<queried, v>>, v, r).link})
                /\ queried \in Ends({Mark(<<v, queried>>, v, r).link})
  BY MarkFields, EndsOfOne
<1>5. \A v, r : Grows(marks, Mark(<<queried, v>>, v, r)) /\ Grows(marks, Mark(<<v, queried>>, v, r))
  BY <1>4 DEF Grows
<1>6. QED BY <1>3, <1>5 DEF Alone, HostsAlone, InnerOf, OuterOf

(* Links of the second round, from a host of the first.                    *)
LEMMA SecondMarksGrow ==
  ASSUME StageInv, page \in Pages \ NidsPages, NEW marks, marks \subseteq MarkSet,
         NEW m \in marks, NEW before \in marks, m.round = 2, before.round = 1,
         Leads(before, m)
  PROVE  Grows(marks, m)
<1>1. CASE m.link \notin links
  BY <1>1 DEF Grows
<1>2. CASE m.link \in links
  <2>1. before.host \in hosts
    BY <1>2, LinksJoinHosts DEF Leads
  <2>2. Touches(before, m)
    BY <2>1, EndsOfOne DEF Touches, Leads
  <2>3. <<before, m>> \in Before
    BY DEF Before, Rounds, NidsPages
  <2>4. QED BY <2>2, <2>3 DEF Grows
<1>3. QED BY <1>1, <1>2

LEMMA VictimsGrow ==
  ASSUME StageInv, page \in Pages \ NidsPages, NEW marks, marks \subseteq MarkSet, NEW S, NEW of,
         OuterOf(queried, S, 1) \subseteq marks, Victims(S, of) \subseteq marks
  PROVE  \A m \in Victims(S, of) : Grows(marks, m)
<1> SUFFICES ASSUME NEW m \in Victims(S, of) PROVE Grows(marks, m)
  OBVIOUS
<1>1. PICK a \in S : m \in InnerOf(a, Range(of[a]), 2)
  BY DEF Victims
<1>2. PICK v : m = Mark(<<a, v>>, v, 2)
  BY <1>1 DEF InnerOf
<1> DEFINE before == Mark(<<a, queried>>, a, 1)
<1>3. before \in marks
  BY <1>1 DEF OuterOf
<1>4. before.round = 1 /\ before.host = a /\ m.round = 2 /\ m.link = <<a, v>> /\ m.host = v
  BY <1>2, MarkFields
<1> HIDE DEF before
<1>5. QED BY <1>3, <1>4, SecondMarksGrow DEF Leads

LEMMA UsersGrow ==
  ASSUME StageInv, page \in Pages \ NidsPages, NEW marks, marks \subseteq MarkSet, NEW S, NEW of,
         InnerOf(queried, S, 1) \subseteq marks \/ HostsAlone(S, 1) \subseteq marks,
         Users(S, of) \subseteq marks
  PROVE  \A m \in Users(S, of) : Grows(marks, m)
<1> SUFFICES ASSUME NEW m \in Users(S, of) PROVE Grows(marks, m)
  OBVIOUS
<1>1. PICK u \in S : m \in OuterOf(u, Range(of[u]), 2)
  BY DEF Users
<1>2. PICK v : m = Mark(<<v, u>>, v, 2)
  BY <1>1 DEF OuterOf
<1>3. PICK before \in marks : before.round = 1 /\ before.host = u
  <2>1. Mark(<<queried, u>>, u, 1) \in InnerOf(queried, S, 1) /\ Mark(Nothing, u, 1) \in HostsAlone(S, 1)
    BY <1>1 DEF InnerOf, HostsAlone
  <2>2. /\ Mark(<<queried, u>>, u, 1).round = 1 /\ Mark(<<queried, u>>, u, 1).host = u
        /\ Mark(Nothing, u, 1).round = 1 /\ Mark(Nothing, u, 1).host = u
    BY MarkFields
  <2>3. QED BY <2>1, <2>2
<1>4. m.round = 2 /\ m.link = <<v, u>> /\ m.host = v
  BY <1>2, MarkFields
<1>5. QED BY <1>3, <1>4, SecondMarksGrow DEF Leads

(* The marks of the nids pages: a link that was found follows one that     *)
(* leads to it, or starts at the queried host.                             *)
LEMMA ChainGrows ==
  ASSUME StageInv, SearchInv, page \in {"nidsQ1", "nidsQ3"}, NEW n \in DOMAIN edges
  PROVE  \/ queried \in Ends({edges[n]})
         \/ \E k \in DOMAIN edges : /\ k < n /\ edges[k] \in links
                                    /\ Ends({edges[k]}) \intersect Ends({edges[n]}) # {}
<1>1. \A l : Near(l) \in Ends({l}) /\ Far(l) \in Ends({l})
  BY EndsOfOne DEF Near, Far
<1>2. edges \in Seq(CaseTwo) /\ DOMAIN edges = 1..Len(edges) /\ Len(edges) \in Nat /\ links = CaseTwo
  <2>1. edges \in Seq(CaseTwo)
    BY EdgesAre
  <2>2. links = CaseTwo
    BY DEF StageInv, LinksOf, NidsPages, HoneypotsPages, GtmwPages
  <2>3. QED BY <2>1, <2>2
<1>3. CASE Near(edges[n]) = queried
  BY <1>1, <1>3
<1>4. CASE Near(edges[n]) # queried
  <2>1. PICK k \in 1..(n - 1) : Near(edges[n]) = Far(edges[k])
    BY <1>4 DEF SearchInv, Chained
  <2>2. k \in DOMAIN edges /\ k < n
    BY <1>2
  <2>3. edges[k] \in links
    BY <1>2, <2>2
  <2>4. Far(edges[k]) \in Ends({edges[k]}) /\ Far(edges[k]) \in Ends({edges[n]})
    BY <1>1, <2>1
  <2>5. QED BY <2>2, <2>3, <2>4
<1>5. QED BY <1>3, <1>4

LEMMA AscendingHas ==
  ASSUME NEW ms, NEW k \in DOMAIN ms, NEW n \in DOMAIN ms, k < n
  PROVE  <<ms[k], ms[n]>> \in Ascending(ms)
<1> DEFINE pair == <<k, n>>
           P == {q \in (DOMAIN ms) \X (DOMAIN ms) : q[1] < q[2]}
<1>1. pair \in P /\ pair[1] = k /\ pair[2] = n
  OBVIOUS
<1>2. Ascending(ms) = {<<ms[p[1]], ms[p[2]]>> : p \in P}
  BY DEF Ascending
<1> HIDE DEF P, pair
<1>3. QED BY <1>1, <1>2

LEMMA SearchedGrows ==
  ASSUME StageInv, SearchInv, Searched
  PROVE  GrowInv'
<1>1. /\ page \in {"nidsQ1", "nidsQ3"} /\ edges' = edges /\ page \in NidsPages
      /\ edges \in Seq(CaseTwo)
  BY SearchedDraws, EdgesAre DEF NidsPages
<1>2. DOMAIN edges = 1..Len(edges) /\ \A n \in DOMAIN edges : n \in Nat
  BY <1>1
<1> DEFINE b == Bare(edges)
           e == WithEnds(edges)
<1>3. /\ DOMAIN b = DOMAIN edges /\ DOMAIN e = DOMAIN edges
      /\ Range(b) = BareMarks(Range(edges)) /\ Range(e) = EndMarks(Range(edges))
      /\ \A n \in DOMAIN edges : b[n].link = edges[n] /\ e[n].link = edges[n]
  <2>1. \A n \in DOMAIN edges : b[n] = Mark(edges[n], Nothing, 1) /\ e[n] = Mark(edges[n], edges[n][2], 1)
    BY <1>1, <1>2, BareIs, WithEndsIs
  <2>2. \A n \in DOMAIN edges : b[n].link = edges[n] /\ e[n].link = edges[n]
    BY <2>1, MarkFields
  <2>3. /\ DOMAIN b = DOMAIN edges /\ DOMAIN e = DOMAIN edges
        /\ Range(b) = BareMarks(Range(edges)) /\ Range(e) = EndMarks(Range(edges))
    BY <1>1, <1>2, BareIs, WithEndsIs
  <2>4. QED BY <2>2, <2>3
<1>4. CASE page = "nidsQ1"
  <2> DEFINE marks == Alone(queried) \union BareMarks(Range(edges))
  <2>1. Drawing(marks) /\ Ordered(timers', OrderQ1(edges)) /\ Before = OrderQ1(edges)
    BY <1>4, SearchedDraws DEF Before
  <2>2. \A m \in Alone(queried) : Grows(marks, m)
    BY FirstMarksGrow
  <2>3. ASSUME NEW n \in DOMAIN edges
        PROVE  Grows(marks, b[n])
    <3>1. \A k \in DOMAIN edges : k < n => <<b[k], b[n]>> \in Before
      <4>1. \A k \in DOMAIN edges : k < n => <<b[k], b[n]>> \in Ascending(b)
        BY <1>3, AscendingHas
      <4>2. QED BY <2>1, <4>1 DEF OrderQ1
    <3>2. \A k \in DOMAIN edges : b[k] \in marks
      BY <1>3 DEF Range
    <3> HIDE DEF b, marks
    <3>3. QED BY <1>1, <1>3, <3>1, <3>2, ChainGrows DEF Grows, Touches
  <2>4. \A m \in BareMarks(Range(edges)) : \E n \in DOMAIN edges : m = b[n]
    BY <1>3 DEF Range
  <2>5. \A m \in marks : Grows(marks, m)
    BY <2>2, <2>3, <2>4
  <2> HIDE DEF marks
  <2>6. QED BY <1>1, <2>1, <2>5, GrowDraws
<1>5. CASE page = "nidsQ3"
  <2> DEFINE marks == EndMarks(Range(edges)) \union Alone(queried) \union BareMarks(Range(edges))
  <2>1. Drawing(marks) /\ Ordered(timers', OrderQ3(edges)) /\ Before = OrderQ3(edges)
    BY <1>5, SearchedDraws DEF Before
  <2>2. \A m \in Alone(queried) : Grows(marks, m)
    BY FirstMarksGrow
  <2>3. \A k \in DOMAIN edges : e[k] \in marks
    BY <1>3 DEF Range
  <2>4. ASSUME NEW n \in DOMAIN edges
        PROVE  Grows(marks, e[n])
    <3>1. \A k \in DOMAIN edges : k < n => <<e[k], e[n]>> \in Before
      <4>1. \A k \in DOMAIN edges : k < n => <<e[k], e[n]>> \in Ascending(e)
        BY <1>3, AscendingHas
      <4>2. QED BY <2>1, <4>1 DEF OrderQ3
    <3> HIDE DEF e, marks
    <3>2. QED BY <1>1, <1>3, <2>3, <3>1, ChainGrows DEF Grows, Touches
  <2>5. ASSUME NEW n \in DOMAIN edges
        PROVE  Grows(marks, b[n])
    <3>1. <<e[n], b[n]>> \in Before
      BY <2>1 DEF OrderQ3
    <3>2. Ends({e[n].link}) \intersect Ends({b[n].link}) # {}
      BY <1>3, EndsOfOne
    <3>3. e[n].link = b[n].link
      BY <1>3
    <3> HIDE DEF e, b, marks
    <3>4. QED BY <2>3, <3>1, <3>2, <3>3 DEF Grows, Touches
  <2>6. /\ \A m \in BareMarks(Range(edges)) : \E n \in DOMAIN edges : m = b[n]
        /\ \A m \in EndMarks(Range(edges)) : \E n \in DOMAIN edges : m = e[n]
    BY <1>3 DEF Range
  <2>7. \A m \in marks : Grows(marks, m)
    BY <2>2, <2>4, <2>5, <2>6
  <2> HIDE DEF marks
  <2>8. QED BY <1>1, <2>1, <2>7, GrowDraws
<1>6. QED BY <1>1, <1>4, <1>5

(* Each hit starts at the first host that page Q2 of nids highlights.      *)
LEMMA HitsGrow ==
  ASSUME StageInv, page = "nidsQ2"
  PROVE  LET marks == HostsAlone(Range(HitHosts), 0) \union BareMarks(Range(CannedHits)) IN
           \A m \in marks : Grows(marks, m)
<1> DEFINE marks == HostsAlone(Range(HitHosts), 0) \union BareMarks(Range(CannedHits))
           first == Mark(Nothing, "10.40", 0)
<1>1. first \in marks /\ first.host = "10.40"
  BY NidsQ2Is, MarkFields
<1>2. \A m \in HostsAlone(Range(HitHosts), 0) : Grows(marks, m)
  BY FirstMarksGrow
<1>3. ASSUME NEW l \in Range(CannedHits)
      PROVE  Grows(marks, Mark(l, Nothing, 1))
  <2> DEFINE m == Mark(l, Nothing, 1)
  <2>1. m.link = l
    BY MarkFields
  <2>2. <<first, m>> \in Before
    BY DEF Before, OrderQ2
  <2>3. l \in CaseTwo /\ l[1] = "10.40"
    BY HitsAre DEF CaseTwo
  <2>4. hosts = Ends(CaseTwo)
    BY DEF StageInv, HostsOf, NidsPages
  <2>5. "10.40" \in hosts /\ "10.40" \in Ends({l})
    BY <2>3, <2>4, CaseTwoIs, EndsOfOne
  <2> HIDE DEF m, first, marks
  <2>6. Grows(marks, m)
    BY <1>1, <2>1, <2>2, <2>5 DEF Grows, Touches
  <2>7. QED BY <2>6 DEF m
<1>4. QED BY <1>2, <1>3 DEF BareMarks

LEMMA GrowRound ==
  ASSUME StageInv, CallInv,
         AcceptHoneypotsQ1 \/ AcceptHoneypotsQ2 \/ AcceptGtmwQ1 \/ AcceptGtmwQ2 \/ AcceptGtmwQ3
           \/ RejectHoneypots \/ RejectGtmw \/ RejectNids \/ AcceptRefusal
  PROVE  GrowInv'
<1>1. page \in Pages /\ edges' = edges /\ phase = "round"
  BY DEF CallInv, AcceptHoneypotsQ1, AcceptHoneypotsQ2, AcceptGtmwQ1, AcceptGtmwQ2, AcceptGtmwQ3,
         RejectHoneypots, RejectGtmw, RejectNids, AcceptRefusal, Accepted, Rejected, search
<1>2. ASSUME NEW marks, Drawing(marks) PROVE marks \subseteq MarkSet
  <2>1. MarksOf(timers') = marks /\ timers' \in Seq(Timer)
    BY <1>2, FreshIs DEF Drawing, Registers
  <2>2. QED BY <2>1, MarksAreMarks
<1>3. ASSUME Drawing({}) PROVE GrowInv'
  <2>1. timers' \in Seq(Timer) /\ MarksOf(timers') = {}
    BY <1>3, FreshIs DEF Drawing, Registers
  <2>2. Ordered(timers', Before)
    BY <2>1, NoOrder
  <2>3. QED BY <1>1, <1>3, <2>2, GrowDraws
<1>4. CASE AcceptHoneypotsQ1
  <2> DEFINE S == AttackedBy(ledger, queried)
             marks == Alone(queried) \union InnerOf(queried, S, 1)
  <2>1. Drawing(marks) /\ page \notin NidsPages
    BY <1>4, HoneypotsQ1Draws DEF AcceptHoneypotsQ1, NidsPages
  <2> HIDE DEF S
  <2>2. \A m \in marks : Grows(marks, m)
    BY FirstMarksGrow
  <2> HIDE DEF marks
  <2>3. QED BY <1>1, <2>1, <2>2, GrowDraws
<1>5. CASE AcceptHoneypotsQ2 \/ (AcceptGtmwQ2 /\ Listed(ledger) # {})
  <2> DEFINE S == AttackersOf(ledger, queried)
             marks == Alone(queried) \union OuterOf(queried, S, 1)
  <2>1. Drawing(marks) /\ page \notin NidsPages
    BY <1>5, HoneypotsQ2Draws, GtmwQ2Draws DEF AcceptHoneypotsQ2, AcceptGtmwQ2, NidsPages
  <2> HIDE DEF S
  <2>2. \A m \in marks : Grows(marks, m)
    BY FirstMarksGrow
  <2> HIDE DEF marks
  <2>3. QED BY <1>1, <2>1, <2>2, GrowDraws
<1>6. CASE AcceptGtmwQ2 /\ Listed(ledger) = {}
  <2> DEFINE marks == Alone(queried) \union {Mark(Nothing, Nothing, 1)}
  <2>1. Drawing(marks) /\ page \notin NidsPages
    BY <1>6, GtmwQ2Draws DEF AcceptGtmwQ2, NidsPages
  <2>2. \A m \in marks : Grows(marks, m)
    BY FirstMarksGrow
  <2> HIDE DEF marks
  <2>3. QED BY <1>1, <2>1, <2>2, GrowDraws
<1>7. CASE AcceptGtmwQ1
  <2>1. page \in Pages \ NidsPages
    BY <1>1, <1>7 DEF AcceptGtmwQ1, NidsPages
  <2>2. CASE Drawing({})
    BY <1>3, <2>2
  <2>3. CASE ~ Drawing({})
    <3>1. PICK L \in FirstAnswers :
            LET apps == urlIdentifySuspiciousApps(L, queried) IN
              Drawing(Alone(queried) \union InnerOf(queried, DOMAIN apps, 1) \union Users(DOMAIN apps, apps))
      BY <1>7, <2>3, GtmwQ1Draws
    <3> DEFINE apps == urlIdentifySuspiciousApps(L, queried)
               D == DOMAIN apps
               first == Alone(queried) \union InnerOf(queried, D, 1)
               marks == first \union Users(D, apps)
    <3>2. Drawing(marks)
      BY <3>1
    <3> HIDE DEF apps, D
    <3>3. \A m \in first : Grows(marks, m)
      BY FirstMarksGrow
    <3>4. InnerOf(queried, D, 1) \subseteq marks /\ Users(D, apps) \subseteq marks
      OBVIOUS
    <3> HIDE DEF first, marks
    <3>5. \A m \in Users(D, apps) : Grows(marks, m)
      BY <1>2, <2>1, <3>2, <3>4, UsersGrow
    <3>6. \A m \in marks : Grows(marks, m)
      BY <3>3, <3>5 DEF marks
    <3>7. QED BY <1>1, <2>1, <3>2, <3>6, GrowDraws
  <2>4. QED BY <2>2, <2>3
<1>8. CASE AcceptGtmwQ3
  <2>1. page \in Pages \ NidsPages
    BY <1>1, <1>8 DEF AcceptGtmwQ3, NidsPages
  <2>2. CASE Drawing({})
    BY <1>3, <2>2
  <2>3. CASE ~ Drawing({})
    <3>1. PICK L \in FirstAnswers :
            LET apps == urlSpoofedApps(L) IN
              Drawing(HostsAlone(DOMAIN apps, 1) \union Users(DOMAIN apps, apps))
      BY <1>8, <2>3, GtmwQ3Draws
    <3> DEFINE apps == urlSpoofedApps(L)
               D == DOMAIN apps
               first == HostsAlone(D, 1)
               marks == first \union Users(D, apps)
    <3>2. Drawing(marks)
      BY <3>1
    <3> HIDE DEF apps, D
    <3>3. \A m \in first : Grows(marks, m)
      BY FirstMarksGrow
    <3>4. HostsAlone(D, 1) \subseteq marks /\ Users(D, apps) \subseteq marks
      OBVIOUS
    <3> HIDE DEF first, marks
    <3>5. \A m \in Users(D, apps) : Grows(marks, m)
      BY <1>2, <2>1, <3>2, <3>4, UsersGrow
    <3>6. \A m \in marks : Grows(marks, m)
      BY <3>3, <3>5 DEF marks
    <3>7. QED BY <1>1, <2>1, <3>2, <3>6, GrowDraws
  <2>4. QED BY <2>2, <2>3
<1>9. CASE RejectHoneypots \/ RejectGtmw
  <2>1. page \notin NidsPages
    BY <1>9 DEF RejectHoneypots, RejectGtmw, HoneypotsPages, GtmwPages, NidsPages
  <2>2. PICK marks \in {{}, Alone(queried)} : Drawing(marks)
    BY <1>9, RejectedDraws
  <2>3. \A m \in marks : Grows(marks, m)
    BY FirstMarksGrow
  <2>4. QED BY <1>1, <2>1, <2>2, <2>3, GrowDraws
<1>10. CASE RejectNids \/ AcceptRefusal
  <2>1. Draw(<<>>) \/ Throw(<<>>)
    BY <1>10 DEF RejectNids, AcceptRefusal
  <2>2. QED BY <1>1, <1>3, <2>1, NothingDraws
<1>11. QED BY <1>4, <1>5, <1>6, <1>7, <1>8, <1>9, <1>10

LEMMA GrowAsks ==
  ASSUME StageInv, CallInv, GrowInv, AskAttackers \/ AskVictims
  PROVE  GrowInv'
<1>1. edges' = edges /\ page \in Pages \ NidsPages /\ phase \notin {"drawn", "threw"}
  BY DEF AskAttackers, AskVictims, search, CallInv, NidsPages
<1>2. CASE Rests
  BY <1>1, <1>2, GrowRests
<1>3. CASE Drawing(Alone(queried))
  <2> DEFINE marks == Alone(queried)
  <2>1. \A m \in marks : Grows(marks, m)
    BY FirstMarksGrow
  <2> HIDE DEF marks
  <2>2. QED BY <1>1, <1>3, <2>1, GrowDraws DEF marks
<1>4. CASE Drawing(Alone(queried) \union OuterOf(queried, Range(attackers), 1))
  <2> DEFINE marks == Alone(queried) \union OuterOf(queried, Range(attackers), 1)
  <2>1. \A m \in marks : Grows(marks, m)
    BY FirstMarksGrow
  <2> HIDE DEF marks
  <2>2. QED BY <1>1, <1>4, <2>1, GrowDraws DEF marks
<1>5. CASE Drawing(Alone(queried) \union OuterOf(queried, Range(attackers), 1)
                     \union Victims(Range(attackers), LastAnswers(victims')))
  <2> DEFINE A == Range(attackers)
             of == LastAnswers(victims')
             first == Alone(queried) \union OuterOf(queried, A, 1)
             marks == first \union Victims(A, of)
  <2>1. Drawing(marks)
    BY <1>5
  <2> HIDE DEF A, of
  <2>2. \A m \in first : Grows(marks, m)
    BY FirstMarksGrow
  <2>3. OuterOf(queried, A, 1) \subseteq marks /\ Victims(A, of) \subseteq marks
    OBVIOUS
  <2> HIDE DEF first, marks
  <2>4. marks \subseteq MarkSet
    <3>1. MarksOf(timers') = marks /\ timers' \in Seq(Timer)
      BY <2>1, FreshIs DEF Drawing, Registers
    <3>2. QED BY <3>1, MarksAreMarks
  <2>5. \A m \in Victims(A, of) : Grows(marks, m)
    BY <1>1, <2>3, <2>4, VictimsGrow
  <2>6. \A m \in marks : Grows(marks, m)
    BY <2>2, <2>5 DEF marks
  <2>7. QED BY <1>1, <2>1, <2>6, GrowDraws
<1>6. QED BY <1>2, <1>3, <1>4, <1>5, AskAttackersDraws, AskVictimsDraws

LEMMA GrowNids ==
  ASSUME StageInv, CallInv, GrowInv, AcceptNidsQ1 \/ AcceptNidsQ2 \/ AcceptNidsQ3
  PROVE  GrowInv'
<1>1. phase = "round" /\ page \in NidsPages
  BY DEF AcceptNidsQ1, AcceptNidsQ2, AcceptNidsQ3, NidsAccepted, NidsPages
<1>2. ASSUME Drawing({}), edges' = edges PROVE GrowInv'
  <2>1. timers' \in Seq(Timer) /\ MarksOf(timers') = {}
    BY <1>2, FreshIs DEF Drawing, Registers
  <2>2. Ordered(timers', Before)
    BY <2>1, NoOrder
  <2>3. QED BY <1>2, <2>2, GrowDraws
<1>3. CASE AcceptNidsQ2
  <2> DEFINE marks == HostsAlone(Range(HitHosts), 0) \union BareMarks(Range(CannedHits))
  <2>1. page = "nidsQ2" /\ edges' = edges
    BY <1>3 DEF AcceptNidsQ2, NoAnimation, search
  <2>2. Before = OrderQ2
    BY <2>1 DEF Before
  <2>3. \A m \in marks : Grows(marks, m)
    BY <2>1, HitsGrow
  <2>4. CASE Drawing({})
    BY <1>2, <2>1, <2>4
  <2>5. CASE Drawing(marks) /\ Ordered(timers', OrderQ2)
    <3> HIDE DEF marks
    <3>1. QED BY <2>1, <2>2, <2>3, <2>5, GrowDraws
  <2>6. QED BY <1>3, <2>4, <2>5, NidsQ2Draws
<1>4. CASE (AcceptNidsQ1 \/ AcceptNidsQ3) /\ NoAnimation
  <2>1. Draw(<<>>) /\ edges' = edges
    BY <1>4 DEF NoAnimation, search
  <2>2. QED BY <1>1, <1>2, <2>1, NothingDraws
<1>5. CASE (AcceptNidsQ1 \/ AcceptNidsQ3) /\ StartSearch
  <2>1. Rests
    BY <1>1, <1>5 DEF StartSearch, Rests
  <2>2. QED BY <1>1, <2>1, GrowRests
<1>6. QED BY <1>3, <1>4, <1>5 DEF AcceptNidsQ1, AcceptNidsQ3

LEMMA GrowInvNext ==
  ASSUME StageInv, CallInv, SearchInv, GrowInv, [Next]_vars
  PROVE  GrowInv'
<1>1. CASE AcceptHoneypotsQ1 \/ AcceptHoneypotsQ2 \/ AcceptGtmwQ1 \/ AcceptGtmwQ2 \/ AcceptGtmwQ3
             \/ RejectHoneypots \/ RejectGtmw \/ RejectNids \/ AcceptRefusal
  BY <1>1, GrowRound
<1>2. CASE AcceptNidsQ1 \/ AcceptNidsQ2 \/ AcceptNidsQ3
  BY <1>2, GrowNids
<1>3. CASE AskAttackers \/ AskVictims
  BY <1>3, GrowAsks
<1>4. CASE Searched
  BY <1>4, SearchedGrows
<1>5. CASE Animate /\ Same
  BY <1>5, GrowAnimates
<1>6. CASE LoadGraph \/ getQ3FinalResult \/ UNCHANGED vars
  <2>1. edges' = edges /\ (Rests \/ LoadGraph)
    BY <1>6 DEF LoadGraph, Same, getQ3FinalResult, vars, search, Rests
  <2>2. QED BY <2>1, GrowRests
<1>7. CASE Search \/ AskFails \/ Commit
  <2>1. Rests /\ phase \notin {"drawn", "threw"}
    BY <1>7 DEF Search, AskFails, Commit, Rests
  <2>2. QED BY <2>1, GrowRests
<1>8. QED BY <1>1, <1>2, <1>3, <1>4, <1>5, <1>6, <1>7 DEF Next, Decide, Work

(* Unless a highlight found no graph, a picture grows from what the query  *)
(* is about, however late the browser is: each highlighted link has an end *)
(* that was highlighted, or is an end of a link that was.                  *)
THEOREM PicturesGrow == Spec => []GrowsFromQueried
<1>1. Init => StageInv /\ CallInv /\ SearchInv /\ GrowInv
  <2> SUFFICES ASSUME Init PROVE StageInv /\ CallInv /\ SearchInv /\ GrowInv
    OBVIOUS
  <2>1. timers = <<>> /\ picture = <<>>
    BY DEF Init
  <2>2. QED BY <2>1, NothingGrows, StageInvInit, CallInvInit, SearchInvInit
<1>2. (StageInv /\ CallInv /\ SearchInv /\ GrowInv) /\ [Next]_vars
        => (StageInv /\ CallInv /\ SearchInv /\ GrowInv)'
  BY StageInvNext, CallInvNext, SearchInvNext, GrowInvNext
<1>3. GrowInv => GrowsFromQueried
  BY DEF GrowInv
<1>4. QED BY <1>1, <1>2, <1>3, PTL DEF Spec
=============================================================================
