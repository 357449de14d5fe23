------------------------------ MODULE TreeProofs ------------------------------
(***************************************************************************)
(* What the walks of Tree visit, for every tree.  The operators are        *)
(* written with recursive functions: that one exists, when every call of   *)
(* it is for an entity of a lower rank, is shown rank by rank.  First      *)
(* come the facts about numbers and induction all proofs use.              *)
(***************************************************************************)
EXTENDS Tree, FiniteSetTheorems, WellFoundedInduction, SequenceTheorems, FunctionTheorems, TLAPS

\* A set of numbers that is not empty has a least one.
LEMMA LeastNumber ==
  ASSUME NEW S \in SUBSET Nat, S # {}
  PROVE  \E n \in S : \A k \in S : n <= k
<1>1. IsWellFoundedOn(OpToRel(<, Nat), Nat)
  BY NatLessThanWellFounded
<1>2. PICK n \in S : \A k \in S : <<k, n>> \notin OpToRel(<, Nat)
  BY <1>1, WFMin
<1>3. ASSUME NEW k \in S
      PROVE  ~(k < n)
  <2>1. <<k, n>> \in Nat \X Nat
    OBVIOUS
  <2>2. <<k, n>>[1] < <<k, n>>[2] => <<k, n>> \in OpToRel(<, Nat)
    BY <2>1, Zenon DEF OpToRel
  <2>3. <<k, n>>[1] = k /\ <<k, n>>[2] = n
    OBVIOUS
  <2> QED
    BY <1>2, <2>2, <2>3
<1> QED
  BY <1>3

\* A set of numbers that holds zero and, with any number, the next one, holds
\* them all.
LEMMA SetInduction ==
  ASSUME NEW S, 0 \in S, \A n \in Nat : n \in S => n + 1 \in S
  PROVE  Nat \subseteq S
<1> SUFFICES ASSUME Nat \ S # {}
             PROVE  FALSE
  OBVIOUS
<1>1. PICK n \in Nat \ S : \A k \in Nat \ S : n <= k
  <2> DEFINE R == Nat \ S
  <2>1. R \in SUBSET Nat /\ R # {}
    OBVIOUS
  <2> HIDE DEF R
  <2>2. \E x \in R : \A k \in R : x <= k
    BY <2>1, LeastNumber
  <2> QED
    BY <2>2 DEF R
<1>2. n - 1 \in Nat /\ (n - 1) + 1 = n /\ ~(n <= n - 1)
  OBVIOUS
<1> QED
  BY <1>1, <1>2

\* The numbers up to n are n many.
LEMMA UpTo ==
  ASSUME NEW n \in Nat
  PROVE  IsFiniteSet(1 .. n) /\ Cardinality(1 .. n) = n
<1>1. Cardinality(1 .. n) = IF 1 > n THEN 0 ELSE n - 1 + 1
  BY FS_Interval
<1>2. IsFiniteSet(1 .. n)
  BY FS_Interval
<1> QED
  BY <1>1, <1>2


(***************************************************************************)
(* FlattenSeq.                                                             *)
(***************************************************************************)
\* F flattens the first n sequences of s.
Flattens(F, s, n) == F = [i \in 1 .. n |-> IF i = 1 THEN s[i] ELSE F[i - 1] \o s[i]]

\* F holds what FlattenSeq has put together behind each sequence of s.
Steps(F, s, T) ==
  /\ FlattenSeq(s) = F[Len(s)]
  /\ \A i \in 1 .. Len(s) :
       /\ F[i] = IF i = 1 THEN s[i] ELSE F[i - 1] \o s[i]
       /\ F[i] \in Seq(T)
       /\ Range(F[i]) = UNION { Range(s[j]) : j \in 1 .. i }

\* FlattenSeq puts one sequence after the other behind those it has.
LEMMA FlattenSteps ==
  ASSUME NEW T, NEW s \in Seq(Seq(T)), Len(s) # 0
  PROVE  \E F : Steps(F, s, T)
<1> DEFINE n == Len(s)
           F == CHOOSE F : Flattens(F, s, n)
<1>0. n \in Nat \ {0} /\ DOMAIN s = 1 .. n /\ \A i \in 1 .. n : s[i] \in Seq(T)
  OBVIOUS
<1>1. FlattenSeq(s) = F[n]
  BY DEF FlattenSeq, Flattens
<1> DEFINE S == { k \in Nat : \E G : Flattens(G, s, k) }
<1>2. 0 \in S
  <2>1. Flattens([i \in 1 .. 0 |-> <<>>], s, 0)
    BY DEF Flattens
  <2> QED
    BY <2>1
<1>3. ASSUME NEW k \in Nat, k \in S
      PROVE  k + 1 \in S
  <2>1. PICK G : Flattens(G, s, k)
    BY <1>3
  <2> DEFINE x == IF k = 0 THEN s[1] ELSE G[k] \o s[k + 1]
             H == [i \in 1 .. k + 1 |-> IF i = k + 1 THEN x ELSE G[i]]
  <2>2. ASSUME NEW i \in 1 .. k + 1
        PROVE  H[i] = IF i = 1 THEN s[i] ELSE H[i - 1] \o s[i]
    <3>1. CASE i = k + 1 /\ k = 0
      BY <3>1
    <3>2. CASE i = k + 1 /\ k # 0
      <4>1. k \in 1 .. k + 1 /\ k # k + 1 /\ i # 1 /\ i - 1 = k
        BY <3>2
      <4>2. H[k] = G[k] /\ H[i] = G[k] \o s[i]
        BY <3>2, <4>1
      <4> HIDE DEF H
      <4> QED
        BY <4>1, <4>2
    <3>3. CASE i # k + 1
      <4>1. i \in 1 .. k /\ (i # 1 => i - 1 \in 1 .. k /\ i - 1 \in 1 .. k + 1 /\ i - 1 # k + 1)
        BY <3>3
      <4>2. G[i] = IF i = 1 THEN s[i] ELSE G[i - 1] \o s[i]
        BY <2>1, <4>1 DEF Flattens
      <4>3. H[i] = G[i] /\ (i # 1 => H[i - 1] = G[i - 1])
        BY <3>3, <4>1
      <4> HIDE DEF H
      <4> QED
        BY <4>2, <4>3
    <3> QED
      BY <3>1, <3>2, <3>3
  <2>3. Flattens(H, s, k + 1)
    <3>1. H = [i \in 1 .. k + 1 |-> H[i]]
      OBVIOUS
    <3> HIDE DEF H
    <3> QED
      BY <2>2, <3>1 DEF Flattens
  <2> HIDE DEF H
  <2>4. k + 1 \in Nat /\ \E K : Flattens(K, s, k + 1)
    BY <2>3
  <2> QED
    BY <2>4
<1>4. Flattens(F, s, n)
  <2>1. n \in S
    <3> HIDE DEF S, n
    <3> QED
      BY <1>0, <1>2, <1>3, SetInduction
  <2> QED
    BY <2>1
<1> HIDE DEF F
<1> DEFINE R == { k \in Nat : k + 1 \in 1 .. n =>
                    /\ F[k + 1] \in Seq(T)
                    /\ Range(F[k + 1]) = UNION { Range(s[i]) : i \in 1 .. k + 1 } }
<1>5. \A i \in 1 .. n : F[i] = IF i = 1 THEN s[i] ELSE F[i - 1] \o s[i]
  <2> HIDE DEF n
  <2> QED
    BY <1>4 DEF Flattens
<1> HIDE DEF n
<1>6. 0 \in R
  <2>1. 1 \in 1 .. n /\ F[1] = s[1]
    BY <1>0, <1>5
  <2>2. { Range(s[i]) : i \in 1 .. 0 + 1 } = { Range(s[1]) }
    OBVIOUS
  <2> QED
    BY <1>0, <2>1, <2>2
<1>7. ASSUME NEW k \in Nat, k \in R
      PROVE  k + 1 \in R
  <2> SUFFICES ASSUME k + 2 \in 1 .. n
               PROVE  /\ F[k + 2] \in Seq(T)
                      /\ Range(F[k + 2]) = UNION { Range(s[i]) : i \in 1 .. k + 2 }
    <3>1. (k + 1) + 1 = k + 2 /\ k + 1 \in Nat
      OBVIOUS
    <3> QED
      BY <3>1
  <2>1. k + 1 \in 1 .. n /\ k + 2 # 1 /\ (k + 2) - 1 = k + 1
    BY <1>0
  <2>2. F[k + 2] = F[k + 1] \o s[k + 2]
    BY <1>5, <2>1
  <2>3. F[k + 1] \in Seq(T) /\ Range(F[k + 1]) = UNION { Range(s[i]) : i \in 1 .. k + 1 }
    BY <1>7, <2>1
  <2>4. s[k + 2] \in Seq(T)
    BY <1>0
  <2>5. /\ F[k + 1] \o s[k + 2] \in Seq(T)
        /\ Range(F[k + 1] \o s[k + 2]) = Range(F[k + 1]) \cup Range(s[k + 2])
    BY <2>3, <2>4, RangeConcatenation
  <2>6. UNION { Range(s[i]) : i \in 1 .. k + 2 }
          = (UNION { Range(s[i]) : i \in 1 .. k + 1 }) \cup Range(s[k + 2])
    <3>1. 1 .. k + 2 = (1 .. k + 1) \cup {k + 2}
      OBVIOUS
    <3> QED
      BY <3>1
  <2> QED
    BY <2>2, <2>3, <2>5, <2>6
<1>8. \A i \in 1 .. n : F[i] \in Seq(T) /\ Range(F[i]) = UNION { Range(s[j]) : j \in 1 .. i }
  <2> SUFFICES ASSUME NEW i \in 1 .. n
               PROVE  F[i] \in Seq(T) /\ Range(F[i]) = UNION { Range(s[j]) : j \in 1 .. i }
    OBVIOUS
  <2>1. i - 1 \in Nat /\ (i - 1) + 1 = i
    BY <1>0
  <2>2. i - 1 \in R
    <3> HIDE DEF R
    <3> QED
      BY <1>6, <1>7, <2>1, SetInduction
  <2> QED
    BY <2>1, <2>2
<1> HIDE DEF R
<1> QED
  BY <1>1, <1>5, <1>8 DEF n, Steps

\* What FlattenSeq returns holds the elements of every sequence, and no others.
LEMMA FlattenSeqIs ==
  ASSUME NEW T, NEW s \in Seq(Seq(T))
  PROVE  /\ FlattenSeq(s) \in Seq(T)
         /\ Range(FlattenSeq(s)) = UNION { Range(s[i]) : i \in 1 .. Len(s) }
<1>1. CASE Len(s) = 0
  BY <1>1 DEF FlattenSeq, Range
<1>2. CASE Len(s) # 0
  <2>1. PICK F : Steps(F, s, T)
    BY <1>2, FlattenSteps
  <2>2. Len(s) \in 1 .. Len(s)
    BY <1>2
  <2> QED
    BY <2>1, <2>2 DEF Steps
<1> QED
  BY <1>1, <1>2

\* Two sequences that repeat nothing and share nothing, one behind the other.
LEMMA ConcatInjective ==
  ASSUME NEW T, NEW s \in Seq(T), NEW t \in Seq(T), IsInjective(s), IsInjective(t),
         Range(s) \cap Range(t) = {}
  PROVE  IsInjective(s \o t)
<1> DEFINE u == s \o t
           k == Len(s)
           l == Len(t)
<1>0. k \in Nat /\ l \in Nat /\ DOMAIN s = 1 .. k /\ DOMAIN t = 1 .. l
  OBVIOUS
<1>1. /\ DOMAIN u = 1 .. k + l
      /\ \A i \in 1 .. k + l : u[i] = IF i <= k THEN s[i] ELSE t[i - k]
  <2>1. u \in Seq(T) /\ Len(u) = k + l
        /\ \A i \in 1 .. k + l : u[i] = IF i <= k THEN s[i] ELSE t[i - k]
    BY ConcatProperties
  <2> HIDE DEF u
  <2> QED
    BY <2>1
<1> HIDE DEF u, k, l
<1>2. SUFFICES ASSUME NEW i \in 1 .. k + l, NEW j \in 1 .. k + l, u[i] = u[j]
               PROVE  i = j
  BY <1>1 DEF IsInjective, u
<1>3. CASE i <= k /\ j <= k
  <2>1. i \in DOMAIN s /\ j \in DOMAIN s /\ s[i] = s[j]
    BY <1>0, <1>1, <1>2, <1>3
  <2> QED
    BY <2>1 DEF IsInjective
<1>4. CASE ~(i <= k) /\ ~(j <= k)
  <2>1. i - k \in DOMAIN t /\ j - k \in DOMAIN t /\ t[i - k] = t[j - k]
    BY <1>0, <1>1, <1>2, <1>4
  <2>2. i - k = j - k
    BY <2>1 DEF IsInjective
  <2> QED
    BY <1>0, <2>2
<1>5. ASSUME NEW a \in 1 .. k + l, NEW b \in 1 .. k + l, a <= k, ~(b <= k)
      PROVE  u[a] # u[b]
  <2>1. a \in DOMAIN s /\ b - k \in DOMAIN t
    BY <1>0, <1>5
  <2>2. u[a] \in Range(s) /\ u[b] \in Range(t)
    BY <1>1, <1>5, <2>1 DEF Range
  <2> QED
    BY <2>2
<1> QED
  BY <1>2, <1>3, <1>4, <1>5

\* Sequences that repeat nothing and share nothing are flattened into one that
\* repeats nothing.
LEMMA FlattenInjective ==
  ASSUME NEW T, NEW s \in Seq(Seq(T)),
         \A i \in 1 .. Len(s) : IsInjective(s[i]),
         \A i, j \in 1 .. Len(s) : i # j => Range(s[i]) \cap Range(s[j]) = {}
  PROVE  IsInjective(FlattenSeq(s))
<1>1. CASE Len(s) = 0
  <2>1. s = <<>> /\ FlattenSeq(s) = s
    BY <1>1 DEF FlattenSeq
  <2> QED
    BY <2>1 DEF IsInjective
<1>2. CASE Len(s) # 0
  <2> DEFINE n == Len(s)
  <2>0. n \in Nat \ {0} /\ \A i \in 1 .. n : s[i] \in Seq(T)
    BY <1>2
  <2>6. PICK F : Steps(F, s, T)
    BY <1>2, FlattenSteps
  <2>1. /\ FlattenSeq(s) = F[n]
        /\ \A i \in 1 .. n :
             /\ F[i] = IF i = 1 THEN s[i] ELSE F[i - 1] \o s[i]
             /\ F[i] \in Seq(T)
             /\ Range(F[i]) = UNION { Range(s[j]) : j \in 1 .. i }
    BY <2>6 DEF Steps
  <2> HIDE DEF n
  <2> DEFINE R == { k \in Nat : k + 1 \in 1 .. n => IsInjective(F[k + 1]) }
  <2>2. 0 \in R
    <3>1. 1 \in 1 .. n /\ F[1] = s[1]
      BY <2>0, <2>1
    <3> QED
      BY <3>1 DEF n
  <2>3. ASSUME NEW k \in Nat, k \in R
        PROVE  k + 1 \in R
    <3> SUFFICES ASSUME k + 2 \in 1 .. n
                 PROVE  IsInjective(F[k + 2])
      <4>1. (k + 1) + 1 = k + 2 /\ k + 1 \in Nat
        OBVIOUS
      <4> QED
        BY <4>1
    <3>1. k + 1 \in 1 .. n /\ k + 2 # 1 /\ (k + 2) - 1 = k + 1
      BY <2>0
    <3>2. F[k + 2] = F[k + 1] \o s[k + 2]
      BY <2>1, <3>1
    <3>3. /\ F[k + 1] \in Seq(T) /\ Range(F[k + 1]) = UNION { Range(s[j]) : j \in 1 .. k + 1 }
          /\ IsInjective(F[k + 1])
      BY <2>1, <2>3, <3>1
    <3>4. s[k + 2] \in Seq(T) /\ IsInjective(s[k + 2])
      BY <2>0 DEF n
    <3>5. \A j \in 1 .. k + 1 : Range(s[j]) \cap Range(s[k + 2]) = {}
      <4> SUFFICES ASSUME NEW j \in 1 .. k + 1
                   PROVE  Range(s[j]) \cap Range(s[k + 2]) = {}
        OBVIOUS
      <4>1. j \in 1 .. n /\ j # k + 2
        BY <2>0
      <4> QED
        BY <4>1 DEF n
    <3>6. Range(F[k + 1]) \cap Range(s[k + 2]) = {}
      BY <3>3, <3>5
    <3>7. IsInjective(F[k + 1] \o s[k + 2])
      <4> DEFINE a == F[k + 1]
                 b == s[k + 2]
      <4>1. /\ a \in Seq(T) /\ b \in Seq(T) /\ IsInjective(a) /\ IsInjective(b)
            /\ Range(a) \cap Range(b) = {}
        BY <3>3, <3>4, <3>6
      <4> HIDE DEF a, b
      <4>2. IsInjective(a \o b)
        BY <4>1, ConcatInjective
      <4> QED
        BY <4>2 DEF a, b
    <3> QED
      BY <3>2, <3>7
  <2>4. n - 1 \in R
    <3> HIDE DEF R
    <3>1. n - 1 \in Nat
      BY <2>0
    <3> QED
      BY <2>2, <2>3, <3>1, SetInduction
  <2>5. (n - 1) + 1 = n /\ n \in 1 .. n
    BY <2>0
  <2> QED
    BY <2>1, <2>4, <2>5
<1> QED
  BY <1>1, <1>2

(***************************************************************************)
(* Segments.                                                               *)
(***************************************************************************)
\* v stands in w behind its first a elements.
Segment(v, w, a) ==
  a \in Nat /\ a + Len(v) <= Len(w) /\ \A i \in 1 .. Len(v) : w[a + i] = v[i]

LEMMA ConcatSegments ==
  ASSUME NEW T, NEW s \in Seq(T), NEW t \in Seq(T)
  PROVE  Segment(s, s \o t, 0) /\ Segment(t, s \o t, Len(s))
<1> DEFINE u == s \o t
           k == Len(s)
           l == Len(t)
<1>1. /\ k \in Nat /\ l \in Nat /\ Len(u) = k + l
      /\ \A i \in 1 .. k + l : u[i] = IF i <= k THEN s[i] ELSE t[i - k]
  BY ConcatProperties, LenProperties
<1> HIDE DEF u, k, l
<1>2. \A i \in 1 .. k : u[0 + i] = s[i]
  BY <1>1
<1>3. ASSUME NEW i \in 1 .. l
      PROVE  u[k + i] = t[i]
  <2>1. k + i \in 1 .. k + l /\ ~(k + i <= k) /\ (k + i) - k = i
    BY <1>1
  <2> QED
    BY <1>1, <2>1
<1> QED
  BY <1>1, <1>2, <1>3 DEF Segment, u, k, l

LEMMA SegmentWithin ==
  ASSUME NEW T, NEW u \in Seq(T), NEW v \in Seq(T), NEW w \in Seq(T), NEW a, NEW b,
         Segment(u, v, a), Segment(v, w, b)
  PROVE  Segment(u, w, b + a)
<1>1. /\ Len(u) \in Nat /\ Len(v) \in Nat /\ Len(w) \in Nat
      /\ a \in Nat /\ b \in Nat /\ a + Len(u) <= Len(v) /\ b + Len(v) <= Len(w)
  BY LenProperties DEF Segment
<1>2. ASSUME NEW i \in 1 .. Len(u)
      PROVE  w[(b + a) + i] = u[i]
  <2>1. a + i \in 1 .. Len(v) /\ (b + a) + i = b + (a + i)
    BY <1>1
  <2>2. v[a + i] = u[i] /\ w[b + (a + i)] = v[a + i]
    BY <2>1 DEF Segment
  <2> QED
    BY <2>1, <2>2
<1> QED
  BY <1>1, <1>2 DEF Segment

\* at says where FlattenSeq puts each of the sequences of s.
Laid(s, at) ==
  /\ at \in [1 .. Len(s) -> Nat]
  /\ \A i \in 1 .. Len(s) :
       /\ Segment(s[i], FlattenSeq(s), at[i])
       /\ at[i] = IF i = 1 THEN 0 ELSE at[i - 1] + Len(s[i - 1])
  /\ \A i, j \in 1 .. Len(s) : i < j => at[i] + Len(s[i]) <= at[j]

LEMMA FlattenSegments ==
  ASSUME NEW T, NEW s \in Seq(Seq(T))
  PROVE  \E at : Laid(s, at)
<1> DEFINE n == Len(s)
<1>0. n \in Nat /\ \A i \in 1 .. n : s[i] \in Seq(T) /\ Len(s[i]) \in Nat
  BY LenProperties, ElementOfSeq
<1>1. CASE n = 0
  <2>1. 1 .. n = {}
    BY <1>1
  <2>2. Laid(s, [i \in 1 .. n |-> 0])
    BY <2>1 DEF Laid
  <2> QED
    BY <2>2
<1>2. CASE n # 0
  <2>1. PICK F : Steps(F, s, T)
    BY <1>2, FlattenSteps
  <2>2. /\ FlattenSeq(s) = F[n]
        /\ \A i \in 1 .. n : F[i] \in Seq(T) /\ F[i] = IF i = 1 THEN s[i] ELSE F[i - 1] \o s[i]
    BY <2>1 DEF Steps
  <2> DEFINE at == [i \in 1 .. n |-> IF i = 1 THEN 0 ELSE Len(F[i - 1])]
             R == { k \in Nat : \A i, j \in 1 .. n : j = i + k => Segment(F[i], F[j], 0) }
  <2> HIDE DEF n
  <2>3. \A i \in 1 .. n : i # 1 => i - 1 \in 1 .. n
    BY <1>0
  <2>4. \A i \in 1 .. n : Len(F[i]) \in Nat
    BY <2>2, LenProperties
  <2>5. \A i \in 1 .. n : /\ Segment(s[i], F[i], at[i]) /\ at[i] \in Nat
                          /\ Len(F[i]) = at[i] + Len(s[i])
    <3> SUFFICES ASSUME NEW i \in 1 .. n
                 PROVE  /\ Segment(s[i], F[i], at[i]) /\ at[i] \in Nat
                        /\ Len(F[i]) = at[i] + Len(s[i])
      OBVIOUS
    <3>1. CASE i = 1
      <4>1. F[i] = s[i] /\ at[i] = 0
        BY <2>2, <3>1
      <4>2. Segment(s[i], s[i], 0)
        BY <1>0 DEF Segment
      <4>3. Len(s[i]) \in Nat /\ Len(F[i]) = 0 + Len(s[i])
        BY <1>0, <4>1
      <4> HIDE DEF at
      <4> QED
        BY <4>1, <4>2, <4>3
    <3>2. CASE i # 1
      <4> DEFINE f == F[i - 1]
                 t == s[i]
      <4>1. f \in Seq(T) /\ t \in Seq(T) /\ F[i] = f \o t /\ at[i] = Len(f)
        BY <1>0, <2>2, <2>3, <3>2
      <4> HIDE DEF f, t
      <4>2. Segment(t, f \o t, Len(f))
        BY <4>1, ConcatSegments
      <4>3. Len(f \o t) = Len(f) + Len(t) /\ Len(f) \in Nat
        BY <4>1, ConcatProperties, LenProperties
      <4> QED
        BY <4>1, <4>2, <4>3 DEF t
    <3> QED
      BY <3>1, <3>2
  <2> HIDE DEF at
  <2>6. 0 \in R
    <3>1. \A i \in 1 .. n : Segment(F[i], F[i], 0)
      BY <2>4 DEF Segment
    <3>2. \A i, j \in 1 .. n : j = i + 0 => j = i
      BY <1>0
    <3> QED
      BY <3>1, <3>2
  <2>7. ASSUME NEW k \in Nat, k \in R
        PROVE  k + 1 \in R
    <3>1. ASSUME NEW i \in 1 .. n, NEW j \in 1 .. n, j = i + (k + 1)
          PROVE  Segment(F[i], F[j], 0)
      <4> DEFINE f == F[j - 1]
                 t == s[j]
      <4>1. j # 1 /\ j - 1 \in 1 .. n /\ j - 1 = i + k
        BY <1>0, <3>1
      <4>2. Segment(F[i], f, 0)
        BY <2>7, <4>1
      <4>3. f \in Seq(T) /\ t \in Seq(T) /\ F[j] = f \o t /\ F[i] \in Seq(T) /\ F[j] \in Seq(T)
        BY <1>0, <2>2, <4>1
      <4> HIDE DEF f, t
      <4>4. Segment(f, f \o t, 0)
        BY <4>3, ConcatSegments
      <4>5. Segment(F[i], F[j], 0 + 0)
        BY <4>2, <4>3, <4>4, SegmentWithin
      <4> QED
        BY <4>5
    <3> QED
      BY <3>1
  <2>8. ASSUME NEW i \in 1 .. n, NEW j \in 1 .. n, i <= j
        PROVE  Segment(F[i], F[j], 0)
    <3>1. j - i \in Nat /\ j = i + (j - i)
      BY <1>0, <2>8
    <3>2. j - i \in R
      <4> HIDE DEF R
      <4> QED
        BY <2>6, <2>7, <3>1, SetInduction
    <3> QED
      BY <3>1, <3>2
  <2>9. ASSUME NEW i \in 1 .. n
        PROVE  Segment(s[i], F[n], at[i])
    <3>1. n \in 1 .. n /\ i <= n
      BY <1>0
    <3>2. Segment(s[i], F[i], at[i]) /\ Segment(F[i], F[n], 0)
      BY <2>5, <2>8, <3>1
    <3>3. s[i] \in Seq(T) /\ F[i] \in Seq(T) /\ F[n] \in Seq(T) /\ at[i] \in Nat
      BY <1>0, <2>2, <2>5, <3>1
    <3>4. Segment(s[i], F[n], 0 + at[i])
      BY <3>2, <3>3, SegmentWithin
    <3> QED
      BY <3>3, <3>4
  <2>10. ASSUME NEW i \in 1 .. n
         PROVE  at[i] = IF i = 1 THEN 0 ELSE at[i - 1] + Len(s[i - 1])
    BY <2>3, <2>5 DEF at
  <2>11. ASSUME NEW i \in 1 .. n, NEW j \in 1 .. n, i < j
         PROVE  at[i] + Len(s[i]) <= at[j]
    <3>1. j # 1 /\ j - 1 \in 1 .. n /\ i <= j - 1
      BY <1>0, <2>11
    <3>2. at[j] = Len(F[j - 1]) /\ Len(F[i]) = at[i] + Len(s[i])
      BY <2>5, <3>1 DEF at
    <3>3. Segment(F[i], F[j - 1], 0)
      BY <2>8, <3>1
    <3>4. 0 + Len(F[i]) <= Len(F[j - 1])
      BY <3>3 DEF Segment
    <3> QED
      BY <2>4, <3>2, <3>4
  <2>12. at \in [1 .. n -> Nat]
    BY <2>5 DEF at
  <2>13. Laid(s, at)
    BY <2>2, <2>9, <2>10, <2>11, <2>12 DEF Laid, n
  <2> QED
    BY <2>13
<1> QED
  BY <1>1, <1>2

(***************************************************************************)
(* PostOrder.                                                              *)
(***************************************************************************)
\* No entity is above itself: children have lower ranks than their parents.
Ranked(kids, rank, n) ==
  /\ n \in Nat
  /\ kids \in [DOMAIN kids -> Seq(DOMAIN kids)]
  /\ rank \in [DOMAIN kids -> 0 .. n]
  /\ \A e \in DOMAIN kids : \A i \in 1 .. Len(kids[e]) : rank[kids[e][i]] < rank[e]

\* The walk of e, from the walks F of its children.
Behind(kids, F, e) == FlattenSeq([i \in DOMAIN kids[e] |-> F[kids[e][i]]]) \o <<e>>

Walks(kids, F) == F = [e \in DOMAIN kids |-> Behind(kids, F, e)]

\* The walk of every entity exists.
LEMMA WalkExists ==
  ASSUME NEW kids, NEW rank, NEW n, Ranked(kids, rank, n)
  PROVE  \E F : Walks(kids, F)
<1> DEFINE D == DOMAIN kids
           Good(F, k) == \A e \in D : rank[e] < k => F[e] = Behind(kids, F, e)
           S == { k \in Nat : \E F : Good(F, k) }
<1>0. /\ n \in Nat
      /\ \A e \in D : rank[e] \in Nat /\ rank[e] < n + 1 /\ DOMAIN kids[e] = 1 .. Len(kids[e])
      /\ \A e \in D : \A i \in 1 .. Len(kids[e]) : kids[e][i] \in D /\ rank[kids[e][i]] < rank[e]
  BY DEF Ranked
<1>1. 0 \in S
  <2>1. \A e \in D : ~(rank[e] < 0)
    BY <1>0
  <2>2. Good(<<>>, 0)
    BY <2>1
  <2> QED
    BY <2>2
<1>2. ASSUME NEW k \in Nat, k \in S
      PROVE  k + 1 \in S
  <2>1. PICK F : Good(F, k)
    BY <1>2
  <2> DEFINE G == [e \in D |-> IF rank[e] < k THEN F[e] ELSE Behind(kids, F, e)]
  <2>2. ASSUME NEW e \in D, rank[e] < k + 1
        PROVE  G[e] = Behind(kids, G, e)
    <3>1. \A i \in DOMAIN kids[e] : G[kids[e][i]] = F[kids[e][i]]
      <4>1. \A i \in DOMAIN kids[e] : kids[e][i] \in D /\ rank[kids[e][i]] < k
        BY <1>0, <2>2
      <4> QED
        BY <4>1
    <3>2. [i \in DOMAIN kids[e] |-> G[kids[e][i]]] = [i \in DOMAIN kids[e] |-> F[kids[e][i]]]
      <4> HIDE DEF G
      <4> QED
        BY <3>1
    <3>3. Behind(kids, G, e) = Behind(kids, F, e)
      <4> HIDE DEF G
      <4> QED
        BY <3>2 DEF Behind
    <3>4. G[e] = Behind(kids, F, e)
      <4> HIDE DEF D
      <4> QED
        BY <2>1, <2>2
    <3> HIDE DEF G
    <3> QED
      BY <3>3, <3>4
  <2>3. Good(G, k + 1)
    <3> HIDE DEF G
    <3> QED
      BY <2>2
  <2> HIDE DEF Good, G
  <2> QED
    BY <2>3
<1>3. n + 1 \in S
  <2> HIDE DEF S
  <2> QED
    BY <1>0, <1>1, <1>2, SetInduction
<1>4. PICK F : Good(F, n + 1)
  BY <1>3
<1> DEFINE W == [e \in D |-> F[e]]
<1>5. \A e \in D : F[e] = Behind(kids, F, e)
  BY <1>0, <1>4
<1>6. ASSUME NEW e \in D
      PROVE  W[e] = Behind(kids, W, e)
  <2>1. \A i \in DOMAIN kids[e] : W[kids[e][i]] = F[kids[e][i]]
    BY <1>0
  <2>2. [i \in DOMAIN kids[e] |-> W[kids[e][i]]] = [i \in DOMAIN kids[e] |-> F[kids[e][i]]]
    <3> HIDE DEF W
    <3> QED
      BY <2>1
  <2>3. Behind(kids, W, e) = Behind(kids, F, e)
    <3> HIDE DEF W
    <3> QED
      BY <2>2 DEF Behind
  <2> QED
    BY <1>5, <2>3
<1>7. W = [e \in D |-> W[e]]
  OBVIOUS
<1>8. Walks(kids, W)
  <2> HIDE DEF W
  <2> QED
    BY <1>6, <1>7 DEF Walks
<1> QED
  BY <1>8

\* The walk of e is a sequence of e and what the walks of its children list.
Lists(kids, F, e) ==
  /\ F[e] \in Seq(DOMAIN kids)
  /\ Range(F[e]) = {e} \cup UNION { Range(F[kids[e][i]]) : i \in 1 .. Len(kids[e]) }

\* A walk lists the entity it starts from and what the walks of its children list.
LEMMA WalkLists ==
  ASSUME NEW kids, NEW rank, NEW n, Ranked(kids, rank, n), NEW F, Walks(kids, F)
  PROVE  \A e \in DOMAIN kids : Lists(kids, F, e)
<1> DEFINE D == DOMAIN kids
           S == { k \in Nat : \A e \in D : rank[e] < k => F[e] \in Seq(D) }
<1>0. /\ n \in Nat
      /\ \A e \in D : rank[e] \in Nat /\ rank[e] < n + 1 /\ kids[e] \in Seq(D)
      /\ \A e \in D : DOMAIN kids[e] = 1 .. Len(kids[e]) /\ Len(kids[e]) \in Nat
      /\ \A e \in D : \A i \in 1 .. Len(kids[e]) : kids[e][i] \in D /\ rank[kids[e][i]] < rank[e]
  BY DEF Ranked
<1>1. \A e \in D : F[e] = Behind(kids, F, e)
  BY DEF Walks
<1>2. ASSUME NEW e \in D, \A i \in 1 .. Len(kids[e]) : F[kids[e][i]] \in Seq(D)
      PROVE  /\ F[e] \in Seq(D)
             /\ Range(F[e]) = {e} \cup UNION { Range(F[kids[e][i]]) : i \in 1 .. Len(kids[e]) }
  <2> DEFINE s == [i \in DOMAIN kids[e] |-> F[kids[e][i]]]
  <2>1. /\ s \in Seq(Seq(D)) /\ Len(s) = Len(kids[e])
        /\ \A i \in 1 .. Len(kids[e]) : s[i] = F[kids[e][i]]
    <3>1. DOMAIN kids[e] = 1 .. Len(kids[e]) /\ Len(kids[e]) \in Nat
      BY <1>0
    <3>2. s \in [1 .. Len(kids[e]) -> Seq(D)]
      BY <1>2, <3>1
    <3>3. \A i \in 1 .. Len(kids[e]) : s[i] = F[kids[e][i]]
      BY <3>1
    <3> HIDE DEF s, D
    <3> QED
      BY <3>1, <3>2, <3>3
  <2>2. F[e] = FlattenSeq(s) \o <<e>>
    BY <1>1 DEF Behind
  <2> HIDE DEF s
  <2>3. FlattenSeq(s) \in Seq(D) /\ Range(FlattenSeq(s)) = UNION { Range(s[i]) : i \in 1 .. Len(s) }
    BY <2>1, FlattenSeqIs
  <2> DEFINE last == <<e>>
  <2>4. last \in Seq(D) /\ Range(last) = {e}
    BY DEF Range
  <2> HIDE DEF last, D
  <2>5. FlattenSeq(s) \o last \in Seq(D)
    BY <2>3, <2>4
  <2>6. Range(FlattenSeq(s) \o last) = Range(FlattenSeq(s)) \cup Range(last)
    BY <2>3, <2>4, RangeConcatenation
  <2>7. { Range(s[i]) : i \in 1 .. Len(s) } = { Range(F[kids[e][i]]) : i \in 1 .. Len(kids[e]) }
    BY <2>1
  <2> QED
    BY <2>2, <2>3, <2>4, <2>5, <2>6, <2>7 DEF last
<1>3. 0 \in S
  BY <1>0
<1>4. ASSUME NEW k \in Nat, k \in S
      PROVE  k + 1 \in S
  <2>1. ASSUME NEW e \in D, rank[e] < k + 1
        PROVE  F[e] \in Seq(D)
    <3>1. ASSUME NEW i \in 1 .. Len(kids[e])
          PROVE  F[kids[e][i]] \in Seq(D)
      <4>1. kids[e][i] \in D /\ rank[kids[e][i]] < k
        BY <1>0, <2>1
      <4> HIDE DEF D
      <4> QED
        BY <1>4, <4>1
    <3> QED
      BY <1>2, <3>1
  <2> QED
    BY <2>1
<1>5. n + 1 \in S
  <2> HIDE DEF S
  <2> QED
    BY <1>0, <1>3, <1>4, SetInduction
<1>6. \A e \in D : F[e] \in Seq(D)
  BY <1>0, <1>5
<1> QED
  BY <1>0, <1>2, <1>6 DEF Lists

\* With an entity a walk lists everything below it.
LEMMA WalkClosed ==
  ASSUME NEW kids, NEW rank, NEW n, Ranked(kids, rank, n), NEW F, Walks(kids, F)
  PROVE  \A e \in DOMAIN kids : \A x \in Range(F[e]) :
           x \in DOMAIN kids /\ Range(kids[x]) \subseteq Range(F[e])
<1> DEFINE D == DOMAIN kids
           Listed(e) == \A x \in Range(F[e]) : x \in D /\ Range(kids[x]) \subseteq Range(F[e])
           S == { k \in Nat : \A e \in D : rank[e] < k => Listed(e) }
<1>0. /\ n \in Nat
      /\ \A e \in D : rank[e] \in Nat /\ rank[e] < n + 1 /\ kids[e] \in Seq(D)
      /\ \A e \in D : DOMAIN kids[e] = 1 .. Len(kids[e]) /\ Len(kids[e]) \in Nat
      /\ \A e \in D : \A i \in 1 .. Len(kids[e]) : kids[e][i] \in D /\ rank[kids[e][i]] < rank[e]
  BY DEF Ranked
<1>1. ASSUME NEW e \in D
      PROVE  /\ F[e] \in Seq(D)
             /\ Range(F[e]) = {e} \cup UNION { Range(F[kids[e][i]]) : i \in 1 .. Len(kids[e]) }
  BY WalkLists DEF Lists
<1>2. \A e \in D : Range(kids[e]) = { kids[e][i] : i \in 1 .. Len(kids[e]) }
  BY <1>0, RangeEquality
<1>8. ASSUME NEW e \in D, NEW i \in 1 .. Len(kids[e])
      PROVE  Range(F[kids[e][i]]) \subseteq Range(F[e])
  <2> DEFINE below(j) == Range(F[kids[e][j]])
             all == Range(F[e])
  <2>1. all = {e} \cup UNION { below(j) : j \in 1 .. Len(kids[e]) }
    BY <1>1
  <2> HIDE DEF below, all
  <2>2. below(i) \subseteq all
    BY <2>1
  <2> QED
    BY <2>2 DEF below, all
<1>3. ASSUME NEW e \in D, \A i \in 1 .. Len(kids[e]) : Listed(kids[e][i])
      PROVE  Listed(e)
  <2> SUFFICES ASSUME NEW x \in Range(F[e])
               PROVE  x \in D /\ Range(kids[x]) \subseteq Range(F[e])
    OBVIOUS
  <2>1. CASE x = e
    <3>1. ASSUME NEW i \in 1 .. Len(kids[e])
          PROVE  kids[e][i] \in Range(F[e])
      <4>1. kids[e][i] \in D
        BY <1>0
      <4>2. kids[e][i] \in Range(F[kids[e][i]])
        BY <1>1, <4>1
      <4>3. Range(F[kids[e][i]]) \subseteq Range(F[e])
        BY <1>8
      <4> QED
        BY <4>2, <4>3
    <3> QED
      BY <1>2, <2>1, <3>1
  <2>2. CASE x # e
    <3>1. PICK i \in 1 .. Len(kids[e]) : x \in Range(F[kids[e][i]])
      <4>1. x \in UNION { Range(F[kids[e][i]]) : i \in 1 .. Len(kids[e]) }
        BY <1>1, <2>2
      <4> HIDE DEF D
      <4> QED
        BY <4>1
    <3>2. x \in D /\ Range(kids[x]) \subseteq Range(F[kids[e][i]])
      BY <1>3, <3>1
    <3>3. Range(F[kids[e][i]]) \subseteq Range(F[e])
      BY <1>8, <3>1
    <3> QED
      BY <3>2, <3>3
  <2> QED
    BY <2>1, <2>2
<1> HIDE DEF Listed
<1>4. 0 \in S
  BY <1>0
<1>5. ASSUME NEW k \in Nat, k \in S
      PROVE  k + 1 \in S
  <2>1. ASSUME NEW e \in D, rank[e] < k + 1
        PROVE  Listed(e)
    <3>1. ASSUME NEW i \in 1 .. Len(kids[e])
          PROVE  Listed(kids[e][i])
      <4>1. kids[e][i] \in D /\ rank[kids[e][i]] < k
        BY <1>0, <2>1
      <4> HIDE DEF D
      <4> QED
        BY <1>5, <4>1
    <3> QED
      BY <1>3, <3>1
  <2> QED
    BY <2>1
<1>6. n + 1 \in S
  <2> HIDE DEF S
  <2> QED
    BY <1>0, <1>4, <1>5, SetInduction
<1>7. \A e \in D : Listed(e)
  BY <1>0, <1>6
<1> QED
  BY <1>7 DEF Listed

\* depth_first (systems.hpp 14-47) visits everything that hangs together with the
\* entity it starts from, each but that one being a child of another.
THEOREM VisitsAll ==
  ASSUME NEW kids, NEW rank, NEW n, Ranked(kids, rank, n), NEW C \in SUBSET DOMAIN kids,
         NEW r \in C, \A e \in C \ {r} : \E b \in C : e \in Range(kids[b])
  PROVE  PostOrder(kids, r) \in Seq(DOMAIN kids) /\ C \subseteq Range(PostOrder(kids, r))
<1> DEFINE D == DOMAIN kids
           F == CHOOSE F : Walks(kids, F)
           seen == Range(F[r])
<1>0. /\ n \in Nat /\ r \in D /\ C \subseteq D
      /\ \A e \in D : rank[e] \in 0 .. n /\ kids[e] \in Seq(D)
      /\ \A e \in D : \A i \in 1 .. Len(kids[e]) : rank[kids[e][i]] < rank[e]
  BY DEF Ranked
<1>1. PostOrder(kids, r) = F[r]
  BY DEF PostOrder, Walks, Behind
<1>2. Walks(kids, F)
  BY WalkExists
<1> HIDE DEF F
<1>3. F[r] \in Seq(D) /\ r \in seen
  <2>1. /\ F[r] \in Seq(D)
        /\ Range(F[r]) = {r} \cup UNION { Range(F[kids[r][i]]) : i \in 1 .. Len(kids[r]) }
    <3>1. Lists(kids, F, r)
      BY <1>0, <1>2, WalkLists
    <3> HIDE DEF D
    <3> QED
      BY <3>1 DEF Lists, D
  <2> QED
    BY <2>1
<1>4. \A x \in seen : x \in D /\ Range(kids[x]) \subseteq seen
  BY <1>0, <1>2, WalkClosed
<1>5. C \subseteq seen
  <2> DEFINE S == { n - rank[e] : e \in C \ seen }
  <2> SUFFICES ASSUME C \ seen # {}
               PROVE  FALSE
    OBVIOUS
  <2>1. S \in SUBSET Nat /\ S # {}
    BY <1>0
  <2>2. PICK k \in S : \A l \in S : k <= l
    <3> HIDE DEF S
    <3> QED
      BY <2>1, LeastNumber
  <2>3. PICK e \in C \ seen : k = n - rank[e]
    BY <2>2
  <2>4. PICK b \in C : e \in Range(kids[b])
    BY <1>3, <2>3
  <2>5. rank[e] < rank[b]
    <3>1. Range(kids[b]) = { kids[b][i] : i \in 1 .. Len(kids[b]) }
      BY <1>0, RangeEquality
    <3> QED
      BY <1>0, <2>4, <3>1
  <2>6. b \in seen
    <3> SUFFICES ASSUME b \notin seen
                 PROVE  FALSE
      OBVIOUS
    <3>1. n - rank[b] \in S
      BY <2>4
    <3>2. k <= n - rank[b]
      BY <2>2, <3>1
    <3>3. rank[b] \in 0 .. n /\ rank[e] \in 0 .. n
      BY <1>0, <2>3, <2>4
    <3> QED
      BY <1>0, <2>3, <2>5, <3>2, <3>3
  <2> QED
    BY <1>4, <2>3, <2>4, <2>6
<1> QED
  BY <1>1, <1>3, <1>5

\* The entities of C have children of C, each of them the child it has for a
\* parent lists, and each of them once.
Owned(kids, up, C) ==
  /\ C \subseteq DOMAIN kids
  /\ \A e \in C : /\ IsInjective(kids[e])
                  /\ \A i \in 1 .. Len(kids[e]) : kids[e][i] \in C /\ up[kids[e][i]] = e

\* With everything but the entity it starts from a walk lists its parent.
LEMMA WalkUp ==
  ASSUME NEW kids, NEW rank, NEW n, Ranked(kids, rank, n), NEW F, Walks(kids, F),
         NEW up, NEW C, Owned(kids, up, C)
  PROVE  \A e \in C : \A x \in Range(F[e]) :
           /\ x \in C /\ rank[x] <= rank[e]
           /\ x # e => up[x] \in Range(F[e]) /\ rank[x] < rank[up[x]]
<1> DEFINE D == DOMAIN kids
           Up(e) == \A x \in Range(F[e]) :
                      /\ x \in C /\ rank[x] <= rank[e]
                      /\ x # e => up[x] \in Range(F[e]) /\ rank[x] < rank[up[x]]
           S == { k \in Nat : \A e \in C : rank[e] < k => Up(e) }
<1>0. /\ n \in Nat
      /\ \A e \in D : rank[e] \in Nat /\ rank[e] < n + 1
      /\ \A e \in D : \A i \in 1 .. Len(kids[e]) : kids[e][i] \in D /\ rank[kids[e][i]] < rank[e]
      /\ C \subseteq D
      /\ \A e \in C : \A i \in 1 .. Len(kids[e]) : kids[e][i] \in C /\ up[kids[e][i]] = e
  BY DEF Ranked, Owned
<1>1. ASSUME NEW e \in C
      PROVE  Range(F[e]) = {e} \cup UNION { Range(F[kids[e][i]]) : i \in 1 .. Len(kids[e]) }
  <2>1. e \in D
    BY <1>0
  <2>2. Lists(kids, F, e)
    BY <2>1, WalkLists
  <2> HIDE DEF D
  <2> QED
    BY <2>2 DEF Lists
<1> HIDE DEF D
<1>2. ASSUME NEW e \in C, \A i \in 1 .. Len(kids[e]) : Up(kids[e][i])
      PROVE  Up(e)
  <2> SUFFICES ASSUME NEW x \in Range(F[e]), x # e
               PROVE  x \in C /\ rank[x] <= rank[e] /\ up[x] \in Range(F[e]) /\ rank[x] < rank[up[x]]
    BY <1>0
  <2>1. e \in Range(F[e])
    BY <1>1
  <2>2. PICK i \in 1 .. Len(kids[e]) : x \in Range(F[kids[e][i]])
    <3> DEFINE below(j) == Range(F[kids[e][j]])
    <3>1. x \in {e} \cup UNION { below(j) : j \in 1 .. Len(kids[e]) }
      BY <1>1
    <3> HIDE DEF below
    <3>2. \E i \in 1 .. Len(kids[e]) : x \in below(i)
      BY <3>1
    <3> QED
      BY <3>2 DEF below
  <2> DEFINE k == kids[e][i]
  <2>3. k \in C /\ up[k] = e /\ rank[k] < rank[e] /\ rank[k] \in Nat /\ rank[e] \in Nat
    BY <1>0
  <2>4. Up(k)
    BY <1>2
  <2>5. Range(F[k]) \subseteq Range(F[e])
    <3> DEFINE below(j) == Range(F[kids[e][j]])
               all == Range(F[e])
    <3>1. all = {e} \cup UNION { below(j) : j \in 1 .. Len(kids[e]) }
      BY <1>1
    <3> HIDE DEF below, all
    <3>2. below(i) \subseteq all
      BY <3>1
    <3> QED
      BY <3>2 DEF below, all
  <2>6. x \in Range(F[k])
    BY <2>2
  <2> HIDE DEF k
  <2>7. /\ x \in C /\ rank[x] <= rank[k]
        /\ x # k => up[x] \in Range(F[k]) /\ rank[x] < rank[up[x]]
    BY <2>4, <2>6
  <2>8. rank[x] \in Nat
    BY <1>0, <2>7
  <2>9. rank[x] <= rank[e]
    BY <2>3, <2>7, <2>8
  <2> QED
    BY <2>1, <2>3, <2>5, <2>7, <2>9
<1> HIDE DEF Up
<1>3. 0 \in S
  BY <1>0
<1>4. ASSUME NEW k \in Nat, k \in S
      PROVE  k + 1 \in S
  <2>1. ASSUME NEW e \in C, rank[e] < k + 1
        PROVE  Up(e)
    <3>1. ASSUME NEW i \in 1 .. Len(kids[e])
          PROVE  Up(kids[e][i])
      <4>1. kids[e][i] \in C /\ rank[kids[e][i]] < k
        BY <1>0, <2>1
      <4> QED
        BY <1>4, <4>1
    <3> QED
      BY <1>2, <3>1
  <2> QED
    BY <2>1
<1>5. n + 1 \in S
  <2> HIDE DEF S
  <2> QED
    BY <1>0, <1>3, <1>4, SetInduction
<1>6. \A e \in C : Up(e)
  BY <1>0, <1>5
<1> QED
  BY <1>6 DEF Up

\* The walks of two children of one entity share nothing.
LEMMA WalksApart ==
  ASSUME NEW kids, NEW rank, NEW n, Ranked(kids, rank, n), NEW F, Walks(kids, F),
         NEW up, NEW C, Owned(kids, up, C), NEW e \in C,
         NEW i \in 1 .. Len(kids[e]), NEW j \in 1 .. Len(kids[e]), i # j
  PROVE  Range(F[kids[e][i]]) \cap Range(F[kids[e][j]]) = {}
<1> DEFINE D == DOMAIN kids
           k == kids[e][i]
           l == kids[e][j]
           S == { n - rank[x] : x \in Range(F[k]) \cap Range(F[l]) }
<1>0. /\ n \in Nat /\ C \subseteq D
      /\ \A x \in C : rank[x] \in 0 .. n
      /\ k \in C /\ l \in C /\ up[k] = e /\ up[l] = e /\ rank[k] < rank[e] /\ rank[l] < rank[e]
  BY DEF Ranked, Owned
<1>1. k # l
  <2>1. kids[e] \in Seq(D) /\ IsInjective(kids[e])
    BY DEF Ranked, Owned
  <2>2. i \in DOMAIN kids[e] /\ j \in DOMAIN kids[e]
    BY <2>1
  <2> QED
    BY <2>1, <2>2 DEF IsInjective
<1>2. \A a \in C : \A x \in Range(F[a]) :
        /\ x \in C /\ rank[x] <= rank[a]
        /\ x # a => up[x] \in Range(F[a]) /\ rank[x] < rank[up[x]]
  BY WalkUp
<1> SUFFICES ASSUME S # {}
             PROVE  FALSE
  <2> SUFFICES ASSUME Range(F[k]) \cap Range(F[l]) # {}
               PROVE  S # {}
    OBVIOUS
  <2> HIDE DEF k, l
  <2> QED
    OBVIOUS
<1> HIDE DEF k, l
<1>3. PICK m \in S : \A o \in S : m <= o
  <2>1. S \in SUBSET Nat
    BY <1>0, <1>2
  <2> HIDE DEF S
  <2> QED
    BY <2>1, LeastNumber
<1>4. PICK x \in Range(F[k]) \cap Range(F[l]) : m = n - rank[x]
  BY <1>3
<1>5. x # k /\ x # l
  <2>1. ASSUME x = k
        PROVE  FALSE
    <3>1. e \in Range(F[l])
      BY <1>0, <1>1, <1>2, <1>4, <2>1
    <3>2. rank[e] <= rank[l]
      BY <1>0, <1>2, <3>1
    <3> QED
      BY <1>0, <3>2
  <2>2. ASSUME x = l
        PROVE  FALSE
    <3>1. e \in Range(F[k])
      BY <1>0, <1>1, <1>2, <1>4, <2>2
    <3>2. rank[e] <= rank[k]
      BY <1>0, <1>2, <3>1
    <3> QED
      BY <1>0, <3>2
  <2> QED
    BY <2>1, <2>2
<1>6. up[x] \in Range(F[k]) \cap Range(F[l]) /\ rank[x] < rank[up[x]] /\ x \in C
  BY <1>0, <1>2, <1>4, <1>5
<1>7. up[x] \in C
  BY <1>0, <1>2, <1>6
<1>8. m <= n - rank[up[x]]
  BY <1>3, <1>6
<1> QED
  BY <1>0, <1>4, <1>6, <1>7, <1>8

\* depth_first visits nothing twice, and what it started from last, in a tree
\* in which every child is listed by its parent alone, and by that once.  So
\* does sort_tree_walk: its set of entities found (sort.cpp 19) stops nothing,
\* and the assertion behind it (sort.cpp 114) holds.
THEOREM VisitsOnce ==
  ASSUME NEW kids, NEW rank, NEW n, Ranked(kids, rank, n),
         NEW up, NEW C, Owned(kids, up, C), NEW r \in C
  PROVE  /\ PostOrder(kids, r) \in Seq(C)
         /\ IsInjective(PostOrder(kids, r))
         /\ PostOrder(kids, r) # <<>> /\ PostOrder(kids, r)[Len(PostOrder(kids, r))] = r
<1> DEFINE D == DOMAIN kids
           F == CHOOSE F : Walks(kids, F)
           S == { k \in Nat : \A e \in C : rank[e] < k => IsInjective(F[e]) }
<1>0. /\ n \in Nat /\ C \subseteq D
      /\ \A e \in D : rank[e] \in Nat /\ rank[e] < n + 1 /\ kids[e] \in Seq(D)
      /\ \A e \in D : DOMAIN kids[e] = 1 .. Len(kids[e]) /\ Len(kids[e]) \in Nat
      /\ \A e \in C : \A i \in 1 .. Len(kids[e]) : kids[e][i] \in C /\ rank[kids[e][i]] < rank[e]
  BY DEF Ranked, Owned
<1>1. PostOrder(kids, r) = F[r]
  BY DEF PostOrder, Walks, Behind
<1>2. Walks(kids, F)
  BY WalkExists
<1> HIDE DEF F
<1>3. ASSUME NEW e \in D
      PROVE  /\ F[e] \in Seq(D)
             /\ Range(F[e]) = {e} \cup UNION { Range(F[kids[e][i]]) : i \in 1 .. Len(kids[e]) }
  <2>1. Lists(kids, F, e)
    BY <1>2, WalkLists
  <2> QED
    BY <2>1 DEF Lists
<1>4. \A a \in C : \A x \in Range(F[a]) : x \in C /\ rank[x] <= rank[a]
  BY <1>2, WalkUp
<1>5. ASSUME NEW e \in C
      PROVE  LET s == [i \in 1 .. Len(kids[e]) |-> F[kids[e][i]]]
             IN /\ s \in Seq(Seq(D)) /\ F[e] = FlattenSeq(s) \o <<e>>
                /\ Len(s) = Len(kids[e])
                /\ FlattenSeq(s) \in Seq(D)
                /\ Range(FlattenSeq(s)) = UNION { Range(s[i]) : i \in 1 .. Len(s) }
  <2> DEFINE s == [i \in 1 .. Len(kids[e]) |-> F[kids[e][i]]]
  <2>1. Len(kids[e]) \in Nat /\ DOMAIN kids[e] = 1 .. Len(kids[e])
    BY <1>0
  <2>2. \A i \in 1 .. Len(kids[e]) : F[kids[e][i]] \in Seq(D)
    BY <1>0, <1>3
  <2>3. s \in Seq(Seq(D)) /\ Len(s) = Len(kids[e])
    BY <2>1, <2>2
  <2>4. F[e] = FlattenSeq(s) \o <<e>>
    BY <1>0, <1>2, <2>1 DEF Walks, Behind
  <2> HIDE DEF s
  <2>5. FlattenSeq(s) \in Seq(D) /\ Range(FlattenSeq(s)) = UNION { Range(s[i]) : i \in 1 .. Len(s) }
    BY <2>3, FlattenSeqIs
  <2> QED
    BY <2>3, <2>4, <2>5 DEF s
<1>6. ASSUME NEW e \in C, \A i \in 1 .. Len(kids[e]) : IsInjective(F[kids[e][i]])
      PROVE  IsInjective(F[e])
  <2> DEFINE s == [i \in 1 .. Len(kids[e]) |-> F[kids[e][i]]]
             last == <<e>>
  <2>1. \A i \in 1 .. Len(kids[e]) : s[i] = F[kids[e][i]]
    OBVIOUS
  <2>2. /\ s \in Seq(Seq(D)) /\ F[e] = FlattenSeq(s) \o last
        /\ Len(s) = Len(kids[e])
        /\ FlattenSeq(s) \in Seq(D)
        /\ Range(FlattenSeq(s)) = UNION { Range(s[i]) : i \in 1 .. Len(s) }
    BY <1>5
  <2>3. \A i, j \in 1 .. Len(kids[e]) : i # j =>
          Range(F[kids[e][i]]) \cap Range(F[kids[e][j]]) = {}
    BY <1>2, WalksApart
  <2> HIDE DEF s
  <2>4. IsInjective(FlattenSeq(s))
    <3>1. \A i \in 1 .. Len(s) : IsInjective(s[i])
      BY <1>6, <2>1, <2>2
    <3>2. \A i, j \in 1 .. Len(s) : i # j => Range(s[i]) \cap Range(s[j]) = {}
      BY <2>1, <2>2, <2>3
    <3> QED
      BY <2>2, <3>1, <3>2, FlattenInjective
  <2>5. e \notin Range(FlattenSeq(s))
    <3> SUFFICES ASSUME NEW i \in 1 .. Len(kids[e]), e \in Range(F[kids[e][i]])
                 PROVE  FALSE
      BY <2>1, <2>2
    <3>1. kids[e][i] \in C /\ rank[kids[e][i]] < rank[e]
      BY <1>0
    <3>2. rank[e] <= rank[kids[e][i]]
      BY <1>4, <3>1
    <3>3. rank[e] \in Nat /\ rank[kids[e][i]] \in Nat
      BY <1>0, <3>1
    <3> QED
      BY <3>1, <3>2, <3>3
  <2>6. last \in Seq(D) /\ Range(last) = {e} /\ IsInjective(last)
    BY <1>0 DEF Range, IsInjective
  <2> HIDE DEF last
  <2>7. Range(FlattenSeq(s)) \cap Range(last) = {}
    BY <2>5, <2>6
  <2> DEFINE f == FlattenSeq(s)
  <2>8. f \in Seq(D) /\ IsInjective(f) /\ Range(f) \cap Range(last) = {} /\ F[e] = f \o last
    BY <2>2, <2>4, <2>7
  <2> HIDE DEF f
  <2>9. IsInjective(f \o last)
    BY <2>6, <2>8, ConcatInjective
  <2> QED
    BY <2>8, <2>9
<1>7. 0 \in S
  BY <1>0
<1>8. ASSUME NEW k \in Nat, k \in S
      PROVE  k + 1 \in S
  <2>1. ASSUME NEW e \in C, rank[e] < k + 1
        PROVE  IsInjective(F[e])
    <3>1. ASSUME NEW i \in 1 .. Len(kids[e])
          PROVE  IsInjective(F[kids[e][i]])
      <4>1. kids[e][i] \in C /\ rank[kids[e][i]] < k
        BY <1>0, <2>1
      <4> QED
        BY <1>8, <4>1
    <3> QED
      BY <1>6, <3>1
  <2> QED
    BY <2>1
<1>9. n + 1 \in S
  <2> HIDE DEF S
  <2> QED
    BY <1>0, <1>7, <1>8, SetInduction
<1>10. IsInjective(F[r])
  BY <1>0, <1>9
<1>11. F[r] \in Seq(C)
  <2>1. F[r] \in Seq(D) /\ Range(F[r]) \subseteq C
    BY <1>0, <1>3, <1>4
  <2>2. F[r] \in Seq(Range(F[r]))
    BY <2>1, SeqOfRange
  <2> QED
    BY <2>1, <2>2, SeqMonotonic
<1>12. F[r] # <<>> /\ F[r][Len(F[r])] = r
  <2> DEFINE s == [i \in 1 .. Len(kids[r]) |-> F[kids[r][i]]]
             f == FlattenSeq(s)
  <2>1. f \in Seq(D) /\ F[r] = f \o <<r>>
    BY <1>5
  <2> HIDE DEF f
  <2>2. r \in D
    BY <1>0
  <2> QED
    BY <2>1, <2>2
<1> QED
  BY <1>1, <1>10, <1>11, <1>12

(***************************************************************************)
(* Where a walk has what.                                                  *)
(***************************************************************************)
\* Every walk is one function's.
LEMMA PostOrderIs ==
  ASSUME NEW kids, NEW rank, NEW n, Ranked(kids, rank, n)
  PROVE  \E F : Walks(kids, F) /\ \A e \in DOMAIN kids : PostOrder(kids, e) = F[e]
<1> DEFINE F == CHOOSE F : Walks(kids, F)
<1>1. \A e \in DOMAIN kids : PostOrder(kids, e) = F[e]
  BY DEF PostOrder, Walks, Behind
<1>2. Walks(kids, F)
  BY WalkExists
<1> QED
  BY <1>1, <1>2

\* What a walk lists it lists with all that hangs below it.
LEMMA WalkHolds ==
  ASSUME NEW kids, NEW rank, NEW n, Ranked(kids, rank, n), NEW r \in DOMAIN kids
  PROVE  \A x \in Range(PostOrder(kids, r)) :
           x \in DOMAIN kids /\ Range(kids[x]) \subseteq Range(PostOrder(kids, r))
<1>1. PICK F : Walks(kids, F) /\ \A e \in DOMAIN kids : PostOrder(kids, e) = F[e]
  BY PostOrderIs
<1> QED
  BY <1>1, WalkClosed

\* at says where the walk of e has the walks of its children.
Placed(kids, F, e, at) ==
  /\ at \in [1 .. Len(kids[e]) -> Nat]
  /\ \A i \in 1 .. Len(kids[e]) :
       /\ Segment(F[kids[e][i]], F[e], at[i])
       /\ at[i] = IF i = 1 THEN 0 ELSE at[i - 1] + Len(F[kids[e][i - 1]])
  /\ \A i, j \in 1 .. Len(kids[e]) : i < j => at[i] + Len(F[kids[e][i]]) <= at[j]

\* An entity without children is all of its walk.
LEMMA LeafWalk ==
  ASSUME NEW kids, NEW rank, NEW n, Ranked(kids, rank, n), NEW F, Walks(kids, F),
         NEW e \in DOMAIN kids, Len(kids[e]) = 0
  PROVE  F[e] = <<e>>
<1>1. DOMAIN kids[e] = {}
  BY DEF Ranked
<1>2. [i \in DOMAIN kids[e] |-> F[kids[e][i]]] = <<>>
  BY <1>1
<1>3. F[e] = FlattenSeq(<<>>) \o <<e>>
  BY <1>2 DEF Walks, Behind
<1>4. FlattenSeq(<<>>) = <<>>
  BY DEF FlattenSeq
<1>5. <<e>> \in Seq({e})
  OBVIOUS
<1> QED
  BY <1>3, <1>4, <1>5, ConcatEmptySeq

\* An entity with one child comes behind its walk.
LEMMA OnlyChildWalk ==
  ASSUME NEW kids, NEW rank, NEW n, Ranked(kids, rank, n), NEW F, Walks(kids, F),
         NEW e \in DOMAIN kids, Len(kids[e]) = 1
  PROVE  F[e] = F[kids[e][1]] \o <<e>>
<1> DEFINE D == DOMAIN kids
           s == [i \in DOMAIN kids[e] |-> F[kids[e][i]]]
<1>1. DOMAIN kids[e] = 1 .. 1 /\ kids[e][1] \in D
  <2>1. kids[e] \in Seq(D)
    BY DEF Ranked
  <2> HIDE DEF D
  <2>2. DOMAIN kids[e] = 1 .. Len(kids[e]) /\ \A i \in 1 .. Len(kids[e]) : kids[e][i] \in D
    BY <2>1, LenProperties, ElementOfSeq
  <2> QED
    BY <2>2
<1>2. F[kids[e][1]] \in Seq(D)
  BY <1>1, WalkLists DEF Lists
<1>3. s = [i \in 1 .. 1 |-> F[kids[e][i]]]
  BY <1>1
<1>4. F[e] = FlattenSeq(s) \o <<e>>
  BY DEF Walks, Behind
<1> HIDE DEF D
<1>5. s \in Seq(Seq(D)) /\ Len(s) = 1 /\ s[1] = F[kids[e][1]]
  BY <1>2, <1>3
<1> HIDE DEF s
<1>6. PICK G : Steps(G, s, D)
  BY <1>5, FlattenSteps
<1>7. FlattenSeq(s) = s[1]
  BY <1>5, <1>6 DEF Steps
<1> QED
  BY <1>4, <1>5, <1>7

\* The walks of the children stand behind one another, and their parent at the end.
LEMMA WalkPlaces ==
  ASSUME NEW kids, NEW rank, NEW n, Ranked(kids, rank, n), NEW F, Walks(kids, F),
         NEW e \in DOMAIN kids
  PROVE  /\ F[e] \in Seq(DOMAIN kids) /\ Len(F[e]) \in Nat \ {0} /\ F[e][Len(F[e])] = e
         /\ \E at : Placed(kids, F, e, at)
<1> DEFINE D == DOMAIN kids
           m == Len(kids[e])
           s == [i \in 1 .. m |-> F[kids[e][i]]]
           f == FlattenSeq(s)
           last == <<e>>
<1>0. m \in Nat /\ DOMAIN kids[e] = 1 .. m /\ \A i \in 1 .. m : kids[e][i] \in D
  BY LenProperties, ElementOfSeq DEF Ranked
<1>1. \A x \in D : F[x] \in Seq(D)
  BY WalkLists DEF Lists
<1>2. s \in Seq(Seq(D)) /\ Len(s) = m /\ \A i \in 1 .. m : s[i] = F[kids[e][i]]
  BY <1>0, <1>1
<1>3. F[e] = f \o last
  BY <1>0 DEF Walks, Behind
<1>4. PICK at : Laid(s, at)
  BY <1>2, FlattenSegments
<1>5. f \in Seq(D)
  BY <1>2, FlattenSeqIs
<1>6. last \in Seq(D) /\ Len(last) = 1 /\ last[1] = e
  OBVIOUS
<1> HIDE DEF s, m, last
<1>7. /\ at \in [1 .. m -> Nat]
      /\ \A i \in 1 .. m : /\ Segment(s[i], f, at[i])
                           /\ at[i] = IF i = 1 THEN 0 ELSE at[i - 1] + Len(s[i - 1])
      /\ \A i, j \in 1 .. m : i < j => at[i] + Len(s[i]) <= at[j]
  BY <1>2, <1>4 DEF Laid
<1> HIDE DEF f
<1>8. Segment(f, F[e], 0) /\ Segment(last, F[e], Len(f)) /\ Len(F[e]) = Len(f) + 1 /\ Len(f) \in Nat
  <2>1. Len(f \o last) = Len(f) + Len(last) /\ Len(f) \in Nat
    BY <1>5, <1>6, ConcatProperties, LenProperties
  <2> QED
    BY <1>3, <1>5, <1>6, <2>1, ConcatSegments
<1>9. Len(F[e]) \in Nat \ {0} /\ F[e][Len(F[e])] = e
  <2>1. F[e][Len(f) + 1] = last[1]
    BY <1>6, <1>8 DEF Segment
  <2> QED
    BY <1>6, <1>8, <2>1
<1>10. ASSUME NEW i \in 1 .. m
       PROVE  Segment(F[kids[e][i]], F[e], at[i])
  <2> DEFINE v == s[i]
             b == at[i]
             w == F[e]
  <2>1. v \in Seq(D) /\ w \in Seq(D) /\ b \in Nat /\ Segment(v, f, b) /\ Segment(f, w, 0)
    BY <1>0, <1>1, <1>2, <1>7, <1>8
  <2> HIDE DEF v, b, w
  <2>2. Segment(v, w, 0 + b)
    BY <1>5, <2>1, SegmentWithin
  <2>3. Segment(v, w, b)
    BY <2>1, <2>2
  <2> QED
    BY <1>2, <2>3 DEF v, b, w
<1>11. ASSUME NEW i \in 1 .. m
       PROVE  at[i] = IF i = 1 THEN 0 ELSE at[i - 1] + Len(F[kids[e][i - 1]])
  <2>1. i # 1 => i - 1 \in 1 .. m
    BY <1>0
  <2> QED
    BY <1>2, <1>7, <2>1
<1>12. \A i, j \in 1 .. m : i < j => at[i] + Len(F[kids[e][i]]) <= at[j]
  BY <1>2, <1>7
<1>13. Placed(kids, F, e, at)
  BY <1>7, <1>10, <1>11, <1>12 DEF Placed, m
<1> QED
  BY <1>1, <1>9, <1>13

\* Whatever a walk comes to, the walk of that is a segment of it.
LEMMA WalkWithin ==
  ASSUME NEW kids, NEW rank, NEW n, Ranked(kids, rank, n), NEW F, Walks(kids, F)
  PROVE  \A e \in DOMAIN kids : \A x \in Range(F[e]) : \E a : Segment(F[x], F[e], a)
<1> DEFINE D == DOMAIN kids
           Good(e) == \A x \in Range(F[e]) : \E a : Segment(F[x], F[e], a)
           S == { k \in Nat : \A e \in D : rank[e] < k => Good(e) }
<1>0. /\ n \in Nat
      /\ \A e \in D : rank[e] \in Nat /\ rank[e] < n + 1
      /\ \A e \in D : \A i \in 1 .. Len(kids[e]) : kids[e][i] \in D /\ rank[kids[e][i]] < rank[e]
  BY DEF Ranked
<1>1. \A e \in D : /\ F[e] \in Seq(D)
                   /\ Range(F[e]) = {e} \cup UNION { Range(F[kids[e][i]]) : i \in 1 .. Len(kids[e]) }
                   /\ Range(F[e]) \subseteq D
  <2> SUFFICES ASSUME NEW e \in D
               PROVE  /\ F[e] \in Seq(D)
                      /\ Range(F[e]) = {e} \cup UNION { Range(F[kids[e][i]]) : i \in 1 .. Len(kids[e]) }
                      /\ Range(F[e]) \subseteq D
    OBVIOUS
  <2>1. Lists(kids, F, e)
    BY WalkLists
  <2> QED
    BY <2>1, RangeOfSeq DEF Lists
<1>2. 0 \in S
  BY <1>0
<1>3. ASSUME NEW k \in Nat, k \in S
      PROVE  k + 1 \in S
  <2>1. ASSUME NEW e \in D, rank[e] < k + 1, NEW x \in Range(F[e])
        PROVE  \E a : Segment(F[x], F[e], a)
    <3>1. CASE x = e
      <4>1. Len(F[e]) \in Nat
        BY <1>1, LenProperties
      <4>2. Segment(F[e], F[e], 0)
        BY <4>1 DEF Segment
      <4> QED
        BY <3>1, <4>2
    <3>2. CASE x # e
      <4>0. x \in UNION { Range(F[kids[e][i]]) : i \in 1 .. Len(kids[e]) }
        <5>1. Range(F[e]) = {e} \cup UNION { Range(F[kids[e][i]]) : i \in 1 .. Len(kids[e]) }
          BY <1>1
        <5> QED
          BY <2>1, <3>2, <5>1
      <4>1. PICK i \in 1 .. Len(kids[e]) : x \in Range(F[kids[e][i]])
        BY <4>0
      <4> DEFINE c == kids[e][i]
      <4>2. c \in D /\ rank[c] < k
        BY <1>0, <2>1
      <4>3. PICK a : Segment(F[x], F[c], a)
        BY <1>3, <4>1, <4>2
      <4>4. PICK at : Placed(kids, F, e, at)
        BY WalkPlaces
      <4>5. Segment(F[c], F[e], at[i])
        BY <4>4 DEF Placed
      <4>6. F[x] \in Seq(D) /\ F[c] \in Seq(D) /\ F[e] \in Seq(D)
        BY <1>1, <4>1, <4>2
      <4>7. Segment(F[x], F[e], at[i] + a)
        BY <4>3, <4>5, <4>6, SegmentWithin
      <4> QED
        BY <4>7
    <3> QED
      BY <3>1, <3>2
  <2> QED
    BY <2>1
<1>4. n + 1 \in S
  <2> HIDE DEF S
  <2> QED
    BY <1>0, <1>2, <1>3, SetInduction
<1> QED
  BY <1>0, <1>4

\* In a walk whatever stands below an entity stands in front of it, in one
\* piece, and in the order of its own walk.
THEOREM SubtreesTogether ==
  ASSUME NEW kids, NEW rank, NEW n, Ranked(kids, rank, n), NEW r \in DOMAIN kids,
         NEW x \in Range(PostOrder(kids, r))
  PROVE  /\ x \in DOMAIN kids
         /\ PostOrder(kids, x) \in Seq(DOMAIN kids) /\ Len(PostOrder(kids, x)) \in Nat \ {0}
         /\ PostOrder(kids, x)[Len(PostOrder(kids, x))] = x
         /\ \E a : Segment(PostOrder(kids, x), PostOrder(kids, r), a)
<1>1. PICK F : Walks(kids, F) /\ \A e \in DOMAIN kids : PostOrder(kids, e) = F[e]
  BY PostOrderIs
<1>2. F[r] \in Seq(DOMAIN kids)
  BY <1>1, WalkPlaces
<1>3. x \in DOMAIN kids /\ x \in Range(F[r])
  BY <1>1, <1>2, RangeOfSeq
<1>4. F[x] \in Seq(DOMAIN kids) /\ Len(F[x]) \in Nat \ {0} /\ F[x][Len(F[x])] = x
  BY <1>1, <1>3, WalkPlaces
<1>5. \E a : Segment(F[x], F[r], a)
  BY <1>1, <1>3, WalkWithin
<1> QED
  BY <1>1, <1>3, <1>4, <1>5

\* a stands in front of b.
Precedes(w, a, b) == \E i, j \in 1 .. Len(w) : i < j /\ w[i] = a /\ w[j] = b

\* A walk comes to the children of an entity in the order it lists them in.
THEOREM SiblingsInOrder ==
  ASSUME NEW kids, NEW rank, NEW n, Ranked(kids, rank, n), NEW r \in DOMAIN kids,
         NEW x \in Range(PostOrder(kids, r)),
         NEW i \in 1 .. Len(kids[x]), NEW j \in 1 .. Len(kids[x]), i < j
  PROVE  Precedes(PostOrder(kids, r), kids[x][i], kids[x][j])
<1> DEFINE D == DOMAIN kids
           y == kids[x][i]
           z == kids[x][j]
<1>1. PICK F : Walks(kids, F) /\ \A e \in D : PostOrder(kids, e) = F[e]
  BY PostOrderIs
<1>2. x \in D /\ \E a : Segment(F[x], F[r], a)
  BY <1>1, SubtreesTogether
<1>3. PICK a : Segment(F[x], F[r], a)
  BY <1>2
<1>4. y \in D /\ z \in D
  BY <1>2 DEF Ranked
<1>5. PICK at : Placed(kids, F, x, at)
  BY <1>1, <1>2, WalkPlaces
<1>6. /\ Segment(F[y], F[x], at[i]) /\ Segment(F[z], F[x], at[j])
      /\ at[i] \in Nat /\ at[j] \in Nat /\ at[i] + Len(F[y]) <= at[j]
  BY <1>5 DEF Placed
<1>7. /\ Len(F[y]) \in Nat \ {0} /\ F[y][Len(F[y])] = y
      /\ Len(F[z]) \in Nat \ {0} /\ F[z][Len(F[z])] = z
      /\ Len(F[x]) \in Nat /\ Len(F[r]) \in Nat
  <2>1. \A e \in D : Len(F[e]) \in Nat \ {0} /\ F[e][Len(F[e])] = e
    BY <1>1, WalkPlaces
  <2> QED
    BY <1>2, <1>4, <2>1
<1> HIDE DEF y, z
<1> DEFINE p == at[i] + Len(F[y])
           q == at[j] + Len(F[z])
<1>8. F[x][p] = y /\ F[x][q] = z
  <2>1. Len(F[y]) \in 1 .. Len(F[y]) /\ Len(F[z]) \in 1 .. Len(F[z])
    BY <1>7
  <2> QED
    BY <1>6, <1>7, <2>1 DEF Segment
<1>9. at[j] + Len(F[z]) <= Len(F[x]) /\ a \in Nat /\ a + Len(F[x]) <= Len(F[r])
  BY <1>3, <1>6 DEF Segment
<1>10. p \in 1 .. Len(F[x]) /\ q \in 1 .. Len(F[x]) /\ p < q
  <2> DEFINE ly == Len(F[y])
             lz == Len(F[z])
             lx == Len(F[x])
             ai == at[i]
             aj == at[j]
  <2>1. /\ ly \in Nat \ {0} /\ lz \in Nat \ {0} /\ lx \in Nat /\ ai \in Nat /\ aj \in Nat
        /\ ai + ly <= aj /\ aj + lz <= lx
    BY <1>6, <1>7, <1>9
  <2> HIDE DEF ly, lz, lx, ai, aj
  <2>2. ai + ly \in 1 .. lx /\ aj + lz \in 1 .. lx /\ ai + ly < aj + lz
    BY <2>1
  <2> QED
    BY <2>2 DEF ly, lz, lx, ai, aj
<1>11. F[r][a + p] = y /\ F[r][a + q] = z
  BY <1>3, <1>8, <1>10 DEF Segment
<1>12. a + p \in 1 .. Len(F[r]) /\ a + q \in 1 .. Len(F[r]) /\ a + p < a + q
  <2> DEFINE lr == Len(F[r])
             lx == Len(F[x])
  <2>1. /\ lr \in Nat /\ lx \in Nat /\ a \in Nat /\ a + lx <= lr
        /\ p \in 1 .. lx /\ q \in 1 .. lx /\ p < q
    BY <1>7, <1>9, <1>10
  <2> HIDE DEF p, q, lr, lx
  <2>2. a + p \in 1 .. lr /\ a + q \in 1 .. lr /\ a + p < a + q
    BY <2>1
  <2> QED
    BY <2>2 DEF lr
<1>13. Precedes(F[r], y, z)
  BY <1>11, <1>12 DEF Precedes
<1> QED
  BY <1>1, <1>13 DEF y, z

(***************************************************************************)
(* Renaming.                                                               *)
(***************************************************************************)
\* What is in w, by other names.
Renamed(w, m) == [i \in DOMAIN w |-> m[w[i]]]

LEMMA RenamedIs ==
  ASSUME NEW T, NEW w \in Seq(T), NEW U, NEW m, \A x \in Range(w) : m[x] \in U
  PROVE  /\ Renamed(w, m) \in Seq(U) /\ Len(Renamed(w, m)) = Len(w)
         /\ \A i \in 1 .. Len(w) : Renamed(w, m)[i] = m[w[i]]
<1> DEFINE n == Len(w)
           v == [i \in 1 .. n |-> m[w[i]]]
<1>1. n \in Nat /\ DOMAIN w = 1 .. n
  BY LenProperties
<1>2. Renamed(w, m) = v
  BY <1>1 DEF Renamed
<1> HIDE DEF n
<1>3. \A i \in 1 .. n : m[w[i]] \in U
  BY <1>1 DEF Range
<1>4. v \in Seq(U) /\ Len(v) = n /\ \A i \in 1 .. n : v[i] = m[w[i]]
  BY <1>1, <1>3
<1> QED
  BY <1>2, <1>4 DEF n

LEMMA ConcatRenamed ==
  ASSUME NEW T, NEW s \in Seq(T), NEW t \in Seq(T), NEW m
  PROVE  Renamed(s \o t, m) = Renamed(s, m) \o Renamed(t, m)
<1> DEFINE U == { m[x] : x \in T }
           u == s \o t
           s2 == Renamed(s, m)
           t2 == Renamed(t, m)
           k == Len(s)
           l == Len(t)
<1>0. \A w \in Seq(T) :
        /\ Renamed(w, m) \in Seq(U) /\ Len(Renamed(w, m)) = Len(w)
        /\ \A i \in 1 .. Len(w) : Renamed(w, m)[i] = m[w[i]]
  <2> SUFFICES ASSUME NEW w \in Seq(T)
               PROVE  /\ Renamed(w, m) \in Seq(U) /\ Len(Renamed(w, m)) = Len(w)
                      /\ \A i \in 1 .. Len(w) : Renamed(w, m)[i] = m[w[i]]
    OBVIOUS
  <2> DEFINE n == Len(w)
             z == [i \in 1 .. n |-> m[w[i]]]
  <2>1. n \in Nat /\ DOMAIN w = 1 .. n /\ \A i \in 1 .. n : w[i] \in T
    BY LenProperties, ElementOfSeq
  <2>2. Renamed(w, m) = z
    BY <2>1 DEF Renamed
  <2> HIDE DEF n
  <2>3. \A i \in 1 .. n : m[w[i]] \in U
    BY <2>1
  <2> HIDE DEF U
  <2>4. z \in Seq(U) /\ Len(z) = n /\ \A i \in 1 .. n : z[i] = m[w[i]]
    BY <2>1, <2>3
  <2> QED
    BY <2>2, <2>4 DEF n
<1>1. /\ u \in Seq(T) /\ Len(u) = k + l /\ k \in Nat /\ l \in Nat
      /\ \A i \in 1 .. k + l : u[i] = IF i <= k THEN s[i] ELSE t[i - k]
  BY ConcatProperties, LenProperties
<1> HIDE DEF U
<1>2. /\ s2 \in Seq(U) /\ Len(s2) = k /\ \A i \in 1 .. k : s2[i] = m[s[i]]
  BY <1>0
<1>3. /\ t2 \in Seq(U) /\ Len(t2) = l /\ \A i \in 1 .. l : t2[i] = m[t[i]]
  BY <1>0
<1> HIDE DEF s2, t2, k, l
<1> DEFINE v == s2 \o t2
<1>4. /\ v \in Seq(U) /\ Len(v) = k + l
      /\ \A i \in 1 .. k + l : v[i] = IF i <= k THEN s2[i] ELSE t2[i - k]
  <2>1. /\ v \in Seq(U) /\ Len(v) = Len(s2) + Len(t2)
        /\ \A i \in 1 .. Len(s2) + Len(t2) :
             v[i] = IF i <= Len(s2) THEN s2[i] ELSE t2[i - Len(s2)]
    BY <1>2, <1>3, ConcatProperties
  <2> HIDE DEF v
  <2>2. Len(s2) = k /\ Len(t2) = l
    BY <1>2, <1>3
  <2> QED
    BY <2>1, <2>2
<1>5. Renamed(u, m) = [i \in 1 .. k + l |-> m[u[i]]]
  <2>1. DOMAIN u = 1 .. k + l
    BY <1>1
  <2> HIDE DEF u
  <2> QED
    BY <2>1 DEF Renamed
<1> HIDE DEF u, v
<1>6. ASSUME NEW i \in 1 .. k + l
      PROVE  m[u[i]] = v[i]
  <2>1. CASE i <= k
    <3>1. i \in 1 .. k
      BY <1>1, <2>1
    <3> QED
      BY <1>1, <1>2, <1>4, <2>1, <3>1
  <2>2. CASE ~(i <= k)
    <3>1. i - k \in 1 .. l
      BY <1>1, <2>2
    <3> QED
      BY <1>1, <1>3, <1>4, <2>2, <3>1
  <2> QED
    BY <2>1, <2>2
<1>7. v = [i \in 1 .. k + l |-> v[i]]
  <2>1. DOMAIN v = 1 .. k + l
    BY <1>4
  <2> QED
    BY <1>4, <2>1
<1>8. Renamed(u, m) = v
  BY <1>5, <1>6, <1>7
<1> QED
  BY <1>8 DEF u, v, s2, t2

LEMMA FlattenRenamed ==
  ASSUME NEW T, NEW s \in Seq(Seq(T)), NEW U, NEW s2 \in Seq(Seq(U)), Len(s2) = Len(s), NEW m,
         \A i \in 1 .. Len(s) : s2[i] = Renamed(s[i], m),
         \A i \in 1 .. Len(s) : \A x \in Range(s[i]) : m[x] \in U
  PROVE  /\ FlattenSeq(s2) = Renamed(FlattenSeq(s), m)
         /\ \A x \in Range(FlattenSeq(s)) : m[x] \in U
<1> DEFINE n == Len(s)
<1>0. n \in Nat
  BY LenProperties
<1>1. CASE n = 0
  <2>1. s = <<>> /\ s2 = <<>>
    BY <1>1, EmptySeq
  <2>2. FlattenSeq(s) = <<>> /\ FlattenSeq(s2) = <<>>
    BY <2>1 DEF FlattenSeq
  <2>3. Renamed(<<>>, m) = <<>> /\ Range(<<>>) = {}
    BY DEF Renamed, Range
  <2> QED
    BY <2>2, <2>3
<1>2. CASE n # 0
  <2>1. PICK F : Steps(F, s, T)
    BY <1>2, FlattenSteps
  <2>2. PICK G : Steps(G, s2, U)
    BY <1>2, FlattenSteps
  <2>3. /\ FlattenSeq(s) = F[n]
        /\ \A i \in 1 .. n :
             /\ F[i] = IF i = 1 THEN s[i] ELSE F[i - 1] \o s[i]
             /\ F[i] \in Seq(T)
             /\ Range(F[i]) = UNION { Range(s[j]) : j \in 1 .. i }
    BY <2>1 DEF Steps
  <2>4. /\ FlattenSeq(s2) = G[n]
        /\ \A i \in 1 .. n : G[i] = IF i = 1 THEN s2[i] ELSE G[i - 1] \o s2[i]
    BY <2>2 DEF Steps
  <2>5. \A i \in 1 .. n : /\ s[i] \in Seq(T) /\ s2[i] = Renamed(s[i], m)
                          /\ \A x \in Range(s[i]) : m[x] \in U
    BY ElementOfSeq
  <2> HIDE DEF n
  <2>6. \A i \in 1 .. n : \A x \in Range(F[i]) : m[x] \in U
    <3> SUFFICES ASSUME NEW i \in 1 .. n, NEW x \in Range(F[i])
                 PROVE  m[x] \in U
      OBVIOUS
    <3>1. x \in UNION { Range(s[j]) : j \in 1 .. i }
      BY <2>3
    <3>2. PICK j \in 1 .. i : x \in Range(s[j])
      BY <3>1
    <3>3. j \in 1 .. n
      BY <1>0
    <3> QED
      BY <2>5, <3>2, <3>3
  <2> DEFINE R == { k \in Nat : k + 1 \in 1 .. n => G[k + 1] = Renamed(F[k + 1], m) }
  <2>7. 0 \in R
    <3>1. 0 + 1 = 1 /\ 1 \in 1 .. n
      BY <1>0, <1>2
    <3> QED
      BY <2>3, <2>4, <2>5, <3>1
  <2>8. ASSUME NEW k \in Nat, k \in R
        PROVE  k + 1 \in R
    <3> SUFFICES ASSUME k + 2 \in 1 .. n
                 PROVE  G[k + 2] = Renamed(F[k + 2], m)
      <4>1. (k + 1) + 1 = k + 2 /\ k + 1 \in Nat
        OBVIOUS
      <4> QED
        BY <4>1
    <3>1. k + 1 \in 1 .. n /\ k + 2 # 1 /\ (k + 2) - 1 = k + 1
      BY <1>0
    <3> DEFINE f == F[k + 1]
               t == s[k + 2]
    <3>2. /\ F[k + 2] = f \o t /\ G[k + 2] = G[k + 1] \o s2[k + 2]
      BY <2>3, <2>4, <3>1
    <3>3. G[k + 1] = Renamed(f, m) /\ s2[k + 2] = Renamed(t, m)
      BY <2>5, <2>8, <3>1
    <3>4. f \in Seq(T) /\ t \in Seq(T) /\ \A x \in Range(f) \cup Range(t) : m[x] \in U
      BY <2>3, <2>5, <2>6, <3>1
    <3> HIDE DEF f, t
    <3>5. Renamed(f \o t, m) = Renamed(f, m) \o Renamed(t, m)
      BY <3>4, ConcatRenamed
    <3> QED
      BY <3>2, <3>3, <3>5
  <2>9. n - 1 \in R
    <3> HIDE DEF R
    <3>1. n - 1 \in Nat
      BY <1>0, <1>2
    <3> QED
      BY <2>7, <2>8, <3>1, SetInduction
  <2>10. (n - 1) + 1 = n /\ n \in 1 .. n
    BY <1>0, <1>2
  <2>11. G[n] = Renamed(F[n], m)
    BY <2>9, <2>10
  <2> QED
    BY <2>3, <2>4, <2>6, <2>10, <2>11
<1> QED
  BY <1>1, <1>2

\* A tree by other names is walked in the same order.
THEOREM RenamedWalk ==
  ASSUME NEW kids, NEW rank, NEW n, Ranked(kids, rank, n),
         NEW kids2, NEW rank2, NEW n2, Ranked(kids2, rank2, n2),
         NEW C, C \subseteq DOMAIN kids, \A e \in C : Range(kids[e]) \subseteq C,
         NEW m, \A e \in C : m[e] \in DOMAIN kids2 /\ kids2[m[e]] = Renamed(kids[e], m),
         NEW r \in C
  PROVE  PostOrder(kids2, m[r]) = Renamed(PostOrder(kids, r), m)
<1> DEFINE D == DOMAIN kids
           U == DOMAIN kids2
<1>1. PICK F : Walks(kids, F) /\ \A e \in D : PostOrder(kids, e) = F[e]
  BY PostOrderIs
<1>2. PICK G : Walks(kids2, G) /\ \A e \in U : PostOrder(kids2, e) = G[e]
  BY PostOrderIs
<1> DEFINE Good(e) == G[m[e]] = Renamed(F[e], m) /\ \A x \in Range(F[e]) : m[x] \in U
           S == { k \in Nat : \A e \in C : rank[e] < k => Good(e) }
<1>0. /\ n \in Nat /\ \A e \in D : rank[e] \in Nat /\ rank[e] < n + 1
      /\ \A e \in D : kids[e] \in Seq(D)
      /\ \A e \in U : kids2[e] \in Seq(U)
      /\ \A e \in D : \A i \in 1 .. Len(kids[e]) : kids[e][i] \in D /\ rank[kids[e][i]] < rank[e]
  BY DEF Ranked
<1>3. \A e \in D : F[e] \in Seq(D)
  BY <1>1, WalkLists DEF Lists
<1>4. \A e \in U : G[e] \in Seq(U)
  BY <1>2, WalkLists DEF Lists
<1>5. 0 \in S
  BY <1>0
<1>6. ASSUME NEW k \in Nat, k \in S
      PROVE  k + 1 \in S
  <2>1. ASSUME NEW e \in C, rank[e] < k + 1
        PROVE  Good(e)
    <3> DEFINE l == Len(kids[e])
               s == [i \in 1 .. l |-> F[kids[e][i]]]
               s2 == [i \in 1 .. l |-> G[kids2[m[e]][i]]]
    <3>1. /\ l \in Nat /\ DOMAIN kids[e] = 1 .. l /\ e \in D
          /\ \A i \in 1 .. l : kids[e][i] \in C /\ kids[e][i] \in D /\ rank[kids[e][i]] < k
      <4>1. e \in D /\ kids[e] \in Seq(D) /\ Range(kids[e]) \subseteq C
        BY <1>0
      <4>2. l \in Nat /\ DOMAIN kids[e] = 1 .. l
        BY <4>1, LenProperties
      <4>3. \A i \in 1 .. l : kids[e][i] \in C
        BY <4>1, <4>2 DEF Range
      <4>4. \A i \in 1 .. l : rank[kids[e][i]] < k
        <5> SUFFICES ASSUME NEW i \in 1 .. l
                     PROVE  rank[kids[e][i]] < k
          OBVIOUS
        <5>1. rank[kids[e][i]] < rank[e] /\ rank[kids[e][i]] \in Nat /\ rank[e] \in Nat
          BY <1>0, <4>1, <4>3
        <5> QED
          BY <2>1, <5>1
      <4> QED
        BY <4>1, <4>2, <4>3, <4>4
    <3>2. /\ m[e] \in U /\ Len(kids2[m[e]]) = l /\ DOMAIN kids2[m[e]] = 1 .. l
          /\ \A i \in 1 .. l : kids2[m[e]][i] = m[kids[e][i]] /\ m[kids[e][i]] \in U
      <4>1. m[e] \in U /\ kids2[m[e]] = Renamed(kids[e], m)
        OBVIOUS
      <4>2. \A x \in Range(kids[e]) : m[x] \in U
        OBVIOUS
      <4>3. kids[e] \in Seq(D)
        BY <1>0
      <4>4. /\ Renamed(kids[e], m) \in Seq(U) /\ Len(Renamed(kids[e], m)) = l
            /\ \A i \in 1 .. l : Renamed(kids[e], m)[i] = m[kids[e][i]]
        BY <4>2, <4>3, RenamedIs
      <4>5. DOMAIN kids2[m[e]] = 1 .. l
        BY <4>1, <4>4
      <4> QED
        BY <3>1, <4>1, <4>4, <4>5
    <3>3. F[e] = FlattenSeq(s) \o <<e>>
      BY <1>1, <3>1 DEF Walks, Behind
    <3>4. G[m[e]] = FlattenSeq(s2) \o <<m[e]>>
      <4> DEFINE a == m[e]
      <4>1. a \in U /\ DOMAIN kids2[a] = 1 .. l
        BY <3>2
      <4> HIDE DEF a
      <4>2. G[a] = FlattenSeq([i \in 1 .. l |-> G[kids2[a][i]]]) \o <<a>>
        BY <1>2, <4>1 DEF Walks, Behind
      <4> QED
        BY <4>2 DEF a
    <3> HIDE DEF l
    <3>5. /\ s \in Seq(Seq(D)) /\ Len(s) = l /\ \A i \in 1 .. l : s[i] = F[kids[e][i]]
      BY <1>3, <3>1
    <3>6. /\ s2 \in Seq(Seq(U)) /\ Len(s2) = l /\ \A i \in 1 .. l : s2[i] = G[m[kids[e][i]]]
      BY <1>4, <3>1, <3>2
    <3> HIDE DEF s, s2
    <3>7. \A i \in 1 .. l : s2[i] = Renamed(s[i], m) /\ \A x \in Range(s[i]) : m[x] \in U
      <4> SUFFICES ASSUME NEW i \in 1 .. l
                   PROVE  s2[i] = Renamed(s[i], m) /\ \A x \in Range(s[i]) : m[x] \in U
        OBVIOUS
      <4> DEFINE y == kids[e][i]
      <4>1. y \in C /\ rank[y] < k
        BY <3>1
      <4>2. s[i] = F[y] /\ s2[i] = G[m[y]]
        BY <3>5, <3>6
      <4> HIDE DEF y
      <4>3. Good(y)
        BY <1>6, <4>1
      <4> QED
        BY <4>2, <4>3
    <3> DEFINE f == FlattenSeq(s)
               g == FlattenSeq(s2)
    <3>8. g = Renamed(f, m) /\ \A x \in Range(f) : m[x] \in U
      <4>1. /\ s \in Seq(Seq(D)) /\ s2 \in Seq(Seq(U)) /\ Len(s2) = Len(s)
            /\ \A i \in 1 .. Len(s) : s2[i] = Renamed(s[i], m)
            /\ \A i \in 1 .. Len(s) : \A x \in Range(s[i]) : m[x] \in U
        BY <3>5, <3>6, <3>7
      <4> HIDE DEF D, U
      <4> QED
        BY <4>1, FlattenRenamed
    <3>9. f \in Seq(D)
      BY <3>5, FlattenSeqIs
    <3> HIDE DEF f, g
    <3>10. <<e>> \in Seq(D) /\ Range(<<e>>) = {e} /\ Renamed(<<e>>, m) = <<m[e]>>
      <4>1. <<e>> \in Seq(D) /\ Range(<<e>>) = {e}
        BY <3>1 DEF Range
      <4>2. DOMAIN <<e>> = 1 .. 1 /\ <<e>>[1] = e
        OBVIOUS
      <4>3. Renamed(<<e>>, m) = [i \in 1 .. 1 |-> m[<<e>>[i]]]
        BY <4>2 DEF Renamed
      <4>4. [i \in 1 .. 1 |-> m[<<e>>[i]]] = <<m[e]>>
        OBVIOUS
      <4> QED
        BY <4>1, <4>3, <4>4
    <3>11. \A x \in Range(f) \cup Range(<<e>>) : m[x] \in U
      BY <3>2, <3>8, <3>10
    <3> DEFINE last == <<e>>
    <3>12. last \in Seq(D) /\ \A x \in Range(f) \cup Range(last) : m[x] \in U
      BY <3>10, <3>11
    <3>13. F[e] = f \o last /\ G[m[e]] = Renamed(f, m) \o Renamed(last, m)
      BY <3>3, <3>4, <3>8, <3>10 DEF f, g
    <3> HIDE DEF last
    <3>14. Renamed(f \o last, m) = Renamed(f, m) \o Renamed(last, m)
      BY <3>9, <3>12, ConcatRenamed
    <3>15. Range(f \o last) = Range(f) \cup Range(last)
      BY <3>9, <3>12, RangeConcatenation
    <3> QED
      BY <3>12, <3>13, <3>14, <3>15
  <2> QED
    BY <2>1
<1>7. n + 1 \in S
  <2> HIDE DEF S
  <2> QED
    BY <1>0, <1>5, <1>6, SetInduction
<1>8. Good(r)
  BY <1>0, <1>7
<1> QED
  BY <1>1, <1>2, <1>8

(***************************************************************************)
(* Ancestors.                                                              *)
(***************************************************************************)
\* No chain of parents comes back: a parent has a lower height than its children.
Climbable(up, height, n) ==
  /\ n \in Nat /\ Len(up) \in Nat
  /\ \A x \in 1 .. Len(up) : /\ up[x] \in 0 .. Len(up) /\ height[x] \in 0 .. n
                             /\ up[x] # 0 => height[up[x]] < height[x]

\* What is reached from x, x included, when F is that of its parent.
Reached(up, F, x) == IF x = 0 THEN {} ELSE {x} \cup F[up[x]]

Climbs(up, F) == F = [x \in 0 .. Len(up) |-> Reached(up, F, x)]

\* The chain above every entity exists.
LEMMA ClimbExists ==
  ASSUME NEW up, NEW height, NEW n, Climbable(up, height, n)
  PROVE  \E F : Climbs(up, F)
<1> DEFINE D == 0 .. Len(up)
           Good(F, k) == \A x \in D : x = 0 \/ height[x] < k => F[x] = Reached(up, F, x)
           S == { k \in Nat : \E F : Good(F, k) }
<1>0. /\ n \in Nat
      /\ \A x \in D : x # 0 => /\ height[x] \in Nat /\ height[x] < n + 1 /\ up[x] \in D
                               /\ up[x] # 0 => height[up[x]] < height[x]
  BY DEF Climbable
<1>1. 0 \in S
  <2>1. \A x \in D : x # 0 => ~(height[x] < 0)
    BY <1>0
  <2>2. Good([x \in D |-> {}], 0)
    <3>1. 0 \in D /\ [x \in D |-> {}][0] = {}
      BY DEF Climbable
    <3> QED
      BY <2>1, <3>1 DEF Reached
  <2> QED
    BY <2>2
<1>2. ASSUME NEW k \in Nat, k \in S
      PROVE  k + 1 \in S
  <2>1. PICK F : Good(F, k)
    BY <1>2
  <2> DEFINE G == [x \in D |-> IF x = 0 \/ height[x] < k THEN F[x] ELSE Reached(up, F, x)]
  <2>2. ASSUME NEW x \in D, x = 0 \/ height[x] < k + 1
        PROVE  G[x] = Reached(up, G, x)
    <3>1. x # 0 => up[x] \in D /\ (up[x] = 0 \/ height[up[x]] < k)
      <4> SUFFICES ASSUME x # 0, up[x] # 0
                   PROVE  height[up[x]] < k
        BY <1>0
      <4>1. height[up[x]] \in Nat /\ height[x] \in Nat /\ height[up[x]] < height[x]
        BY <1>0
      <4> QED
        BY <2>2, <4>1
    <3>2. x # 0 => G[up[x]] = F[up[x]]
      BY <3>1
    <3>3. G[x] = Reached(up, F, x)
      <4> HIDE DEF D
      <4> QED
        BY <2>1, <2>2
    <3> HIDE DEF G
    <3> QED
      BY <3>2, <3>3 DEF Reached
  <2>3. Good(G, k + 1)
    <3> HIDE DEF G
    <3> QED
      BY <2>2
  <2> HIDE DEF Good, G
  <2> QED
    BY <2>3
<1>3. n + 1 \in S
  <2> HIDE DEF S
  <2> QED
    BY <1>0, <1>1, <1>2, SetInduction
<1>4. PICK F : Good(F, n + 1)
  BY <1>3
<1> DEFINE W == [x \in D |-> F[x]]
<1>5. \A x \in D : F[x] = Reached(up, F, x)
  BY <1>0, <1>4
<1>6. ASSUME NEW x \in D
      PROVE  W[x] = Reached(up, W, x)
  <2>1. x # 0 => W[up[x]] = F[up[x]]
    BY <1>0
  <2>2. W[x] = F[x]
    OBVIOUS
  <2> HIDE DEF W
  <2> QED
    BY <1>5, <2>1, <2>2 DEF Reached
<1>7. W = [x \in D |-> W[x]]
  OBVIOUS
<1>8. Climbs(up, W)
  <2> HIDE DEF W
  <2> QED
    BY <1>6, <1>7 DEF Climbs
<1> QED
  BY <1>8

\* The ancestors of an entity are its parent and the ancestors of that.
THEOREM AncestorsAre ==
  ASSUME NEW up, NEW height, NEW n, Climbable(up, height, n), NEW e \in 1 .. Len(up)
  PROVE  Ancestors(up, e) = IF up[e] = 0 THEN {} ELSE {up[e]} \cup Ancestors(up, up[e])
<1> DEFINE F == CHOOSE F : Climbs(up, F)
<1>1. \A x \in 0 .. Len(up) : Ancestors(up, x) = F[up[x]]
  BY DEF Ancestors, Climbs, Reached
<1>2. Climbs(up, F)
  BY ClimbExists
<1> HIDE DEF F
<1>3. \A x \in 0 .. Len(up) : F[x] = Reached(up, F, x)
  BY <1>2 DEF Climbs
<1>4. e \in 0 .. Len(up) /\ up[e] \in 0 .. Len(up)
  BY DEF Climbable
<1> QED
  BY <1>1, <1>3, <1>4 DEF Reached

(***************************************************************************)
(* Trees that have grown.                                                  *)
(***************************************************************************)
\* What stands in front in a segment, or in an earlier one, stands in front.
LEMMA SegmentPrecedes ==
  ASSUME NEW T, NEW u \in Seq(T), NEW w \in Seq(T), NEW a, Segment(u, w, a),
         NEW x, NEW y, Precedes(u, x, y)
  PROVE  Precedes(w, x, y)
<1>1. PICK i, j \in 1 .. Len(u) : i < j /\ u[i] = x /\ u[j] = y
  BY DEF Precedes
<1>2. /\ Len(u) \in Nat /\ Len(w) \in Nat /\ a \in Nat /\ a + Len(u) <= Len(w)
      /\ w[a + i] = x /\ w[a + j] = y
  BY <1>1, LenProperties DEF Segment
<1>3. a + i \in 1 .. Len(w) /\ a + j \in 1 .. Len(w) /\ a + i < a + j
  <2> DEFINE k == Len(u)
             l == Len(w)
  <2>1. k \in Nat /\ l \in Nat /\ i \in 1 .. k /\ j \in 1 .. k /\ i < j /\ a \in Nat /\ a + k <= l
    BY <1>1, <1>2
  <2> HIDE DEF k, l
  <2>2. a + i \in 1 .. l /\ a + j \in 1 .. l /\ a + i < a + j
    BY <2>1
  <2> QED
    BY <2>2 DEF l
<1> QED
  BY <1>2, <1>3 DEF Precedes

\* What stands in an earlier segment stands in front of what is in a later one.
LEMMA SegmentsPrecede ==
  ASSUME NEW T, NEW u \in Seq(T), NEW v \in Seq(T), NEW w \in Seq(T), NEW a, NEW b,
         Segment(u, w, a), Segment(v, w, b), a + Len(u) <= b,
         NEW x \in Range(u), NEW y \in Range(v)
  PROVE  Precedes(w, x, y)
<1>1. /\ Len(u) \in Nat /\ Len(v) \in Nat /\ Len(w) \in Nat
      /\ DOMAIN u = 1 .. Len(u) /\ DOMAIN v = 1 .. Len(v)
  BY LenProperties
<1>2. PICK i \in 1 .. Len(u), j \in 1 .. Len(v) : u[i] = x /\ v[j] = y
  BY <1>1 DEF Range
<1>3. /\ a \in Nat /\ b \in Nat /\ a + Len(u) <= Len(w) /\ b + Len(v) <= Len(w)
      /\ w[a + i] = x /\ w[b + j] = y
  BY <1>2 DEF Segment
<1>4. a + i \in 1 .. Len(w) /\ b + j \in 1 .. Len(w) /\ a + i < b + j
  <2> DEFINE k == Len(u)
             m == Len(v)
             l == Len(w)
  <2>1. /\ k \in Nat /\ l \in Nat /\ m \in Nat /\ i \in 1 .. k /\ j \in 1 .. m
        /\ a \in Nat /\ b \in Nat /\ a + k <= l /\ b + m <= l /\ a + k <= b
    BY <1>1, <1>3
  <2> HIDE DEF k, l, m
  <2>2. a + i \in 1 .. l /\ b + j \in 1 .. l /\ a + i < b + j
    BY <2>1
  <2> QED
    BY <2>2 DEF l
<1> QED
  BY <1>3, <1>4 DEF Precedes

\* What l has that k has not only stands between what k has.
ListsGrown(k, l, C) ==
  \A e \in C : /\ Range(k[e]) \subseteq Range(l[e])
               /\ \A i, j \in 1 .. Len(k[e]) : i < j => Precedes(l[e], k[e][i], k[e][j])

\* One step of the induction: the walk of an entity from those of its children.
LEMMA GrownWalk ==
  ASSUME NEW k, NEW rank, NEW n, Ranked(k, rank, n), NEW F, Walks(k, F),
         NEW up, NEW C, Owned(k, up, C),
         NEW l, NEW rank2, NEW n2, Ranked(l, rank2, n2), NEW G, Walks(l, G), C \subseteq DOMAIN l,
         ListsGrown(k, l, C), NEW e \in C, IsInjective(F[e]),
         \A c \in Range(k[e]) : /\ Range(F[c]) \subseteq Range(G[c])
                                /\ \A i, j \in 1 .. Len(F[c]) : i < j => Precedes(G[c], F[c][i], F[c][j])
  PROVE  /\ Range(F[e]) \subseteq Range(G[e])
         /\ \A i, j \in 1 .. Len(F[e]) : i < j => Precedes(G[e], F[e][i], F[e][j])
<1> DEFINE D == DOMAIN k
           E == DOMAIN l
<1>1. /\ C \subseteq D /\ k[e] \in Seq(D) /\ l[e] \in Seq(E) /\ Range(k[e]) \subseteq C
      /\ Range(k[e]) \subseteq Range(l[e])
  <2>1. C \subseteq D /\ k[e] \in Seq(D) /\ l[e] \in Seq(E)
    BY DEF Owned, Ranked
  <2>2. \A i \in 1 .. Len(k[e]) : k[e][i] \in C
    BY DEF Owned
  <2>3. DOMAIN k[e] = 1 .. Len(k[e])
    BY <2>1, LenProperties
  <2> QED
    BY <2>1, <2>2, <2>3 DEF ListsGrown, Range
<1>2. /\ \A x \in D : F[x] \in Seq(D) /\ Len(F[x]) \in Nat \ {0} /\ F[x][Len(F[x])] = x
      /\ \A x \in E : G[x] \in Seq(E) /\ Len(G[x]) \in Nat \ {0} /\ G[x][Len(G[x])] = x
  BY WalkPlaces
<1>3. PICK at : Placed(k, F, e, at)
  BY <1>1, WalkPlaces
<1>4. PICK at2 : Placed(l, G, e, at2)
  BY WalkPlaces
<1>5. /\ Range(F[e]) = {e} \cup UNION { Range(F[k[e][i]]) : i \in 1 .. Len(k[e]) }
      /\ Range(G[e]) = {e} \cup UNION { Range(G[l[e][i]]) : i \in 1 .. Len(l[e]) }
  <2>1. e \in D /\ e \in E
    BY <1>1
  <2>2. Lists(k, F, e)
    BY <2>1, WalkLists
  <2>3. Lists(l, G, e)
    BY <2>1, WalkLists
  <2> QED
    BY <2>2, <2>3 DEF Lists
<1>6. /\ DOMAIN k[e] = 1 .. Len(k[e]) /\ DOMAIN l[e] = 1 .. Len(l[e])
      /\ \A i \in 1 .. Len(k[e]) : k[e][i] \in D /\ k[e][i] \in C /\ k[e][i] \in Range(k[e])
      /\ \A i \in 1 .. Len(l[e]) : l[e][i] \in E /\ l[e][i] \in Range(l[e])
  <2>1. DOMAIN k[e] = 1 .. Len(k[e]) /\ DOMAIN l[e] = 1 .. Len(l[e])
    BY <1>1, LenProperties
  <2>2. \A i \in 1 .. Len(l[e]) : l[e][i] \in E
    BY <1>1, ElementOfSeq
  <2> QED
    BY <1>1, <2>1, <2>2 DEF Range
<1>7. Range(F[e]) \subseteq Range(G[e])
  <2> SUFFICES ASSUME NEW x \in Range(F[e]), x # e
               PROVE  x \in Range(G[e])
    BY <1>5
  <2>1. PICK i \in 1 .. Len(k[e]) : x \in Range(F[k[e][i]])
    BY <1>5
  <2>2. x \in Range(G[k[e][i]]) /\ k[e][i] \in Range(l[e])
    BY <1>1, <1>6, <2>1
  <2>3. PICK j \in 1 .. Len(l[e]) : l[e][j] = k[e][i]
    BY <1>6, <2>2 DEF Range
  <2> QED
    BY <1>5, <2>2, <2>3
<1>8. ASSUME NEW p \in 1 .. Len(F[e]), NEW q \in 1 .. Len(F[e]), p < q
      PROVE  Precedes(G[e], F[e][p], F[e][q])
  <2> DEFINE x == F[e][p]
             y == F[e][q]
             N == Len(F[e])
             M == Len(G[e])
  <2>1. /\ N \in Nat \ {0} /\ M \in Nat \ {0} /\ F[e] \in Seq(D) /\ G[e] \in Seq(E)
        /\ F[e][N] = e /\ G[e][M] = e
        /\ DOMAIN F[e] = 1 .. N /\ DOMAIN G[e] = 1 .. M
    BY <1>1, <1>2, LenProperties
  <2>2. \A i, j \in 1 .. N : F[e][i] = F[e][j] => i = j
    BY <2>1 DEF IsInjective
  <2>3. N \in 1 .. N /\ p # N /\ x # e /\ x # y
    <3>1. N \in 1 .. N /\ p # N
      BY <1>8, <2>1
    <3> QED
      BY <1>8, <2>1, <2>2, <3>1
  <2>4. x \in Range(F[e]) /\ y \in Range(F[e])
    BY <2>1 DEF Range
  <2>5. CASE y = e
    <3>1. x \in Range(G[e])
      BY <1>7, <2>4
    <3>2. PICK i \in 1 .. M : G[e][i] = x
      BY <2>1, <3>1 DEF Range
    <3>3. i # M /\ i < M /\ M \in 1 .. M
      BY <2>1, <2>3, <3>2
    <3> QED
      BY <2>1, <2>5, <3>2, <3>3 DEF Precedes
  <2>6. CASE y # e
    <3>1. PICK i \in 1 .. Len(k[e]) : x \in Range(F[k[e][i]])
      BY <1>5, <2>3, <2>4
    <3>2. PICK j \in 1 .. Len(k[e]) : y \in Range(F[k[e][j]])
      BY <1>5, <2>4, <2>6
    <3> DEFINE c == k[e][i]
               d == k[e][j]
    <3>3. /\ c \in D /\ d \in D /\ c \in C /\ d \in C /\ c \in Range(k[e]) /\ d \in Range(k[e])
          /\ c \in E /\ d \in E
      BY <1>6
    <3>4. /\ Segment(F[c], F[e], at[i]) /\ Segment(F[d], F[e], at[j])
          /\ at[i] \in Nat /\ at[j] \in Nat
          /\ j < i => at[j] + Len(F[d]) <= at[i]
      BY <1>3 DEF Placed
    <3>5. /\ F[c] \in Seq(D) /\ F[d] \in Seq(D) /\ G[c] \in Seq(E) /\ G[d] \in Seq(E)
          /\ DOMAIN F[c] = 1 .. Len(F[c]) /\ DOMAIN F[d] = 1 .. Len(F[d])
          /\ Len(F[c]) \in Nat /\ Len(F[d]) \in Nat
      BY <1>2, <3>3, LenProperties
    <3>6. PICK a \in 1 .. Len(F[c]) : F[c][a] = x
      BY <3>1, <3>5 DEF Range
    <3>7. PICK b \in 1 .. Len(F[d]) : F[d][b] = y
      BY <3>2, <3>5 DEF Range
    <3>8. p = at[i] + a /\ q = at[j] + b
      <4>1. /\ F[e][at[i] + a] = x /\ F[e][at[j] + b] = y
            /\ at[i] + Len(F[c]) <= N /\ at[j] + Len(F[d]) <= N
        BY <3>4, <3>6, <3>7 DEF Segment
      <4> DEFINE lc == Len(F[c])
                 ld == Len(F[d])
                 ai == at[i]
                 aj == at[j]
      <4>2. /\ lc \in Nat /\ ld \in Nat /\ ai \in Nat /\ aj \in Nat /\ a \in 1 .. lc /\ b \in 1 .. ld
            /\ ai + lc <= N /\ aj + ld <= N /\ N \in Nat
        BY <2>1, <3>4, <3>5, <4>1
      <4> HIDE DEF lc, ld, ai, aj, N
      <4>3. ai + a \in 1 .. N /\ aj + b \in 1 .. N
        BY <4>2
      <4> QED
        BY <2>2, <4>1, <4>3 DEF ai, aj, N
    <3> HIDE DEF c, d
    <3>9. CASE i = j
      <4>1. a < b /\ c = d
        BY <1>8, <3>4, <3>5, <3>8, <3>9 DEF c, d
      <4>2. Precedes(G[c], x, y)
        BY <3>3, <3>5, <3>6, <3>7, <4>1
      <4>3. c \in Range(G[e])
        <5>1. c \in Range(l[e])
          BY <1>1, <3>3
        <5>2. PICK f \in 1 .. Len(l[e]) : l[e][f] = c
          BY <1>6, <5>1 DEF Range
        <5>3. c \in Range(G[c])
          <6>1. DOMAIN G[c] = 1 .. Len(G[c]) /\ Len(G[c]) \in 1 .. Len(G[c])
            <7>1. G[c] \in Seq(E) /\ Len(G[c]) \in Nat \ {0}
              BY <1>2, <3>3
            <7>2. DOMAIN G[c] = 1 .. Len(G[c])
              BY <7>1, LenProperties
            <7> QED
              BY <7>1, <7>2
          <6>2. G[c][Len(G[c])] = c
            BY <1>2, <3>3
          <6> QED
            BY <6>1, <6>2 DEF Range
        <5> QED
          BY <1>5, <5>2, <5>3
      <4>4. PICK f : Segment(G[c], G[e], f)
        BY <4>3, WalkWithin
      <4> QED
        BY <2>1, <3>5, <4>2, <4>4, SegmentPrecedes
    <3>10. CASE i # j
      <4>1. i < j
        <5>1. CASE j < i
          <6> DEFINE ld == Len(F[d])
                     ai == at[i]
                     aj == at[j]
          <6>1. /\ ld \in Nat /\ ai \in Nat /\ aj \in Nat /\ b \in 1 .. ld /\ a \in Nat /\ a > 0
                /\ aj + ld <= ai /\ p = ai + a /\ q = aj + b /\ p < q
            BY <1>8, <3>4, <3>5, <3>8, <5>1
          <6> HIDE DEF ld, ai, aj
          <6> QED
            BY <6>1
        <5> QED
          BY <3>10, <5>1
      <4>2. PICK f, g \in 1 .. Len(l[e]) : f < g /\ l[e][f] = c /\ l[e][g] = d
        BY <4>1 DEF ListsGrown, Precedes, c, d
      <4>3. /\ Segment(G[c], G[e], at2[f]) /\ Segment(G[d], G[e], at2[g])
            /\ at2[f] + Len(G[c]) <= at2[g]
        BY <1>4, <4>2 DEF Placed
      <4>4. x \in Range(G[c]) /\ y \in Range(G[d])
        BY <3>1, <3>2, <3>3 DEF c, d
      <4> HIDE DEF x, y
      <4> QED
        BY <2>1, <3>5, <4>3, <4>4, SegmentsPrecede DEF x, y
    <3> QED
      BY <3>9, <3>10
  <2> QED
    BY <2>5, <2>6
<1> QED
  BY <1>7, <1>8

\* A walk of a tree that has grown comes to what was there in the old order.
THEOREM GrownWalks ==
  ASSUME NEW k, NEW rank, NEW n, Ranked(k, rank, n), NEW up, NEW C, Owned(k, up, C),
         NEW l, NEW rank2, NEW n2, Ranked(l, rank2, n2), C \subseteq DOMAIN l,
         ListsGrown(k, l, C), NEW r \in C
  PROVE  /\ Range(PostOrder(k, r)) \subseteq Range(PostOrder(l, r))
         /\ \A i, j \in 1 .. Len(PostOrder(k, r)) :
              i < j => Precedes(PostOrder(l, r), PostOrder(k, r)[i], PostOrder(k, r)[j])
<1>1. PICK F : Walks(k, F) /\ \A e \in DOMAIN k : PostOrder(k, e) = F[e]
  BY PostOrderIs
<1>2. PICK G : Walks(l, G) /\ \A e \in DOMAIN l : PostOrder(l, e) = G[e]
  BY PostOrderIs
<1> DEFINE Good(e) == /\ Range(F[e]) \subseteq Range(G[e])
                      /\ \A i, j \in 1 .. Len(F[e]) : i < j => Precedes(G[e], F[e][i], F[e][j])
           S == { m \in Nat : \A e \in C : rank[e] < m => Good(e) }
<1>3. /\ n \in Nat /\ C \subseteq DOMAIN k
      /\ \A e \in C : rank[e] \in Nat /\ rank[e] < n + 1
      /\ \A e \in C : \A c \in Range(k[e]) : c \in C /\ rank[c] < rank[e]
  <2>1. /\ n \in Nat /\ C \subseteq DOMAIN k
        /\ \A e \in DOMAIN k : DOMAIN k[e] = 1 .. Len(k[e]) /\ rank[e] \in 0 .. n
        /\ \A e \in C : \A i \in 1 .. Len(k[e]) : k[e][i] \in C /\ rank[k[e][i]] < rank[e]
    <3>1. \A e \in DOMAIN k : k[e] \in Seq(DOMAIN k) /\ DOMAIN k[e] = 1 .. Len(k[e]) /\ rank[e] \in 0 .. n
      BY DEF Ranked
    <3>2. n \in Nat /\ C \subseteq DOMAIN k
      BY DEF Ranked, Owned
    <3>3. ASSUME NEW e \in C, NEW i \in 1 .. Len(k[e])
          PROVE  k[e][i] \in C /\ rank[k[e][i]] < rank[e]
      BY DEF Ranked, Owned
    <3> QED
      BY <3>1, <3>2, <3>3
  <2>2. \A e \in C : rank[e] \in Nat /\ rank[e] < n + 1
    BY <2>1
  <2>3. ASSUME NEW e \in C, NEW c \in Range(k[e])
        PROVE  c \in C /\ rank[c] < rank[e]
    <3>1. e \in DOMAIN k
      BY <2>1
    <3>2. PICK i \in 1 .. Len(k[e]) : k[e][i] = c
      BY <2>1, <3>1 DEF Range
    <3> QED
      BY <2>1, <3>2
  <2> QED
    BY <2>1, <2>2, <2>3
<1>4. \A e \in C : IsInjective(F[e])
  BY <1>1, <1>3, VisitsOnce
<1>5. 0 \in S
  BY <1>3
<1>6. ASSUME NEW m \in Nat, m \in S
      PROVE  m + 1 \in S
  <2>1. ASSUME NEW e \in C, rank[e] < m + 1
        PROVE  Good(e)
    <3>1. \A c \in Range(k[e]) : Good(c)
      <4>1. \A c \in Range(k[e]) : c \in C /\ rank[c] < m
        BY <1>3, <2>1
      <4> QED
        BY <1>6, <4>1
    <3> QED
      BY <1>1, <1>2, <1>4, <3>1, GrownWalk
  <2> HIDE DEF Good
  <2> QED
    BY <2>1
<1>7. n + 1 \in S
  <2> HIDE DEF S
  <2> QED
    BY <1>3, <1>5, <1>6, SetInduction
<1>8. Good(r)
  BY <1>3, <1>7
<1> QED
  BY <1>1, <1>2, <1>3, <1>8
=============================================================================
