-------------------------- MODULE CanonicalizeProofs --------------------------
(***************************************************************************)
(* Proofs about Canonicalize: a module keeps its tree through every edit   *)
(* and every sort; a sort renumbers it in post-order and changes nothing   *)
(* else; and what one sort has put in place the later ones leave there.    *)
(***************************************************************************)
EXTENDS Canonicalize, TreeProofs

(***************************************************************************)
(* The inductive invariant.                                                *)
(***************************************************************************)
Node == [tag : Nat, up : Nat, blk : BOOLEAN, kids : Seq(Nat), fn : BOOLEAN,
         param : Nat, ref : Nat]

\* An entity is listed by its parent once; only a block that is left behind
\* without a parent may list another's.  Tags are given in the order of
\* creation, so that whatever is in a block has a higher one than the block.
Structured(s, r) ==
  /\ s \in Seq(Node) /\ r \in 1 .. Len(s) /\ s[r].up = 0
  /\ \A e \in 1 .. Len(s) :
       /\ s[e].up \in 0 .. Len(s) /\ s[e].ref \in 0 .. Len(s) /\ s[e].tag \in 1 .. Len(s)
       /\ s[e].up # 0 => e \in Range(s[s[e].up].kids)
       /\ IsInjective(s[e].kids)
       /\ \A k \in Range(s[e].kids) :
            /\ k \in 1 .. Len(s) /\ s[k].tag > s[e].tag
            /\ s[k].up # 0 /\ (s[k].up = e \/ (s[e].up = 0 /\ e # r))
       /\ \A k, l \in Range(s[e].kids) :
            s[k].param > 0 /\ s[k].param = s[l].param => k = l
  /\ \A t \in 1 .. Len(s) : \E e \in 1 .. Len(s) : s[e].tag = t
  /\ \A e, x \in 1 .. Len(s) : s[e].tag = s[x].tag => e = x

Invariant == Structured(store, root) /\ fresh = Len(store) /\ fresh >= 5

(***************************************************************************)
(* Ordering a set.                                                         *)
(***************************************************************************)
\* before lists what comes before each element of S in a strict total order.
Orders(S, before) ==
  /\ \A a \in S : before[a] \in SUBSET S /\ a \notin before[a]
  /\ \A a, b \in S : /\ a # b => a \in before[b] \/ b \in before[a]
                     /\ a \in before[b] => before[a] \subseteq before[b]

\* InOrder lists every element once, in the order.
LEMMA InOrderIs ==
  ASSUME NEW S, IsFiniteSet(S), NEW before, Orders(S, before)
  PROVE  /\ InOrder(S, before) \in Seq(S) /\ Len(InOrder(S, before)) = Cardinality(S)
         /\ Range(InOrder(S, before)) = S /\ IsInjective(InOrder(S, before))
         /\ \A i, j \in 1 .. Len(InOrder(S, before)) :
              i < j => InOrder(S, before)[i] \in before[InOrder(S, before)[j]]
<1> DEFINE n == Cardinality(S)
           at(a) == Cardinality(before[a])
           f == [a \in S |-> at(a) + 1]
           o == InOrder(S, before)
<1>0. n \in Nat
  BY FS_CardinalityType
<1>1. \A a \in S : IsFiniteSet(before[a]) /\ at(a) \in Nat /\ at(a) < n
  <2> SUFFICES ASSUME NEW a \in S
               PROVE  IsFiniteSet(before[a]) /\ at(a) \in Nat /\ at(a) < n
    OBVIOUS
  <2>1. before[a] \in SUBSET S /\ before[a] # S
    BY DEF Orders
  <2>2. IsFiniteSet(before[a]) /\ at(a) <= n /\ at(a) # n
    BY <2>1, FS_Subset
  <2>3. at(a) \in Nat
    BY <2>2, FS_CardinalityType
  <2> QED
    BY <1>0, <2>2, <2>3
<1>2. \A a, b \in S : a \in before[b] => at(a) < at(b)
  <2> SUFFICES ASSUME NEW a \in S, NEW b \in S, a \in before[b]
               PROVE  at(a) < at(b)
    OBVIOUS
  <2>1. before[a] \in SUBSET before[b] /\ before[a] # before[b]
    BY DEF Orders
  <2>2. IsFiniteSet(before[b])
    BY <1>1
  <2>3. at(a) <= at(b) /\ at(a) # at(b)
    BY <2>1, <2>2, FS_Subset
  <2> QED
    BY <1>1, <2>3
<1> HIDE DEF at
<1>3. f \in Injection(S, 1 .. n)
  <2>1. f \in [S -> 1 .. n]
    BY <1>0, <1>1
  <2>2. \A a, b \in S : f[a] = f[b] => a = b
    <3> SUFFICES ASSUME NEW a \in S, NEW b \in S, at(a) + 1 = at(b) + 1, a # b
                 PROVE  FALSE
      OBVIOUS
    <3>1. at(a) < at(b) \/ at(b) < at(a)
      BY <1>2 DEF Orders
    <3> QED
      BY <1>1, <3>1
  <2> HIDE DEF f
  <2> QED
    BY <2>1, <2>2, Fun_IsInj
<1>4. \A i \in 1 .. n : \E a \in S : at(a) = i - 1
  <2>1. IsFiniteSet(1 .. n) /\ Cardinality(1 .. n) = n
    BY <1>0, UpTo
  <2> HIDE DEF f
  <2>2. f \in Surjection(S, 1 .. n)
    BY <1>3, <2>1, FS_Injection
  <2>3. \A i \in 1 .. n : \E a \in S : f[a] = i
    BY <2>2, Fun_SurjectionProperties
  <2>4. \A a \in S : f[a] = at(a) + 1
    BY DEF f
  <2> SUFFICES ASSUME NEW i \in 1 .. n
               PROVE  \E a \in S : at(a) = i - 1
    OBVIOUS
  <2>5. PICK a \in S : i = at(a) + 1
    BY <2>3, <2>4
  <2> QED
    BY <1>1, <2>5
<1>5. /\ DOMAIN o = 1 .. n
      /\ \A i \in 1 .. n : o[i] \in S /\ at(o[i]) = i - 1
  <2>1. o = [i \in 1 .. n |-> CHOOSE a \in S : at(a) = i - 1]
    BY DEF InOrder, at
  <2> HIDE DEF o
  <2> QED
    BY <1>4, <2>1
<1>6. o \in Seq(S) /\ Len(o) = n
  <2>1. o = [i \in 1 .. n |-> o[i]]
    BY DEF InOrder
  <2> HIDE DEF o
  <2> QED
    BY <1>0, <1>5, <2>1
<1> HIDE DEF o, n
<1>7. \A i, j \in 1 .. n : o[i] = o[j] => i = j
  BY <1>0, <1>5
<1>8. IsInjective(o)
  BY <1>5, <1>7 DEF IsInjective
<1>9. \A a \in S : a = o[at(a) + 1] /\ at(a) + 1 \in 1 .. n
  <2> SUFFICES ASSUME NEW a \in S
               PROVE  a = o[at(a) + 1] /\ at(a) + 1 \in 1 .. n
    OBVIOUS
  <2> DEFINE i == at(a) + 1
  <2>1. i \in 1 .. n /\ at(a) = i - 1
    BY <1>0, <1>1
  <2> HIDE DEF i
  <2>2. o[i] \in S /\ at(o[i]) = at(a)
    BY <1>5, <2>1
  <2>3. o[i] = a
    <3> SUFFICES ASSUME o[i] # a
                 PROVE  FALSE
      OBVIOUS
    <3>1. at(o[i]) < at(a) \/ at(a) < at(o[i])
      BY <1>2, <2>2 DEF Orders
    <3> QED
      BY <1>1, <2>2, <3>1
  <2> QED
    BY <2>1, <2>3 DEF i
<1>10. Range(o) = S
  BY <1>5, <1>9 DEF Range
<1>11. \A i, j \in 1 .. n : i < j => o[i] \in before[o[j]]
  <2> SUFFICES ASSUME NEW i \in 1 .. n, NEW j \in 1 .. n, i < j
               PROVE  o[i] \in before[o[j]]
    OBVIOUS
  <2>1. o[i] # o[j] /\ ~(at(o[j]) < at(o[i]))
    BY <1>0, <1>5
  <2> QED
    BY <1>2, <1>5, <2>1 DEF Orders
<1> QED
  BY <1>6, <1>8, <1>10, <1>11 DEF o, n

\* What is in the order is listed as it is.
LEMMA InOrderStays ==
  ASSUME NEW S, NEW before, Orders(S, before), NEW l \in Seq(S), Range(l) = S, IsInjective(l),
         \A i, j \in 1 .. Len(l) : i < j => l[i] \in before[l[j]]
  PROVE  InOrder(S, before) = l
<1> DEFINE n == Len(l)
           at(a) == Cardinality(before[a])
<1>0. n \in Nat /\ DOMAIN l = 1 .. n /\ \A i \in 1 .. n : l[i] \in S
  BY LenProperties, ElementOfSeq
<1>1. \A a \in S : \E i \in 1 .. n : l[i] = a
  BY <1>0 DEF Range
<1>2. \A i, j \in 1 .. n : l[i] = l[j] => i = j
  BY <1>0 DEF IsInjective
<1>3. \A i, j \in 1 .. n : l[j] \in before[l[i]] <=> j < i
  <2> SUFFICES ASSUME NEW i \in 1 .. n, NEW j \in 1 .. n, l[j] \in before[l[i]], ~(j < i)
               PROVE  FALSE
    OBVIOUS
  <2>1. l[i] \notin before[l[i]] /\ l[i] \in S /\ l[j] \in S
    BY <1>0 DEF Orders
  <2>2. i # j
    BY <2>1
  <2>3. i < j
    BY <1>0, <2>2
  <2>4. l[i] \in before[l[j]]
    BY <2>3
  <2>5. before[l[j]] \subseteq before[l[i]]
    BY <2>1 DEF Orders
  <2> QED
    BY <2>1, <2>4, <2>5
<1> HIDE DEF n
<1>4. ASSUME NEW k \in 0 .. n, NEW T \in SUBSET S, \A i \in 1 .. n : l[i] \in T <=> i <= k
      PROVE  IsFiniteSet(T) /\ Cardinality(T) = k
  <2> DEFINE f == [i \in 1 .. k |-> l[i]]
  <2>1. k \in Nat /\ \A i \in 1 .. k : i \in 1 .. n /\ i <= k
    BY <1>0
  <2>2. f \in [1 .. k -> T] /\ \A i \in 1 .. k : f[i] = l[i]
    BY <1>4, <2>1
  <2>3. \A i, j \in 1 .. k : f[i] = f[j] => i = j
    BY <1>2, <2>1, <2>2
  <2>4. \A t \in T : \E i \in 1 .. k : f[i] = t
    <3> SUFFICES ASSUME NEW t \in T
                 PROVE  \E i \in 1 .. k : f[i] = t
      OBVIOUS
    <3>1. PICK i \in 1 .. n : l[i] = t
      BY <1>1
    <3>2. i <= k
      BY <1>4, <3>1
    <3>3. i \in 1 .. k
      BY <1>0, <2>1, <3>2
    <3> QED
      BY <2>2, <3>1, <3>3
  <2> HIDE DEF f
  <2>5. f \in Bijection(1 .. k, T)
    BY <2>2, <2>3, <2>4, Fun_IsInj, Fun_IsSurj DEF Bijection
  <2>6. ExistsBijection(1 .. k, T)
    BY <2>5 DEF ExistsBijection
  <2>7. IsFiniteSet(1 .. k) /\ Cardinality(1 .. k) = k
    BY <2>1, UpTo
  <2> QED
    BY <2>6, <2>7, FS_Bijection
<1>5. Cardinality(S) = n
  <2>1. n \in 0 .. n /\ \A i \in 1 .. n : l[i] \in S <=> i <= n
    BY <1>0
  <2> QED
    BY <1>4, <2>1
<1>6. ASSUME NEW i \in 1 .. n
      PROVE  at(l[i]) = i - 1
  <2>1. i - 1 \in 0 .. n /\ before[l[i]] \in SUBSET S
    BY <1>0 DEF Orders
  <2>2. \A j \in 1 .. n : l[j] \in before[l[i]] <=> j <= i - 1
    BY <1>0, <1>3
  <2> DEFINE k == i - 1
             T == before[l[i]]
  <2>3. k \in 0 .. n /\ T \in SUBSET S /\ \A j \in 1 .. n : l[j] \in T <=> j <= k
    BY <2>1, <2>2
  <2> HIDE DEF k, T
  <2>4. Cardinality(T) = k
    BY <1>4, <2>3
  <2> QED
    BY <2>4 DEF k, T
<1> HIDE DEF at
<1>7. ASSUME NEW i \in 1 .. n
      PROVE  (CHOOSE a \in S : at(a) = i - 1) = l[i]
  <2>1. l[i] \in S /\ at(l[i]) = i - 1
    BY <1>0, <1>6
  <2>2. ASSUME NEW a \in S, at(a) = i - 1
        PROVE  a = l[i]
    <3>1. PICK j \in 1 .. n : l[j] = a
      BY <1>1
    <3>2. j - 1 = i - 1
      BY <1>6, <2>2, <3>1
    <3>3. j = i
      BY <1>0, <3>2
    <3> QED
      BY <3>1, <3>3
  <2> QED
    BY <2>1, <2>2
<1>8. InOrder(S, before) = [i \in 1 .. n |-> CHOOSE a \in S : at(a) = i - 1]
  BY <1>5 DEF InOrder, at
<1>9. l = [i \in 1 .. n |-> l[i]]
  BY <1>0
<1> QED
  BY <1>7, <1>8, <1>9

(***************************************************************************)
(* The order a sort puts the entities in.                                  *)
(***************************************************************************)
\* What Structured says of one entity.
LEMMA NodeIs ==
  ASSUME NEW s, NEW r, Structured(s, r), NEW e \in 1 .. Len(s)
  PROVE  /\ Len(s) \in Nat /\ s[e] \in Node
         /\ s[e].kids \in Seq(Nat) /\ s[e].tag \in 1 .. Len(s) /\ s[e].param \in Nat
         /\ s[e].up \in 0 .. Len(s) /\ s[e].ref \in 0 .. Len(s)
         /\ s[e].fn \in BOOLEAN
         /\ IsInjective(s[e].kids) /\ Range(s[e].kids) \subseteq 1 .. Len(s)
         /\ IsFiniteSet(Range(s[e].kids))
<1>5. s \in Seq(Node)
  BY DEF Structured
<1>6. Len(s) \in Nat /\ s[e] \in Node
  BY <1>5
<1>7. s[e].kids \in Seq(Nat) /\ s[e].param \in Nat /\ s[e].fn \in BOOLEAN
  BY <1>6 DEF Node
<1>1. /\ Len(s) \in Nat /\ s[e] \in Node
      /\ s[e].kids \in Seq(Nat) /\ s[e].tag \in 1 .. Len(s) /\ s[e].param \in Nat
      /\ s[e].up \in 0 .. Len(s) /\ s[e].ref \in 0 .. Len(s)
      /\ s[e].fn \in BOOLEAN
      /\ IsInjective(s[e].kids)
  <2>1. /\ s[e].up \in 0 .. Len(s) /\ s[e].ref \in 0 .. Len(s) /\ s[e].tag \in 1 .. Len(s)
        /\ IsInjective(s[e].kids)
    BY DEF Structured
  <2> QED
    BY <1>6, <1>7, <2>1
<1>2. Range(s[e].kids) \subseteq 1 .. Len(s)
  BY DEF Structured
<1>3. IsFiniteSet(1 .. Len(s))
  BY <1>1, UpTo
<1>4. IsFiniteSet(Range(s[e].kids))
  BY <1>2, <1>3, FS_Subset
<1> QED
  BY <1>1, <1>2, <1>4

\* The comparison of sort.cpp is a strict total order on what a block lists.
LEMMA BodyBeforeOrders ==
  ASSUME NEW s, NEW r, Structured(s, r), NEW e \in 1 .. Len(s)
  PROVE  Orders(Range(s[e].kids),
                [a \in Range(s[e].kids) |-> { b \in Range(s[e].kids) : BodyBefore(s, b, a) }])
<1> DEFINE body == Range(s[e].kids)
<1>1. \A a \in body : a \in Nat /\ s[a].param \in Nat
  <2>1. \A a \in body : a \in 1 .. Len(s)
    BY NodeIs
  <2> QED
    BY <2>1, NodeIs
<1>2. \A a, b \in body : s[a].param > 0 /\ s[a].param = s[b].param => a = b
  BY DEF Structured
<1> HIDE DEF body
<1>3. \A a \in body : ~BodyBefore(s, a, a)
  BY <1>1 DEF BodyBefore
<1>4. \A a, b \in body : a # b => BodyBefore(s, a, b) \/ BodyBefore(s, b, a)
  BY <1>1, <1>2 DEF BodyBefore
<1>5. \A a, b, c \in body : BodyBefore(s, c, a) /\ BodyBefore(s, a, b) => BodyBefore(s, c, b)
  BY <1>1 DEF BodyBefore
<1> DEFINE before == [a \in body |-> { b \in body : BodyBefore(s, b, a) }]
<1>6. \A a, b \in body : b \in before[a] <=> BodyBefore(s, b, a)
  OBVIOUS
<1>7. \A a \in body : before[a] \in SUBSET body
  OBVIOUS
<1> HIDE DEF before
<1>8. Orders(body, before)
  <2>1. \A a \in body : a \notin before[a]
    BY <1>3, <1>6
  <2>2. \A a, b \in body : a # b => a \in before[b] \/ b \in before[a]
    BY <1>4, <1>6
  <2>3. \A a, b \in body : a \in before[b] => before[a] \subseteq before[b]
    BY <1>5, <1>6, <1>7
  <2> QED
    BY <1>7, <2>1, <2>2, <2>3 DEF Orders
<1> QED
  BY <1>8 DEF before, body

\* A body is put in another order, and nothing else.
LEMMA BodyOrderIs ==
  ASSUME NEW s, NEW r, Structured(s, r), NEW e \in 1 .. Len(s)
  PROVE  /\ BodyOrder(s, e) \in Seq(1 .. Len(s))
         /\ Range(BodyOrder(s, e)) = Range(s[e].kids) /\ IsInjective(BodyOrder(s, e))
         /\ ~s[e].fn => BodyOrder(s, e) = s[e].kids
<1> DEFINE body == Range(s[e].kids)
           before == [a \in body |-> { b \in body : BodyBefore(s, b, a) }]
<1>1. /\ s[e].kids \in Seq(Nat) /\ IsInjective(s[e].kids) /\ body \subseteq 1 .. Len(s)
      /\ IsFiniteSet(body)
  BY NodeIs
<1>2. CASE s[e].fn
  <2>1. Orders(body, before)
    BY BodyBeforeOrders
  <2>2. BodyOrder(s, e) = InOrder(body, before)
    BY <1>2 DEF BodyOrder
  <2> HIDE DEF body, before
  <2>3. /\ InOrder(body, before) \in Seq(body) /\ Range(InOrder(body, before)) = body
        /\ IsInjective(InOrder(body, before))
    BY <1>1, <2>1, InOrderIs
  <2>4. InOrder(body, before) \in Seq(1 .. Len(s))
    BY <1>1, <2>3, SeqMonotonic
  <2> QED
    BY <1>2, <2>2, <2>3, <2>4 DEF body
<1>3. CASE ~s[e].fn
  <2>1. BodyOrder(s, e) = s[e].kids
    BY <1>3 DEF BodyOrder
  <2>2. s[e].kids \in Seq(body)
    BY <1>1, SeqOfRange
  <2>3. s[e].kids \in Seq(1 .. Len(s))
    BY <1>1, <2>2, SeqMonotonic
  <2> QED
    BY <1>1, <2>1, <2>3
<1> QED
  BY <1>2, <1>3

\* The body of a function is in the order of the comparison.
LEMMA BodySorted ==
  ASSUME NEW s, NEW r, Structured(s, r), NEW e \in 1 .. Len(s), s[e].fn
  PROVE  \A i, j \in 1 .. Len(BodyOrder(s, e)) :
           i < j => BodyBefore(s, BodyOrder(s, e)[i], BodyOrder(s, e)[j])
<1> DEFINE body == Range(s[e].kids)
           before == [a \in body |-> { b \in body : BodyBefore(s, b, a) }]
           o == InOrder(body, before)
<1>1. Orders(body, before)
  BY BodyBeforeOrders
<1>2. IsFiniteSet(body)
  BY NodeIs
<1>3. BodyOrder(s, e) = o
  BY DEF BodyOrder
<1>4. \A a \in body : before[a] = { b \in body : BodyBefore(s, b, a) }
  OBVIOUS
<1> HIDE DEF before, body
<1>5. o \in Seq(body) /\ \A i, j \in 1 .. Len(o) : i < j => o[i] \in before[o[j]]
  BY <1>1, <1>2, InOrderIs
<1> HIDE DEF o
<1>6. \A j \in 1 .. Len(o) : o[j] \in body
  BY <1>5, ElementOfSeq
<1> QED
  BY <1>3, <1>4, <1>5, <1>6

\* A body that is in that order already is not moved.
LEMMA BodyStays ==
  ASSUME NEW s, NEW r, Structured(s, r), NEW e \in 1 .. Len(s),
         s[e].fn => \A i, j \in 1 .. Len(s[e].kids) :
                      i < j => BodyBefore(s, s[e].kids[i], s[e].kids[j])
  PROVE  BodyOrder(s, e) = s[e].kids
<1>1. CASE ~s[e].fn
  BY <1>1 DEF BodyOrder
<1>2. CASE s[e].fn
  <2> DEFINE l == s[e].kids
             body == Range(l)
             before == [a \in body |-> { b \in body : BodyBefore(s, b, a) }]
  <2>1. Orders(body, before)
    BY BodyBeforeOrders
  <2>2. l \in Seq(Nat) /\ IsInjective(l)
    BY NodeIs
  <2>3. BodyOrder(s, e) = InOrder(body, before)
    BY <1>2 DEF BodyOrder
  <2>4. \A i, j \in 1 .. Len(l) : i < j => BodyBefore(s, l[i], l[j])
    BY <1>2
  <2>5. \A a, b \in body : b \in before[a] <=> BodyBefore(s, b, a)
    OBVIOUS
  <2> HIDE DEF before, l
  <2>6. l \in Seq(body) /\ \A i \in 1 .. Len(l) : l[i] \in body
    BY <2>2, SeqOfRange, ElementOfSeq
  <2>7. \A i, j \in 1 .. Len(l) : i < j => l[i] \in before[l[j]]
    BY <2>4, <2>5, <2>6
  <2> DEFINE T == body
  <2>8. Range(l) = T
    OBVIOUS
  <2> HIDE DEF body
  <2>9. InOrder(body, before) = l
    BY <2>1, <2>2, <2>6, <2>7, <2>8, InOrderStays DEF body
  <2> QED
    BY <2>3, <2>9 DEF l
<1> QED
  BY <1>1, <1>2

\* What the walk of a sort goes by, and what hangs in a tree.
Bodies(s) == [e \in DOMAIN s |-> BodyOrder(s, e)]
Ages(s) == [e \in DOMAIN s |-> Len(s) - s[e].tag]
Ups(s) == [e \in DOMAIN s |-> s[e].up]
Attached(s, r) == { e \in DOMAIN s : s[e].up # 0 \/ e = r }

\* Tags rank the tree: what a block lists is younger.
LEMMA BodiesAre ==
  ASSUME NEW s, NEW r, Structured(s, r)
  PROVE  /\ DOMAIN Bodies(s) = 1 .. Len(s)
         /\ \A e \in 1 .. Len(s) : /\ Bodies(s)[e] = BodyOrder(s, e)
                                   /\ WalkOrder(s, e) = PostOrder(Bodies(s), e)
         /\ Ranked(Bodies(s), Ages(s), Len(s))
         /\ Owned(Bodies(s), Ups(s), Attached(s, r))
         /\ Attached(s, r) \subseteq 1 .. Len(s) /\ r \in Attached(s, r)
<1> DEFINE n == Len(s)
           kids == Bodies(s)
           rank == Ages(s)
           up == Ups(s)
           C == Attached(s, r)
<1>0. /\ n \in Nat /\ DOMAIN s = 1 .. n /\ r \in 1 .. n /\ s[r].up = 0
      /\ \A e \in 1 .. n : s[e].tag \in 1 .. n
  <2>1. s \in Seq(Node) /\ r \in 1 .. n /\ s[r].up = 0
    BY DEF Structured
  <2>2. \A e \in 1 .. n : s[e].tag \in 1 .. n
    BY NodeIs
  <2> QED
    BY <2>1, <2>2
<1>4. DOMAIN kids = 1 .. n /\ \A e \in 1 .. n : kids[e] = BodyOrder(s, e)
  BY <1>0 DEF Bodies
<1>1. \A e \in 1 .. n : /\ BodyOrder(s, e) \in Seq(1 .. n) /\ IsInjective(BodyOrder(s, e))
                        /\ Range(BodyOrder(s, e)) = Range(s[e].kids)
  BY BodyOrderIs
<1>2. \A e \in 1 .. n : \A k \in Range(s[e].kids) :
        /\ k \in 1 .. n /\ s[k].tag > s[e].tag /\ s[k].up # 0
        /\ s[k].up = e \/ (s[e].up = 0 /\ e # r)
  BY DEF Structured
<1>3. \A e \in 1 .. n : \A i \in 1 .. Len(kids[e]) : kids[e][i] \in Range(s[e].kids)
  <2> HIDE DEF kids
  <2> SUFFICES ASSUME NEW e \in 1 .. n, NEW i \in 1 .. Len(BodyOrder(s, e))
               PROVE  BodyOrder(s, e)[i] \in Range(BodyOrder(s, e))
    BY <1>1, <1>4
  <2>1. Range(BodyOrder(s, e)) = { BodyOrder(s, e)[j] : j \in 1 .. Len(BodyOrder(s, e)) }
    BY <1>1, RangeEquality
  <2> QED
    BY <2>1
<1>5. /\ \A e \in 1 .. n : rank[e] = n - s[e].tag
      /\ rank \in [1 .. n -> 0 .. n]
      /\ kids \in [1 .. n -> Seq(1 .. n)]
  BY <1>0, <1>1 DEF Ages, Bodies
<1>6. \A e \in 1 .. n : up[e] = s[e].up
  BY <1>0 DEF Ups
<1>7. C \subseteq 1 .. n /\ r \in C /\ \A e \in 1 .. n : e \in C <=> s[e].up # 0 \/ e = r
  BY <1>0 DEF Attached
<1>8. \A e \in 1 .. n : WalkOrder(s, e) = PostOrder(kids, e)
  BY DEF WalkOrder, Bodies
<1> HIDE DEF kids, rank, up, C, n
<1>9. Ranked(kids, rank, n)
  <2>1. \A e \in 1 .. n : \A i \in 1 .. Len(kids[e]) : rank[kids[e][i]] < rank[e]
    <3> SUFFICES ASSUME NEW e \in 1 .. n, NEW k \in Range(s[e].kids)
                 PROVE  rank[k] < rank[e]
      BY <1>3
    <3>1. k \in 1 .. n /\ s[k].tag > s[e].tag /\ s[k].tag \in 1 .. n /\ s[e].tag \in 1 .. n
      BY <1>0, <1>2
    <3> QED
      BY <1>0, <1>5, <3>1
  <2> QED
    BY <1>0, <1>4, <1>5, <2>1 DEF Ranked
<1>10. Owned(kids, up, C)
  <2>1. ASSUME NEW e \in C
        PROVE  /\ IsInjective(kids[e])
               /\ \A i \in 1 .. Len(kids[e]) : kids[e][i] \in C /\ up[kids[e][i]] = e
    <3>1. e \in 1 .. n /\ ~(s[e].up = 0 /\ e # r)
      BY <1>7
    <3>2. \A k \in Range(s[e].kids) : k \in C /\ up[k] = e
      BY <1>2, <1>6, <1>7, <3>1
    <3> QED
      BY <1>1, <1>3, <1>4, <3>1, <3>2
  <2> QED
    BY <1>4, <1>7, <2>1 DEF Owned
<1> QED
  BY <1>4, <1>7, <1>8, <1>9, <1>10 DEF kids, rank, up, C, n

\* The walk of a sort visits nothing twice and its root last.
LEMMA WalkOrderIs ==
  ASSUME NEW s, NEW r, Structured(s, r)
  PROVE  /\ WalkOrder(s, r) \in Seq(1 .. Len(s)) /\ IsInjective(WalkOrder(s, r))
         /\ WalkOrder(s, r) # <<>> /\ WalkOrder(s, r)[Len(WalkOrder(s, r))] = r
         /\ WalkOrder(s, r) \in Seq(Attached(s, r))
<1> DEFINE n == Len(s)
           kids == Bodies(s)
           C == Attached(s, r)
           w == PostOrder(kids, r)
<1>1. /\ Ranked(kids, Ages(s), n) /\ Owned(kids, Ups(s), C) /\ C \subseteq 1 .. n
      /\ r \in C /\ WalkOrder(s, r) = w
  BY BodiesAre
<1> HIDE DEF n, kids, C
<1>2. w \in Seq(C) /\ IsInjective(w) /\ w # <<>> /\ w[Len(w)] = r
  BY <1>1, VisitsOnce
<1> HIDE DEF w
<1>3. w \in Seq(1 .. n)
  BY <1>1, <1>2, SeqMonotonic
<1> QED
  BY <1>1, <1>2, <1>3 DEF n, C

\* order lists the ids up to n once each, and to says where.
Permutes(order, to, n) ==
  /\ n \in Nat /\ order \in Seq(1 .. n) /\ Len(order) = n
  /\ to \in [0 .. n -> 0 .. n] /\ to[0] = 0
  /\ \A e \in 1 .. n : to[e] \in 1 .. n /\ order[to[e]] = e
  /\ \A i \in 1 .. n : order[i] \in 1 .. n /\ to[order[i]] = i

\* Where a sort moves the entities of s to.
Moves(s, r) ==
  [e \in 0 .. Len(s) |-> IF e = 0 THEN 0
                         ELSE CHOOSE i \in DOMAIN SortOrder(s, r) : SortOrder(s, r)[i] = e]

\* A sequence that lists every id once is a permutation.
LEMMA ListPermutes ==
  ASSUME NEW n \in Nat, NEW order \in Seq(1 .. n), IsInjective(order), Range(order) = 1 .. n,
         NEW to, to = [e \in 0 .. n |-> IF e = 0 THEN 0 ELSE CHOOSE i \in DOMAIN order : order[i] = e]
  PROVE  Permutes(order, to, n)
<1> DEFINE l == Len(order)
<1>0. l \in Nat /\ DOMAIN order = 1 .. l /\ \A i \in 1 .. l : order[i] \in 1 .. n
  OBVIOUS
<1>1. \A e \in 1 .. n : \E i \in 1 .. l : order[i] = e
  BY <1>0 DEF Range
<1>2. l = n
  <2>1. order \in [1 .. l -> 1 .. n]
    BY <1>0
  <2> HIDE DEF l
  <2>2. order \in Bijection(1 .. l, 1 .. n)
    <3>1. order \in Injection(1 .. l, 1 .. n)
      BY <1>0, <2>1, Fun_IsInj DEF IsInjective
    <3>2. order \in Surjection(1 .. l, 1 .. n)
      BY <1>1, <2>1, Fun_IsSurj
    <3> QED
      BY <3>1, <3>2 DEF Bijection
  <2>3. ExistsBijection(1 .. l, 1 .. n)
    BY <2>2 DEF ExistsBijection
  <2>4. IsFiniteSet(1 .. l) /\ Cardinality(1 .. l) = l /\ Cardinality(1 .. n) = n
    BY <1>0, UpTo
  <2> QED
    BY <2>3, <2>4, FS_Bijection
<1>3. \A e \in 1 .. n : to[e] \in 1 .. n /\ order[to[e]] = e
  <2> SUFFICES ASSUME NEW e \in 1 .. n
               PROVE  to[e] \in 1 .. n /\ order[to[e]] = e
    OBVIOUS
  <2>1. to[e] = CHOOSE i \in 1 .. l : order[i] = e
    BY <1>0
  <2> HIDE DEF l
  <2> QED
    BY <1>1, <1>2, <2>1
<1>4. \A i \in 1 .. n : order[i] \in 1 .. n /\ to[order[i]] = i
  BY <1>0, <1>2, <1>3 DEF IsInjective
<1>5. to[0] = 0 /\ to \in [0 .. n -> 0 .. n]
  <2>1. DOMAIN to = 0 .. n /\ to[0] = 0 /\ to = [e \in 0 .. n |-> to[e]]
    OBVIOUS
  <2>2. \A e \in 0 .. n : e = 0 \/ e \in 1 .. n
    OBVIOUS
  <2>3. ASSUME NEW e \in 0 .. n
        PROVE  to[e] \in 0 .. n
    <3>1. CASE e = 0
      BY <2>1, <3>1
    <3>2. CASE e \in 1 .. n
      <4>1. to[e] \in 1 .. n
        BY <1>3, <3>2
      <4> QED
        BY <4>1
    <3> QED
      BY <2>2, <3>1, <3>2
  <2> DEFINE f == to
  <2>4. f = [e \in 0 .. n |-> f[e]] /\ \A e \in 0 .. n : f[e] \in 0 .. n
    BY <2>1, <2>3
  <2> HIDE DEF f
  <2>5. f \in [0 .. n -> 0 .. n]
    BY <2>4
  <2> QED
    BY <2>1, <2>5 DEF f
<1> QED
  BY <1>2, <1>3, <1>4, <1>5 DEF Permutes

\* The order of a sort lists every entity once, the root behind all it holds.
LEMMA SortOrderIs ==
  ASSUME NEW s, NEW r, Structured(s, r)
  PROVE  /\ Permutes(SortOrder(s, r), Moves(s, r), Len(s))
         /\ Len(WalkOrder(s, r)) = Moves(s, r)[r]
         /\ \A p \in 1 .. Len(WalkOrder(s, r)) : SortOrder(s, r)[p] = WalkOrder(s, r)[p]
<1> DEFINE n == Len(s)
           w == WalkOrder(s, r)
           rest == 1 .. n \ Range(w)
           before == [a \in rest |-> { b \in rest : b < a }]
           m == InOrder(rest, before)
<1>0. n \in Nat /\ r \in 1 .. n
  BY DEF Structured
<1>1. w \in Seq(1 .. n) /\ IsInjective(w) /\ w # <<>> /\ w[Len(w)] = r
  BY WalkOrderIs
<1>2. rest \in SUBSET (1 .. n) /\ IsFiniteSet(rest)
  BY <1>0, UpTo, FS_Subset
<1>3. SortOrder(s, r) = w \o m
  BY DEF SortOrder, Missing
<1> HIDE DEF w
<1>4. Orders(rest, before)
  <2>1. \A a \in rest : a \in Nat
    BY <1>0
  <2> HIDE DEF rest
  <2> QED
    BY <2>1 DEF Orders
<1> HIDE DEF before, n
<1>5. Range(w) \cap rest = {} /\ Range(w) \cup rest = 1 .. n
  <2>1. Range(w) \in SUBSET (1 .. n)
    BY <1>1, RangeOfSeq
  <2> QED
    BY <2>1
<1> HIDE DEF rest
<1>6. m \in Seq(rest) /\ Range(m) = rest /\ IsInjective(m)
  BY <1>2, <1>4, InOrderIs
<1> HIDE DEF m
<1>7. m \in Seq(1 .. n)
  BY <1>2, <1>6, SeqMonotonic
<1> DEFINE order == w \o m
<1>8. order \in Seq(1 .. n) /\ Range(order) = 1 .. n /\ IsInjective(order)
  <2>1. order \in Seq(1 .. n)
    BY <1>1, <1>7, ConcatProperties
  <2>5. Range(order) = Range(w) \cup Range(m)
    BY <1>1, <1>7, RangeConcatenation
  <2>2. Range(order) = 1 .. n
    BY <1>5, <1>6, <2>5
  <2>3. Range(w) \cap Range(m) = {}
    BY <1>5, <1>6
  <2>4. IsInjective(order)
    BY <1>1, <1>6, <1>7, <2>3, ConcatInjective
  <2> QED
    BY <2>1, <2>2, <2>4
<1> DEFINE to == Moves(s, r)
<1>9. to = [e \in 0 .. n |-> IF e = 0 THEN 0 ELSE CHOOSE i \in DOMAIN order : order[i] = e]
  BY <1>3 DEF Moves, n
<1>10. /\ Len(w) \in 1 .. Len(order) /\ order[Len(w)] = r
       /\ \A p \in 1 .. Len(w) : order[p] = w[p]
  <2>1. Len(w) \in Nat \ {0} /\ Len(m) \in Nat
    BY <1>1, <1>7
  <2>2. \A p \in 1 .. Len(w) + Len(m) : order[p] = IF p <= Len(w) THEN w[p] ELSE m[p - Len(w)]
    BY <1>1, <1>7, ConcatProperties
  <2> QED
    BY <1>1, <1>7, <2>1, <2>2, ConcatProperties
<1> HIDE DEF order, to
<1>11. Permutes(order, to, n)
  BY <1>0, <1>8, <1>9, ListPermutes
<1>12. Len(w) = to[r]
  BY <1>10, <1>11 DEF Permutes
<1> QED
  BY <1>3, <1>10, <1>11, <1>12 DEF order, to, w, n

(***************************************************************************)
(* What a sort makes of the module.                                        *)
(***************************************************************************)
\* s2 holds the entities of s where a permutation has moved them, with every
\* parent, reference and child rewritten; a function's body may be reordered.
Renumbered(s2, s, order, to) ==
  /\ Permutes(order, to, Len(s)) /\ s2 \in Seq(Node) /\ Len(s2) = Len(s)
  /\ \A e \in 1 .. Len(s) :
       /\ s2[to[e]].tag = s[e].tag /\ s2[to[e]].fn = s[e].fn /\ s2[to[e]].param = s[e].param
       /\ s2[to[e]].up = to[s[e].up] /\ s2[to[e]].ref = to[s[e].ref]
       /\ IsInjective(s2[to[e]].kids)
       /\ Range(s2[to[e]].kids) = { to[k] : k \in Range(s[e].kids) }
       /\ ~s[e].fn => s2[to[e]].kids = [j \in DOMAIN s[e].kids |-> to[s[e].kids[j]]]

\* Rewriting the ids in a sequence.
LEMMA RewrittenIs ==
  ASSUME NEW n, NEW order, NEW to, Permutes(order, to, n), NEW b \in Seq(1 .. n), IsInjective(b),
         NEW c, c = [j \in DOMAIN b |-> to[b[j]]]
  PROVE  /\ c \in Seq(Nat) /\ IsInjective(c) /\ Range(c) = { to[k] : k \in Range(b) }
<1> DEFINE l == Len(b)
<1>0. n \in Nat /\ \A e \in 1 .. n : to[e] \in 1 .. n /\ order[to[e]] = e
  BY DEF Permutes
<1>1. l \in Nat /\ DOMAIN b = 1 .. l /\ \A j \in 1 .. l : b[j] \in 1 .. n
  BY LenProperties, ElementOfSeq
<1> HIDE DEF l
<1>2. c = [j \in 1 .. l |-> to[b[j]]]
  BY <1>1
<1>3. DOMAIN c = 1 .. l /\ \A j \in 1 .. l : c[j] = to[b[j]] /\ c[j] \in Nat
  BY <1>0, <1>1, <1>2
<1>4. c \in Seq(Nat)
  <2> DEFINE d == [j \in 1 .. l |-> to[b[j]]]
  <2>1. \A j \in 1 .. l : to[b[j]] \in Nat
    BY <1>0, <1>1
  <2>2. d \in [1 .. l -> Nat]
    BY <2>1
  <2> HIDE DEF d
  <2>3. d \in Seq(Nat)
    BY <1>1, <2>2
  <2> QED
    BY <1>2, <2>3 DEF d
<1>5. IsInjective(c)
  <2>1. \A i, j \in 1 .. l : to[b[i]] = to[b[j]] => b[i] = b[j]
    <3> SUFFICES ASSUME NEW i \in 1 .. l, NEW j \in 1 .. l, to[b[i]] = to[b[j]]
                 PROVE  b[i] = b[j]
      OBVIOUS
    <3>1. order[to[b[i]]] = b[i] /\ order[to[b[j]]] = b[j]
      BY <1>0, <1>1
    <3> QED
      BY <3>1
  <2>2. \A i, j \in 1 .. l : b[i] = b[j] => i = j
    BY <1>1 DEF IsInjective
  <2>3. \A i, j \in 1 .. l : c[i] = c[j] => i = j
    BY <1>3, <2>1, <2>2
  <2> QED
    BY <1>3, <2>3 DEF IsInjective
<1>6. Range(c) = { to[k] : k \in Range(b) }
  BY <1>1, <1>3 DEF Range
<1> QED
  BY <1>4, <1>5, <1>6

\* reorder_entities does that to the module; and what the walk has reached
\* lists its children in the order of its body.
LEMMA ReorderedIs ==
  ASSUME NEW s, NEW r, Structured(s, r)
  PROVE  /\ Renumbered(Reordered(s, r), s, SortOrder(s, r), Moves(s, r))
         /\ \A e \in 1 .. Len(s) :
              /\ Reordered(s, r)[Moves(s, r)[e]].blk = s[e].blk
              /\ e \in Range(WalkOrder(s, r)) =>
                   Reordered(s, r)[Moves(s, r)[e]].kids = Renamed(BodyOrder(s, e), Moves(s, r))
<1> DEFINE n == Len(s)
           order == SortOrder(s, r)
           to == Moves(s, r)
           reached == Range(WalkOrder(s, r))
           body(e) == IF e \in reached THEN BodyOrder(s, e) ELSE s[e].kids
           kids(e) == [j \in DOMAIN body(e) |-> to[body(e)[j]]]
           moved(e) == [s[e] EXCEPT !.up = to[@], !.ref = to[@], !.kids = kids(e)]
           s2 == Reordered(s, r)
<1>1. s2 = [i \in DOMAIN order |-> moved(order[i])]
  BY DEF Reordered, Moves
<1>2. Permutes(order, to, n)
  BY SortOrderIs
<1>3. \A e \in 1 .. n : /\ body(e) \in Seq(1 .. n) /\ IsInjective(body(e))
                        /\ Range(body(e)) = Range(s[e].kids)
                        /\ ~s[e].fn => body(e) = s[e].kids
  <2> SUFFICES ASSUME NEW e \in 1 .. n
               PROVE  /\ body(e) \in Seq(1 .. n) /\ IsInjective(body(e))
                      /\ Range(body(e)) = Range(s[e].kids)
                      /\ ~s[e].fn => body(e) = s[e].kids
    OBVIOUS
  <2>1. /\ s[e].kids \in Seq(Nat) /\ IsInjective(s[e].kids)
        /\ Range(s[e].kids) \subseteq 1 .. n
    BY NodeIs
  <2>2. s[e].kids \in Seq(1 .. n)
    BY <2>1, SeqOfRange, SeqMonotonic
  <2>3. /\ BodyOrder(s, e) \in Seq(1 .. n) /\ Range(BodyOrder(s, e)) = Range(s[e].kids)
        /\ IsInjective(BodyOrder(s, e))
        /\ ~s[e].fn => BodyOrder(s, e) = s[e].kids
    BY BodyOrderIs
  <2> QED
    BY <2>1, <2>2, <2>3
<1>12. \A e \in reached : kids(e) = Renamed(BodyOrder(s, e), to)
  BY DEF Renamed
<1> HIDE DEF body, order, to, s2, reached
<1>4. ASSUME NEW e \in 1 .. n
      PROVE  /\ kids(e) \in Seq(Nat) /\ IsInjective(kids(e))
             /\ Range(kids(e)) = { to[k] : k \in Range(s[e].kids) }
             /\ ~s[e].fn => kids(e) = [j \in DOMAIN s[e].kids |-> to[s[e].kids[j]]]
  <2> DEFINE b == body(e)
             c == kids(e)
  <2>1. b \in Seq(1 .. n) /\ IsInjective(b) /\ c = [j \in DOMAIN b |-> to[b[j]]]
    BY <1>3
  <2>2. Range(b) = Range(s[e].kids) /\ (~s[e].fn => b = s[e].kids)
    BY <1>3
  <2> HIDE DEF b, c
  <2>3. c \in Seq(Nat) /\ IsInjective(c) /\ Range(c) = { to[k] : k \in Range(b) }
    BY <1>2, <2>1, RewrittenIs
  <2>4. /\ c \in Seq(Nat) /\ IsInjective(c) /\ Range(c) = { to[k] : k \in Range(s[e].kids) }
        /\ ~s[e].fn => c = [j \in DOMAIN s[e].kids |-> to[s[e].kids[j]]]
    BY <2>1, <2>2, <2>3
  <2> QED
    BY <2>4 DEF c
<1> HIDE DEF kids
<1>5. ASSUME NEW e \in 1 .. n
      PROVE  /\ moved(e) \in Node /\ moved(e).tag = s[e].tag
             /\ moved(e).fn = s[e].fn /\ moved(e).param = s[e].param /\ moved(e).blk = s[e].blk
             /\ moved(e).up = to[s[e].up] /\ moved(e).ref = to[s[e].ref]
             /\ moved(e).kids = kids(e)
  <2>1. s[e] \in Node /\ s[e].up \in 0 .. n /\ s[e].ref \in 0 .. n
    BY NodeIs
  <2>2. to[s[e].up] \in Nat /\ to[s[e].ref] \in Nat /\ kids(e) \in Seq(Nat)
    <3>1. to \in [0 .. n -> 0 .. n] /\ n \in Nat
      BY <1>2 DEF Permutes
    <3> QED
      BY <1>4, <2>1, <3>1
  <2> QED
    BY <2>1, <2>2 DEF Node
<1> HIDE DEF moved
<1>6. n \in Nat /\ order \in Seq(1 .. n) /\ Len(order) = n
  BY <1>2 DEF Permutes
<1>7. DOMAIN s2 = 1 .. n /\ \A i \in 1 .. n : s2[i] = moved(order[i])
  BY <1>1, <1>6
<1>8. s2 \in Seq(Node) /\ Len(s2) = n
  <2>1. \A i \in 1 .. n : s2[i] \in Node
    BY <1>5, <1>6, <1>7
  <2>2. s2 = [i \in 1 .. n |-> s2[i]]
    BY <1>1, <1>7
  <2> QED
    BY <1>6, <2>1, <2>2
<1>9. ASSUME NEW e \in 1 .. n
      PROVE  s2[to[e]] = moved(e)
  <2>1. to[e] \in 1 .. n /\ order[to[e]] = e
    BY <1>2 DEF Permutes
  <2> QED
    BY <1>7, <2>1
<1>10. ASSUME NEW e \in 1 .. n
       PROVE  /\ s2[to[e]].tag = s[e].tag /\ s2[to[e]].fn = s[e].fn
              /\ s2[to[e]].param = s[e].param
              /\ s2[to[e]].up = to[s[e].up] /\ s2[to[e]].ref = to[s[e].ref]
              /\ IsInjective(s2[to[e]].kids)
              /\ Range(s2[to[e]].kids) = { to[k] : k \in Range(s[e].kids) }
              /\ ~s[e].fn => s2[to[e]].kids = [j \in DOMAIN s[e].kids |-> to[s[e].kids[j]]]
  BY <1>4, <1>5, <1>9
<1>11. Renumbered(s2, s, order, to)
  BY <1>2, <1>8, <1>10 DEF Renumbered
<1>13. \A e \in 1 .. n :
         /\ s2[to[e]].blk = s[e].blk
         /\ e \in reached => s2[to[e]].kids = Renamed(BodyOrder(s, e), to)
  BY <1>5, <1>9, <1>12
<1>14. Renumbered(Reordered(s, r), s, SortOrder(s, r), Moves(s, r))
  BY <1>11 DEF s2, order, to
<1>15. \A e \in 1 .. Len(s) :
         /\ Reordered(s, r)[Moves(s, r)[e]].blk = s[e].blk
         /\ e \in Range(WalkOrder(s, r)) =>
              Reordered(s, r)[Moves(s, r)[e]].kids = Renamed(BodyOrder(s, e), Moves(s, r))
  <2> SUFFICES ASSUME NEW e \in 1 .. Len(s)
               PROVE  /\ Reordered(s, r)[Moves(s, r)[e]].blk = s[e].blk
                      /\ e \in Range(WalkOrder(s, r)) =>
                           Reordered(s, r)[Moves(s, r)[e]].kids = Renamed(BodyOrder(s, e), Moves(s, r))
    OBVIOUS
  <2>1. s2[to[e]].blk = s[e].blk /\ (e \in reached => s2[to[e]].kids = Renamed(BodyOrder(s, e), to))
    BY <1>13 DEF n
  <2> QED
    BY <2>1 DEF s2, to, reached
<1> QED
  BY <1>14, <1>15

\* What Renumbered says of one entity, and of the ids no entity has.
LEMMA MovedIs ==
  ASSUME NEW s, NEW r, Structured(s, r), NEW s2, NEW order, NEW to, Renumbered(s2, s, order, to)
  PROVE  /\ Len(s) \in Nat /\ Len(s2) = Len(s) /\ s2 \in Seq(Node)
         /\ to[0] = 0 /\ \A e \in 1 .. Len(s) : to[e] \in 1 .. Len(s) /\ to[e] # 0
         /\ \A e, x \in 0 .. Len(s) : to[e] = to[x] => e = x
         /\ \A i \in 1 .. Len(s) : \E e \in 1 .. Len(s) : i = to[e]
<1>1. Permutes(order, to, Len(s)) /\ s2 \in Seq(Node) /\ Len(s2) = Len(s)
  BY DEF Renumbered
<1>2. /\ Len(s) \in Nat /\ to[0] = 0
      /\ \A e \in 1 .. Len(s) : to[e] \in 1 .. Len(s) /\ order[to[e]] = e
      /\ \A i \in 1 .. Len(s) : order[i] \in 1 .. Len(s) /\ to[order[i]] = i
  BY <1>1 DEF Permutes
<1>3. \A e \in 1 .. Len(s) : to[e] # 0
  BY <1>2
<1>4. ASSUME NEW e \in 0 .. Len(s), NEW x \in 0 .. Len(s), to[e] = to[x]
      PROVE  e = x
  <2>1. CASE e \in 1 .. Len(s) /\ x \in 1 .. Len(s)
    <3>1. order[to[e]] = e /\ order[to[x]] = x
      BY <1>2, <2>1
    <3> QED
      BY <1>4, <3>1
  <2>2. CASE e = 0 \/ x = 0
    BY <1>2, <1>3, <1>4, <2>2
  <2> QED
    BY <1>2, <2>1, <2>2
<1> QED
  BY <1>1, <1>2, <1>3, <1>4

\* The structure does not depend on the numbers.
LEMMA RenumberedKeeps ==
  ASSUME NEW s, NEW r, Structured(s, r), NEW s2, NEW order, NEW to, Renumbered(s2, s, order, to)
  PROVE  Structured(s2, to[r])
<1> DEFINE n == Len(s)
<1>1. /\ n \in Nat /\ Len(s2) = n /\ s2 \in Seq(Node) /\ to[0] = 0
      /\ \A e \in 1 .. n : to[e] \in 1 .. n /\ to[e] # 0
      /\ \A e, x \in 0 .. n : to[e] = to[x] => e = x
      /\ \A i \in 1 .. n : \E e \in 1 .. n : i = to[e]
  BY MovedIs
<1>2. \A e \in 1 .. n :
        /\ s2[to[e]].tag = s[e].tag /\ s2[to[e]].param = s[e].param
        /\ s2[to[e]].up = to[s[e].up] /\ s2[to[e]].ref = to[s[e].ref]
        /\ IsInjective(s2[to[e]].kids)
        /\ Range(s2[to[e]].kids) = { to[k] : k \in Range(s[e].kids) }
  BY DEF Renumbered
<1>3. /\ r \in 1 .. n /\ s[r].up = 0
      /\ \A e \in 1 .. n :
           /\ s[e].up \in 0 .. n /\ s[e].ref \in 0 .. n /\ s[e].tag \in 1 .. n
           /\ s[e].up # 0 => e \in Range(s[s[e].up].kids)
           /\ \A k \in Range(s[e].kids) :
                /\ k \in 1 .. n /\ s[k].tag > s[e].tag
                /\ s[k].up # 0 /\ (s[k].up = e \/ (s[e].up = 0 /\ e # r))
           /\ \A k, l \in Range(s[e].kids) :
                s[k].param > 0 /\ s[k].param = s[l].param => k = l
      /\ \A t \in 1 .. n : \E e \in 1 .. n : s[e].tag = t
      /\ \A e, x \in 1 .. n : s[e].tag = s[x].tag => e = x
  BY DEF Structured
<1> HIDE DEF n
<1>4. \A e \in 0 .. n : to[e] \in 0 .. n
  BY <1>1
<1> DEFINE P(i) ==
       /\ s2[i].up \in 0 .. n /\ s2[i].ref \in 0 .. n /\ s2[i].tag \in 1 .. n
       /\ s2[i].up # 0 => i \in Range(s2[s2[i].up].kids)
       /\ IsInjective(s2[i].kids)
       /\ \A k \in Range(s2[i].kids) :
            /\ k \in 1 .. n /\ s2[k].tag > s2[i].tag
            /\ s2[k].up # 0 /\ (s2[k].up = i \/ (s2[i].up = 0 /\ i # to[r]))
       /\ \A k, l \in Range(s2[i].kids) :
            s2[k].param > 0 /\ s2[k].param = s2[l].param => k = l
<1>5. ASSUME NEW e \in 1 .. n
      PROVE  P(to[e])
  <2>0. /\ s2[to[e]].up = to[s[e].up] /\ s2[to[e]].ref = to[s[e].ref]
        /\ s2[to[e]].tag = s[e].tag
        /\ s[e].up \in 0 .. n /\ s[e].ref \in 0 .. n /\ s[e].tag \in 1 .. n
        /\ s[e].up # 0 => e \in Range(s[s[e].up].kids)
    BY <1>2, <1>3
  <2>1. s2[to[e]].up \in 0 .. n /\ s2[to[e]].ref \in 0 .. n /\ s2[to[e]].tag \in 1 .. n
    BY <1>4, <2>0
  <2>2. ASSUME s2[to[e]].up # 0
        PROVE  to[e] \in Range(s2[s2[to[e]].up].kids)
    <3> DEFINE u == s[e].up
    <3>1. s2[to[e]].up = to[u] /\ u \in 0 .. n
      BY <2>0
    <3>2. u # 0 /\ e \in Range(s[u].kids)
      <4>1. to[u] # 0
        BY <2>2, <3>1
      <4>2. to[0] = 0
        BY <1>1
      <4> HIDE DEF u
      <4>3. u # 0
        BY <4>1, <4>2
      <4> USE DEF u
      <4> QED
        BY <2>0, <4>3
    <3>3. u \in 1 .. n
      BY <1>1, <3>1, <3>2
    <3> HIDE DEF u
    <3>4. to[e] \in Range(s2[to[u]].kids)
      BY <1>2, <3>2, <3>3
    <3> QED
      BY <3>1, <3>4
  <2>3. IsInjective(s2[to[e]].kids)
    BY <1>2
  <2>4. ASSUME NEW i \in Range(s2[to[e]].kids)
        PROVE  /\ i \in 1 .. n /\ s2[i].tag > s2[to[e]].tag
               /\ s2[i].up # 0 /\ (s2[i].up = to[e] \/ (s2[to[e]].up = 0 /\ to[e] # to[r]))
    <3>1. PICK k \in Range(s[e].kids) : i = to[k]
      BY <1>2
    <3>2. /\ k \in 1 .. n /\ s[k].tag > s[e].tag
          /\ s[k].up # 0 /\ (s[k].up = e \/ (s[e].up = 0 /\ e # r))
      BY <1>3
    <3>3. i \in 1 .. n /\ s2[i].tag > s2[to[e]].tag
      BY <1>1, <1>2, <3>1, <3>2
    <3>4. s2[i].up = to[s[k].up] /\ s[k].up \in 1 .. n
      <4>1. s2[i].up = to[s[k].up] /\ s[k].up \in 0 .. n
        BY <1>2, <1>3, <3>1, <3>2
      <4>2. \A u \in 0 .. n : u # 0 => u \in 1 .. n
        BY <1>1
      <4>3. s[k].up \in 1 .. n
        BY <3>2, <4>1, <4>2
      <4> QED
        BY <4>1, <4>3
    <3>5. s2[i].up # 0
      BY <1>1, <3>4
    <3>6. CASE s[k].up = e
      BY <3>3, <3>4, <3>5, <3>6
    <3>7. CASE s[e].up = 0 /\ e # r
      <4>1. s2[to[e]].up = 0
        BY <1>1, <1>2, <3>7
      <4>2. to[e] # to[r]
        BY <1>1, <1>3, <3>7
      <4> QED
        BY <3>3, <3>5, <4>1, <4>2
    <3> QED
      BY <3>2, <3>6, <3>7
  <2>5. ASSUME NEW i \in Range(s2[to[e]].kids), NEW j \in Range(s2[to[e]].kids),
               s2[i].param > 0, s2[i].param = s2[j].param
        PROVE  i = j
    <3>1. PICK k \in Range(s[e].kids) : i = to[k]
      BY <1>2
    <3>2. PICK l \in Range(s[e].kids) : j = to[l]
      BY <1>2
    <3>3. k \in 1 .. n /\ l \in 1 .. n
      BY <1>3
    <3>4. s[k].param > 0 /\ s[k].param = s[l].param
      BY <1>2, <2>5, <3>1, <3>2, <3>3
    <3>5. k = l
      BY <1>3, <3>4
    <3> QED
      BY <3>1, <3>2, <3>5
  <2> QED
    BY <2>1, <2>2, <2>3, <2>4, <2>5
<1>6. \A i \in 1 .. n : P(i)
  <2> HIDE DEF P
  <2> QED
    BY <1>1, <1>5
<1>7. to[r] \in 1 .. n /\ s2[to[r]].up = 0
  BY <1>1, <1>2, <1>3
<1>8. ASSUME NEW t \in 1 .. n
      PROVE  \E i \in 1 .. n : s2[i].tag = t
  <2>1. PICK e \in 1 .. n : s[e].tag = t
    BY <1>3
  <2>2. to[e] \in 1 .. n /\ s2[to[e]].tag = t
    BY <1>1, <1>2, <2>1
  <2> QED
    BY <2>2
<1>9. ASSUME NEW i \in 1 .. n, NEW j \in 1 .. n, s2[i].tag = s2[j].tag
      PROVE  i = j
  <2>1. PICK e \in 1 .. n : i = to[e]
    BY <1>1
  <2>2. PICK x \in 1 .. n : j = to[x]
    BY <1>1
  <2> QED
    BY <1>2, <1>3, <1>9, <2>1, <2>2
<1>10. /\ \A t \in 1 .. n : \E i \in 1 .. n : s2[i].tag = t
       /\ \A i, j \in 1 .. n : s2[i].tag = s2[j].tag => i = j
  BY <1>8, <1>9
<1>11. \A i \in 1 .. Len(s2) :
        /\ s2[i].up \in 0 .. Len(s2) /\ s2[i].ref \in 0 .. Len(s2) /\ s2[i].tag \in 1 .. Len(s2)
        /\ s2[i].up # 0 => i \in Range(s2[s2[i].up].kids)
        /\ IsInjective(s2[i].kids)
        /\ \A k \in Range(s2[i].kids) :
             /\ k \in 1 .. Len(s2) /\ s2[k].tag > s2[i].tag
             /\ s2[k].up # 0 /\ (s2[k].up = i \/ (s2[i].up = 0 /\ i # to[r]))
        /\ \A k, l \in Range(s2[i].kids) :
             s2[k].param > 0 /\ s2[k].param = s2[l].param => k = l
  BY <1>1, <1>6
<1>12. s2 \in Seq(Node) /\ to[r] \in 1 .. Len(s2) /\ s2[to[r]].up = 0
  BY <1>1, <1>7
<1>13. /\ \A t \in 1 .. Len(s2) : \E i \in 1 .. Len(s2) : s2[i].tag = t
       /\ \A i, j \in 1 .. Len(s2) : s2[i].tag = s2[j].tag => i = j
  BY <1>1, <1>10
<1> HIDE DEF P
<1> QED
  BY <1>11, <1>12, <1>13 DEF Structured

\* Nor does what a reader of the module can tell.
LEMMA RenumberedMeans ==
  ASSUME NEW s, NEW r, Structured(s, r), NEW s2, NEW order, NEW to, Renumbered(s2, s, order, to)
  PROVE  Meaning(s2) = Meaning(s) /\ TagAt(s2, to[r]) = TagAt(s, r)
<1> DEFINE n == Len(s)
           said(m, e) ==
             [tag |-> m[e].tag, up |-> TagAt(m, m[e].up), ref |-> TagAt(m, m[e].ref),
              fn |-> m[e].fn, param |-> m[e].param,
              kids |-> IF m[e].fn THEN { TagAt(m, k) : k \in Range(m[e].kids) }
                       ELSE [i \in DOMAIN m[e].kids |-> TagAt(m, m[e].kids[i])]]
<1>1. /\ n \in Nat /\ Len(s2) = n /\ s2 \in Seq(Node) /\ to[0] = 0
      /\ \A e \in 1 .. n : to[e] \in 1 .. n /\ to[e] # 0
      /\ \A i \in 1 .. n : \E e \in 1 .. n : i = to[e]
  BY MovedIs
<1>2. \A e \in 1 .. n :
        /\ s2[to[e]].tag = s[e].tag /\ s2[to[e]].param = s[e].param
        /\ s2[to[e]].fn = s[e].fn
        /\ s2[to[e]].up = to[s[e].up] /\ s2[to[e]].ref = to[s[e].ref]
        /\ Range(s2[to[e]].kids) = { to[k] : k \in Range(s[e].kids) }
        /\ ~s[e].fn => s2[to[e]].kids = [j \in DOMAIN s[e].kids |-> to[s[e].kids[j]]]
  BY DEF Renumbered
<1>3. /\ r \in 1 .. n /\ s \in Seq(Node)
      /\ \A e \in 1 .. n :
           /\ s[e].up \in 0 .. n /\ s[e].ref \in 0 .. n
           /\ \A k \in Range(s[e].kids) : k \in 1 .. n
  BY DEF Structured
<1>4. DOMAIN s = 1 .. n /\ DOMAIN s2 = 1 .. n
  BY <1>1, <1>3
<1> HIDE DEF n
<1>5. \A e \in 0 .. n : TagAt(s2, to[e]) = TagAt(s, e)
  <2> SUFFICES ASSUME NEW e \in 0 .. n
               PROVE  TagAt(s2, to[e]) = TagAt(s, e)
    OBVIOUS
  <2>1. CASE e = 0
    BY <1>1, <2>1 DEF TagAt
  <2>2. CASE e \in 1 .. n
    <3>1. to[e] # 0 /\ e # 0 /\ s2[to[e]].tag = s[e].tag
      BY <1>1, <1>2, <2>2
    <3> QED
      BY <3>1 DEF TagAt
  <2> QED
    BY <1>1, <2>1, <2>2
<1>6. ASSUME NEW e \in 1 .. n
      PROVE  said(s2, to[e]) = said(s, e)
  <2>1. /\ s2[to[e]].tag = s[e].tag /\ s2[to[e]].param = s[e].param /\ s2[to[e]].fn = s[e].fn
        /\ TagAt(s2, s2[to[e]].up) = TagAt(s, s[e].up)
        /\ TagAt(s2, s2[to[e]].ref) = TagAt(s, s[e].ref)
    BY <1>2, <1>3, <1>5
  <2>2. \A k \in Range(s[e].kids) : k \in 0 .. n
    <3>1. \A k \in Range(s[e].kids) : k \in 1 .. n
      BY <1>3
    <3> QED
      BY <1>1, <3>1
  <2>3. { TagAt(s2, k) : k \in Range(s2[to[e]].kids) } = { TagAt(s, k) : k \in Range(s[e].kids) }
    <3>1. { TagAt(s2, k) : k \in Range(s2[to[e]].kids) }
            = { TagAt(s2, to[k]) : k \in Range(s[e].kids) }
      <4>1. Range(s2[to[e]].kids) = { to[k] : k \in Range(s[e].kids) }
        BY <1>2
      <4> QED
        BY <4>1
    <3>2. \A k \in Range(s[e].kids) : TagAt(s2, to[k]) = TagAt(s, k)
      BY <1>5, <2>2
    <3> QED
      BY <3>1, <3>2
  <2>4. ASSUME ~s[e].fn
        PROVE  [i \in DOMAIN s2[to[e]].kids |-> TagAt(s2, s2[to[e]].kids[i])]
                 = [i \in DOMAIN s[e].kids |-> TagAt(s, s[e].kids[i])]
    <3>1. s2[to[e]].kids = [j \in DOMAIN s[e].kids |-> to[s[e].kids[j]]]
      BY <1>2, <2>4
    <3>2. \A i \in DOMAIN s[e].kids : s[e].kids[i] \in Range(s[e].kids)
      BY DEF Range
    <3>3. /\ DOMAIN s2[to[e]].kids = DOMAIN s[e].kids
          /\ \A i \in DOMAIN s[e].kids :
               TagAt(s2, s2[to[e]].kids[i]) = TagAt(s, s[e].kids[i])
      BY <1>5, <2>2, <3>1, <3>2
    <3> QED
      BY <3>3
  <2> QED
    BY <2>1, <2>3, <2>4
<1>7. Meaning(s2) = { said(s2, i) : i \in 1 .. n } /\ Meaning(s) = { said(s, e) : e \in 1 .. n }
  BY <1>4 DEF Meaning
<1> HIDE DEF said
<1>8. Meaning(s2) = Meaning(s)
  <2>1. ASSUME NEW i \in 1 .. n
        PROVE  \E e \in 1 .. n : said(s2, i) = said(s, e)
    <3>1. PICK e \in 1 .. n : i = to[e]
      BY <1>1
    <3>2. said(s2, i) = said(s, e)
      BY <1>6, <3>1
    <3> QED
      BY <3>2
  <2>2. \A e \in 1 .. n : \E i \in 1 .. n : said(s2, i) = said(s, e)
    BY <1>1, <1>6
  <2> QED
    BY <1>7, <2>1, <2>2
<1>9. TagAt(s2, to[r]) = TagAt(s, r)
  BY <1>1, <1>3, <1>5
<1> QED
  BY <1>8, <1>9

(***************************************************************************)
(* Edits.                                                                  *)
(***************************************************************************)
\* Appending to a list.
LEMMA AppendIs ==
  ASSUME NEW l \in Seq(Nat), IsInjective(l), NEW x \in Nat, x \notin Range(l)
  PROVE  /\ Append(l, x) \in Seq(Nat) /\ IsInjective(Append(l, x))
         /\ Range(Append(l, x)) = Range(l) \cup {x}
<1> DEFINE a == Append(l, x)
           n == Len(l)
<1>0. n \in Nat /\ DOMAIN l = 1 .. n
  BY LenProperties
<1>1. /\ a \in Seq(Nat) /\ Len(a) = n + 1
      /\ \A i \in 1 .. n : a[i] = l[i]
      /\ a[n + 1] = x
  BY AppendProperties
<1>2. DOMAIN a = 1 .. n + 1
  BY <1>0, <1>1
<1> HIDE DEF a, n
<1>3. \A i \in 1 .. n : l[i] # x
  BY <1>0 DEF Range
<1>4. \A i \in 1 .. n + 1 : i \in 1 .. n \/ i = n + 1
  BY <1>0
<1>5. IsInjective(a)
  <2>1. \A i, j \in 1 .. n : a[i] = a[j] => i = j
    BY <1>0, <1>1 DEF IsInjective
  <2>2. \A i \in 1 .. n : a[i] # a[n + 1]
    BY <1>1, <1>3
  <2> QED
    BY <1>2, <1>4, <2>1, <2>2 DEF IsInjective
<1>6. Range(a) = Range(l) \cup {x}
  <2>1. \A i \in 1 .. n : a[i] \in Range(l)
    BY <1>0, <1>1 DEF Range
  <2>2. \A y \in Range(l) : \E i \in 1 .. n + 1 : a[i] = y
    BY <1>0, <1>1 DEF Range
  <2>3. \A y \in Range(a) : \E i \in 1 .. n + 1 : a[i] = y
    BY <1>2 DEF Range
  <2>4. \A i \in 1 .. n + 1 : a[i] \in Range(a)
    BY <1>2 DEF Range
  <2>5. n + 1 \in 1 .. n + 1
    BY <1>0
  <2> QED
    BY <1>1, <1>4, <2>1, <2>2, <2>3, <2>4, <2>5
<1> QED
  BY <1>1, <1>5, <1>6 DEF a

\* Inserting into a list.
LEMMA InsertIs ==
  ASSUME NEW l \in Seq(Nat), IsInjective(l), NEW x \in Nat, x \notin Range(l),
         NEW at \in 1 .. Len(l) + 1
  PROVE  /\ InsertAt(l, at, x) \in Seq(Nat) /\ IsInjective(InsertAt(l, at, x))
         /\ Range(InsertAt(l, at, x)) = Range(l) \cup {x}
         /\ Len(InsertAt(l, at, x)) = Len(l) + 1
         /\ \A i \in 1 .. Len(l) + 1 : InsertAt(l, at, x)[i] =
              IF i < at THEN l[i] ELSE IF i = at THEN x ELSE l[i - 1]
<1> DEFINE n == Len(l)
           a == SubSeq(l, 1, at - 1)
           b == SubSeq(l, at, n)
           c == (a \o <<x>>) \o b
<1>0. n \in Nat /\ DOMAIN l = 1 .. n /\ at \in 1 .. n + 1 /\ \A i \in 1 .. n : l[i] \in Nat
  BY LenProperties, ElementOfSeq
<1>1. InsertAt(l, at, x) = c
  BY DEF InsertAt
<1>2. /\ a \in Seq(Nat) /\ Len(a) = at - 1
      /\ \A i \in 1 .. at - 1 : a[i] = l[i]
  <2> DEFINE k == at - 1
             f == SubSeq(l, 1, k)
  <2>1. k \in Int /\ 1 \in Int /\ \A i \in 1 .. k : l[i] \in Nat
    BY <1>0
  <2>2. k \in Nat /\ k = at - 1
    BY <1>0
  <2>3. a = f
    OBVIOUS
  <2> HIDE DEF a, k
  <2>4. /\ f \in Seq(Nat) /\ Len(f) = (IF 1 <= k THEN k - 1 + 1 ELSE 0)
        /\ \A i \in 1 .. k - 1 + 1 : f[i] = l[1 + i - 1]
    BY <2>1, SubSeqProperties
  <2> HIDE DEF f
  <2>5. f \in Seq(Nat) /\ Len(f) = k /\ \A i \in 1 .. k : f[i] = l[i]
    BY <1>0, <2>2, <2>4
  <2> QED
    BY <2>2, <2>3, <2>5
<1>3. /\ b \in Seq(Nat) /\ Len(b) = n - at + 1
      /\ \A i \in 1 .. n - at + 1 : b[i] = l[at + i - 1]
  <2>1. at \in Int /\ n \in Int /\ \A i \in at .. n : l[i] \in Nat
    BY <1>0
  <2> HIDE DEF n
  <2>2. /\ b \in Seq(Nat) /\ Len(b) = (IF at <= n THEN n - at + 1 ELSE 0)
        /\ \A i \in 1 .. n - at + 1 : b[i] = l[at + i - 1]
    BY <2>1, SubSeqProperties
  <2> HIDE DEF b
  <2> QED
    BY <1>0, <2>2
<1> DEFINE d == a \o <<x>>
<1> HIDE DEF a, b, n
<1>4. /\ d \in Seq(Nat) /\ Len(d) = at
      /\ \A i \in 1 .. at : d[i] = IF i < at THEN l[i] ELSE x
  <2>1. <<x>> \in Seq(Nat) /\ Len(<<x>>) = 1 /\ <<x>>[1] = x
    OBVIOUS
  <2>2. /\ d \in Seq(Nat) /\ Len(d) = Len(a) + Len(<<x>>)
        /\ \A i \in 1 .. Len(a) + Len(<<x>>) : d[i] = IF i <= Len(a) THEN a[i] ELSE <<x>>[i - Len(a)]
    BY <1>2, <2>1, ConcatProperties
  <2> HIDE DEF d
  <2>3. ASSUME NEW i \in 1 .. at
        PROVE  d[i] = IF i < at THEN l[i] ELSE x
    <3>1. CASE i < at
      BY <1>0, <1>2, <2>1, <2>2, <3>1
    <3>2. CASE i = at
      BY <1>0, <1>2, <2>1, <2>2, <3>2
    <3> QED
      BY <1>0, <3>1, <3>2
  <2> QED
    BY <1>0, <1>2, <2>1, <2>2, <2>3
<1>5. /\ c \in Seq(Nat) /\ Len(c) = n + 1
      /\ \A i \in 1 .. n + 1 : c[i] = IF i < at THEN l[i] ELSE IF i = at THEN x ELSE l[i - 1]
  <2> HIDE DEF d
  <2> DEFINE e == d \o b
  <2>1. /\ e \in Seq(Nat) /\ Len(e) = Len(d) + Len(b)
        /\ \A i \in 1 .. Len(d) + Len(b) : e[i] = IF i <= Len(d) THEN d[i] ELSE b[i - Len(d)]
    BY <1>3, <1>4, ConcatProperties
  <2>2. c = e
    BY DEF d
  <2> HIDE DEF e, c
  <2>3. Len(d) + Len(b) = n + 1
    BY <1>0, <1>3, <1>4
  <2>4. ASSUME NEW i \in 1 .. n + 1
        PROVE  e[i] = IF i < at THEN l[i] ELSE IF i = at THEN x ELSE l[i - 1]
    <3>1. CASE i <= at
      <4>1. e[i] = d[i]
        BY <1>0, <1>4, <2>1, <2>3, <3>1
      <4> QED
        BY <1>0, <1>4, <3>1, <4>1
    <3>2. CASE ~(i <= at)
      <4>1. e[i] = b[i - at]
        BY <1>0, <1>4, <2>1, <2>3, <3>2
      <4>2. i - at \in 1 .. n - at + 1 /\ at + (i - at) - 1 = i - 1
        BY <1>0, <3>2
      <4>3. b[i - at] = l[i - 1]
        BY <1>3, <4>2
      <4> QED
        BY <1>0, <3>2, <4>1, <4>3
    <3> QED
      BY <3>1, <3>2
  <2> QED
    BY <2>1, <2>2, <2>3, <2>4
<1> HIDE DEF c, d
<1>6. DOMAIN c = 1 .. n + 1
  BY <1>5
<1>7. \A i \in 1 .. n : l[i] # x
  BY <1>0 DEF Range
<1>8. \A i, j \in 1 .. n : l[i] = l[j] => i = j
  BY <1>0 DEF IsInjective
<1>9. IsInjective(c)
  <2> SUFFICES ASSUME NEW i \in 1 .. n + 1, NEW j \in 1 .. n + 1, c[i] = c[j]
               PROVE  i = j
    BY <1>6 DEF IsInjective
  <2>1. c[i] = (IF i < at THEN l[i] ELSE IF i = at THEN x ELSE l[i - 1])
    BY <1>5
  <2>2. c[j] = (IF j < at THEN l[j] ELSE IF j = at THEN x ELSE l[j - 1])
    BY <1>5
  <2>3. /\ i < at => i \in 1 .. n
        /\ i > at => i - 1 \in 1 .. n
        /\ j < at => j \in 1 .. n
        /\ j > at => j - 1 \in 1 .. n
    BY <1>0
  <2>4. CASE i = at
    <3>1. c[j] = x
      BY <2>1, <2>4
    <3>2. ~(j < at) /\ ~(j > at)
      BY <1>0, <1>7, <2>2, <2>3, <3>1
    <3> QED
      BY <1>0, <2>4, <3>2
  <2>5. CASE i < at
    <3>1. c[i] = l[i] /\ i \in 1 .. n
      BY <1>0, <2>1, <2>3, <2>5
    <3>2. CASE j < at
      BY <1>8, <2>2, <2>3, <3>1, <3>2
    <3>3. CASE j = at
      BY <1>7, <2>2, <3>1, <3>3
    <3>4. CASE j > at
      <4>1. i = j - 1
        BY <1>0, <1>8, <2>2, <2>3, <3>1, <3>4
      <4> QED
        BY <1>0, <2>5, <3>4, <4>1
    <3> QED
      BY <1>0, <3>2, <3>3, <3>4
  <2>6. CASE i > at
    <3>1. c[i] = l[i - 1] /\ i - 1 \in 1 .. n
      BY <1>0, <2>1, <2>3, <2>6
    <3>2. CASE j < at
      <4>1. i - 1 = j
        BY <1>8, <2>2, <2>3, <3>1, <3>2
      <4> QED
        BY <1>0, <2>6, <3>2, <4>1
    <3>3. CASE j = at
      BY <1>7, <2>2, <3>1, <3>3
    <3>4. CASE j > at
      <4>1. i - 1 = j - 1
        BY <1>0, <1>8, <2>2, <2>3, <3>1, <3>4
      <4> QED
        BY <1>0, <4>1
    <3> QED
      BY <1>0, <3>2, <3>3, <3>4
  <2> QED
    BY <1>0, <2>4, <2>5, <2>6
<1>10. Range(c) = Range(l) \cup {x}
  <2>1. ASSUME NEW i \in 1 .. n + 1
        PROVE  c[i] \in Range(l) \cup {x}
    <3>1. c[i] = x \/ \E j \in 1 .. n : c[i] = l[j]
      BY <1>0, <1>5
    <3> QED
      BY <1>0, <3>1 DEF Range
  <2>2. ASSUME NEW j \in 1 .. n
        PROVE  \E i \in 1 .. n + 1 : c[i] = l[j]
    <3>1. CASE j < at
      BY <1>0, <1>5, <3>1
    <3>2. CASE ~(j < at)
      <4>1. j + 1 \in 1 .. n + 1 /\ c[j + 1] = l[j]
        BY <1>0, <1>5, <3>2
      <4> QED
        BY <4>1
    <3> QED
      BY <3>1, <3>2
  <2>3. at \in 1 .. n + 1 /\ c[at] = x
    BY <1>0, <1>5
  <2>4. Range(c) \subseteq Range(l) \cup {x}
    BY <1>6, <2>1 DEF Range
  <2>5. Range(l) \subseteq Range(c)
    BY <1>0, <1>6, <2>2 DEF Range
  <2>6. x \in Range(c)
    BY <1>6, <2>3 DEF Range
  <2> QED
    BY <2>4, <2>5, <2>6
<1> QED
  BY <1>1, <1>5, <1>9, <1>10 DEF n

\* s2 is s with entities created behind those of s and listed by their parents;
\* a block that is created without a parent may list what is created with it.
Extends(s2, s) ==
  LET n == Len(s)
      new == n + 1 .. Len(s2)
  IN /\ s2 \in Seq(Node) /\ Len(s2) >= n
     /\ \A e \in 1 .. Len(s2) : /\ s2[e].up \in 0 .. Len(s2) /\ s2[e].ref \in 0 .. Len(s2)
                                /\ IsInjective(s2[e].kids)
     /\ \A e \in 1 .. n :
          /\ s2[e].tag = s[e].tag /\ s2[e].up = s[e].up /\ s2[e].param = s[e].param
          /\ Range(s2[e].kids) = Range(s[e].kids) \cup { x \in new : s2[x].up = e }
     /\ \A x \in new :
          /\ s2[x].tag = x
          /\ s2[x].up > n => x \in Range(s2[s2[x].up].kids)
          /\ \A k \in Range(s2[x].kids) :
               /\ k \in new /\ k > x /\ s2[k].up # 0 /\ (s2[k].up = x \/ s2[x].up = 0)
          /\ s2[x].param > 0 =>
               /\ s2[x].up \in 1 .. n
               /\ \A k \in Range(s[s2[x].up].kids) : s[k].param = 0
          /\ \A y \in new : s2[x].param > 0 /\ s2[y].param = s2[x].param => y = x

\* Edits of that kind leave a module a module.
LEMMA ExtendsKeeps ==
  ASSUME NEW s, NEW r, Structured(s, r), NEW s2, Extends(s2, s)
  PROVE  Structured(s2, r)
<1> DEFINE n == Len(s)
           m == Len(s2)
           new == n + 1 .. m
<1>1. /\ s2 \in Seq(Node) /\ m >= n
      /\ \A e \in 1 .. m : /\ s2[e].up \in 0 .. m /\ s2[e].ref \in 0 .. m
                           /\ IsInjective(s2[e].kids)
  BY DEF Extends
<1>2. \A e \in 1 .. n :
        /\ s2[e].tag = s[e].tag /\ s2[e].up = s[e].up /\ s2[e].param = s[e].param
        /\ Range(s2[e].kids) = Range(s[e].kids) \cup { x \in new : s2[x].up = e }
  BY DEF Extends
<1>3. \A x \in new :
        /\ s2[x].tag = x
        /\ s2[x].up > n => x \in Range(s2[s2[x].up].kids)
        /\ \A k \in Range(s2[x].kids) :
             /\ k \in new /\ k > x /\ s2[k].up # 0 /\ (s2[k].up = x \/ s2[x].up = 0)
  BY DEF Extends
<1>4. \A x \in new :
        /\ s2[x].param > 0 => /\ s2[x].up \in 1 .. n
                             /\ \A k \in Range(s[s2[x].up].kids) : s[k].param = 0
        /\ \A y \in new : s2[x].param > 0 /\ s2[y].param = s2[x].param => y = x
  BY DEF Extends
<1>5. /\ s \in Seq(Node) /\ r \in 1 .. n /\ s[r].up = 0
      /\ \A e \in 1 .. n :
           /\ s[e].up \in 0 .. n /\ s[e].tag \in 1 .. n
           /\ s[e].up # 0 => e \in Range(s[s[e].up].kids)
           /\ \A k \in Range(s[e].kids) :
                /\ k \in 1 .. n /\ s[k].tag > s[e].tag
                /\ s[k].up # 0 /\ (s[k].up = e \/ (s[e].up = 0 /\ e # r))
           /\ \A k, l \in Range(s[e].kids) :
                s[k].param > 0 /\ s[k].param = s[l].param => k = l
      /\ \A t \in 1 .. n : \E e \in 1 .. n : s[e].tag = t
      /\ \A e, x \in 1 .. n : s[e].tag = s[x].tag => e = x
  BY DEF Structured
<1>6. n \in Nat /\ m \in Nat
  <2>1. s \in Seq(Node) /\ s2 \in Seq(Node)
    BY <1>1, <1>5
  <2> QED
    BY <2>1, LenProperties
<1> HIDE DEF n, m
<1>7. /\ \A e \in 1 .. m : e \in 1 .. n \/ e \in new
      /\ \A e \in 1 .. n : e \in 1 .. m /\ e \in Nat
      /\ \A x \in new : x \in 1 .. m /\ x \in Nat /\ x > n
      /\ \A x \in 1 .. n, y \in new : x < y /\ x # y
  BY <1>1, <1>6
<1> HIDE DEF new
<1>8. ASSUME NEW e \in 1 .. m
      PROVE  s2[e].tag \in 1 .. m
  <2>1. CASE e \in 1 .. n
    <3>1. s2[e].tag \in 1 .. n
      BY <1>2, <1>5, <2>1
    <3> QED
      BY <1>7, <3>1
  <2>2. CASE e \in new
    BY <1>3, <1>7, <2>2
  <2> QED
    BY <1>7, <2>1, <2>2
<1>9. ASSUME NEW e \in 1 .. m, s2[e].up # 0
      PROVE  e \in Range(s2[s2[e].up].kids)
  <2>1. CASE e \in 1 .. n
    <3>1. s2[e].up = s[e].up /\ s[e].up \in 0 .. n /\ s[e].up # 0
          /\ e \in Range(s[s[e].up].kids)
      BY <1>2, <1>5, <1>9, <2>1
    <3>2. \A u \in 0 .. n : u # 0 => u \in 1 .. n
      BY <1>6
    <3>3. s[e].up \in 1 .. n
      BY <3>1, <3>2
    <3> QED
      BY <1>2, <3>1, <3>3
  <2>2. CASE e \in new
    <3>1. CASE s2[e].up > n
      BY <1>3, <2>2, <3>1
    <3>2. CASE ~(s2[e].up > n)
      <4>1. \A u \in 0 .. m : u # 0 /\ ~(u > n) => u \in 1 .. n
        BY <1>6
      <4>2. s2[e].up \in 0 .. m
        BY <1>1
      <4>3. s2[e].up \in 1 .. n
        BY <1>9, <3>2, <4>1, <4>2
      <4> QED
        BY <1>2, <2>2, <4>3
    <3> QED
      BY <3>1, <3>2
  <2> QED
    BY <1>7, <2>1, <2>2
<1>10. ASSUME NEW e \in 1 .. m, NEW k \in Range(s2[e].kids)
       PROVE  /\ k \in 1 .. m /\ s2[k].tag > s2[e].tag
              /\ s2[k].up # 0 /\ (s2[k].up = e \/ (s2[e].up = 0 /\ e # r))
  <2>1. CASE e \in 1 .. n /\ k \in Range(s[e].kids)
    <3>1. /\ k \in 1 .. n /\ s[k].tag > s[e].tag
          /\ s[k].up # 0 /\ (s[k].up = e \/ (s[e].up = 0 /\ e # r))
      BY <1>5, <2>1
    <3>2. s2[k].tag = s[k].tag /\ s2[k].up = s[k].up /\ s2[e].tag = s[e].tag /\ s2[e].up = s[e].up
      BY <1>2, <2>1, <3>1
    <3> QED
      BY <1>7, <3>1, <3>2
  <2>2. CASE e \in 1 .. n /\ k \in new /\ s2[k].up = e
    <3>1. s2[e].tag = s[e].tag /\ s[e].tag \in 1 .. n /\ s2[k].tag = k /\ k \in 1 .. m
      BY <1>2, <1>3, <1>5, <1>7, <2>2
    <3>2. s2[k].tag > s2[e].tag
      BY <1>6, <1>7, <2>2, <3>1
    <3>3. e # 0
      BY <1>6, <2>2
    <3> QED
      BY <2>2, <3>1, <3>2, <3>3
  <2>3. CASE e \in new
    <3>1. k \in new /\ k > e /\ s2[k].up # 0 /\ (s2[k].up = e \/ s2[e].up = 0)
      BY <1>3, <2>3
    <3>2. s2[k].tag = k /\ s2[e].tag = e /\ e # r /\ k \in 1 .. m
      BY <1>3, <1>5, <1>7, <2>3, <3>1
    <3> QED
      BY <3>1, <3>2
  <2>4. e \in 1 .. n => k \in Range(s[e].kids) \/ (k \in new /\ s2[k].up = e)
    BY <1>2
  <2> QED
    BY <1>7, <2>1, <2>2, <2>3, <2>4
<1>11. ASSUME NEW e \in 1 .. m, NEW k \in Range(s2[e].kids), NEW l \in Range(s2[e].kids),
              s2[k].param > 0, s2[k].param = s2[l].param
       PROVE  k = l
  <2>1. CASE e \in 1 .. n
    <3>1. /\ k \in Range(s[e].kids) \/ (k \in new /\ s2[k].up = e)
          /\ l \in Range(s[e].kids) \/ (l \in new /\ s2[l].up = e)
      BY <1>2, <2>1
    <3>2. \A x \in Range(s[e].kids) : x \in 1 .. n
      BY <1>5, <2>1
    <3>3. CASE k \in Range(s[e].kids) /\ l \in Range(s[e].kids)
      <4>1. s2[k].param = s[k].param /\ s2[l].param = s[l].param
        BY <1>2, <3>2, <3>3
      <4>2. s[k].param > 0 /\ s[k].param = s[l].param
        BY <1>11, <4>1
      <4> QED
        BY <1>5, <2>1, <3>3, <4>2
    <3>4. CASE k \in new /\ l \in new
      BY <1>4, <1>11, <3>4
    <3>5. ASSUME NEW x \in new, NEW y \in Range(s[e].kids), s2[x].up = e, s2[x].param > 0,
                 s2[x].param = s2[y].param
          PROVE  FALSE
      <4>1. s[y].param = 0
        BY <1>4, <3>5
      <4>2. s2[y].param = 0
        BY <1>2, <3>2, <4>1
      <4> QED
        BY <3>5, <4>2
    <3>6. s2[l].param > 0
      BY <1>11
    <3>7. ~(k \in new /\ s2[k].up = e /\ l \in Range(s[e].kids))
      BY <1>11, <3>5
    <3>8. ~(l \in new /\ s2[l].up = e /\ k \in Range(s[e].kids))
      BY <1>11, <3>5, <3>6
    <3> QED
      BY <3>1, <3>3, <3>4, <3>7, <3>8
  <2>2. CASE e \in new
    <3>1. k \in new /\ l \in new
      BY <1>3, <2>2
    <3> QED
      BY <1>4, <1>11, <3>1
  <2> QED
    BY <1>7, <2>1, <2>2
<1>12. ASSUME NEW t \in 1 .. m
       PROVE  \E e \in 1 .. m : s2[e].tag = t
  <2>1. CASE t \in 1 .. n
    <3>1. PICK e \in 1 .. n : s[e].tag = t
      BY <1>5, <2>1
    <3> QED
      BY <1>2, <1>7, <3>1
  <2>2. CASE t \in new
    BY <1>3, <2>2
  <2> QED
    BY <1>7, <2>1, <2>2
<1>13. ASSUME NEW e \in 1 .. m, NEW x \in 1 .. m, s2[e].tag = s2[x].tag
       PROVE  e = x
  <2>1. CASE e \in 1 .. n /\ x \in 1 .. n
    BY <1>2, <1>5, <1>13, <2>1
  <2>2. CASE e \in new /\ x \in new
    BY <1>3, <1>13, <2>2
  <2>3. ASSUME NEW a \in 1 .. n, NEW b \in new
        PROVE  s2[a].tag # s2[b].tag
    <3>1. s2[a].tag \in 1 .. n /\ s2[b].tag \in new
      BY <1>2, <1>3, <1>5
    <3> QED
      BY <1>7, <3>1
  <2> QED
    BY <1>7, <1>13, <2>1, <2>2, <2>3
<1>14. r \in 1 .. m /\ s2[r].up = 0
  BY <1>2, <1>5, <1>7
<1>15. \A e \in 1 .. m :
         /\ s2[e].up \in 0 .. m /\ s2[e].ref \in 0 .. m /\ s2[e].tag \in 1 .. m
         /\ s2[e].up # 0 => e \in Range(s2[s2[e].up].kids)
         /\ IsInjective(s2[e].kids)
         /\ \A k \in Range(s2[e].kids) :
              /\ k \in 1 .. m /\ s2[k].tag > s2[e].tag
              /\ s2[k].up # 0 /\ (s2[k].up = e \/ (s2[e].up = 0 /\ e # r))
         /\ \A k, l \in Range(s2[e].kids) :
              s2[k].param > 0 /\ s2[k].param = s2[l].param => k = l
  BY <1>1, <1>8, <1>9, <1>10, <1>11
<1>16. /\ \A t \in 1 .. m : \E e \in 1 .. m : s2[e].tag = t
       /\ \A e, x \in 1 .. m : s2[e].tag = s2[x].tag => e = x
  BY <1>12, <1>13
<1> QED
  BY <1>1, <1>14, <1>15, <1>16 DEF Structured, m

\* What creates one entity at the end of a block.
LEMMA OneMoreIs ==
  ASSUME NEW s, NEW r, Structured(s, r), NEW b \in 1 .. Len(s), NEW x \in Node,
         x.tag = Len(s) + 1, x.up = b, x.ref \in 0 .. Len(s), x.kids = <<>>, x.param = 0
  PROVE  /\ Structured(Append([s EXCEPT ![b].kids = Append(@, Len(s) + 1)], x), r)
         /\ Len(Append([s EXCEPT ![b].kids = Append(@, Len(s) + 1)], x)) = Len(s) + 1
<1> DEFINE n == Len(s)
           s1 == [s EXCEPT ![b].kids = Append(@, n + 1)]
           s2 == Append(s1, x)
           new == n + 1 .. Len(s2)
<1>0. n \in Nat /\ s \in Seq(Node) /\ DOMAIN s = 1 .. n
  BY DEF Structured
<1>1. \A e \in 1 .. n : /\ s[e] \in Node /\ s[e].up \in 0 .. n /\ s[e].ref \in 0 .. n
                        /\ s[e].kids \in Seq(Nat) /\ IsInjective(s[e].kids)
                        /\ Range(s[e].kids) \subseteq 1 .. n
  BY NodeIs
<1> DEFINE ks == Append(s[b].kids, n + 1)
<1>2. /\ ks \in Seq(Nat) /\ IsInjective(ks) /\ Range(ks) = Range(s[b].kids) \cup {n + 1}
  <2>1. n + 1 \in Nat /\ n + 1 \notin Range(s[b].kids)
    <3>1. Range(s[b].kids) \subseteq 1 .. n
      BY <1>1
    <3>2. n + 1 \in Nat /\ n + 1 \notin 1 .. n
      BY <1>0
    <3> QED
      BY <3>1, <3>2
  <2> QED
    BY <1>1, <2>1, AppendIs
<1>3. /\ s1 \in Seq(Node) /\ Len(s1) = n
      /\ \A e \in 1 .. n : e # b => s1[e] = s[e]
      /\ /\ s1[b].tag = s[b].tag /\ s1[b].up = s[b].up /\ s1[b].param = s[b].param
         /\ s1[b].ref = s[b].ref /\ s1[b].kids = ks
  <2>0. s[b] \in Node
    BY <1>1
  <2> DEFINE v == [s[b] EXCEPT !.kids = ks]
  <2>1. /\ v \in Node /\ v.tag = s[b].tag /\ v.up = s[b].up /\ v.param = s[b].param
        /\ v.ref = s[b].ref /\ v.kids = ks
    <3> HIDE DEF ks
    <3> QED
      BY <1>2, <2>0 DEF Node
  <2>2. s1 = [s EXCEPT ![b] = v]
    OBVIOUS
  <2> HIDE DEF v, s1, n
  <2> QED
    BY <1>0, <2>1, <2>2
<1> HIDE DEF ks
<1>4. /\ s2 \in Seq(Node) /\ Len(s2) = n + 1 /\ s2[n + 1] = x
      /\ \A e \in 1 .. n : s2[e] = s1[e]
  BY <1>3, AppendProperties
<1> HIDE DEF s1, s2
<1>5. /\ \A e \in 1 .. n + 1 : e \in 1 .. n \/ e = n + 1
      /\ \A e \in new : e = n + 1
      /\ n + 1 \in new /\ b # n + 1 /\ ~(b > n)
  BY <1>0, <1>4
<1>6. ASSUME NEW e \in 1 .. n
      PROVE  /\ s2[e].tag = s[e].tag /\ s2[e].up = s[e].up
             /\ s2[e].param = s[e].param /\ s2[e].ref = s[e].ref
             /\ e # b => s2[e].kids = s[e].kids
             /\ e = b => s2[e].kids = ks
  <2>1. CASE e = b
    BY <1>3, <1>4, <2>1
  <2>2. CASE e # b
    <3>1. s2[e] = s[e]
      BY <1>3, <1>4, <2>2
    <3> QED
      BY <2>2, <3>1
  <2> QED
    BY <2>1, <2>2
<1>7. ASSUME NEW e \in 1 .. n
      PROVE  /\ IsInjective(s2[e].kids)
             /\ Range(s2[e].kids) = Range(s[e].kids) \cup { z \in new : s2[z].up = e }
  <2>1. CASE e = b
    <3>1. { z \in new : s2[z].up = e } = {n + 1}
      BY <1>4, <1>5, <2>1
    <3> QED
      BY <1>2, <1>6, <2>1, <3>1
  <2>2. CASE e # b
    <3>1. { z \in new : s2[z].up = e } = {}
      BY <1>4, <1>5, <2>2
    <3>2. s2[e].kids = s[e].kids
      BY <1>6, <2>2
    <3>3. IsInjective(s[e].kids)
      BY <1>1
    <3> QED
      BY <3>1, <3>2, <3>3
  <2> QED
    BY <2>1, <2>2
<1>8. IsInjective(<<>>) /\ Range(<<>>) = {}
  BY DEF IsInjective, Range
<1>9. ASSUME NEW e \in 1 .. n + 1
      PROVE  /\ s2[e].up \in 0 .. n + 1 /\ s2[e].ref \in 0 .. n + 1 /\ IsInjective(s2[e].kids)
  <2>1. CASE e \in 1 .. n
    <3>1. s[e].up \in 0 .. n /\ s[e].ref \in 0 .. n
      BY <1>1, <2>1
    <3>2. s2[e].up \in 0 .. n /\ s2[e].ref \in 0 .. n
      BY <1>6, <2>1, <3>1
    <3> QED
      BY <1>0, <1>7, <2>1, <3>2
  <2>2. CASE e = n + 1
    BY <1>0, <1>4, <1>8, <2>2
  <2> QED
    BY <1>5, <2>1, <2>2
<1>10. ASSUME NEW z \in new
       PROVE  /\ s2[z].tag = z /\ ~(s2[z].up > n) /\ Range(s2[z].kids) = {}
              /\ ~(s2[z].param > 0) /\ \A y \in new : y = z
  <2>1. z = n + 1 /\ s2[z] = x
    BY <1>4, <1>5
  <2> QED
    BY <1>5, <1>8, <2>1
<1>11. Extends(s2, s)
  <2>1. ASSUME NEW e \in 1 .. n
        PROVE  /\ s2[e].tag = s[e].tag /\ s2[e].up = s[e].up /\ s2[e].param = s[e].param
               /\ Range(s2[e].kids) = Range(s[e].kids) \cup { z \in new : s2[z].up = e }
    <3>1. Range(s2[e].kids) = Range(s[e].kids) \cup { z \in new : s2[z].up = e }
      BY <1>7
    <3> HIDE DEF new
    <3> QED
      BY <1>6, <3>1
  <2>2. Len(s2) >= n
    BY <1>0, <1>4
  <2>3. \A e \in 1 .. Len(s2) : /\ s2[e].up \in 0 .. Len(s2) /\ s2[e].ref \in 0 .. Len(s2)
                               /\ IsInjective(s2[e].kids)
    BY <1>4, <1>9
  <2>4. \A z \in new :
          /\ s2[z].tag = z
          /\ s2[z].up > n => z \in Range(s2[s2[z].up].kids)
          /\ \A k \in Range(s2[z].kids) :
               /\ k \in new /\ k > z /\ s2[k].up # 0 /\ (s2[k].up = z \/ s2[z].up = 0)
          /\ s2[z].param > 0 =>
               /\ s2[z].up \in 1 .. n
               /\ \A k \in Range(s[s2[z].up].kids) : s[k].param = 0
          /\ \A y \in new : s2[z].param > 0 /\ s2[y].param = s2[z].param => y = z
    BY <1>10
  <2> QED
    BY <1>4, <2>1, <2>2, <2>3, <2>4 DEF Extends
<1> QED
  BY <1>4, <1>11, ExtendsKeeps DEF s1, s2

\* Two elements more.
LEMMA PlusTwo ==
  ASSUME NEW S, NEW a \in Seq(S), NEW x \in S, NEW y \in S
  PROVE  /\ a \o <<x, y>> \in Seq(S) /\ Len(a \o <<x, y>>) = Len(a) + 2
         /\ \A i \in 1 .. Len(a) : (a \o <<x, y>>)[i] = a[i]
         /\ (a \o <<x, y>>)[Len(a) + 1] = x /\ (a \o <<x, y>>)[Len(a) + 2] = y
<1> DEFINE p == <<x, y>>
           q == a \o p
<1>1. p \in Seq(S) /\ Len(p) = 2 /\ p[1] = x /\ p[2] = y /\ Len(a) \in Nat
  OBVIOUS
<1> HIDE DEF p
<1>2. /\ q \in Seq(S) /\ Len(q) = Len(a) + Len(p)
      /\ \A i \in 1 .. Len(a) + Len(p) : q[i] = IF i <= Len(a) THEN a[i] ELSE p[i - Len(a)]
  BY <1>1, ConcatProperties
<1> HIDE DEF q
<1>3. \A i \in 1 .. Len(a) : q[i] = a[i]
  BY <1>1, <1>2
<1>4. q[Len(a) + 1] = p[1] /\ q[Len(a) + 2] = p[2]
  BY <1>1, <1>2
<1> QED
  BY <1>1, <1>2, <1>3, <1>4 DEF q, p

\* x and y are created behind n entities; x may be a block without a parent
\* that lists y.
Pair(n, x, y) ==
  /\ x \in Node /\ x.tag = n + 1 /\ x.param = 0 /\ x.up \in 0 .. n /\ x.ref \in 0 .. n
  /\ y \in Node /\ y.tag = n + 2 /\ y.param = 0 /\ y.up \in 0 .. n + 1 /\ y.ref \in 0 .. n
  /\ y.kids = <<>> /\ (y.up = n + 1 => x.kids = <<n + 2>>)
  /\ x.kids = <<>> \/ (x.kids = <<n + 2>> /\ x.up = 0 /\ y.up # 0)

\* s1 is s with x and y in the lists of their parents.
Listed(s1, s, n, x, y) ==
  /\ s1 \in Seq(Node) /\ Len(s1) = n
  /\ \A e \in 1 .. n :
       /\ s1[e].tag = s[e].tag /\ s1[e].up = s[e].up /\ s1[e].param = s[e].param
       /\ s1[e].ref \in 0 .. n /\ IsInjective(s1[e].kids)
       /\ Range(s1[e].kids) = Range(s[e].kids) \cup { z \in {n + 1} : x.up = e }
                                               \cup { z \in {n + 2} : y.up = e }

LEMMA TwoMoreIs ==
  ASSUME NEW s, NEW r, Structured(s, r), NEW s1, NEW x, NEW y,
         Pair(Len(s), x, y), Listed(s1, s, Len(s), x, y)
  PROVE  Structured(s1 \o <<x, y>>, r) /\ Len(s1 \o <<x, y>>) = Len(s) + 2
<1> DEFINE n == Len(s)
           s2 == s1 \o <<x, y>>
           new == n + 1 .. Len(s2)
<1>0. n \in Nat
  BY DEF Structured
<1>1. \A e \in 1 .. n : s[e].up \in 0 .. n
  BY NodeIs
<1> HIDE DEF n
<1>10. Pair(n, x, y) /\ Listed(s1, s, n, x, y)
  BY DEF n
<1>11. s1 \in Seq(Node) /\ Len(s1) = n /\ x \in Node /\ y \in Node
  BY <1>10 DEF Pair, Listed
<1>2. /\ s2 \in Seq(Node) /\ Len(s2) = n + 2
      /\ \A e \in 1 .. n : s2[e] = s1[e]
      /\ s2[n + 1] = x /\ s2[n + 2] = y
  <2>1. /\ s2 \in Seq(Node) /\ Len(s2) = Len(s1) + 2
        /\ \A i \in 1 .. Len(s1) : s2[i] = s1[i]
        /\ s2[Len(s1) + 1] = x /\ s2[Len(s1) + 2] = y
    BY <1>11, PlusTwo
  <2> HIDE DEF s2
  <2> QED
    BY <1>11, <2>1
<1> HIDE DEF s2
<1>3. /\ \A e \in 1 .. n + 2 : e \in 1 .. n \/ e = n + 1 \/ e = n + 2
      /\ new = {n + 1, n + 2}
      /\ \A e \in 0 .. n : e \in 0 .. n + 2 /\ ~(e > n)
      /\ \A e \in 0 .. n + 1 : e \in 0 .. n + 2 /\ (e > n => e = n + 1)
  <2>1. new = n + 1 .. n + 2
    BY <1>2
  <2>2. n + 1 .. n + 2 = {n + 1, n + 2}
    BY <1>0
  <2>3. \A e \in 1 .. n + 2 : e \in 1 .. n \/ e = n + 1 \/ e = n + 2
    BY <1>0
  <2>4. \A e \in 0 .. n : e \in 0 .. n + 2 /\ ~(e > n)
    BY <1>0
  <2>5. \A e \in 0 .. n + 1 : e \in 0 .. n + 2 /\ (e > n => e = n + 1)
    BY <1>0
  <2> QED
    BY <2>1, <2>2, <2>3, <2>4, <2>5
<1>4. ASSUME NEW e \in 1 .. n
      PROVE  /\ s2[e].tag = s[e].tag /\ s2[e].up = s[e].up /\ s2[e].param = s[e].param
             /\ s2[e].ref \in 0 .. n /\ IsInjective(s2[e].kids)
             /\ Range(s2[e].kids) = Range(s[e].kids) \cup { z \in new : s2[z].up = e }
  <2>1. s2[e] = s1[e]
    BY <1>2
  <2>2. { z \in new : s2[z].up = e } = { z \in {n + 1} : x.up = e } \cup { z \in {n + 2} : y.up = e }
    BY <1>2, <1>3
  <2>3. /\ s1[e].tag = s[e].tag /\ s1[e].up = s[e].up /\ s1[e].param = s[e].param
        /\ s1[e].ref \in 0 .. n /\ IsInjective(s1[e].kids)
        /\ Range(s1[e].kids) = Range(s[e].kids) \cup { z \in {n + 1} : x.up = e }
                                                \cup { z \in {n + 2} : y.up = e }
    BY <1>10 DEF Listed
  <2> HIDE DEF new
  <2> QED
    BY <2>1, <2>2, <2>3
<1>5. /\ IsInjective(<<>>) /\ Range(<<>>) = {}
      /\ IsInjective(<<n + 2>>) /\ Range(<<n + 2>>) = {n + 2}
  BY DEF IsInjective, Range
<1>6. ASSUME NEW e \in 1 .. n + 2
      PROVE  s2[e].up \in 0 .. n + 2 /\ s2[e].ref \in 0 .. n + 2 /\ IsInjective(s2[e].kids)
  <2>1. CASE e \in 1 .. n
    <3>1. s2[e].up \in 0 .. n /\ s2[e].ref \in 0 .. n /\ IsInjective(s2[e].kids)
      BY <1>1, <1>4, <2>1
    <3> QED
      BY <1>3, <3>1
  <2>2. CASE e = n + 1
    <3>1. x.up \in 0 .. n /\ x.ref \in 0 .. n /\ IsInjective(x.kids)
      BY <1>5, <1>10 DEF Pair
    <3> QED
      BY <1>2, <1>3, <2>2, <3>1
  <2>3. CASE e = n + 2
    <3>1. y.up \in 0 .. n + 1 /\ y.ref \in 0 .. n /\ IsInjective(y.kids)
      BY <1>5, <1>10 DEF Pair
    <3> QED
      BY <1>2, <1>3, <2>3, <3>1
  <2> QED
    BY <1>3, <2>1, <2>2, <2>3
<1>7. ASSUME NEW z \in new
      PROVE  /\ s2[z].tag = z /\ s2[z].param = 0
             /\ s2[z].up > n => z \in Range(s2[s2[z].up].kids)
             /\ \A k \in Range(s2[z].kids) :
                  /\ k \in new /\ k > z /\ s2[k].up # 0 /\ (s2[k].up = z \/ s2[z].up = 0)
  <2>1. CASE z = n + 1
    <3>1. s2[z] = x /\ ~(x.up > n) /\ x.tag = n + 1 /\ x.param = 0
      BY <1>2, <1>3, <1>10, <2>1 DEF Pair
    <3>2. \A k \in Range(x.kids) : k = n + 2 /\ x.up = 0 /\ y.up # 0
      BY <1>5, <1>10 DEF Pair
    <3>3. n + 2 > n + 1 /\ s2[n + 2] = y
      BY <1>0, <1>2
    <3> QED
      BY <1>3, <2>1, <3>1, <3>2, <3>3
  <2>2. CASE z = n + 2
    <3>1. s2[z] = y /\ Range(y.kids) = {} /\ y.tag = n + 2 /\ y.param = 0
      BY <1>2, <1>5, <1>10, <2>2 DEF Pair
    <3>2. y.up > n => y.up = n + 1 /\ n + 2 \in Range(x.kids)
      BY <1>3, <1>5, <1>10 DEF Pair
    <3> QED
      BY <1>2, <2>2, <3>1, <3>2
  <2> QED
    BY <1>3, <2>1, <2>2
<1> USE DEF n
<1>8. Extends(s2, s)
  <2>1. ASSUME NEW e \in 1 .. Len(s)
        PROVE  /\ s2[e].tag = s[e].tag /\ s2[e].up = s[e].up /\ s2[e].param = s[e].param
               /\ Range(s2[e].kids) = Range(s[e].kids) \cup { z \in new : s2[z].up = e }
    BY <1>4
  <2>2. Len(s2) >= Len(s)
    BY <1>0, <1>2
  <2>3. \A e \in 1 .. Len(s2) : /\ s2[e].up \in 0 .. Len(s2) /\ s2[e].ref \in 0 .. Len(s2)
                               /\ IsInjective(s2[e].kids)
    BY <1>2, <1>6
  <2>4. ASSUME NEW z \in new
        PROVE  /\ s2[z].tag = z
               /\ s2[z].up > Len(s) => z \in Range(s2[s2[z].up].kids)
               /\ \A k \in Range(s2[z].kids) :
                    /\ k \in new /\ k > z /\ s2[k].up # 0 /\ (s2[k].up = z \/ s2[z].up = 0)
               /\ ~(s2[z].param > 0)
    <3>1. s2[z].param = 0
      BY <1>7
    <3> QED
      BY <1>7, <3>1
  <2>5. new = Len(s) + 1 .. Len(s2)
    OBVIOUS
  <2> HIDE DEF new
  <2> QED
    BY <1>2, <2>1, <2>2, <2>3, <2>4, <2>5 DEF Extends
<1> QED
  BY <1>2, <1>8, ExtendsKeeps DEF s2

\* The elements of a concatenation.
LEMMA Concatenated ==
  ASSUME NEW S, NEW a \in Seq(S), NEW b \in Seq(S)
  PROVE  /\ a \o b \in Seq(S) /\ Len(a \o b) = Len(a) + Len(b)
         /\ \A i \in 1 .. Len(a) : (a \o b)[i] = a[i]
         /\ \A i \in 1 .. Len(b) : (a \o b)[Len(a) + i] = b[i]
<1> DEFINE c == a \o b
<1>1. Len(a) \in Nat /\ Len(b) \in Nat
  OBVIOUS
<1>2. /\ c \in Seq(S) /\ Len(c) = Len(a) + Len(b)
      /\ \A i \in 1 .. Len(a) + Len(b) : c[i] = IF i <= Len(a) THEN a[i] ELSE b[i - Len(a)]
  BY ConcatProperties
<1> HIDE DEF c
<1>3. \A i \in 1 .. Len(a) : c[i] = a[i]
  BY <1>1, <1>2
<1>4. ASSUME NEW i \in 1 .. Len(b)
      PROVE  c[Len(a) + i] = b[i]
  <2> DEFINE j == Len(a) + i
  <2>1. j \in 1 .. Len(a) + Len(b) /\ ~(j <= Len(a)) /\ j - Len(a) = i
    BY <1>1
  <2> HIDE DEF j
  <2>2. c[j] = b[j - Len(a)]
    BY <1>2, <2>1
  <2> QED
    BY <2>1, <2>2 DEF j
<1> QED
  BY <1>2, <1>3, <1>4 DEF c

(***************************************************************************)
(* What no edit undoes.                                                    *)
(***************************************************************************)
\* What was in list l, with ids up to n, has kept its order in l2.
Keeps(l2, l, n) ==
  \A i, j \in 1 .. Len(l2) : i < j /\ l2[i] <= n /\ l2[j] <= n => Precedes(l, l2[i], l2[j])

\* Nothing has come before the third element of l.
Starts(l2, l) == Len(l2) >= 3 /\ \A i \in 1 .. 3 : l2[i] = l[i]

\* The builtins come first in the root, and no user has added to them.
Builtins(s, r) ==
  /\ ~s[r].fn /\ Len(s[r].kids) >= 3
  /\ s[s[r].kids[1]].tag = 2 /\ s[s[r].kids[2]].tag = 3 /\ s[s[r].kids[3]].tag = 4
  /\ \A e \in 1 .. Len(s) :
       /\ s[e].tag \in {2, 3, 5} => ~s[e].fn /\ Len(s[e].kids) = 0
       /\ s[e].tag = 4 => /\ ~s[e].fn /\ Len(s[e].kids) = 1
                          /\ s[s[e].kids[1]].tag = 5

\* s2 is s after an edit.
Edit(s2, s, r) ==
  /\ Len(s2) >= Len(s)
  /\ \A e \in 1 .. Len(s) :
       /\ s2[e].tag = s[e].tag /\ s2[e].up = s[e].up /\ s2[e].fn = s[e].fn
       /\ s2[e].param = s[e].param
       /\ Keeps(s2[e].kids, s[e].kids, Len(s))
       /\ s[e].tag \in BuiltinTags => s2[e].kids = s[e].kids
  /\ Builtins(s, r) => Starts(s2[r].kids, s[r].kids)
  /\ \A x \in Len(s) + 1 .. Len(s2) :
       /\ s2[x].tag = x
       /\ s2[x].fn => Len(s2[x].kids) = 0 /\ s2[x].up \in Range(WalkOrder(s, r))

LEMMA KeepsAll ==
  ASSUME NEW l, NEW n
  PROVE  Keeps(l, l, n)
BY DEF Keeps, Precedes

LEMMA InsertKeeps ==
  ASSUME NEW l \in Seq(Nat), IsInjective(l), NEW x \in Nat, x \notin Range(l),
         NEW at \in 1 .. Len(l) + 1, NEW n \in Nat, x > n
  PROVE  /\ Keeps(InsertAt(l, at, x), l, n)
         /\ at > 3 => Starts(InsertAt(l, at, x), l)
<1> DEFINE v == InsertAt(l, at, x)
           k == Len(l)
<1>1. /\ Len(v) = k + 1 /\ k \in Nat /\ at \in 1 .. k + 1
      /\ \A i \in 1 .. k + 1 : v[i] = IF i < at THEN l[i] ELSE IF i = at THEN x ELSE l[i - 1]
  BY InsertIs
<1> HIDE DEF v, k
<1>2. ASSUME NEW i \in 1 .. k + 1, NEW j \in 1 .. k + 1, i < j, v[i] <= n, v[j] <= n
      PROVE  \E p, q \in 1 .. k : p < q /\ l[p] = v[i] /\ l[q] = v[j]
  <2> DEFINE p == IF i < at THEN i ELSE i - 1
             q == IF j < at THEN j ELSE j - 1
  <2>1. i # at /\ j # at
    BY <1>1, <1>2
  <2>2. p \in 1 .. k /\ q \in 1 .. k /\ p < q
    BY <1>1, <1>2, <2>1
  <2>3. l[p] = v[i] /\ l[q] = v[j]
    BY <1>1, <2>1
  <2> QED
    BY <2>2, <2>3
<1>3. Keeps(v, l, n)
  BY <1>1, <1>2 DEF Keeps, Precedes, k
<1>4. at > 3 => Starts(v, l)
  BY <1>1 DEF Starts
<1> QED
  BY <1>3, <1>4 DEF v

LEMMA AppendKeeps ==
  ASSUME NEW l \in Seq(Nat), NEW n \in Nat
  PROVE  /\ Keeps(Append(l, n + 1), l, n)
         /\ Len(l) >= 3 => Starts(Append(l, n + 1), l)
<1> DEFINE v == Append(l, n + 1)
           k == Len(l)
<1>1. /\ Len(v) = k + 1 /\ k \in Nat
      /\ \A i \in 1 .. k : v[i] = l[i]
      /\ v[k + 1] = n + 1
  BY AppendProperties
<1> HIDE DEF v, k
<1>2. ASSUME NEW i \in 1 .. k + 1, NEW j \in 1 .. k + 1, i < j, v[i] <= n, v[j] <= n
      PROVE  \E p, q \in 1 .. k : p < q /\ l[p] = v[i] /\ l[q] = v[j]
  <2>1. i # k + 1 /\ j # k + 1
    BY <1>1, <1>2
  <2>2. i \in 1 .. k /\ j \in 1 .. k
    BY <1>1, <2>1
  <2> QED
    BY <1>1, <1>2, <2>2
<1>3. Keeps(v, l, n)
  BY <1>1, <1>2 DEF Keeps, Precedes, k
<1>4. k >= 3 => Starts(v, l)
  BY <1>1 DEF Starts
<1> QED
  BY <1>3, <1>4 DEF v, k

LEMMA FrontKeeps ==
  ASSUME NEW l \in Seq(Nat), NEW n \in Nat, NEW front \in Seq(Nat),
         \A i \in 1 .. Len(front) : front[i] > n
  PROVE  Keeps(front \o l, l, n)
<1> DEFINE v == front \o l
           k == Len(l)
           m == Len(front)
<1>1. /\ Len(v) = m + k /\ k \in Nat /\ m \in Nat
      /\ \A i \in 1 .. m + k : v[i] = IF i <= m THEN front[i] ELSE l[i - m]
  BY ConcatProperties
<1>0. \A i \in 1 .. m : front[i] > n /\ front[i] \in Nat
  BY ElementOfSeq
<1> HIDE DEF v, k, m
<1>2. ASSUME NEW i \in 1 .. m + k, NEW j \in 1 .. m + k, i < j, v[i] <= n, v[j] <= n
      PROVE  \E p, q \in 1 .. k : p < q /\ l[p] = v[i] /\ l[q] = v[j]
  <2> DEFINE p == i - m
             q == j - m
  <2>1. ~(i <= m)
    <3> SUFFICES ASSUME i <= m
                 PROVE  FALSE
      OBVIOUS
    <3>1. i \in 1 .. m /\ v[i] = front[i]
      BY <1>1
    <3> QED
      BY <1>0, <1>2, <3>1
  <2>2. ~(j <= m)
    BY <1>1, <1>2, <2>1
  <2>3. p \in 1 .. k /\ q \in 1 .. k /\ p < q
    BY <1>1, <1>2, <2>1, <2>2
  <2>4. l[p] = v[i] /\ l[q] = v[j]
    BY <1>1, <2>1, <2>2
  <2> QED
    BY <2>3, <2>4
<1>3. Keeps(v, l, n)
  BY <1>1, <1>2 DEF Keeps, Precedes, k
<1> QED
  BY <1>3 DEF v

\* s1 is s with list l in block b.
Relisted(s1, s, b, l) ==
  /\ s1 \in Seq(Node) /\ Len(s1) = Len(s)
  /\ \A a \in 1 .. Len(s) :
       /\ s1[a].tag = s[a].tag /\ s1[a].up = s[a].up /\ s1[a].fn = s[a].fn
       /\ s1[a].param = s[a].param /\ s1[a].kids = IF a = b THEN l ELSE s[a].kids

\* The entities created behind n others: a function is in T, and is empty yet.
Created(new, n, T) ==
  /\ new \in Seq(Node)
  /\ \A i \in 1 .. Len(new) :
       /\ new[i].tag = n + i
       /\ new[i].fn => Len(new[i].kids) = 0 /\ new[i].up \in T

\* Each edit rewrites the list of one block b and creates entities.
LEMMA EditIs ==
  ASSUME NEW s, NEW r, Structured(s, r), NEW b \in 1 .. Len(s), NEW l,
         NEW s1, Relisted(s1, s, b, l),
         Keeps(l, s[b].kids, Len(s)), s[b].tag \in BuiltinTags => l = s[b].kids,
         Builtins(s, r) /\ b = r => Starts(l, s[r].kids),
         NEW new, Created(new, Len(s), Range(WalkOrder(s, r)))
  PROVE  Edit(s1 \o new, s, r)
<1> USE DEF Relisted, Created
<1> DEFINE n == Len(s)
           m == Len(new)
           s2 == s1 \o new
           W == Range(WalkOrder(s, r))
<1>0. n \in Nat /\ m \in Nat /\ r \in 1 .. n
  BY DEF Structured
<1>1. /\ Len(s2) = n + m /\ \A a \in 1 .. n : s2[a] = s1[a]
      /\ \A i \in 1 .. m : s2[n + i] = new[i]
  <2> DEFINE k == Len(s1)
  <2>0. s1 \in Seq(Node) /\ new \in Seq(Node)
    OBVIOUS
  <2>1. /\ Len(s2) = k + m /\ \A a \in 1 .. k : s2[a] = s1[a]
        /\ \A i \in 1 .. m : s2[k + i] = new[i]
    BY ONLY <2>0, Concatenated
  <2>2. k = n
    OBVIOUS
  <2> HIDE DEF s2, k, n, m
  <2> QED
    BY <2>1, <2>2
<1> HIDE DEF n, m, s2, W
<1>2. \A a \in 1 .. n :
        /\ s2[a].tag = s[a].tag /\ s2[a].up = s[a].up /\ s2[a].fn = s[a].fn
        /\ s2[a].param = s[a].param /\ s2[a].kids = IF a = b THEN l ELSE s[a].kids
  BY <1>1 DEF n
<1>3. \A a \in 1 .. n : /\ Keeps(s2[a].kids, s[a].kids, n)
                        /\ s[a].tag \in BuiltinTags => s2[a].kids = s[a].kids
  <2> SUFFICES ASSUME NEW a \in 1 .. n
               PROVE  /\ Keeps(s2[a].kids, s[a].kids, n)
                      /\ s[a].tag \in BuiltinTags => s2[a].kids = s[a].kids
    OBVIOUS
  <2>1. CASE a = b
    BY <1>2, <2>1 DEF n
  <2>2. CASE a # b
    BY <1>2, <2>2, KeepsAll
  <2> QED
    BY <2>1, <2>2
<1>4. Builtins(s, r) => Starts(s2[r].kids, s[r].kids)
  <2> SUFFICES ASSUME Builtins(s, r)
               PROVE  Starts(s2[r].kids, s[r].kids)
    OBVIOUS
  <2>1. CASE b = r
    BY <1>0, <1>2, <2>1
  <2>2. CASE b # r
    BY <1>0, <1>2, <2>2 DEF Starts, Builtins
  <2> QED
    BY <2>1, <2>2
<1>5. ASSUME NEW x \in n + 1 .. Len(s2)
      PROVE  /\ s2[x].tag = x
             /\ s2[x].fn => Len(s2[x].kids) = 0 /\ s2[x].up \in W
  <2> DEFINE i == x - n
  <2>1. i \in 1 .. m /\ n + i = x
    BY <1>0, <1>1
  <2> HIDE DEF i
  <2>2. s2[x] = new[i]
    BY <1>1, <2>1
  <2>3. new[i].tag = n + i /\ (new[i].fn => Len(new[i].kids) = 0 /\ new[i].up \in W)
    BY <2>1 DEF n, m, W
  <2> QED
    BY <2>1, <2>2, <2>3
<1>6. Len(s2) >= n
  BY <1>0, <1>1
<1>7. Edit(s2, s, r)
  BY <1>2, <1>3, <1>4, <1>5, <1>6 DEF Edit, n, W
<1> QED
  BY <1>7 DEF s2

\* What the constructors of entities make.
LEMMA LeafMade ==
  ASSUME NEW t \in Nat, NEW u \in Nat, NEW x \in Nat
  PROVE  /\ Leaf(t, u, x) \in Node /\ Leaf(t, u, x).tag = t /\ Leaf(t, u, x).up = u
         /\ Leaf(t, u, x).ref = x /\ Leaf(t, u, x).kids = <<>> /\ Leaf(t, u, x).param = 0 /\ ~Leaf(t, u, x).fn
<1>1. <<>> \in Seq(Nat)
  OBVIOUS
<1> QED
  BY <1>1 DEF Leaf, Node

\* The two entities an edit may append to n of them.
LEMMA LeafAfter ==
  ASSUME NEW n \in Nat, NEW u \in Nat, NEW x \in Nat
  PROVE  /\ Leaf(n + 1, u, x) \in Node /\ Leaf(n + 1, u, x).tag = n + 1
         /\ Leaf(n + 1, u, x).up = u /\ Leaf(n + 1, u, x).ref = x
         /\ Leaf(n + 1, u, x).kids = <<>> /\ Leaf(n + 1, u, x).param = 0 /\ ~Leaf(n + 1, u, x).fn
         /\ Leaf(n + 2, u, x) \in Node /\ Leaf(n + 2, u, x).tag = n + 2
         /\ Leaf(n + 2, u, x).up = u /\ Leaf(n + 2, u, x).ref = x
         /\ Leaf(n + 2, u, x).kids = <<>> /\ Leaf(n + 2, u, x).param = 0 /\ ~Leaf(n + 2, u, x).fn
<1> DEFINE a == n + 1
           b == n + 2
<1>1. a \in Nat /\ b \in Nat
  OBVIOUS
<1> HIDE DEF a, b
<1>2. /\ Leaf(a, u, x) \in Node /\ Leaf(a, u, x).tag = a /\ Leaf(a, u, x).up = u
      /\ Leaf(a, u, x).ref = x /\ Leaf(a, u, x).kids = <<>> /\ Leaf(a, u, x).param = 0 /\ ~Leaf(a, u, x).fn
  BY <1>1, LeafMade
<1>3. /\ Leaf(b, u, x) \in Node /\ Leaf(b, u, x).tag = b /\ Leaf(b, u, x).up = u
      /\ Leaf(b, u, x).ref = x /\ Leaf(b, u, x).kids = <<>> /\ Leaf(b, u, x).param = 0 /\ ~Leaf(b, u, x).fn
  BY <1>1, LeafMade
<1> QED
  BY <1>2, <1>3 DEF a, b

LEMMA ParamMade ==
  ASSUME NEW t \in Nat, NEW u \in Nat, NEW x \in Nat, NEW i \in Nat
  PROVE  /\ ParamOf(t, u, i, x) \in Node /\ ParamOf(t, u, i, x).tag = t
         /\ ParamOf(t, u, i, x).up = u /\ ParamOf(t, u, i, x).ref = x
         /\ ParamOf(t, u, i, x).kids = <<>> /\ ParamOf(t, u, i, x).param = i
         /\ ~ParamOf(t, u, i, x).fn
<1>1. <<>> \in Seq(Nat)
  OBVIOUS
<1> QED
  BY <1>1 DEF ParamOf, Leaf, Node

\* s2 is s with the parameters of f in it.
Parametrized(s2, s, f, x) ==
  LET n == Len(s)
  IN /\ s2 \in Seq(Node) /\ Len(s2) = n + Arity
     /\ \A e \in 1 .. n : /\ s2[e].tag = s[e].tag /\ s2[e].up = s[e].up
                          /\ s2[e].param = s[e].param /\ s2[e].ref = s[e].ref
                          /\ e # f => s2[e].kids = s[e].kids
     /\ s2[f].kids = [i \in 1 .. Arity |-> n + Arity + 1 - i] \o s[f].kids
     /\ \A i \in 1 .. Arity : s2[n + i] = ParamOf(n + i, f, Arity + 1 - i, x)

\* A function without parameters is given them.
LEMMA ParametersKeep ==
  ASSUME NEW s, NEW r, Structured(s, r), NEW f \in 1 .. Len(s), NEW x \in 0 .. Len(s),
         \A k \in Range(s[f].kids) : s[k].param = 0, NEW s2, Parametrized(s2, s, f, x)
  PROVE  Structured(s2, r)
<1> DEFINE n == Len(s)
           front == [i \in 1 .. Arity |-> n + Arity + 1 - i]
           more == n + 1 .. n + Arity
<1>0. n \in Nat /\ Arity \in Nat
  BY BoundsAssumption DEF Structured
<1>11. s2 \in Seq(Node) /\ Len(s2) = n + Arity /\ s2[f].kids = front \o s[f].kids
  BY DEF Parametrized
<1>12. \A e \in 1 .. n : /\ s2[e].tag = s[e].tag /\ s2[e].up = s[e].up
                         /\ s2[e].param = s[e].param /\ s2[e].ref = s[e].ref
                         /\ e # f => s2[e].kids = s[e].kids
  BY DEF Parametrized
<1>13. \A i \in 1 .. Arity : s2[n + i] = ParamOf(n + i, f, Arity + 1 - i, x)
  BY DEF Parametrized
<1>14. f \in 1 .. n /\ x \in 0 .. n
  OBVIOUS
<1>1. /\ s[f].kids \in Seq(Nat) /\ IsInjective(s[f].kids) /\ Range(s[f].kids) \subseteq 1 .. n
      /\ \A e \in 1 .. n : IsInjective(s[e].kids)
      /\ \A e \in 1 .. n : s[e].up \in 0 .. n /\ s[e].ref \in 0 .. n
  BY NodeIs
<1> HIDE DEF n, front
<1>2. /\ \A z \in more : z \in Nat /\ z - n \in 1 .. Arity /\ n + (z - n) = z
      /\ \A e \in 1 .. n + Arity : e \in 1 .. n \/ e \in more
      /\ \A e \in 0 .. n : e \in 0 .. n + Arity
      /\ \A e \in 1 .. n : e \notin more
      /\ \A i \in 1 .. Arity : n + i \in more /\ Arity + 1 - i \in Nat
  <2>1. \A z \in more : z \in Nat /\ z - n \in 1 .. Arity /\ n + (z - n) = z
    BY <1>0
  <2>2. \A e \in 1 .. n + Arity : e \in 1 .. n \/ e \in more
    BY <1>0
  <2>3. \A e \in 0 .. n : e \in 0 .. n + Arity
    BY <1>0
  <2>4. \A e \in 1 .. n : e \notin more
    BY <1>0
  <2>5. \A i \in 1 .. Arity : n + i \in more /\ Arity + 1 - i \in Nat
    BY <1>0
  <2> QED
    BY <2>1, <2>2, <2>3, <2>4, <2>5
<1>3. \A z \in more : /\ s2[z].tag = z /\ s2[z].up = f /\ s2[z].ref = x /\ s2[z].kids = <<>>
                      /\ s2[z].param = Arity + 1 - (z - n)
  <2> SUFFICES ASSUME NEW z \in more
               PROVE  /\ s2[z].tag = z /\ s2[z].up = f /\ s2[z].ref = x /\ s2[z].kids = <<>>
                      /\ s2[z].param = Arity + 1 - (z - n)
    OBVIOUS
  <2> DEFINE i == z - n
  <2>1. i \in 1 .. Arity /\ n + i = z /\ Arity + 1 - i \in Nat /\ z \in Nat
    BY <1>2
  <2>2. f \in Nat /\ x \in Nat
    BY <1>0, <1>14
  <2> HIDE DEF i
  <2>3. s2[z] = ParamOf(z, f, Arity + 1 - i, x)
    <3>1. s2[n + i] = ParamOf(n + i, f, Arity + 1 - i, x)
      BY <1>13, <2>1
    <3> QED
      BY <2>1, <3>1
  <2> DEFINE j == Arity + 1 - i
  <2> HIDE DEF j
  <2>5. /\ ParamOf(z, f, j, x).tag = z /\ ParamOf(z, f, j, x).up = f
        /\ ParamOf(z, f, j, x).ref = x /\ ParamOf(z, f, j, x).kids = <<>>
        /\ ParamOf(z, f, j, x).param = j
    BY DEF ParamOf, Leaf
  <2>6. s2[z] = ParamOf(z, f, j, x)
    BY <2>3 DEF j
  <2> QED
    BY <2>5, <2>6 DEF i, j
<1>4. /\ front \in Seq(Nat) /\ IsInjective(front) /\ Range(front) = more
  <2>1. DOMAIN front = 1 .. Arity /\ \A i \in 1 .. Arity : front[i] = n + Arity + 1 - i
    BY DEF front
  <2>2. \A i \in 1 .. Arity : n + Arity + 1 - i \in more /\ n + Arity + 1 - i \in Nat
    BY <1>0
  <2>3. front \in Seq(Nat)
    BY <1>0, <2>2 DEF front
  <2>4. \A i, j \in 1 .. Arity : n + Arity + 1 - i = n + Arity + 1 - j => i = j
    BY <1>0
  <2>5. IsInjective(front)
    BY <2>1, <2>4 DEF IsInjective
  <2>6. \A z \in more : n + Arity + 1 - z \in 1 .. Arity /\ n + Arity + 1 - (n + Arity + 1 - z) = z
    BY <1>0
  <2>7. Range(front) = more
    BY <2>1, <2>2, <2>6 DEF Range
  <2> QED
    BY <2>3, <2>5, <2>7
<1> HIDE DEF more
<1>5. /\ IsInjective(s2[f].kids) /\ Range(s2[f].kids) = Range(s[f].kids) \cup more
  <2>1. Range(front) \cap Range(s[f].kids) = {}
    BY <1>1, <1>2, <1>4
  <2>2. IsInjective(front \o s[f].kids)
    BY <1>1, <1>4, <2>1, ConcatInjective
  <2>3. Range(front \o s[f].kids) = Range(front) \cup Range(s[f].kids)
    BY <1>1, <1>4, RangeConcatenation
  <2> QED
    BY <1>4, <1>11, <2>2, <2>3
<1>6. IsInjective(<<>>) /\ Range(<<>>) = {}
  BY DEF IsInjective, Range
<1>7. ASSUME NEW e \in 1 .. n
      PROVE  /\ IsInjective(s2[e].kids)
             /\ Range(s2[e].kids) = Range(s[e].kids) \cup { z \in more : s2[z].up = e }
  <2>1. CASE e = f
    <3>1. { z \in more : s2[z].up = e } = more
      BY <1>3, <2>1
    <3> QED
      BY <1>5, <2>1, <3>1
  <2>2. CASE e # f
    <3>1. { z \in more : s2[z].up = e } = {}
      BY <1>3, <2>2
    <3>2. s2[e].kids = s[e].kids /\ IsInjective(s[e].kids)
      BY <1>1, <1>12, <2>2
    <3> QED
      BY <3>1, <3>2
  <2> QED
    BY <2>1, <2>2
<1>8. ASSUME NEW e \in 1 .. n + Arity
      PROVE  /\ s2[e].up \in 0 .. n + Arity /\ s2[e].ref \in 0 .. n + Arity
             /\ IsInjective(s2[e].kids)
  <2>1. CASE e \in 1 .. n
    <3>1. s[e].up \in 0 .. n /\ s[e].ref \in 0 .. n
      BY <1>1, <2>1
    <3>2. s2[e].up \in 0 .. n /\ s2[e].ref \in 0 .. n
      BY <1>12, <2>1, <3>1
    <3> QED
      BY <1>2, <1>7, <2>1, <3>2
  <2>2. CASE e \in more
    <3>1. s2[e].up = f /\ s2[e].ref = x /\ s2[e].kids = <<>>
      BY <1>3, <2>2
    <3>2. f \in 0 .. n
      BY <1>0, <1>14
    <3> QED
      BY <1>2, <1>6, <1>14, <3>1, <3>2
  <2> QED
    BY <1>2, <2>1, <2>2
<1>9. ASSUME NEW z \in more
      PROVE  /\ s2[z].tag = z /\ ~(s2[z].up > n) /\ Range(s2[z].kids) = {}
             /\ s2[z].up = f
             /\ \A y \in more : s2[y].param = s2[z].param => y = z
  <2>1. /\ s2[z].tag = z /\ s2[z].up = f /\ s2[z].kids = <<>>
        /\ s2[z].param = Arity + 1 - (z - n)
    BY <1>3
  <2>2. ~(f > n)
    BY <1>0, <1>14
  <2>3. \A y \in more : Arity + 1 - (y - n) = Arity + 1 - (z - n) => y = z
    <3>1. \A a, b \in Nat : Arity + 1 - (a - n) = Arity + 1 - (b - n) => a = b
      BY <1>0
    <3>2. z \in Nat /\ \A y \in more : y \in Nat
      BY <1>2
    <3> QED
      BY <3>1, <3>2
  <2>4. \A y \in more : s2[y].param = s2[z].param => y = z
    BY <1>3, <2>1, <2>3
  <2> QED
    BY <1>6, <2>1, <2>2, <2>4
<1>10. Extends(s2, s)
  <2>1. Len(s2) >= n
    BY <1>0, <1>11
  <2>2. ASSUME NEW e \in 1 .. n
        PROVE  /\ s2[e].tag = s[e].tag /\ s2[e].up = s[e].up /\ s2[e].param = s[e].param
               /\ Range(s2[e].kids) = Range(s[e].kids) \cup { z \in more : s2[z].up = e }
    BY <1>7, <1>12
  <2>3. \A z \in more :
          /\ s2[z].tag = z
          /\ s2[z].up > n => z \in Range(s2[s2[z].up].kids)
          /\ \A k \in Range(s2[z].kids) :
               /\ k \in more /\ k > z /\ s2[k].up # 0 /\ (s2[k].up = z \/ s2[z].up = 0)
          /\ s2[z].param > 0 =>
               /\ s2[z].up \in 1 .. n
               /\ \A k \in Range(s[s2[z].up].kids) : s[k].param = 0
          /\ \A y \in more : s2[z].param > 0 /\ s2[y].param = s2[z].param => y = z
    BY <1>9, <1>14
  <2>4. \A e \in 1 .. Len(s2) : /\ s2[e].up \in 0 .. Len(s2) /\ s2[e].ref \in 0 .. Len(s2)
                               /\ IsInjective(s2[e].kids)
    BY <1>8, <1>11
  <2>5. more = n + 1 .. Len(s2)
    BY <1>11 DEF more
  <2> QED
    BY <1>11, <2>1, <2>2, <2>3, <2>4, <2>5 DEF Extends, n
<1> QED
  BY <1>10, ExtendsKeeps

(***************************************************************************)
(* Every step keeps the invariant.                                         *)
(***************************************************************************)
\* Every tag that has been given is an entity's.
LEMMA Known ==
  ASSUME Invariant
  PROVE  /\ Len(store) \in Nat /\ store \in Seq(Node) /\ fresh = Len(store) /\ root \in Ids
         /\ \A t \in 1 .. 5 : IdOf(t) \in Ids
<1>1. Structured(store, root) /\ fresh = Len(store) /\ fresh >= 5
  BY DEF Invariant
<1>2. /\ store \in Seq(Node) /\ root \in 1 .. Len(store)
      /\ \A t \in 1 .. Len(store) : \E e \in 1 .. Len(store) : store[e].tag = t
  BY <1>1 DEF Structured
<1>3. Len(store) \in Nat
  BY <1>2
<1>4. \A t \in 1 .. 5 : \E e \in Ids : store[e].tag = t
  <2>1. \A t \in 1 .. 5 : t \in 1 .. Len(store)
    BY <1>1, <1>3
  <2> QED
    BY <1>2, <2>1 DEF Ids
<1>5. \A t \in 1 .. 5 : IdOf(t) \in Ids
  BY <1>4 DEF IdOf
<1> QED
  BY <1>1, <1>2, <1>3, <1>5 DEF Ids

\* The block a statement is in lists it.
LEMMA StatementIs ==
  ASSUME Invariant, NEW e \in Statements
  PROVE  /\ e \in Ids /\ store[e].up \in Ids
         /\ store[store[e].up].kids \in Seq(Nat) /\ IsInjective(store[store[e].up].kids)
         /\ Range(store[store[e].up].kids) \subseteq Ids
         /\ \E i \in DOMAIN store[store[e].up].kids : store[store[e].up].kids[i] = e
<1>1. Structured(store, root)
  BY DEF Invariant
<1>2. e \in Ids /\ store[e].up \in Ids
  BY DEF Statements, UserBlocks
<1>3. e \in Range(store[store[e].up].kids)
  <2>1. Len(store) \in Nat
    BY Known
  <2>2. store[e].up # 0
    BY <1>2, <2>1 DEF Ids
  <2> QED
    BY <1>1, <1>2, <2>2 DEF Structured, Ids
<1>4. /\ store[store[e].up].kids \in Seq(Nat) /\ IsInjective(store[store[e].up].kids)
      /\ Range(store[store[e].up].kids) \subseteq Ids
  BY <1>1, <1>2, NodeIs DEF Ids
<1> QED
  BY <1>2, <1>3, <1>4 DEF Range

\* A user's statement in the root comes behind the builtins.
LEMMA StatementsFollow ==
  ASSUME NEW e \in Statements, store[e].up = root, Builtins(store, root),
         NEW i \in Nat, i >= 1, store[root].kids[i] = e
  PROVE  i > 3
<1>1. store[e].tag \notin 2 .. 5
  BY DEF Statements, BuiltinTags
<1>2. /\ store[store[root].kids[1]].tag = 2 /\ store[store[root].kids[2]].tag = 3
      /\ store[store[root].kids[3]].tag = 4
  BY DEF Builtins
<1>3. i # 1 /\ i # 2 /\ i # 3
  BY <1>1, <1>2
<1> QED
  BY <1>3

\* Rewriting the list of a block, and with it the reference of a statement.
WithList(s, b, l) == [s EXCEPT ![b].kids = l]

LEMMA ListRewritten ==
  ASSUME NEW s \in Seq(Node), NEW b \in 1 .. Len(s), NEW l \in Seq(Nat)
  PROVE  /\ Relisted(WithList(s, b, l), s, b, l)
         /\ \A a \in 1 .. Len(s) : WithList(s, b, l)[a].ref = s[a].ref
<1> DEFINE n == Len(s)
           v == [s[b] EXCEPT !.kids = l]
           s1 == [s EXCEPT ![b] = v]
<1>1. n \in Nat /\ \A a \in 1 .. n : s[a] \in Node
  BY LenProperties, ElementOfSeq
<1>2. /\ v \in Node /\ v.tag = s[b].tag /\ v.up = s[b].up /\ v.param = s[b].param
      /\ v.fn = s[b].fn /\ v.ref = s[b].ref /\ v.kids = l
  BY <1>1 DEF Node
<1>3. s1 = WithList(s, b, l)
  BY DEF WithList
<1> HIDE DEF v
<1>4. s1 \in Seq(Node) /\ Len(s1) = n
  BY <1>2
<1>5. ASSUME NEW a \in 1 .. n
      PROVE  /\ s1[a].tag = s[a].tag /\ s1[a].up = s[a].up /\ s1[a].param = s[a].param
             /\ s1[a].fn = s[a].fn /\ s1[a].ref = s[a].ref
             /\ s1[a].kids = IF a = b THEN l ELSE s[a].kids
  BY <1>2
<1> HIDE DEF s1
<1>6. Relisted(s1, s, b, l) /\ \A a \in 1 .. n : s1[a].ref = s[a].ref
  BY <1>4, <1>5 DEF Relisted
<1> QED
  BY <1>3, <1>6

LEMMA ReferenceRewritten ==
  ASSUME NEW s \in Seq(Node), NEW e \in 1 .. Len(s), NEW x \in Nat
  PROVE  LET s1 == [s EXCEPT ![e].ref = x]
         IN /\ s1 \in Seq(Node) /\ Len(s1) = Len(s)
            /\ \A a \in 1 .. Len(s) :
                 /\ s1[a].tag = s[a].tag /\ s1[a].up = s[a].up /\ s1[a].param = s[a].param
                 /\ s1[a].fn = s[a].fn /\ s1[a].kids = s[a].kids /\ s1[a].ref = IF a = e THEN x ELSE s[a].ref
<1> DEFINE n == Len(s)
           v == [s[e] EXCEPT !.ref = x]
           s1 == [s EXCEPT ![e] = v]
<1>1. n \in Nat /\ \A a \in 1 .. n : s[a] \in Node
  BY LenProperties, ElementOfSeq
<1>2. /\ v \in Node /\ v.tag = s[e].tag /\ v.up = s[e].up /\ v.param = s[e].param
      /\ v.fn = s[e].fn /\ v.kids = s[e].kids /\ v.ref = x
  BY <1>1 DEF Node
<1>3. s1 = [s EXCEPT ![e].ref = x]
  OBVIOUS
<1> HIDE DEF v
<1>4. s1 \in Seq(Node) /\ Len(s1) = n
  BY <1>2
<1>5. ASSUME NEW a \in 1 .. n
      PROVE  /\ s1[a].tag = s[a].tag /\ s1[a].up = s[a].up /\ s1[a].param = s[a].param
             /\ s1[a].fn = s[a].fn /\ s1[a].kids = s[a].kids /\ s1[a].ref = IF a = e THEN x ELSE s[a].ref
  BY <1>2
<1> HIDE DEF s1
<1> QED
  BY <1>3, <1>4, <1>5

\* What an edit that writes into the list of block b is.
LEMMA ListEdit ==
  ASSUME NEW s, NEW r, Structured(s, r), NEW b \in 1 .. Len(s), NEW l \in Seq(Nat),
         Keeps(l, s[b].kids, Len(s)), s[b].tag \notin BuiltinTags,
         Builtins(s, r) /\ b = r => Starts(l, s[r].kids),
         NEW new, Created(new, Len(s), Range(WalkOrder(s, r)))
  PROVE  Edit(WithList(s, b, l) \o new, s, r)
<1> DEFINE s1 == WithList(s, b, l)
<1>1. s \in Seq(Node)
  BY DEF Structured
<1>2. Relisted(s1, s, b, l)
  BY <1>1, ListRewritten
<1> HIDE DEF s1
<1>3. Edit(s1 \o new, s, r)
  BY <1>2, EditIs
<1> QED
  BY <1>3 DEF s1

\* The entities an edit creates.
LEMMA OneNew ==
  ASSUME NEW n \in Nat, NEW T, NEW x \in Node, x.tag = n + 1, x.kids = <<>>, x.up \in T
  PROVE  /\ Created(<<x>>, n, T)
         /\ \A s \in Seq(Node) : Append(s, x) = s \o <<x>>
<1> DEFINE new == <<x>>
<1>1. new \in Seq(Node) /\ Len(new) = 1 /\ new[1] = x
  OBVIOUS
<1>2. \A s \in Seq(Node) : Append(s, x) = s \o <<x>>
  OBVIOUS
<1>3. Len(x.kids) = 0
  OBVIOUS
<1> HIDE DEF new
<1>4. \A i \in 1 .. Len(new) :
        /\ new[i].tag = n + i
        /\ new[i].fn => Len(new[i].kids) = 0 /\ new[i].up \in T
  <2> SUFFICES ASSUME NEW i \in 1 .. Len(new)
               PROVE  /\ new[i].tag = n + i
                      /\ new[i].fn => Len(new[i].kids) = 0 /\ new[i].up \in T
    OBVIOUS
  <2>1. i = 1
    BY <1>1
  <2> QED
    BY <1>1, <1>3, <2>1
<1> QED
  BY <1>1, <1>2, <1>4 DEF new, Created

LEMMA TwoNew ==
  ASSUME NEW n \in Nat, NEW T, NEW x \in Node, NEW y \in Node,
         x.tag = n + 1, ~x.fn, y.tag = n + 2, ~y.fn
  PROVE  Created(<<x, y>>, n, T)
<1> DEFINE new == <<x, y>>
<1>1. new \in Seq(Node) /\ Len(new) = 2 /\ new[1] = x /\ new[2] = y
  OBVIOUS
<1> HIDE DEF new
<1>2. ASSUME NEW i \in 1 .. Len(new)
      PROVE  new[i].tag = n + i /\ ~new[i].fn
  <2>1. i = 1 \/ i = 2
    BY <1>1
  <2> QED
    BY <1>1, <2>1
<1> QED
  BY <1>1, <1>2 DEF new, Created

\* A new entity right behind the p-th of list l.
LEMMA InsertBehind ==
  ASSUME NEW l \in Seq(Nat), IsInjective(l), NEW n \in Nat, \A y \in Range(l) : y # n + 1 /\ y # n + 2,
         NEW p \in DOMAIN l
  PROVE  LET l1 == InsertAt(l, p + 1, n + 2)
             l2 == InsertAt(l1, p + 1, n + 1)
         IN /\ Keeps(l1, l, n) /\ (p > 3 => Starts(l1, l))
            /\ Keeps(l2, l, n) /\ (p > 3 => Starts(l2, l))
<1> DEFINE j == p + 1
           x == n + 1
           y == n + 2
           l1 == InsertAt(l, j, y)
           l2 == InsertAt(l1, j, x)
<1>1. /\ j \in 1 .. Len(l) + 1 /\ Len(l) \in Nat /\ x \in Nat /\ y \in Nat /\ x > n /\ y > n
      /\ x # y /\ x \notin Range(l) /\ y \notin Range(l) /\ (p > 3 => j > 3)
  OBVIOUS
<1> HIDE DEF j, x, y
<1>2. Keeps(l1, l, n) /\ (j > 3 => Starts(l1, l))
  BY <1>1, InsertKeeps
<1>3. l1 \in Seq(Nat) /\ IsInjective(l1) /\ Range(l1) = Range(l) \cup {y} /\ Len(l1) = Len(l) + 1
  BY <1>1, InsertIs
<1> HIDE DEF l1
<1>4. Keeps(l2, l1, n) /\ (j > 3 => Starts(l2, l1))
  <2>1. x \notin Range(l1) /\ j \in 1 .. Len(l1) + 1
    BY <1>1, <1>3
  <2> QED
    BY <1>1, <1>3, <2>1, InsertKeeps
<1>5. Len(l2) \in Nat /\ \A i \in 1 .. Len(l2) : l2[i] \in Nat
  <2>1. x \notin Range(l1) /\ j \in 1 .. Len(l1) + 1
    BY <1>1, <1>3
  <2>2. l2 \in Seq(Nat)
    BY <1>1, <1>3, <2>1, InsertIs
  <2> QED
    BY <2>2
<1> HIDE DEF l2
<1>6. Keeps(l2, l, n)
  <2> SUFFICES ASSUME NEW i \in 1 .. Len(l2), NEW k \in 1 .. Len(l2), i < k,
                      l2[i] <= n, l2[k] <= n
               PROVE  Precedes(l, l2[i], l2[k])
    BY DEF Keeps
  <2>1. PICK u, v \in 1 .. Len(l1) : u < v /\ l1[u] = l2[i] /\ l1[v] = l2[k]
    BY <1>4 DEF Keeps, Precedes
  <2>2. Precedes(l, l1[u], l1[v])
    BY <1>2, <2>1 DEF Keeps
  <2> QED
    BY <2>1, <2>2
<1>7. j > 3 => Starts(l2, l)
  BY <1>2, <1>4 DEF Starts
<1> QED
  BY <1>1, <1>2, <1>6, <1>7 DEF j, x, y, l1, l2

\* push_common, push_subblock, push_namespace and push_function.
LEMMA PushesKeep ==
  ASSUME Invariant, NEW b \in UserBlocks, InTree(b),
         \/ \E x \in Ids : PushStatement(b, x)
         \/ \E f \in BOOLEAN : PushBlock(b, f)
  PROVE  Invariant' /\ Edit(store', store, root)
<1> DEFINE n == Len(store)
           grown(x) == Append([store EXCEPT ![b].kids = Append(@, Len(store) + 1)], x)
<1>0. n \in Nat /\ fresh = n /\ fresh >= 5 /\ Structured(store, root) /\ b \in 1 .. n
      /\ store \in Seq(Node)
  BY Known DEF Invariant, Ids, UserBlocks
<1>1. SUFFICES ASSUME NEW x \in Node, x.tag = n + 1, x.up = b, x.ref \in 0 .. n,
                      x.kids = <<>>, x.param = 0,
                      store' = grown(x), fresh' = fresh + 1, root' = root
               PROVE  Invariant' /\ Edit(store', store, root)
  <2>1. CASE \E x \in Ids : PushStatement(b, x)
    <3>1. PICK x \in Ids : PushStatement(b, x)
      BY <2>1
    <3> DEFINE v == Leaf(n + 1, b, x)
    <3>2. store' = grown(v) /\ fresh' = fresh + 1 /\ root' = root
      BY <1>0, <3>1 DEF PushStatement, Edited
    <3>3. n + 1 \in Nat /\ b \in Nat /\ x \in Nat /\ x \in 0 .. n 
      BY <1>0 DEF Ids
    <3>4. /\ v \in Node /\ v.tag = n + 1 /\ v.up = b /\ v.ref = x /\ v.kids = <<>> /\ v.param = 0
      <4>1. n \in Nat /\ b \in Nat /\ x \in Nat
        BY <1>0, <3>3
      <4> HIDE DEF n
      <4> QED
        BY <4>1, LeafAfter
    <3> HIDE DEF v, grown
    <3> QED
      BY <1>1, <3>2, <3>3, <3>4
  <2>2. CASE \E f \in BOOLEAN : PushBlock(b, f)
    <3>1. PICK f \in BOOLEAN : PushBlock(b, f)
      BY <2>2
    <3> DEFINE u == BlockOf(n + 1, b, <<>>)
               v == [u EXCEPT !.fn = f]
    <3>2. store' = grown(v) /\ fresh' = fresh + 1 /\ root' = root
      BY <1>0, <3>1 DEF PushBlock, Edited
    <3>3. n + 1 \in Nat /\ b \in Nat /\ 0 \in 0 .. n /\ <<>> \in Seq(Nat)
      BY <1>0
    <3>4. /\ u \in Node /\ u.tag = n + 1 /\ u.up = b /\ u.ref = 0 /\ u.kids = <<>> /\ u.param = 0
      BY <3>3 DEF BlockOf, Leaf, Node
    <3> HIDE DEF u
    <3>5. /\ v \in Node /\ v.tag = n + 1 /\ v.up = b /\ v.ref = 0 /\ v.kids = <<>> /\ v.param = 0
      BY <3>4 DEF Node
    <3> HIDE DEF v, grown
    <3> QED
      BY <1>1, <3>2, <3>3, <3>5
  <2> QED
    BY <2>1, <2>2
<1>2. Structured(grown(x), root) /\ Len(grown(x)) = n + 1
  BY <1>0, <1>1, OneMoreIs
<1> DEFINE l == Append(store[b].kids, n + 1)
           s1 == WithList(store, b, l)
<1>6. /\ l \in Seq(Nat) /\ Keeps(l, store[b].kids, n)
      /\ Len(store[b].kids) >= 3 => Starts(l, store[b].kids)
  <2> DEFINE k == store[b].kids
  <2>1. k \in Seq(Nat) /\ n \in Nat /\ n + 1 \in Nat
    BY <1>0, NodeIs
  <2> HIDE DEF k, n
  <2>2. Append(k, n + 1) \in Seq(Nat)
    BY <2>1
  <2>3. /\ Keeps(Append(k, n + 1), k, n)
        /\ Len(k) >= 3 => Starts(Append(k, n + 1), k)
    BY <2>1, AppendKeeps
  <2> QED
    BY <2>1, <2>2, <2>3 DEF k
<1>4. Edit(s1 \o <<x>>, store, root)
  <2> DEFINE new == <<x>>
  <2>1. Builtins(store, root) /\ b = root => Starts(l, store[root].kids)
    BY <1>6 DEF Builtins
  <2>2. Created(new, n, Range(WalkOrder(store, root)))
    <3>1. x.up \in Range(WalkOrder(store, root))
      BY <1>1 DEF InTree
    <3> QED
      BY <1>0, <1>1, <3>1, OneNew
  <2>3. store[b].tag \notin BuiltinTags
    BY DEF UserBlocks
  <2>4. Structured(store, root) /\ b \in 1 .. Len(store)
    BY <1>0
  <2> HIDE DEF new, l
  <2> QED
    BY <1>6, <2>1, <2>2, <2>3, <2>4, ListEdit DEF new
<1>5. grown(x) = s1 \o <<x>>
  <2>1. s1 \in Seq(Node)
    <3> HIDE DEF l, n
    <3>1. store \in Seq(Node) /\ b \in 1 .. Len(store) /\ l \in Seq(Nat)
      BY <1>0, <1>6 DEF n
    <3> QED
      BY <3>1, ListRewritten DEF Relisted
  <2>2. grown(x) = Append(s1, x)
    BY <1>0 DEF WithList
  <2> HIDE DEF s1
  <2>3. Append(s1, x) = s1 \o <<x>>
    <3> HIDE DEF n
    <3>1. n \in Nat
      BY <1>0
    <3> QED
      BY <1>1, <2>1
  <2> QED
    BY <2>2, <2>3
<1> HIDE DEF grown
<1>3. Structured(store, root)' /\ fresh' = Len(store') /\ fresh' >= 5
  BY <1>0, <1>1, <1>2
<1> QED
  BY <1>1, <1>3, <1>4, <1>5 DEF Invariant

\* An included file that fails.
LEMMA FailIncludeKeeps ==
  ASSUME Invariant, NEW e, NEW x \in Ids, FailInclude(e, x)
  PROVE  Invariant' /\ Edit(store', store, root)
<1> DEFINE n == Len(store)
           a == BlockOf(n + 1, 0, <<n + 2>>)
           b == Leaf(n + 2, n + 1, x)
<1>0. n \in Nat /\ fresh = n /\ fresh >= 5 /\ Structured(store, root) /\ x \in 0 .. n
      /\ store \in Seq(Node)
  BY Known DEF Invariant, Ids
<1>1. store' = store \o <<a, b>> /\ fresh' = fresh + 2 /\ root' = root
  BY <1>0 DEF FailInclude, Edited
<1>2. /\ n + 1 \in Nat /\ n + 2 \in Nat /\ 0 \in Nat /\ x \in Nat /\ <<n + 2>> \in Seq(Nat)
      /\ 0 \in 0 .. n /\ n + 1 \in 0 .. n + 1 /\ n + 1 # 0
  BY <1>0
<1>3. /\ a \in Node /\ a.tag = n + 1 /\ a.up = 0 /\ a.ref = 0 /\ a.kids = <<n + 2>>
      /\ a.param = 0 /\ ~a.fn
  BY <1>2 DEF BlockOf, Leaf, Node
<1>4. /\ b \in Node /\ b.tag = n + 2 /\ b.up = n + 1 /\ b.ref = x /\ b.kids = <<>>
      /\ b.param = 0 /\ ~b.fn
  <2>1. n \in Nat /\ n + 1 \in Nat /\ x \in Nat
    BY <1>0
  <2> HIDE DEF n
  <2> QED
    BY <2>1, LeafAfter
<1> HIDE DEF a, b
<1>5. Pair(n, a, b)
  BY <1>0, <1>2, <1>3, <1>4 DEF Pair
<1>6. Listed(store, store, n, a, b)
  <2> SUFFICES ASSUME NEW d \in 1 .. n
               PROVE  /\ store[d].ref \in 0 .. n /\ IsInjective(store[d].kids)
                      /\ Range(store[d].kids) = Range(store[d].kids)
                           \cup { z \in {n + 1} : a.up = d } \cup { z \in {n + 2} : b.up = d }
    BY <1>0 DEF Listed
  <2>1. a.up # d /\ b.up # d
    BY <1>0, <1>3, <1>4
  <2>2. store[d].ref \in 0 .. n /\ IsInjective(store[d].kids)
    BY <1>0, NodeIs
  <2> QED
    BY <2>1, <2>2
<1>7. Structured(store \o <<a, b>>, root) /\ Len(store \o <<a, b>>) = n + 2
  BY <1>0, <1>5, <1>6, TwoMoreIs
<1>9. Edit(store \o <<a, b>>, store, root)
  <2> DEFINE l == store[root].kids
             T == Range(WalkOrder(store, root))
  <2>1. root \in 1 .. n
    BY Known DEF Ids
  <2>2. Relisted(store, store, root, l)
    BY <1>0 DEF Relisted
  <2>3. Keeps(l, store[root].kids, n)
    BY KeepsAll
  <2>4. Builtins(store, root) => Starts(l, store[root].kids)
    BY DEF Builtins, Starts
  <2>5. Created(<<a, b>>, n, T)
    <3> HIDE DEF n, T
    <3> QED
      BY <1>0, <1>3, <1>4, TwoNew
  <2> HIDE DEF l
  <2>6. l = store[root].kids
    BY DEF l
  <2>7. Structured(store, root)
    BY <1>0
  <2> DEFINE new == <<a, b>>
  <2>8. Created(new, n, T)
    BY <2>5
  <2> HIDE DEF new
  <2>9. Edit(store \o new, store, root)
    BY <2>1, <2>2, <2>3, <2>4, <2>6, <2>7, <2>8, EditIs
  <2> QED
    BY <2>9 DEF new
<1>8. Structured(store, root)' /\ fresh' = Len(store') /\ fresh' >= 5
  BY <1>0, <1>1, <1>7
<1> QED
  BY <1>1, <1>8, <1>9 DEF Invariant

\* An included file that does not.
LEMMA EarlyIncludeKeeps ==
  ASSUME Invariant, NEW e \in Statements, NEW x \in Ids, EarlyInclude(e, x)
  PROVE  Invariant' /\ Edit(store', store, root)
<1> DEFINE n == Len(store)
           b == store[e].up
           at == CHOOSE i \in DOMAIN store[b].kids : store[b].kids[i] = e
           l == InsertAt(store[b].kids, at + 1, n + 2)
           v == IdOf(TypeTag)
           s1 == WithList(store, b, l)
           s2 == [s1 EXCEPT ![e].ref = v]
           block == BlockOf(n + 1, 0, <<n + 2>>)
           leaf == Leaf(n + 2, b, x)
<1>0. /\ n \in Nat /\ fresh = n /\ fresh >= 5 /\ Structured(store, root)
      /\ store \in Seq(Node) /\ x \in 1 .. n /\ v \in 1 .. n /\ e \in 1 .. n /\ b \in 1 .. n
  BY Known, StatementIs DEF Invariant, Ids, TypeTag
<1>1. /\ store[b].kids \in Seq(Nat) /\ IsInjective(store[b].kids)
      /\ Range(store[b].kids) \subseteq 1 .. n
      /\ at \in DOMAIN store[b].kids
  BY StatementIs DEF Ids
<1>2. store' = s2 \o <<block, leaf>> /\ fresh' = fresh + 2 /\ root' = root
  BY <1>0 DEF EarlyInclude, Edited, WithList
<1>13. Keeps(l, store[b].kids, n) /\ (Builtins(store, root) /\ b = root => Starts(l, store[root].kids))
  <2> DEFINE k == store[b].kids
  <2>1. /\ k \in Seq(Nat) /\ IsInjective(k) /\ n \in Nat /\ at \in DOMAIN k
        /\ \A y \in Range(k) : y # n + 1 /\ y # n + 2
    BY <1>0, <1>1
  <2>2. k[at] = e /\ at \in Nat /\ at >= 1
    <3>1. \E i \in DOMAIN k : k[i] = e
      BY StatementIs
    <3>2. k[at] = e
      BY <3>1, Zenon
    <3>3. at \in 1 .. Len(k) /\ Len(k) \in Nat
      <4> HIDE DEF k, at
      <4> QED
        BY <2>1
    <3> HIDE DEF k, at
    <3> QED
      BY <3>2, <3>3
  <2>3. Builtins(store, root) /\ b = root => at > 3
    <3> HIDE DEF at
    <3> QED
      BY <2>2, StatementsFollow
  <2> HIDE DEF k, at, n
  <2>4. Keeps(InsertAt(k, at + 1, n + 2), k, n) /\ (at > 3 => Starts(InsertAt(k, at + 1, n + 2), k))
    BY <2>1, InsertBehind
  <2> QED
    BY <2>3, <2>4 DEF k
<1>3. l \in Seq(Nat) /\ IsInjective(l) /\ Range(l) = Range(store[b].kids) \cup {n + 2}
  <2> DEFINE k == store[b].kids
  <2>1. at + 1 \in 1 .. Len(k) + 1
    BY <1>1
  <2>2. n + 2 \in Nat /\ n + 2 \notin Range(k)
    BY <1>0, <1>1
  <2>3. k \in Seq(Nat) /\ IsInjective(k)
    BY <1>1
  <2> DEFINE m == n + 2
             j == at + 1
  <2>4. m \in Nat /\ m \notin Range(k) /\ j \in 1 .. Len(k) + 1
    BY <2>1, <2>2
  <2> HIDE DEF k, m, j
  <2>5. /\ InsertAt(k, j, m) \in Seq(Nat) /\ IsInjective(InsertAt(k, j, m))
        /\ Range(InsertAt(k, j, m)) = Range(k) \cup {m}
    BY <2>3, <2>4, InsertIs
  <2> QED
    BY <2>5 DEF k, m, j
<1> HIDE DEF at, l, v
<1>4. /\ s1 \in Seq(Node) /\ Len(s1) = n
      /\ \A a \in 1 .. n :
           /\ s1[a].tag = store[a].tag /\ s1[a].up = store[a].up /\ s1[a].param = store[a].param
           /\ s1[a].fn = store[a].fn /\ s1[a].ref = store[a].ref
           /\ s1[a].kids = IF a = b THEN l ELSE store[a].kids
  <2>1. store \in Seq(Node) /\ b \in 1 .. Len(store) /\ l \in Seq(Nat)
    BY <1>0, <1>3
  <2> HIDE DEF b
  <2>2. Relisted(s1, store, b, l) /\ \A a \in 1 .. Len(store) : s1[a].ref = store[a].ref
    BY <2>1, ListRewritten
  <2> HIDE DEF s1
  <2> QED
    BY <2>2 DEF Relisted
<1> HIDE DEF s1
<1>5. /\ s2 \in Seq(Node) /\ Len(s2) = n
      /\ \A a \in 1 .. n :
           /\ s2[a].tag = s1[a].tag /\ s2[a].up = s1[a].up /\ s2[a].param = s1[a].param
           /\ s2[a].fn = s1[a].fn /\ s2[a].kids = s1[a].kids
           /\ s2[a].ref = IF a = e THEN v ELSE s1[a].ref
  BY <1>0, <1>4, ReferenceRewritten
<1>14. store[b].tag \notin BuiltinTags
  BY DEF Statements, UserBlocks
<1> HIDE DEF s2, b
<1>6. /\ n + 1 \in Nat /\ n + 2 \in Nat /\ <<n + 2>> \in Seq(Nat) /\ x \in Nat /\ b \in Nat
      /\ 0 \in 0 .. n /\ x \in 0 .. n /\ b \in 0 .. n + 1 /\ b # n + 1 /\ b # 0
  BY <1>0
<1>7. /\ block \in Node /\ block.tag = n + 1 /\ block.up = 0 /\ block.ref = 0
      /\ block.kids = <<n + 2>> /\ block.param = 0 /\ ~block.fn
  BY <1>6 DEF BlockOf, Leaf, Node
<1>8. /\ leaf \in Node /\ leaf.tag = n + 2 /\ leaf.up = b /\ leaf.ref = x /\ leaf.kids = <<>>
      /\ leaf.param = 0 /\ ~leaf.fn
  <2>1. n \in Nat /\ b \in Nat /\ x \in Nat
    BY <1>0, <1>6
  <2> HIDE DEF n
  <2> QED
    BY <2>1, LeafAfter
<1> HIDE DEF block, leaf
<1>9. Pair(n, block, leaf)
  BY <1>6, <1>7, <1>8 DEF Pair
<1>10. Listed(s2, store, n, block, leaf)
  <2> SUFFICES ASSUME NEW d \in 1 .. n
               PROVE  /\ s2[d].tag = store[d].tag /\ s2[d].up = store[d].up
                      /\ s2[d].param = store[d].param
                      /\ s2[d].ref \in 0 .. n /\ IsInjective(s2[d].kids)
                      /\ Range(s2[d].kids) = Range(store[d].kids)
                           \cup { z \in {n + 1} : block.up = d } \cup { z \in {n + 2} : leaf.up = d }
    BY <1>5 DEF Listed
  <2>1. s2[d].tag = store[d].tag /\ s2[d].up = store[d].up /\ s2[d].param = store[d].param
    BY <1>4, <1>5
  <2>2. s2[d].ref = (IF d = e THEN v ELSE store[d].ref)
        /\ s2[d].kids = (IF d = b THEN l ELSE store[d].kids)
    BY <1>4, <1>5
  <2>3. store[d].ref \in 0 .. n /\ v \in 0 .. n /\ IsInjective(store[d].kids)
    <3>1. store[d].ref \in 0 .. n /\ IsInjective(store[d].kids)
      BY <1>0, NodeIs
    <3> QED
      BY <1>0, <3>1
  <2>4. { z \in {n + 1} : block.up = d } = {}
    BY <1>0, <1>7
  <2>5. { z \in {n + 2} : leaf.up = d } = IF d = b THEN {n + 2} ELSE {}
    BY <1>8
  <2> QED
    BY <1>3, <2>1, <2>2, <2>3, <2>4, <2>5
<1>11. Structured(s2 \o <<block, leaf>>, root) /\ Len(s2 \o <<block, leaf>>) = n + 2
  BY <1>0, <1>9, <1>10, TwoMoreIs
<1>15. Edit(s2 \o <<block, leaf>>, store, root)
  <2> DEFINE T == Range(WalkOrder(store, root))
             new == <<block, leaf>>
  <2>1. Relisted(s2, store, b, l)
    BY <1>4, <1>5 DEF Relisted
  <2>2. Created(new, n, T)
    <3> HIDE DEF n, T
    <3> QED
      BY <1>0, <1>7, <1>8, TwoNew
  <2>3. Structured(store, root) /\ b \in 1 .. Len(store)
    BY <1>0
  <2> HIDE DEF new
  <2>4. Edit(s2 \o new, store, root)
    BY <1>13, <1>14, <2>1, <2>2, <2>3, EditIs
  <2> QED
    BY <2>4 DEF new
<1>12. Structured(store, root)' /\ fresh' = Len(store') /\ fresh' >= 5
  <2>1. store' = s2 \o <<block, leaf>>
    BY <1>2
  <2> HIDE DEF n
  <2> QED
    BY <1>0, <1>2, <1>11, <2>1
<1> QED
  BY <1>2, <1>12, <1>15 DEF Invariant

\* A pinned value.
LEMMA PinValueKeeps ==
  ASSUME Invariant, NEW e \in Statements, PinValue(e)
  PROVE  Invariant' /\ Edit(store', store, root)
<1> DEFINE n == Len(store)
           b == store[e].up
           at == CHOOSE i \in DOMAIN store[b].kids : store[b].kids[i] = e
           l1 == InsertAt(store[b].kids, at + 1, n + 2)
           l == InsertAt(l1, at + 1, n + 1)
           s1 == WithList(store, b, l)
           v == IdOf(TypeTag)
           number == Leaf(n + 1, b, v)
           pin == Leaf(n + 2, b, e)
<1>0. /\ n \in Nat /\ fresh = n /\ fresh >= 5 /\ Structured(store, root)
      /\ store \in Seq(Node) /\ v \in 1 .. n /\ e \in 1 .. n /\ b \in 1 .. n
  BY Known, StatementIs DEF Invariant, Ids, TypeTag
<1>1. /\ store[b].kids \in Seq(Nat) /\ IsInjective(store[b].kids)
      /\ Range(store[b].kids) \subseteq 1 .. n
      /\ at \in DOMAIN store[b].kids
  BY StatementIs DEF Ids
<1>2. store' = s1 \o <<number, pin>> /\ fresh' = fresh + 2 /\ root' = root
  BY <1>0 DEF PinValue, Edited, WithList
<1>12. Keeps(l, store[b].kids, n) /\ (Builtins(store, root) /\ b = root => Starts(l, store[root].kids))
  <2> DEFINE k == store[b].kids
  <2>1. /\ k \in Seq(Nat) /\ IsInjective(k) /\ n \in Nat /\ at \in DOMAIN k
        /\ \A y \in Range(k) : y # n + 1 /\ y # n + 2
    BY <1>0, <1>1
  <2>2. k[at] = e /\ at \in Nat /\ at >= 1
    <3>1. \E i \in DOMAIN k : k[i] = e
      BY StatementIs
    <3>2. k[at] = e
      BY <3>1, Zenon
    <3>3. at \in 1 .. Len(k) /\ Len(k) \in Nat
      <4> HIDE DEF k, at
      <4> QED
        BY <2>1
    <3> HIDE DEF k, at
    <3> QED
      BY <3>2, <3>3
  <2>3. Builtins(store, root) /\ b = root => at > 3
    <3> HIDE DEF at
    <3> QED
      BY <2>2, StatementsFollow
  <2> HIDE DEF k, at, n
  <2> DEFINE k1 == InsertAt(k, at + 1, n + 2)
             k2 == InsertAt(k1, at + 1, n + 1)
  <2>4. Keeps(k2, k, n) /\ (at > 3 => Starts(k2, k))
    BY <2>1, InsertBehind
  <2> QED
    BY <2>3, <2>4 DEF k
<1>13. store[b].tag \notin BuiltinTags
  BY DEF Statements, UserBlocks
<1>3. l \in Seq(Nat) /\ IsInjective(l) /\ Range(l) = Range(store[b].kids) \cup {n + 1, n + 2}
  <2> DEFINE k == store[b].kids
             m1 == n + 1
             m2 == n + 2
             j == at + 1
             k1 == InsertAt(k, j, m2)
  <2>1. j \in 1 .. Len(k) + 1 /\ Len(k) \in Nat
    BY <1>1
  <2>2. /\ m1 \in Nat /\ m2 \in Nat /\ m1 \notin Range(k) /\ m2 \notin Range(k) /\ m1 # m2
    BY <1>0, <1>1
  <2>3. k \in Seq(Nat) /\ IsInjective(k)
    BY <1>1
  <2> HIDE DEF k, m1, m2, j
  <2>4. /\ k1 \in Seq(Nat) /\ IsInjective(k1) /\ Range(k1) = Range(k) \cup {m2}
        /\ Len(k1) = Len(k) + 1
    BY <2>1, <2>2, <2>3, InsertIs
  <2> HIDE DEF k1
  <2>5. j \in 1 .. Len(k1) + 1 /\ m1 \notin Range(k1)
    BY <2>1, <2>2, <2>4
  <2>6. /\ InsertAt(k1, j, m1) \in Seq(Nat) /\ IsInjective(InsertAt(k1, j, m1))
        /\ Range(InsertAt(k1, j, m1)) = Range(k1) \cup {m1}
    BY <2>2, <2>4, <2>5, InsertIs
  <2>7. /\ InsertAt(k1, j, m1) \in Seq(Nat) /\ IsInjective(InsertAt(k1, j, m1))
        /\ Range(InsertAt(k1, j, m1)) = Range(k) \cup {m1, m2}
    BY <2>4, <2>6
  <2> QED
    BY <2>7 DEF k, k1, m1, m2, j
<1> HIDE DEF at, l, l1, v, b
<1>4. /\ s1 \in Seq(Node) /\ Len(s1) = n
      /\ \A a \in 1 .. n :
           /\ s1[a].tag = store[a].tag /\ s1[a].up = store[a].up /\ s1[a].param = store[a].param
           /\ s1[a].fn = store[a].fn /\ s1[a].ref = store[a].ref
           /\ s1[a].kids = IF a = b THEN l ELSE store[a].kids
  <2>1. store \in Seq(Node) /\ b \in 1 .. Len(store) /\ l \in Seq(Nat)
    BY <1>0, <1>3
  <2>2. Relisted(s1, store, b, l) /\ \A a \in 1 .. Len(store) : s1[a].ref = store[a].ref
    BY <2>1, ListRewritten
  <2> HIDE DEF s1
  <2> QED
    BY <2>2 DEF Relisted
<1> HIDE DEF s1
<1>5. /\ n + 1 \in Nat /\ n + 2 \in Nat /\ v \in Nat /\ e \in Nat /\ b \in Nat
      /\ v \in 0 .. n /\ e \in 0 .. n /\ b \in 0 .. n /\ b \in 0 .. n + 1 /\ b # n + 1
  BY <1>0
<1>6. /\ number \in Node /\ number.tag = n + 1 /\ number.up = b /\ number.ref = v
      /\ number.kids = <<>> /\ number.param = 0 /\ ~number.fn
  <2> DEFINE m == n + 1
  <2>1. m \in Nat /\ b \in Nat /\ v \in Nat
    BY <1>0
  <2> HIDE DEF m
  <2> QED
    BY <2>1, LeafMade DEF m
<1>7. /\ pin \in Node /\ pin.tag = n + 2 /\ pin.up = b /\ pin.ref = e /\ pin.kids = <<>>
      /\ pin.param = 0 /\ ~pin.fn
  <2>1. n \in Nat /\ b \in Nat /\ e \in Nat
    BY <1>0
  <2> HIDE DEF n
  <2> QED
    BY <2>1, LeafAfter
<1> HIDE DEF number, pin
<1>8. Pair(n, number, pin)
  BY <1>5, <1>6, <1>7 DEF Pair
<1>9. Listed(s1, store, n, number, pin)
  <2> SUFFICES ASSUME NEW d \in 1 .. n
               PROVE  /\ s1[d].tag = store[d].tag /\ s1[d].up = store[d].up
                      /\ s1[d].param = store[d].param
                      /\ s1[d].ref \in 0 .. n /\ IsInjective(s1[d].kids)
                      /\ Range(s1[d].kids) = Range(store[d].kids)
                           \cup { z \in {n + 1} : number.up = d } \cup { z \in {n + 2} : pin.up = d }
    BY <1>4 DEF Listed
  <2>1. s1[d].tag = store[d].tag /\ s1[d].up = store[d].up /\ s1[d].param = store[d].param
        /\ s1[d].ref = store[d].ref /\ s1[d].kids = (IF d = b THEN l ELSE store[d].kids)
    BY <1>4
  <2>2. store[d].ref \in 0 .. n /\ IsInjective(store[d].kids)
    BY <1>0, NodeIs
  <2>3. { z \in {n + 1} : number.up = d } = IF d = b THEN {n + 1} ELSE {}
    BY <1>6
  <2>4. { z \in {n + 2} : pin.up = d } = IF d = b THEN {n + 2} ELSE {}
    BY <1>7
  <2> QED
    BY <1>3, <2>1, <2>2, <2>3, <2>4
<1>10. Structured(s1 \o <<number, pin>>, root) /\ Len(s1 \o <<number, pin>>) = n + 2
  BY <1>0, <1>8, <1>9, TwoMoreIs
<1>14. Edit(s1 \o <<number, pin>>, store, root)
  <2> DEFINE T == Range(WalkOrder(store, root))
             new == <<number, pin>>
  <2>1. Relisted(s1, store, b, l)
    BY <1>4 DEF Relisted
  <2>2. Created(new, n, T)
    <3> HIDE DEF n, T
    <3> QED
      BY <1>0, <1>6, <1>7, TwoNew
  <2>3. Structured(store, root) /\ b \in 1 .. Len(store)
    BY <1>0
  <2> HIDE DEF new
  <2>4. Edit(s1 \o new, store, root)
    BY <1>12, <1>13, <2>1, <2>2, <2>3, EditIs
  <2> QED
    BY <2>4 DEF new
<1>11. Structured(store, root)' /\ fresh' = Len(store') /\ fresh' >= 5
  <2>1. store' = s1 \o <<number, pin>>
    BY <1>2
  <2> HIDE DEF n
  <2> QED
    BY <1>0, <1>2, <1>10, <2>1
<1> QED
  BY <1>2, <1>11, <1>14 DEF Invariant

\* materialize_function_types_and_parameters.
LEMMA MaterializeKeeps ==
  ASSUME Invariant, NEW f \in UserBlocks, Materialize(f)
  PROVE  Invariant' /\ Edit(store', store, root)
<1> DEFINE n == Len(store)
           v == IdOf(TypeTag)
           front == [i \in 1 .. Arity |-> n + Arity + 1 - i]
           new == [i \in 1 .. Arity |-> ParamOf(n + i, f, Arity + 1 - i, v)]
           l == front \o store[f].kids
           s1 == WithList(store, f, l)
           s2 == s1 \o new
<1>0. /\ n \in Nat /\ fresh = n /\ fresh >= 5 /\ Structured(store, root)
      /\ store \in Seq(Node) /\ v \in 1 .. n /\ f \in 1 .. n /\ Arity \in Nat
  BY Known, BoundsAssumption DEF Invariant, Ids, TypeTag, UserBlocks
<1>1. store' = s2 /\ fresh' = fresh + Arity /\ root' = root
  BY <1>0 DEF Materialize, Edited, WithList
<1>2. /\ store[f].kids \in Seq(Nat) /\ Range(store[f].kids) \subseteq 1 .. n
      /\ \A k \in 1 .. n : store[k].param \in Nat
  BY <1>0, NodeIs
<1>3. \A k \in Range(store[f].kids) : store[k].param = 0
  <2> SUFFICES ASSUME NEW i \in DOMAIN store[f].kids
               PROVE  store[store[f].kids[i]].param = 0
    BY DEF Range
  <2>1. ~(store[store[f].kids[i]].param > 0)
    BY DEF Materialize, HasParams
  <2>2. store[f].kids[i] \in 1 .. n
    BY <1>2 DEF Range
  <2> HIDE DEF n
  <2> QED
    BY <1>2, <2>1, <2>2
<1>4. \A i \in 1 .. Arity : /\ n + Arity + 1 - i \in Nat /\ n + i \in Nat /\ Arity + 1 - i \in Nat
  BY <1>0
<1> HIDE DEF v
<1>5. front \in Seq(Nat)
  BY <1>0, <1>4
<1>6. new \in Seq(Node) /\ Len(new) = Arity /\ \A i \in 1 .. Arity : new[i] = ParamOf(n + i, f, Arity + 1 - i, v)
  <2>1. \A i \in 1 .. Arity : ParamOf(n + i, f, Arity + 1 - i, v) \in Node
    <3> SUFFICES ASSUME NEW i \in 1 .. Arity
                 PROVE  ParamOf(n + i, f, Arity + 1 - i, v) \in Node
      OBVIOUS
    <3> DEFINE a == n + i
               c == Arity + 1 - i
    <3>1. a \in Nat /\ c \in Nat /\ f \in Nat /\ v \in Nat
      BY <1>0, <1>4
    <3> HIDE DEF a, c
    <3>2. ParamOf(a, f, c, v) \in Node
      BY <3>1, ParamMade
    <3> QED
      BY <3>2 DEF a, c
  <2> QED
    BY <1>0, <2>1
<1>7. l \in Seq(Nat)
  BY <1>2, <1>5, ConcatProperties
<1>13. Keeps(l, store[f].kids, n)
  <2> DEFINE k == store[f].kids
  <2>1. \A i \in 1 .. Arity : n + Arity + 1 - i > n
    BY <1>0
  <2>2. Len(front) = Arity /\ \A i \in 1 .. Arity : front[i] = n + Arity + 1 - i
    BY <1>0
  <2>3. \A i \in 1 .. Len(front) : front[i] > n
    BY <2>1, <2>2
  <2>4. k \in Seq(Nat) /\ n \in Nat /\ front \in Seq(Nat)
    BY <1>0, <1>2, <1>5
  <2> HIDE DEF k, n, front
  <2>5. Keeps(front \o k, k, n)
    BY <2>3, <2>4, FrontKeeps
  <2> QED
    BY <2>5 DEF k
<1>14. Created(new, n, Range(WalkOrder(store, root)))
  <2> SUFFICES ASSUME NEW i \in 1 .. Arity
               PROVE  new[i].tag = n + i /\ ~new[i].fn
    BY <1>6 DEF Created
  <2> DEFINE a == n + i
             c == Arity + 1 - i
  <2>1. a \in Nat /\ c \in Nat /\ f \in Nat /\ v \in Nat
    BY <1>0, <1>4
  <2>2. new[i] = ParamOf(a, f, c, v)
    BY <1>6
  <2> HIDE DEF a, c, new
  <2>3. new[i].tag = a /\ ~new[i].fn
    <3>1. ParamOf(a, f, c, v).tag = a /\ ~ParamOf(a, f, c, v).fn
      BY DEF ParamOf, Leaf
    <3> QED
      BY <2>2, <3>1
  <2> QED
    BY <2>3 DEF a
<1>15. store[f].tag \notin BuiltinTags /\ ~(Builtins(store, root) /\ f = root)
  BY DEF UserBlocks, Builtins, Materialize
<1> HIDE DEF l, new
<1>8. /\ s1 \in Seq(Node) /\ Len(s1) = n
      /\ \A a \in 1 .. n :
           /\ s1[a].tag = store[a].tag /\ s1[a].up = store[a].up /\ s1[a].param = store[a].param
           /\ s1[a].fn = store[a].fn /\ s1[a].ref = store[a].ref
           /\ s1[a].kids = IF a = f THEN l ELSE store[a].kids
  <2>1. store \in Seq(Node) /\ f \in 1 .. Len(store) /\ l \in Seq(Nat)
    BY <1>0, <1>7
  <2>2. Relisted(s1, store, f, l) /\ \A a \in 1 .. Len(store) : s1[a].ref = store[a].ref
    BY <2>1, ListRewritten
  <2> HIDE DEF s1
  <2> QED
    BY <2>2 DEF Relisted
<1>16. Edit(s2, store, root)
  <2>1. Relisted(s1, store, f, l)
    BY <1>8 DEF Relisted
  <2>2. Structured(store, root) /\ f \in 1 .. Len(store)
    BY <1>0
  <2> HIDE DEF s1
  <2> QED
    BY <1>13, <1>14, <1>15, <2>1, <2>2, EditIs
<1> HIDE DEF s1
<1>9. /\ s2 \in Seq(Node) /\ Len(s2) = n + Arity
      /\ \A a \in 1 .. n : s2[a] = s1[a]
      /\ \A i \in 1 .. Arity : s2[n + i] = new[i]
  <2>0. s1 \in Seq(Node) /\ new \in Seq(Node)
    BY <1>6, <1>8
  <2>1. /\ s2 \in Seq(Node) /\ Len(s2) = Len(s1) + Len(new)
        /\ \A a \in 1 .. Len(s1) : s2[a] = s1[a]
        /\ \A i \in 1 .. Len(new) : s2[Len(s1) + i] = new[i]
    BY <2>0, Concatenated
  <2> HIDE DEF s2
  <2> QED
    BY <1>6, <1>8, <2>1
<1> HIDE DEF s2
<1>10. Parametrized(s2, store, f, v)
  <2>1. \A e \in 1 .. n : /\ s2[e].tag = store[e].tag /\ s2[e].up = store[e].up
                          /\ s2[e].param = store[e].param /\ s2[e].ref = store[e].ref
                          /\ e # f => s2[e].kids = store[e].kids
    BY <1>8, <1>9
  <2>2. s2[f].kids = [i \in 1 .. Arity |-> n + Arity + 1 - i] \o store[f].kids
    BY <1>0, <1>8, <1>9 DEF l
  <2>3. \A i \in 1 .. Arity : s2[n + i] = ParamOf(n + i, f, Arity + 1 - i, v)
    BY <1>6, <1>9
  <2> QED
    BY <1>9, <2>1, <2>2, <2>3 DEF Parametrized
<1>11. Structured(s2, root)
  <2>1. f \in 1 .. Len(store) /\ v \in 0 .. Len(store)
    BY <1>0
  <2> QED
    BY <1>0, <1>3, <1>10, <2>1, ParametersKeep
<1>12. Structured(store, root)' /\ fresh' = Len(store') /\ fresh' >= 5
  <2> HIDE DEF n
  <2> QED
    BY <1>0, <1>1, <1>9, <1>11
<1> QED
  BY <1>1, <1>12, <1>16 DEF Invariant

\* A sort keeps the module, and what it says.
LEMMA SortKeeps ==
  ASSUME Invariant, Sort
  PROVE  /\ Invariant'
         /\ Meaning(store') = Meaning(store) /\ TagAt(store', root') = TagAt(store, root)
<1> DEFINE order == SortOrder(store, root)
           to == Moves(store, root)
<1>0. Structured(store, root) /\ fresh = Len(store) /\ fresh >= 5
  BY DEF Invariant
<1>1. /\ store' = Reordered(store, root) /\ root' = Len(WalkOrder(store, root))
      /\ fresh' = fresh
  BY DEF Sort
<1>2. root' = to[root]
  BY <1>0, <1>1, SortOrderIs
<1>3. Renumbered(store', store, order, to)
  BY <1>0, <1>1, ReorderedIs
<1> HIDE DEF order, to
<1>4. Structured(store', to[root]) /\ Len(store') = Len(store)
  BY <1>0, <1>3, RenumberedKeeps, MovedIs
<1>5. Meaning(store') = Meaning(store) /\ TagAt(store', to[root]) = TagAt(store, root)
  BY <1>0, <1>3, RenumberedMeans
<1>6. Structured(store, root)' /\ fresh' = Len(store') /\ fresh' >= 5
  BY <1>0, <1>1, <1>2, <1>4
<1> QED
  BY <1>2, <1>5, <1>6 DEF Invariant

(***************************************************************************)
(* How a sort leaves the module.                                           *)
(***************************************************************************)
\* The tree has the numbers its walk comes to it in, and every function of it
\* its body in the order of the sort.
Tidy(s, r) ==
  /\ WalkOrder(s, r) = [i \in 1 .. r |-> i]
  /\ \A e \in 1 .. r : s[e].fn =>
       \A i, j \in 1 .. Len(s[e].kids) :
         i < j => BodyBefore(s, s[e].kids[i], s[e].kids[j])

\* A sort moves the tree to where the walk has it.
LEMMA MovedByWalk ==
  ASSUME NEW s, NEW r, Structured(s, r)
  PROVE  /\ Len(WalkOrder(s, r)) = Moves(s, r)[r] /\ Moves(s, r)[r] \in 1 .. Len(s)
         /\ \A p \in 1 .. Len(WalkOrder(s, r)) : Moves(s, r)[WalkOrder(s, r)[p]] = p
<1> DEFINE n == Len(s)
           w == WalkOrder(s, r)
           to == Moves(s, r)
           order == SortOrder(s, r)
<1>1. /\ Permutes(order, to, n) /\ Len(w) = to[r]
      /\ \A p \in 1 .. Len(w) : order[p] = w[p]
  BY SortOrderIs
<1>2. r \in 1 .. n
  BY DEF Structured
<1> HIDE DEF n, w, to, order
<1>3. /\ n \in Nat /\ \A e \in 1 .. n : to[e] \in 1 .. n
      /\ \A i \in 1 .. n : to[order[i]] = i
  BY <1>1 DEF Permutes
<1>4. Len(w) \in 1 .. n
  BY <1>1, <1>2, <1>3
<1>5. \A p \in 1 .. Len(w) : to[w[p]] = p
  BY <1>1, <1>3, <1>4
<1> QED
  BY <1>1, <1>4, <1>5 DEF n, w, to

\* What the walk comes to earlier gets a lower number, its children the order
\* of the body.
LEMMA BodyMoved ==
  ASSUME NEW s, NEW r, Structured(s, r), NEW e \in Range(WalkOrder(s, r)),
         NEW s2, s2 = Reordered(s, r), NEW to, to = Moves(s, r), NEW b, b = BodyOrder(s, e)
  PROVE  /\ e \in 1 .. Len(s) /\ Range(b) \subseteq Range(WalkOrder(s, r))
         /\ s2[to[e]].kids = Renamed(b, to) /\ Len(s2[to[e]].kids) = Len(b)
         /\ \A i \in 1 .. Len(b) : s2[to[e]].kids[i] = to[b[i]] /\ b[i] \in 1 .. Len(s)
         /\ \A i, j \in 1 .. Len(b) : i < j => to[b[i]] < to[b[j]]
<1> DEFINE n == Len(s)
           w == WalkOrder(s, r)
           kids == Bodies(s)
<1>1. /\ Ranked(kids, Ages(s), n) /\ DOMAIN kids = 1 .. n /\ r \in 1 .. n
      /\ \A x \in 1 .. n : kids[x] = BodyOrder(s, x)
      /\ w = PostOrder(kids, r)
  <2>1. r \in 1 .. n
    BY DEF Structured
  <2> QED
    BY <2>1, BodiesAre
<1>2. w \in Seq(1 .. n) /\ \A p \in 1 .. Len(w) : to[w[p]] = p
  BY WalkOrderIs, MovedByWalk
<1>3. s2[to[e]].kids = Renamed(b, to) /\ e \in 1 .. n
  <2>1. e \in 1 .. n
    BY <1>2, RangeOfSeq
  <2> QED
    BY <2>1, ReorderedIs
<1>4. b \in Seq(1 .. n)
  BY <1>3, BodyOrderIs
<1> HIDE DEF n, w, kids
<1>5. Range(b) \subseteq Range(w)
  BY <1>1, <1>3, WalkHolds DEF w
<1>6. Len(Renamed(b, to)) = Len(b) /\ \A i \in 1 .. Len(b) : Renamed(b, to)[i] = to[b[i]]
  <2> DEFINE k == Len(b)
  <2>1. k \in Nat /\ DOMAIN b = 1 .. k
    BY <1>4
  <2>2. Renamed(b, to) = [i \in 1 .. k |-> to[b[i]]]
    BY <2>1 DEF Renamed
  <2> HIDE DEF k
  <2>3. Len([i \in 1 .. k |-> to[b[i]]]) = k
    BY <2>1
  <2>4. Len(Renamed(b, to)) = k /\ \A i \in 1 .. k : Renamed(b, to)[i] = to[b[i]]
    BY <2>2, <2>3
  <2> QED
    BY <2>4 DEF k
<1>7. ASSUME NEW i \in 1 .. Len(b), NEW j \in 1 .. Len(b), i < j
      PROVE  to[b[i]] < to[b[j]]
  <2>1. kids[e] = b
    BY <1>1, <1>3
  <2>2. Precedes(PostOrder(kids, r), kids[e][i], kids[e][j])
    <3>1. e \in Range(PostOrder(kids, r)) /\ r \in DOMAIN kids
      BY <1>1 DEF w
    <3>2. i \in 1 .. Len(kids[e]) /\ j \in 1 .. Len(kids[e])
      BY <2>1
    <3> QED
      BY <1>1, <1>7, <3>1, <3>2, SiblingsInOrder
  <2>3. PICK p, q \in 1 .. Len(w) : p < q /\ w[p] = b[i] /\ w[q] = b[j]
    BY <1>1, <2>1, <2>2 DEF Precedes
  <2> QED
    BY <1>2, <2>3
<1>8. \A i \in 1 .. Len(b) : b[i] \in 1 .. n
  BY <1>4, ElementOfSeq
<1> QED
  BY <1>3, <1>5, <1>6, <1>7, <1>8 DEF n, w

\* A sorted body is as the next sort wants it.
LEMMA BodySettled ==
  ASSUME NEW s, NEW r, Structured(s, r), NEW e \in Range(WalkOrder(s, r)),
         NEW s2, s2 = Reordered(s, r), NEW to, to = Moves(s, r)
  PROVE  /\ s2[to[e]].fn =>
              \A i, j \in 1 .. Len(s2[to[e]].kids) :
                i < j => BodyBefore(s2, s2[to[e]].kids[i], s2[to[e]].kids[j])
         /\ BodyOrder(s2, to[e]) = Renamed(BodyOrder(s, e), to)
<1> DEFINE n == Len(s)
           b == BodyOrder(s, e)
           f == to[e]
<1>1. /\ e \in 1 .. n /\ s2[f].kids = Renamed(b, to) /\ Len(s2[f].kids) = Len(b)
      /\ \A i \in 1 .. Len(b) : s2[f].kids[i] = to[b[i]] /\ b[i] \in 1 .. n
      /\ \A i, j \in 1 .. Len(b) : i < j => to[b[i]] < to[b[j]]
  BY BodyMoved
<1>2. Renumbered(s2, s, SortOrder(s, r), to)
  BY ReorderedIs
<1>3. /\ n \in Nat /\ Len(s2) = n /\ f \in 1 .. n /\ Structured(s2, to[r])
      /\ \A x \in 1 .. n : to[x] \in 1 .. n
  BY <1>1, <1>2, MovedIs, RenumberedKeeps
<1>4. s2[f].fn = s[e].fn /\ \A x \in 1 .. n : s2[to[x]].param = s[x].param
  BY <1>1, <1>2 DEF Renumbered
<1>5. ASSUME s[e].fn
      PROVE  \A i, j \in 1 .. Len(b) : i < j => BodyBefore(s, b[i], b[j])
  BY <1>1, <1>5, BodySorted
<1> HIDE DEF b, f, n
<1>6. ASSUME s2[f].fn, NEW i \in 1 .. Len(b), NEW j \in 1 .. Len(b), i < j
      PROVE  BodyBefore(s2, s2[f].kids[i], s2[f].kids[j])
  <2> DEFINE x == b[i]
             y == b[j]
  <2>1. /\ x \in 1 .. n /\ y \in 1 .. n /\ to[x] < to[y]
        /\ s2[f].kids[i] = to[x] /\ s2[f].kids[j] = to[y]
    BY <1>1, <1>6
  <2>2. BodyBefore(s, x, y)
    BY <1>4, <1>5, <1>6
  <2>3. s2[to[x]].param = s[x].param /\ s2[to[y]].param = s[y].param
    BY <1>4, <2>1
  <2> HIDE DEF x, y
  <2>4. BodyBefore(s2, to[x], to[y])
    BY <2>1, <2>2, <2>3 DEF BodyBefore
  <2> QED
    BY <2>1, <2>4
<1>7. s2[f].fn => \A i, j \in 1 .. Len(s2[f].kids) :
                    i < j => BodyBefore(s2, s2[f].kids[i], s2[f].kids[j])
  BY <1>1, <1>6
<1>8. BodyOrder(s2, f) = s2[f].kids
  BY <1>3, <1>7, BodyStays
<1> QED
  BY <1>1, <1>7, <1>8 DEF f, b

LEMMA SortTidies ==
  ASSUME NEW s, NEW r, Structured(s, r)
  PROVE  Tidy(Reordered(s, r), Moves(s, r)[r])
<1> DEFINE n == Len(s)
           w == WalkOrder(s, r)
           to == Moves(s, r)
           s2 == Reordered(s, r)
           r2 == to[r]
           C == Range(w)
<1>1. /\ w \in Seq(1 .. n) /\ w # <<>> /\ w[Len(w)] = r /\ r2 = Len(w)
      /\ \A p \in 1 .. Len(w) : to[w[p]] = p
  BY WalkOrderIs, MovedByWalk
<1>2. \A e \in C : /\ e \in 1 .. n /\ Range(BodyOrder(s, e)) \subseteq C
                   /\ BodyOrder(s2, to[e]) = Renamed(BodyOrder(s, e), to)
                   /\ s2[to[e]].fn =>
                        \A i, j \in 1 .. Len(s2[to[e]].kids) :
                          i < j => BodyBefore(s2, s2[to[e]].kids[i], s2[to[e]].kids[j])
  BY BodyMoved, BodySettled
<1>3. /\ n \in Nat /\ Len(s2) = n /\ Structured(s2, r2)
      /\ \A x \in 1 .. n : to[x] \in 1 .. n
  <2>1. Renumbered(s2, s, SortOrder(s, r), to)
    BY ReorderedIs
  <2> QED
    BY <2>1, MovedIs, RenumberedKeeps
<1>4. /\ Ranked(Bodies(s), Ages(s), n) /\ DOMAIN Bodies(s) = 1 .. n
      /\ \A e \in 1 .. n : Bodies(s)[e] = BodyOrder(s, e)
      /\ w = PostOrder(Bodies(s), r) /\ r \in 1 .. n
  <2>1. r \in 1 .. n
    BY DEF Structured
  <2> QED
    BY <2>1, BodiesAre
<1> HIDE DEF s2, r2, to, n, w
<1>5. /\ Ranked(Bodies(s2), Ages(s2), n) /\ DOMAIN Bodies(s2) = 1 .. n
      /\ \A e \in 1 .. n : /\ Bodies(s2)[e] = BodyOrder(s2, e)
                           /\ WalkOrder(s2, e) = PostOrder(Bodies(s2), e)
  BY <1>3, BodiesAre
<1>6. Len(w) \in Nat \ {0} /\ r \in C /\ DOMAIN w = 1 .. Len(w)
  <2>1. Len(w) \in Nat \ {0} /\ DOMAIN w = 1 .. Len(w)
    BY <1>1
  <2> QED
    BY <1>1, <2>1 DEF Range
<1>7. PostOrder(Bodies(s2), r2) = Renamed(w, to)
  <2>1. C \subseteq DOMAIN Bodies(s) /\ \A e \in C : Range(Bodies(s)[e]) \subseteq C
    BY <1>2, <1>4
  <2>2. \A e \in C : to[e] \in DOMAIN Bodies(s2) /\ Bodies(s2)[to[e]] = Renamed(Bodies(s)[e], to)
    BY <1>2, <1>3, <1>4, <1>5
  <2> DEFINE A == Bodies(s)
             B == Bodies(s2)
             g == Ages(s)
             h == Ages(s2)
  <2>3. /\ Ranked(A, g, n) /\ Ranked(B, h, n) /\ r \in C
        /\ C \subseteq DOMAIN A /\ \A e \in C : Range(A[e]) \subseteq C
        /\ \A e \in C : to[e] \in DOMAIN B /\ B[to[e]] = Renamed(A[e], to)
    BY <1>4, <1>5, <1>6, <2>1, <2>2
  <2> HIDE DEF C, A, B, g, h
  <2>4. PostOrder(B, to[r]) = Renamed(PostOrder(A, r), to)
    BY <2>3, RenamedWalk
  <2> QED
    BY <1>4, <2>4 DEF r2, A, B
<1>8. r2 \in 1 .. n
  BY <1>3, <1>4 DEF r2
<1>9. WalkOrder(s2, r2) = [i \in 1 .. r2 |-> i]
  <2>1. Renamed(w, to) = [i \in 1 .. r2 |-> to[w[i]]]
    BY <1>1, <1>6 DEF Renamed
  <2>2. WalkOrder(s2, r2) = Renamed(w, to)
    BY <1>5, <1>7, <1>8
  <2> QED
    BY <1>1, <2>1, <2>2
<1>10. ASSUME NEW f \in 1 .. r2, s2[f].fn
       PROVE  \A i, j \in 1 .. Len(s2[f].kids) :
                i < j => BodyBefore(s2, s2[f].kids[i], s2[f].kids[j])
  <2>1. w[f] \in C /\ to[w[f]] = f
    BY <1>1, <1>6 DEF Range
  <2> HIDE DEF C
  <2> QED
    BY <1>2, <1>10, <2>1
<1>11. Tidy(s2, r2)
  BY <1>9, <1>10 DEF Tidy
<1> QED
  BY <1>11 DEF s2, r2, to

\* What has been sorted is not moved by another sort.
LEMMA TidyOrder ==
  ASSUME NEW s, NEW r, Structured(s, r), Tidy(s, r)
  PROVE  /\ \A e \in 0 .. Len(s) : Moves(s, r)[e] = e
         /\ SortOrder(s, r) = [i \in 1 .. Len(s) |-> i]
         /\ Range(WalkOrder(s, r)) = 1 .. r
         /\ \A e \in 1 .. r : BodyOrder(s, e) = s[e].kids
<1> DEFINE n == Len(s)
           w == WalkOrder(s, r)
           rest == 1 .. n \ Range(w)
           before == [a \in rest |-> { b \in rest : b < a }]
           l == [i \in 1 .. n - r |-> r + i]
           m == InOrder(rest, before)
           to == Moves(s, r)
           order == SortOrder(s, r)
<1>0. n \in Nat /\ r \in 1 .. n
  BY DEF Structured
<1>1. w = [i \in 1 .. r |-> i]
  BY DEF Tidy
<1>2. order = w \o m
  BY DEF SortOrder, Missing
<1>3. Permutes(order, to, n)
  BY SortOrderIs
<1>4. \A e \in 1 .. r : BodyOrder(s, e) = s[e].kids
  <2> SUFFICES ASSUME NEW e \in 1 .. r
               PROVE  BodyOrder(s, e) = s[e].kids
    OBVIOUS
  <2>1. e \in 1 .. n
    BY <1>0
  <2> QED
    BY <2>1, BodyStays DEF Tidy
<1> HIDE DEF n, w, to, order
<1>5. Range(w) = 1 .. r /\ w \in Seq(Nat) /\ Len(w) = r
  <2>1. DOMAIN w = 1 .. r /\ \A i \in 1 .. r : w[i] = i
    BY <1>1
  <2>2. r \in Nat
    BY <1>0
  <2> QED
    BY <1>1, <2>1, <2>2 DEF Range
<1>6. rest = r + 1 .. n
  BY <1>0, <1>5
<1> HIDE DEF rest
<1>7. Orders(rest, before)
  <2>1. \A a \in rest : a \in Nat
    BY <1>0, <1>6
  <2> QED
    BY <2>1 DEF Orders
<1>8. l \in Seq(rest) /\ Len(l) = n - r /\ DOMAIN l = 1 .. n - r
      /\ \A i \in 1 .. n - r : l[i] = r + i
  <2>1. n - r \in Nat /\ \A i \in 1 .. n - r : r + i \in rest
    BY <1>0, <1>6
  <2> QED
    BY <2>1
<1> HIDE DEF l
<1>9. Range(l) = rest /\ IsInjective(l)
  <2>1. \A x \in rest : x - r \in 1 .. n - r /\ r + (x - r) = x
    BY <1>0, <1>6
  <2>2. \A i \in 1 .. n - r : r + i \in rest
    BY <1>0, <1>6
  <2>3. \A i, j \in 1 .. n - r : r + i = r + j => i = j
    BY <1>0
  <2>4. Range(l) = rest
    BY <1>8, <2>1, <2>2 DEF Range
  <2>5. IsInjective(l)
    BY <1>8, <2>3 DEF IsInjective
  <2> QED
    BY <2>4, <2>5
<1>10. ASSUME NEW i \in 1 .. Len(l), NEW j \in 1 .. Len(l), i < j
       PROVE  l[i] \in before[l[j]]
  <2>1. l[i] \in rest /\ l[j] \in rest /\ l[i] < l[j]
    BY <1>0, <1>6, <1>8, <1>10
  <2> QED
    BY <2>1
<1> HIDE DEF before
<1>11. m = l
  BY <1>7, <1>8, <1>9, <1>10, InOrderStays
<1>12. order \in Seq(Nat) /\ Len(order) = n /\ \A i \in 1 .. n : order[i] = i
  <2>1. w \in Seq(Nat) /\ l \in Seq(Nat)
    <3>1. rest \subseteq Nat
      BY <1>0, <1>6
    <3> QED
      BY <1>5, <1>8, <3>1, SeqMonotonic
  <2>2. order = w \o l
    BY <1>2, <1>11
  <2>3. /\ w \o l \in Seq(Nat) /\ Len(w \o l) = Len(w) + Len(l)
        /\ \A i \in 1 .. Len(w) + Len(l) : (w \o l)[i] = IF i <= Len(w) THEN w[i] ELSE l[i - Len(w)]
    BY <2>1, ConcatProperties
  <2>4. Len(order) = n
    BY <1>0, <1>5, <1>8, <2>2, <2>3
  <2>5. ASSUME NEW i \in 1 .. n
        PROVE  order[i] = i
    <3>1. order[i] = IF i <= r THEN w[i] ELSE l[i - r]
      BY <1>0, <1>5, <1>8, <2>2, <2>3
    <3>2. CASE i <= r
      <4>1. i \in 1 .. r
        BY <1>0, <3>2
      <4> QED
        BY <1>1, <3>1, <3>2, <4>1
    <3>3. CASE ~(i <= r)
      <4>1. i - r \in 1 .. n - r /\ r + (i - r) = i
        BY <1>0, <3>3
      <4> QED
        BY <1>8, <3>1, <3>3, <4>1
    <3> QED
      BY <3>2, <3>3
  <2> QED
    BY <2>2, <2>3, <2>4, <2>5
<1>13. order = [i \in 1 .. n |-> i]
  <2>1. DOMAIN order = 1 .. n /\ order = [i \in DOMAIN order |-> order[i]]
    BY <1>12
  <2> QED
    BY <1>12, <2>1
<1>14. ASSUME NEW e \in 0 .. n
       PROVE  to[e] = e
  <2>1. to[0] = 0 /\ \A i \in 1 .. n : to[order[i]] = i
    BY <1>3 DEF Permutes
  <2>2. e = 0 \/ e \in 1 .. n
    BY <1>0
  <2> QED
    BY <1>12, <2>1, <2>2
<1> QED
  BY <1>4, <1>5, <1>13, <1>14 DEF n, w, to, order

\* So it stays as it is.
LEMMA TidyStays ==
  ASSUME NEW s, NEW r, Structured(s, r), Tidy(s, r)
  PROVE  Reordered(s, r) = s
<1> DEFINE n == Len(s)
           order == SortOrder(s, r)
           to == Moves(s, r)
           reached == Range(WalkOrder(s, r))
           body(e) == IF e \in reached THEN BodyOrder(s, e) ELSE s[e].kids
           kids(e) == [j \in DOMAIN body(e) |-> to[body(e)[j]]]
           moved(e) == [s[e] EXCEPT !.up = to[@], !.ref = to[@], !.kids = kids(e)]
           s2 == Reordered(s, r)
<1>1. s2 = [i \in DOMAIN order |-> moved(order[i])]
  BY DEF Reordered, Moves
<1>2. /\ \A e \in 0 .. n : to[e] = e
      /\ order = [i \in 1 .. n |-> i] /\ reached = 1 .. r
      /\ \A e \in 1 .. r : BodyOrder(s, e) = s[e].kids
  BY TidyOrder
<1>3. s \in Seq(Node) /\ n \in Nat /\ s = [i \in 1 .. n |-> s[i]]
  BY DEF Structured
<1>4. \A e \in 1 .. n : body(e) = s[e].kids
  BY <1>2
<1> HIDE DEF body, order, to, reached, s2
<1>5. ASSUME NEW e \in 1 .. n
      PROVE  moved(e) = s[e]
  <2>1. /\ s[e] \in Node /\ s[e].up \in 0 .. n /\ s[e].ref \in 0 .. n
        /\ s[e].kids \in Seq(Nat) /\ Range(s[e].kids) \subseteq 1 .. n
    BY NodeIs
  <2>2. kids(e) = s[e].kids
    <3> DEFINE k == s[e].kids
               l == Len(k)
    <3>1. l \in Nat /\ DOMAIN k = 1 .. l /\ k = [j \in 1 .. l |-> k[j]]
      BY <2>1
    <3>2. \A j \in 1 .. l : k[j] \in 0 .. n
      BY <1>3, <2>1, <3>1 DEF Range
    <3>3. kids(e) = [j \in DOMAIN k |-> to[k[j]]]
      BY <1>4
    <3> HIDE DEF k, l
    <3> QED
      BY <1>2, <3>1, <3>2, <3>3 DEF k
  <2>3. to[s[e].up] = s[e].up /\ to[s[e].ref] = s[e].ref
    BY <1>2, <2>1
  <2> HIDE DEF kids
  <2> QED
    BY <2>1, <2>2, <2>3 DEF Node
<1> HIDE DEF moved
<1>6. s2 = [i \in 1 .. n |-> moved(i)]
  BY <1>1, <1>2
<1>7. s2 = s
  BY <1>3, <1>5, <1>6
<1> QED
  BY <1>7 DEF s2

\* What a walker can count on in a sorted module.
LEMMA TidyIs ==
  ASSUME NEW s, NEW r, Structured(s, r), Tidy(s, r)
  PROVE  /\ r = Len(WalkOrder(s, r))
         /\ \A e \in 1 .. r :
              WalkOrder(s, e) = [i \in DOMAIN WalkOrder(s, e) |-> e - Len(WalkOrder(s, e)) + i]
         /\ \A f \in 1 .. r : s[f].fn =>
              \A i, j \in DOMAIN s[f].kids :
                i < j /\ s[s[f].kids[j]].param > 0
                => s[s[f].kids[i]].param \in 1 .. s[s[f].kids[j]].param - 1
<1> DEFINE n == Len(s)
           kids == Bodies(s)
<1>0. n \in Nat /\ r \in 1 .. n /\ WalkOrder(s, r) = [i \in 1 .. r |-> i]
  BY DEF Structured, Tidy
<1>1. /\ Ranked(kids, Ages(s), n) /\ DOMAIN kids = 1 .. n
      /\ \A e \in 1 .. n : WalkOrder(s, e) = PostOrder(kids, e)
  BY BodiesAre
<1> HIDE DEF n, kids
<1>2. r = Len(WalkOrder(s, r))
  BY <1>0
<1>3. ASSUME NEW e \in 1 .. r
      PROVE  WalkOrder(s, e) = [i \in DOMAIN WalkOrder(s, e) |-> e - Len(WalkOrder(s, e)) + i]
  <2> DEFINE w == PostOrder(kids, r)
             v == PostOrder(kids, e)
             k == Len(v)
  <2>1. w = [i \in 1 .. r |-> i] /\ WalkOrder(s, e) = v
    <3>1. e \in 1 .. n
      BY <1>0
    <3> QED
      BY <1>0, <1>1, <3>1
  <2>2. e \in Range(w)
    BY <2>1 DEF Range
  <2>3. /\ v \in Seq(DOMAIN kids) /\ k \in Nat \ {0} /\ v[k] = e
        /\ \E a : Segment(v, w, a)
    BY <1>0, <1>1, <2>2, SubtreesTogether
  <2>4. PICK a : Segment(v, w, a)
    BY <2>3
  <2>5. DOMAIN v = 1 .. k /\ v = [i \in 1 .. k |-> v[i]]
    BY <2>3
  <2>6. Len(w) = r
    BY <1>0, <2>1
  <2> HIDE DEF w, v, k
  <2>7. a \in Nat /\ a + k <= r /\ \A i \in 1 .. k : w[a + i] = v[i]
    BY <2>4, <2>6 DEF Segment, k
  <2>8. \A i \in 1 .. k : v[i] = a + i
    <3> SUFFICES ASSUME NEW i \in 1 .. k
                 PROVE  v[i] = a + i
      OBVIOUS
    <3>1. a + i \in 1 .. r
      BY <1>0, <2>3, <2>7
    <3> QED
      BY <2>1, <2>7, <3>1
  <2>9. k \in 1 .. k /\ e = a + k
    BY <2>3, <2>8
  <2>10. \A i \in 1 .. k : v[i] = e - k + i
    BY <2>3, <2>7, <2>8, <2>9
  <2>11. v = [i \in DOMAIN v |-> e - k + i]
    BY <2>5, <2>10
  <2> QED
    BY <2>1, <2>11 DEF k
<1>4. ASSUME NEW f \in 1 .. r, s[f].fn, NEW i \in DOMAIN s[f].kids, NEW j \in DOMAIN s[f].kids,
             i < j, s[s[f].kids[j]].param > 0
      PROVE  s[s[f].kids[i]].param \in 1 .. s[s[f].kids[j]].param - 1
  <2> DEFINE x == s[f].kids[i]
             y == s[f].kids[j]
  <2>1. f \in 1 .. n
    BY <1>0
  <2>2. s[f].kids \in Seq(Nat) /\ Range(s[f].kids) \subseteq 1 .. n
    BY <2>1, NodeIs DEF n
  <2>3. DOMAIN s[f].kids = 1 .. Len(s[f].kids)
    BY <2>2
  <2>4. BodyBefore(s, x, y)
    BY <1>4, <2>3 DEF Tidy
  <2>5. x \in 1 .. n /\ y \in 1 .. n
    BY <2>2 DEF Range
  <2>6. s[x].param \in Nat /\ s[y].param \in Nat /\ s[y].param > 0
    BY <1>4, <2>5, NodeIs DEF n
  <2> HIDE DEF x, y
  <2>7. s[x].param > 0 /\ s[x].param < s[y].param
    BY <2>4, <2>6 DEF BodyBefore
  <2>8. s[x].param \in 1 .. s[y].param - 1
    BY <2>6, <2>7
  <2> QED
    BY <2>8 DEF x, y
<1> QED
  BY <1>2, <1>3, <1>4

(***************************************************************************)
(* What stays through edits and sorts.                                     *)
(***************************************************************************)
\* Every function is in the tree.
Functions(s, r) == \A f \in 1 .. Len(s) : s[f].fn => f \in Range(WalkOrder(s, r))

\* What a function lists with tags up to m it lists in the order of a sort.
InOrderSince(s, m) ==
  \A f \in 1 .. Len(s) : s[f].fn =>
    \A i, j \in 1 .. Len(s[f].kids) :
      i < j /\ s[s[f].kids[i]].tag <= m /\ s[s[f].kids[j]].tag <= m
      => BodyBefore(s, s[f].kids[i], s[f].kids[j])

\* The ids of the builtins behind a sort.
Numbered(s) == s[1].tag = 2 /\ s[2].tag = 3 /\ s[3].tag = 5 /\ s[4].tag = 4

\* What is listed by an entity of the tree is in the tree.
LEMMA InTreeIs ==
  ASSUME NEW s, NEW r, Structured(s, r)
  PROVE  /\ r \in Range(WalkOrder(s, r))
         /\ \A e \in Range(WalkOrder(s, r)) :
              /\ e \in 1 .. Len(s) /\ Range(s[e].kids) \subseteq Range(WalkOrder(s, r))
              /\ e # r => s[e].up \in Range(WalkOrder(s, r)) /\ s[s[e].up].tag < s[e].tag
<1> DEFINE n == Len(s)
           w == WalkOrder(s, r)
           kids == Bodies(s)
           rank == Ages(s)
           up == Ups(s)
           C == Attached(s, r)
<1>1. /\ Ranked(kids, rank, n) /\ Owned(kids, up, C) /\ DOMAIN kids = 1 .. n
      /\ r \in C /\ C \subseteq 1 .. n /\ w = PostOrder(kids, r)
      /\ \A e \in 1 .. n : kids[e] = BodyOrder(s, e)
  BY BodiesAre
<1>2. \A e \in 1 .. n : /\ Range(BodyOrder(s, e)) = Range(s[e].kids)
                        /\ s[e].tag \in 1 .. n
  BY BodyOrderIs, NodeIs
<1>3. \A e \in 1 .. n : rank[e] = n - s[e].tag /\ up[e] = s[e].up
  BY DEF Structured, Ages, Ups
<1>4. n \in Nat
  BY DEF Structured
<1>5. w \in Seq(1 .. n) /\ w # <<>> /\ w[Len(w)] = r
  BY WalkOrderIs
<1> HIDE DEF n, w, kids, rank, up, C
<1>6. PICK F : Walks(kids, F) /\ \A e \in DOMAIN kids : PostOrder(kids, e) = F[e]
  BY <1>1, PostOrderIs
<1>7. \A x \in Range(w) : x # r => up[x] \in Range(w) /\ rank[x] < rank[up[x]]
  <2>1. w = F[r]
    BY <1>1, <1>6
  <2>2. \A e \in C : \A x \in Range(F[e]) :
           x # e => up[x] \in Range(F[e]) /\ rank[x] < rank[up[x]]
    BY <1>1, <1>6, WalkUp
  <2> QED
    BY <1>1, <2>1, <2>2
<1>8. \A x \in Range(w) : x \in 1 .. n /\ Range(kids[x]) \subseteq Range(w)
  BY <1>1, WalkHolds
<1>9. r \in Range(w)
  <2>1. Len(w) \in DOMAIN w
    BY <1>5
  <2> QED
    BY <1>5, <2>1 DEF Range
<1>10. ASSUME NEW e \in Range(w), e # r
       PROVE  s[e].up \in Range(w) /\ s[s[e].up].tag < s[e].tag
  <2> DEFINE u == s[e].up
  <2>1. e \in 1 .. n /\ u \in Range(w) /\ u \in 1 .. n /\ rank[e] < rank[u]
    BY <1>3, <1>7, <1>8, <1>10
  <2> HIDE DEF u
  <2>2. n - s[e].tag < n - s[u].tag /\ s[e].tag \in 1 .. n /\ s[u].tag \in 1 .. n
    BY <1>2, <1>3, <2>1
  <2>3. s[u].tag < s[e].tag
    BY <1>4, <2>2
  <2> QED
    BY <2>1, <2>3 DEF u
<1>11. \A e \in Range(w) : e \in 1 .. n /\ Range(s[e].kids) \subseteq Range(w)
  BY <1>1, <1>2, <1>8
<1> QED
  BY <1>9, <1>10, <1>11 DEF n, w

\* What there is to know of an edit.
LEMMA EditSays ==
  ASSUME NEW s, NEW r, Structured(s, r), NEW s2, Structured(s2, r), Edit(s2, s, r)
  PROVE  /\ Len(s) \in Nat /\ Len(s2) \in Nat /\ Len(s2) >= Len(s) /\ r \in 1 .. Len(s)
         /\ \A e \in 1 .. Len(s) :
              /\ s2[e].tag = s[e].tag /\ s2[e].up = s[e].up /\ s2[e].fn = s[e].fn
              /\ s2[e].param = s[e].param
              /\ Keeps(s2[e].kids, s[e].kids, Len(s))
              /\ s[e].tag \in BuiltinTags => s2[e].kids = s[e].kids
         /\ Builtins(s, r) => Starts(s2[r].kids, s[r].kids)
         /\ \A x \in Len(s) + 1 .. Len(s2) :
              /\ s2[x].tag = x
              /\ s2[x].fn => Len(s2[x].kids) = 0 /\ s2[x].up \in Range(WalkOrder(s, r))
         /\ \A e \in 1 .. Len(s2) : s2[e].up # 0 => e \in Range(s2[s2[e].up].kids)
<1>1. Len(s) \in Nat /\ r \in 1 .. Len(s)
  BY DEF Structured
<1>2. Len(s2) \in Nat /\ \A e \in 1 .. Len(s2) : s2[e].up # 0 => e \in Range(s2[s2[e].up].kids)
  <2>1. Len(s2) \in Nat
    BY DEF Structured
  <2>2. ASSUME NEW e \in 1 .. Len(s2), s2[e].up # 0
        PROVE  e \in Range(s2[s2[e].up].kids)
    BY <2>2 DEF Structured
  <2> QED
    BY <2>1, <2>2
<1> QED
  BY <1>1, <1>2 DEF Edit

\* An edit leaves what is in the tree there.
LEMMA TreeGrows ==
  ASSUME NEW s, NEW r, Structured(s, r), NEW s2, Structured(s2, r), Edit(s2, s, r)
  PROVE  Range(WalkOrder(s, r)) \subseteq Range(WalkOrder(s2, r))
<1> DEFINE n == Len(s)
           W == Range(WalkOrder(s, r))
           W2 == Range(WalkOrder(s2, r))
           S == { k \in Nat : \A e \in W : s[e].tag < k => e \in W2 }
<1>1. /\ \A e \in W : /\ e \in 1 .. n
                      /\ e # r => s[e].up \in W /\ s[s[e].up].tag < s[e].tag
      /\ r \in W2 /\ \A e \in W2 : Range(s2[e].kids) \subseteq W2
  BY InTreeIs
<1>2. n \in Nat /\ \A e \in 1 .. n : s[e].tag \in 1 .. n
  BY NodeIs DEF Structured
<1>3. /\ Len(s2) \in Nat /\ Len(s2) >= n
      /\ \A e \in 1 .. n : s2[e].up = s[e].up
      /\ \A e \in 1 .. Len(s2) : s2[e].up # 0 => e \in Range(s2[s2[e].up].kids)
  BY EditSays
<1> HIDE DEF n, W, W2
<1>4. 0 \in S
  BY <1>1, <1>2
<1>5. ASSUME NEW k \in Nat, k \in S
      PROVE  k + 1 \in S
  <2> SUFFICES ASSUME NEW e \in W, s[e].tag < k + 1
               PROVE  e \in W2
    OBVIOUS
  <2>1. CASE e = r
    BY <1>1, <2>1
  <2>2. CASE e # r
    <3> DEFINE u == s[e].up
    <3>1. e \in 1 .. n /\ u \in W /\ u \in 1 .. n /\ s[u].tag < s[e].tag
      BY <1>1, <2>2
    <3> HIDE DEF u
    <3>2. s[u].tag < k
      BY <1>2, <3>1
    <3>3. u \in W2
      BY <1>5, <3>1, <3>2
    <3>4. e \in Range(s2[u].kids)
      <4>1. e \in 1 .. Len(s2) /\ u # 0
        BY <1>2, <1>3, <3>1
      <4>2. s2[e].up = u
        BY <1>3, <3>1 DEF u
      <4> QED
        BY <1>3, <4>1, <4>2
    <3> QED
      BY <1>1, <3>3, <3>4
  <2> QED
    BY <2>1, <2>2
<1>6. n + 1 \in S
  <2> HIDE DEF S
  <2> QED
    BY <1>2, <1>4, <1>5, SetInduction
<1>7. \A e \in W : s[e].tag < n + 1
  BY <1>1, <1>2
<1> QED
  BY <1>6, <1>7 DEF W, W2

LEMMA FunctionsStay ==
  ASSUME NEW s, NEW r, Structured(s, r), NEW s2, Structured(s2, r), Edit(s2, s, r),
         Functions(s, r)
  PROVE  Functions(s2, r)
<1> DEFINE n == Len(s)
           m == Len(s2)
           W == Range(WalkOrder(s, r))
           W2 == Range(WalkOrder(s2, r))
<1>1. W \subseteq W2 /\ W \subseteq 1 .. n /\ \A e \in W2 : Range(s2[e].kids) \subseteq W2
  BY TreeGrows, InTreeIs
<1>2. /\ n \in Nat /\ m \in Nat /\ m >= n
      /\ \A e \in 1 .. n : s2[e].fn = s[e].fn
      /\ \A x \in n + 1 .. m : s2[x].fn => s2[x].up \in W
      /\ \A e \in 1 .. m : s2[e].up # 0 => e \in Range(s2[s2[e].up].kids)
  BY EditSays
<1>3. \A f \in 1 .. n : s[f].fn => f \in W
  BY DEF Functions
<1> HIDE DEF n, m, W, W2
<1>4. ASSUME NEW f \in 1 .. m, s2[f].fn
      PROVE  f \in W2
  <2>1. CASE f \in 1 .. n
    BY <1>1, <1>2, <1>3, <1>4, <2>1
  <2>2. CASE f \in n + 1 .. m
    <3>1. s2[f].up \in W /\ s2[f].up # 0
      BY <1>1, <1>2, <1>4, <2>2
    <3> QED
      BY <1>1, <1>2, <3>1
  <2>3. f \in 1 .. n \/ f \in n + 1 .. m
    BY <1>2
  <2> QED
    BY <2>1, <2>2, <2>3
<1> QED
  BY <1>4 DEF Functions, m, W2

LEMMA OrderStays ==
  ASSUME NEW s, NEW r, Structured(s, r), NEW s2, Structured(s2, r), Edit(s2, s, r),
         NEW m \in 0 .. Len(s), InOrderSince(s, m)
  PROVE  InOrderSince(s2, m)
<1> DEFINE n == Len(s)
           n2 == Len(s2)
<1>1. /\ n \in Nat /\ n2 \in Nat /\ n2 >= n
      /\ \A e \in 1 .. n : /\ s2[e].fn = s[e].fn /\ s2[e].tag = s[e].tag
                           /\ s2[e].param = s[e].param /\ Keeps(s2[e].kids, s[e].kids, n)
      /\ \A x \in n + 1 .. n2 : s2[x].tag = x /\ (s2[x].fn => Len(s2[x].kids) = 0)
  BY EditSays
<1>2. \A e \in 1 .. n2 : s2[e].kids \in Seq(Nat) /\ Range(s2[e].kids) \subseteq 1 .. n2
  BY NodeIs
<1>3. \A e \in 1 .. n : s[e].kids \in Seq(Nat) /\ Range(s[e].kids) \subseteq 1 .. n
  BY NodeIs
<1>4. \A f \in 1 .. n : s[f].fn =>
        \A i, j \in 1 .. Len(s[f].kids) :
          i < j /\ s[s[f].kids[i]].tag <= m /\ s[s[f].kids[j]].tag <= m
          => BodyBefore(s, s[f].kids[i], s[f].kids[j])
  BY DEF InOrderSince
<1>0. m \in Nat /\ m <= n
  BY <1>1
<1> HIDE DEF n, n2
<1>5. ASSUME NEW f \in 1 .. n2, s2[f].fn,
             NEW i \in 1 .. Len(s2[f].kids), NEW j \in 1 .. Len(s2[f].kids), i < j,
             s2[s2[f].kids[i]].tag <= m, s2[s2[f].kids[j]].tag <= m
      PROVE  BodyBefore(s2, s2[f].kids[i], s2[f].kids[j])
  <2> DEFINE a == s2[f].kids[i]
             c == s2[f].kids[j]
  <2>1. f \in 1 .. n
    <3> SUFFICES ASSUME f \in n + 1 .. n2
                 PROVE  FALSE
      BY <1>1
    <3>1. Len(s2[f].kids) = 0
      BY <1>1, <1>5
    <3> QED
      BY <1>5, <3>1
  <2>2. a \in 1 .. n2 /\ c \in 1 .. n2
    <3>1. DOMAIN s2[f].kids = 1 .. Len(s2[f].kids) /\ Range(s2[f].kids) \subseteq 1 .. n2
      BY <1>2
    <3> QED
      BY <3>1 DEF Range
  <2>3. \A x \in 1 .. n2 : s2[x].tag <= m => x \in 1 .. n
    <3> SUFFICES ASSUME NEW x \in n + 1 .. n2, s2[x].tag <= m
                 PROVE  FALSE
      BY <1>1
    <3>1. s2[x].tag = x
      BY <1>1
    <3> QED
      BY <1>0, <1>1, <3>1
  <2>4. a \in 1 .. n /\ c \in 1 .. n
    BY <1>5, <2>2, <2>3
  <2>5. Precedes(s[f].kids, a, c)
    <3>1. a <= n /\ c <= n
      BY <1>1, <2>4
    <3> QED
      BY <1>1, <1>5, <2>1, <3>1 DEF Keeps
  <2>6. PICK p, q \in 1 .. Len(s[f].kids) : p < q /\ s[f].kids[p] = a /\ s[f].kids[q] = c
    BY <2>5 DEF Precedes
  <2>7. s[f].fn /\ s[a].tag <= m /\ s[c].tag <= m
    BY <1>1, <1>5, <2>1, <2>4
  <2> HIDE DEF a, c
  <2>8. BodyBefore(s, a, c)
    BY <1>4, <2>1, <2>6, <2>7
  <2>9. BodyBefore(s2, a, c)
    BY <1>1, <2>4, <2>8 DEF BodyBefore
  <2> QED
    BY <2>9 DEF a, c
<1> QED
  BY <1>5 DEF InOrderSince, n2

LEMMA BuiltinsStay ==
  ASSUME NEW s, NEW r, Structured(s, r), Len(s) >= 5, NEW s2, Structured(s2, r),
         Edit(s2, s, r), Builtins(s, r)
  PROVE  Builtins(s2, r)
<1> DEFINE n == Len(s)
           m == Len(s2)
<1>1. /\ n \in Nat /\ n >= 5 /\ m \in Nat /\ m >= n /\ r \in 1 .. n
      /\ \A e \in 1 .. n : /\ s2[e].fn = s[e].fn /\ s2[e].tag = s[e].tag
                           /\ s[e].tag \in 2 .. 5 => s2[e].kids = s[e].kids
      /\ \A x \in n + 1 .. m : s2[x].tag = x
      /\ Starts(s2[r].kids, s[r].kids)
  BY EditSays DEF BuiltinTags
<1>2. \A e \in 1 .. n : s[e].kids \in Seq(Nat) /\ Range(s[e].kids) \subseteq 1 .. n
  BY NodeIs
<1>3. /\ ~s[r].fn /\ Len(s[r].kids) >= 3
      /\ s[s[r].kids[1]].tag = 2 /\ s[s[r].kids[2]].tag = 3 /\ s[s[r].kids[3]].tag = 4
      /\ \A e \in 1 .. n :
           /\ s[e].tag \in {2, 3, 5} => ~s[e].fn /\ Len(s[e].kids) = 0
           /\ s[e].tag = 4 => /\ ~s[e].fn /\ Len(s[e].kids) = 1
                              /\ s[s[e].kids[1]].tag = 5
  BY DEF Builtins
<1> HIDE DEF n, m
<1>4. \A e \in 1 .. n : \A i \in 1 .. Len(s[e].kids) : s[e].kids[i] \in 1 .. n
  <2> SUFFICES ASSUME NEW e \in 1 .. n, NEW i \in 1 .. Len(s[e].kids)
               PROVE  s[e].kids[i] \in 1 .. n
    OBVIOUS
  <2>1. DOMAIN s[e].kids = 1 .. Len(s[e].kids) /\ Range(s[e].kids) \subseteq 1 .. n
    BY <1>2
  <2> QED
    BY <2>1 DEF Range
<1>5. /\ ~s2[r].fn /\ Len(s2[r].kids) >= 3
      /\ s2[s2[r].kids[1]].tag = 2 /\ s2[s2[r].kids[2]].tag = 3 /\ s2[s2[r].kids[3]].tag = 4
  <2>1. Len(s[r].kids) \in Nat
    BY <1>1, <1>2
  <2>2. 1 \in 1 .. Len(s[r].kids) /\ 2 \in 1 .. Len(s[r].kids) /\ 3 \in 1 .. Len(s[r].kids)
    BY <1>3, <2>1
  <2>3. s[r].kids[1] \in 1 .. n /\ s[r].kids[2] \in 1 .. n /\ s[r].kids[3] \in 1 .. n
    BY <1>1, <1>4, <2>2
  <2>4. /\ Len(s2[r].kids) >= 3 /\ s2[r].kids[1] = s[r].kids[1]
        /\ s2[r].kids[2] = s[r].kids[2] /\ s2[r].kids[3] = s[r].kids[3]
    BY <1>1 DEF Starts
  <2> DEFINE a == s[r].kids[1]
             b == s[r].kids[2]
             c == s[r].kids[3]
  <2>5. /\ a \in 1 .. n /\ b \in 1 .. n /\ c \in 1 .. n
        /\ s[a].tag = 2 /\ s[b].tag = 3 /\ s[c].tag = 4
    BY <1>3, <2>3
  <2> HIDE DEF a, b, c
  <2>6. s2[a].tag = 2 /\ s2[b].tag = 3 /\ s2[c].tag = 4 /\ ~s2[r].fn
    BY <1>1, <1>3, <2>5
  <2> QED
    BY <2>4, <2>6 DEF a, b, c
<1>6. ASSUME NEW e \in 1 .. m, s2[e].tag \in 2 .. 5
      PROVE  e \in 1 .. n /\ s2[e].tag = s[e].tag /\ s2[e].kids = s[e].kids /\ s2[e].fn = s[e].fn
  <2>1. e \in 1 .. n
    <3> SUFFICES ASSUME e \in n + 1 .. m
                 PROVE  FALSE
      BY <1>1
    <3>1. s2[e].tag = e
      BY <1>1
    <3> QED
      BY <1>1, <1>6, <3>1
  <2> QED
    BY <1>1, <1>6, <2>1
<1>7. ASSUME NEW e \in 1 .. m
      PROVE  /\ s2[e].tag \in {2, 3, 5} => ~s2[e].fn /\ Len(s2[e].kids) = 0
             /\ s2[e].tag = 4 => /\ ~s2[e].fn /\ Len(s2[e].kids) = 1
                                 /\ s2[s2[e].kids[1]].tag = 5
  <2>1. CASE s2[e].tag \in {2, 3, 5}
    <3>1. s2[e].tag \in 2 .. 5 /\ s2[e].tag # 4
      BY <2>1
    <3>2. /\ e \in 1 .. n /\ s2[e].tag = s[e].tag
          /\ s2[e].kids = s[e].kids /\ s2[e].fn = s[e].fn
      BY <1>6, <3>1
    <3>3. ~s[e].fn /\ Len(s[e].kids) = 0
      BY <1>3, <2>1, <3>2
    <3> QED
      BY <3>1, <3>2, <3>3
  <2>2. CASE s2[e].tag = 4
    <3>1. s2[e].tag \in 2 .. 5
      BY <2>2
    <3>2. e \in 1 .. n /\ s[e].tag = 4 /\ s2[e].kids = s[e].kids /\ s2[e].fn = s[e].fn
      BY <1>6, <2>2, <3>1
    <3>3. ~s[e].fn /\ Len(s[e].kids) = 1 /\ s[s[e].kids[1]].tag = 5
      BY <1>3, <3>2
    <3> DEFINE k == s[e].kids[1]
    <3>4. k \in 1 .. n /\ s[k].tag = 5
      BY <1>4, <3>2, <3>3
    <3> HIDE DEF k
    <3>5. s2[k].tag = 5
      BY <1>1, <3>4
    <3>6. ~s2[e].fn /\ Len(s2[e].kids) = 1 /\ s2[s2[e].kids[1]].tag = 5
      BY <3>2, <3>3, <3>5 DEF k
    <3> QED
      BY <2>2, <3>6
  <2> QED
    BY <2>1, <2>2
<1> QED
  BY <1>5, <1>7 DEF Builtins, m

\* A sort leaves the functions in the tree, and their bodies in order.
LEMMA SortedFunctions ==
  ASSUME NEW s, NEW r, Structured(s, r), Functions(s, r),
         NEW s2, s2 = Reordered(s, r), NEW r2, r2 = Moves(s, r)[r], NEW m
  PROVE  Functions(s2, r2) /\ InOrderSince(s2, m)
<1> DEFINE n == Len(s)
           w == WalkOrder(s, r)
           to == Moves(s, r)
<1>1. /\ Len(w) = r2 /\ w \in Seq(1 .. n)
      /\ \A p \in 1 .. Len(w) : to[w[p]] = p
  BY MovedByWalk, WalkOrderIs
<1>2. Renumbered(s2, s, SortOrder(s, r), to)
  BY ReorderedIs
<1>3. /\ Len(s2) = n /\ Structured(s2, to[r])
      /\ \A i \in 1 .. n : \E e \in 1 .. n : i = to[e]
      /\ \A e \in 1 .. n : s2[to[e]].fn = s[e].fn
  <2>1. Len(s2) = n /\ \A i \in 1 .. n : \E e \in 1 .. n : i = to[e]
    BY <1>2, MovedIs
  <2>2. Structured(s2, to[r])
    BY <1>2, RenumberedKeeps
  <2>3. \A e \in 1 .. n : s2[to[e]].fn = s[e].fn
    BY <1>2 DEF Renumbered
  <2> QED
    BY <2>1, <2>2, <2>3
<1>4. Tidy(s2, r2)
  BY SortTidies
<1>5. Range(WalkOrder(s2, r2)) = 1 .. r2
  BY <1>3, <1>4, TidyOrder
<1>6. \A e \in 1 .. n : s[e].fn => e \in Range(w)
  BY DEF Functions
<1> HIDE DEF n, w, to
<1>7. ASSUME NEW f \in 1 .. Len(s2), s2[f].fn
      PROVE  f \in 1 .. r2
  <2>1. PICK e \in 1 .. n : f = to[e]
    BY <1>3
  <2>2. e \in Range(w)
    BY <1>3, <1>6, <1>7, <2>1
  <2>3. DOMAIN w = 1 .. Len(w)
    BY <1>1
  <2>4. PICK p \in 1 .. Len(w) : w[p] = e
    BY <2>2, <2>3 DEF Range
  <2> QED
    BY <1>1, <2>1, <2>4
<1>8. Functions(s2, r2)
  BY <1>5, <1>7 DEF Functions
<1>9. InOrderSince(s2, m)
  BY <1>4, <1>7 DEF InOrderSince, Tidy
<1> QED
  BY <1>8, <1>9

\* The walk of a sort comes to the builtins first.
LEMMA WalkStarts ==
  ASSUME NEW s, NEW r, Structured(s, r), Builtins(s, r), NEW w, w = WalkOrder(s, r)
  PROVE  /\ Len(w) >= 4 /\ \A p \in 1 .. 4 : w[p] \in 1 .. Len(s)
         /\ s[w[1]].tag = 2 /\ s[w[2]].tag = 3 /\ s[w[3]].tag = 5 /\ s[w[4]].tag = 4
<1> DEFINE n == Len(s)
           kids == Bodies(s)
           rank == Ages(s)
<1>1. /\ Ranked(kids, rank, n) /\ DOMAIN kids = 1 .. n
      /\ \A e \in 1 .. n : kids[e] = BodyOrder(s, e)
  BY BodiesAre
<1>2. \A e \in 1 .. n : ~s[e].fn => BodyOrder(s, e) = s[e].kids
  BY BodyOrderIs
<1>3. /\ ~s[r].fn /\ Len(s[r].kids) >= 3
      /\ s[s[r].kids[1]].tag = 2 /\ s[s[r].kids[2]].tag = 3 /\ s[s[r].kids[3]].tag = 4
      /\ \A e \in 1 .. n :
           /\ s[e].tag \in {2, 3, 5} => ~s[e].fn /\ Len(s[e].kids) = 0
           /\ s[e].tag = 4 => /\ ~s[e].fn /\ Len(s[e].kids) = 1
                              /\ s[s[e].kids[1]].tag = 5
  BY DEF Builtins
<1>4. r \in 1 .. n /\ n \in Nat
  BY DEF Structured
<1>5. \A e \in 1 .. n : s[e].kids \in Seq(Nat) /\ Range(s[e].kids) \subseteq 1 .. n
  BY NodeIs
<1>6. w = PostOrder(kids, r)
  BY <1>4, BodiesAre
<1> HIDE DEF n, kids, rank
<1>7. \A e \in 1 .. n : \A i \in 1 .. Len(s[e].kids) : s[e].kids[i] \in 1 .. n
  <2> SUFFICES ASSUME NEW e \in 1 .. n, NEW i \in 1 .. Len(s[e].kids)
               PROVE  s[e].kids[i] \in 1 .. n
    OBVIOUS
  <2>1. DOMAIN s[e].kids = 1 .. Len(s[e].kids) /\ Range(s[e].kids) \subseteq 1 .. n
    BY <1>5
  <2> QED
    BY <2>1 DEF Range
<1> DEFINE a == s[r].kids[1]
           b == s[r].kids[2]
           d == s[r].kids[3]
           f == s[d].kids[1]
<1>8. Len(s[r].kids) \in Nat /\ 1 \in 1 .. Len(s[r].kids) /\ 2 \in 1 .. Len(s[r].kids) /\ 3 \in 1 .. Len(s[r].kids)
  <2>1. Len(s[r].kids) \in Nat
    BY <1>4, <1>5
  <2> QED
    BY <1>3, <2>1
<1>9. /\ a \in 1 .. n /\ b \in 1 .. n /\ d \in 1 .. n
      /\ s[a].tag = 2 /\ s[b].tag = 3 /\ s[d].tag = 4
  BY <1>3, <1>4, <1>7, <1>8
<1>10. kids[r] = s[r].kids /\ kids[r][1] = a /\ kids[r][2] = b /\ kids[r][3] = d
  BY <1>1, <1>2, <1>3, <1>4
<1> HIDE DEF a, b, d
<1>11. /\ ~s[d].fn /\ Len(s[d].kids) = 1 /\ s[f].tag = 5 /\ f \in 1 .. n
  BY <1>3, <1>7, <1>9
<1>12. Len(kids[d]) = 1 /\ kids[d][1] = f
  BY <1>1, <1>2, <1>9, <1>11
<1> HIDE DEF f
<1>13. Len(kids[a]) = 0 /\ Len(kids[b]) = 0 /\ Len(kids[f]) = 0
  <2>1. ASSUME NEW e \in 1 .. n, s[e].tag \in {2, 3, 5}
        PROVE  Len(kids[e]) = 0
    BY <1>1, <1>2, <1>3, <2>1
  <2> QED
    BY <1>9, <1>11, <2>1
<1>14. PICK F : Walks(kids, F) /\ \A e \in DOMAIN kids : PostOrder(kids, e) = F[e]
  BY <1>1, PostOrderIs
<1>15. F[a] = <<a>> /\ F[b] = <<b>> /\ F[f] = <<f>>
  <2>1. \A e \in DOMAIN kids : Len(kids[e]) = 0 => F[e] = <<e>>
    BY <1>1, <1>14, LeafWalk
  <2> QED
    BY <1>1, <1>9, <1>11, <1>13, <2>1
<1>16. Len(F[d]) = 2 /\ F[d][1] = f /\ F[d][2] = d
  <2>1. F[d] = F[kids[d][1]] \o <<d>>
    <3>1. d \in DOMAIN kids
      BY <1>1, <1>9
    <3> QED
      BY <1>1, <1>12, <1>14, <3>1, OnlyChildWalk
  <2>2. F[d] = <<f>> \o <<d>>
    BY <1>12, <1>15, <2>1
  <2>3. <<f>> \in Seq({f, d}) /\ <<d>> \in Seq({f, d})
    OBVIOUS
  <2>4. Len(<<f>>) = 1 /\ Len(<<d>>) = 1 /\ <<f>>[1] = f /\ <<d>>[1] = d
    OBVIOUS
  <2> DEFINE u == <<f>>
             v == <<d>>
  <2>5. /\ Len(u \o v) = Len(u) + Len(v)
        /\ \A i \in 1 .. Len(u) : (u \o v)[i] = u[i]
        /\ \A i \in 1 .. Len(v) : (u \o v)[Len(u) + i] = v[i]
    BY <2>3, Concatenated
  <2>6. Len(u) = 1 /\ Len(v) = 1 /\ u[1] = f /\ v[1] = d /\ F[d] = u \o v
    BY <2>2, <2>4
  <2> HIDE DEF u, v
  <2>7. (u \o v)[1 + 1] = v[1] /\ (u \o v)[1] = u[1] /\ Len(u \o v) = 2
    BY <2>5, <2>6
  <2> QED
    BY <2>6, <2>7
<1>17. w = F[r] /\ F[r] \in Seq(1 .. n)
  BY <1>1, <1>4, <1>6, <1>14, WalkPlaces
<1>18. PICK at : Placed(kids, F, r, at)
  <2>1. r \in DOMAIN kids
    BY <1>1, <1>4
  <2> QED
    BY <1>1, <1>14, <2>1, WalkPlaces
<1> DEFINE l == Len(kids[r])
<1>19. /\ \A i \in 1 .. l : /\ Segment(F[kids[r][i]], F[r], at[i])
                            /\ at[i] = IF i = 1 THEN 0 ELSE at[i - 1] + Len(F[kids[r][i - 1]])
       /\ 1 \in 1 .. l /\ 2 \in 1 .. l /\ 3 \in 1 .. l
  BY <1>8, <1>10, <1>18 DEF Placed
<1> HIDE DEF l
<1>20. /\ Segment(F[a], F[r], 0) /\ Segment(F[b], F[r], 1) /\ Segment(F[d], F[r], 2)
  <2>1. at[1] = 0
    BY <1>19
  <2>2. at[2] = at[1] + Len(F[a])
    <3>1. 2 # 1 /\ 2 - 1 = 1
      OBVIOUS
    <3> QED
      BY <1>10, <1>19, <3>1
  <2>3. at[3] = at[2] + Len(F[b])
    <3>1. 3 # 1 /\ 3 - 1 = 2
      OBVIOUS
    <3> QED
      BY <1>10, <1>19, <3>1
  <2>4. Len(F[a]) = 1 /\ Len(F[b]) = 1
    BY <1>15
  <2>5. at[2] = 1 /\ at[3] = 2
    BY <2>1, <2>2, <2>3, <2>4
  <2> QED
    BY <1>10, <1>19, <2>1, <2>5
<1>21. w[1] = a /\ w[2] = b
  <2>0. Len(F[a]) = 1 /\ Len(F[b]) = 1 /\ 1 \in 1 .. 1
    BY <1>15
  <2>3. /\ \A i \in 1 .. 1 : F[r][0 + i] = F[a][i]
        /\ \A i \in 1 .. 1 : F[r][1 + i] = F[b][i]
    BY <1>20, <2>0 DEF Segment
  <2>1. F[r][0 + 1] = F[a][1] /\ F[r][1 + 1] = F[b][1]
    BY <2>0, <2>3
  <2>2. F[a][1] = a /\ F[b][1] = b
    BY <1>15
  <2> QED
    BY <1>17, <2>1, <2>2
<1>22. w[3] = f /\ w[4] = d /\ 2 + 2 <= Len(w)
  <2>1. Len(F[d]) = 2 /\ F[d][1] = f /\ F[d][2] = d
    BY <1>16
  <2>2. 2 + 2 <= Len(F[r]) /\ \A i \in 1 .. 2 : F[r][2 + i] = F[d][i]
    BY <1>20, <2>1 DEF Segment
  <2>3. F[r][2 + 1] = F[d][1] /\ F[r][2 + 2] = F[d][2]
    BY <2>2
  <2> QED
    BY <1>17, <2>1, <2>2, <2>3
<1>23. \A p \in 1 .. 4 : p = 1 \/ p = 2 \/ p = 3 \/ p = 4
  OBVIOUS
<1>24. Len(w) >= 4
  BY <1>17, <1>22
<1> QED
  BY <1>9, <1>11, <1>21, <1>22, <1>23, <1>24 DEF n

\* A sort leaves them where they are.
LEMMA SortedBuiltins ==
  ASSUME NEW s, NEW r, Structured(s, r), Builtins(s, r),
         NEW s2, s2 = Reordered(s, r), NEW r2, r2 = Moves(s, r)[r]
  PROVE  Builtins(s2, r2) /\ Numbered(s2)
<1> DEFINE n == Len(s)
           w == WalkOrder(s, r)
           to == Moves(s, r)
<1>1. \A p \in 1 .. Len(w) : to[w[p]] = p
  BY MovedByWalk
<1>2. Renumbered(s2, s, SortOrder(s, r), to)
  BY ReorderedIs
<1>3. /\ n \in Nat /\ Len(s2) = n /\ r \in 1 .. n
      /\ \A i \in 1 .. n : \E e \in 1 .. n : i = to[e]
      /\ \A e \in 1 .. n : /\ s2[to[e]].fn = s[e].fn /\ s2[to[e]].tag = s[e].tag
                           /\ ~s[e].fn => s2[to[e]].kids = [j \in DOMAIN s[e].kids |-> to[s[e].kids[j]]]
  <2>1. r \in 1 .. n
    BY DEF Structured
  <2>2. \A e \in 1 .. n : /\ s2[to[e]].fn = s[e].fn /\ s2[to[e]].tag = s[e].tag
                          /\ ~s[e].fn => s2[to[e]].kids = [j \in DOMAIN s[e].kids |-> to[s[e].kids[j]]]
    BY <1>2 DEF Renumbered
  <2>3. n \in Nat /\ Len(s2) = n /\ \A i \in 1 .. n : \E e \in 1 .. n : i = to[e]
    BY <1>2, MovedIs
  <2> QED
    BY <2>1, <2>2, <2>3
<1>4. /\ Len(w) >= 4 /\ Len(w) \in Nat /\ \A p \in 1 .. 4 : w[p] \in 1 .. n
      /\ s[w[1]].tag = 2 /\ s[w[2]].tag = 3 /\ s[w[3]].tag = 5 /\ s[w[4]].tag = 4
  BY WalkStarts, WalkOrderIs
<1>5. \A e \in 1 .. n : s[e].kids \in Seq(Nat) /\ Range(s[e].kids) \subseteq 1 .. n
  BY NodeIs
<1>6. /\ ~s[r].fn /\ Len(s[r].kids) >= 3
      /\ s[s[r].kids[1]].tag = 2 /\ s[s[r].kids[2]].tag = 3 /\ s[s[r].kids[3]].tag = 4
      /\ \A e \in 1 .. n :
           /\ s[e].tag \in {2, 3, 5} => ~s[e].fn /\ Len(s[e].kids) = 0
           /\ s[e].tag = 4 => /\ ~s[e].fn /\ Len(s[e].kids) = 1
                              /\ s[s[e].kids[1]].tag = 5
  BY DEF Builtins
<1> HIDE DEF n, w, to
<1>7. Numbered(s2)
  <2>1. ASSUME NEW p \in 1 .. 4
        PROVE  s2[p].tag = s[w[p]].tag
    <3>1. p \in 1 .. Len(w)
      BY <1>4
    <3> DEFINE e == w[p]
    <3>2. to[e] = p /\ e \in 1 .. n
      BY <1>1, <1>4, <3>1
    <3> HIDE DEF e
    <3>3. s2[to[e]].tag = s[e].tag
      BY <1>3, <3>2
    <3>4. s2[p].tag = s[e].tag
      BY <3>2, <3>3
    <3> QED
      BY <3>4 DEF e
  <2>2. 1 \in 1 .. 4 /\ 2 \in 1 .. 4 /\ 3 \in 1 .. 4 /\ 4 \in 1 .. 4
    OBVIOUS
  <2>3. s2[1].tag = s[w[1]].tag /\ s2[2].tag = s[w[2]].tag
    BY <2>1, <2>2
  <2>4. s2[3].tag = s[w[3]].tag /\ s2[4].tag = s[w[4]].tag
    BY <2>1, <2>2
  <2> QED
    BY <1>4, <2>3, <2>4 DEF Numbered
<1>8. ASSUME NEW e \in 1 .. n, ~s[e].fn
      PROVE  /\ ~s2[to[e]].fn /\ Len(s2[to[e]].kids) = Len(s[e].kids)
             /\ \A i \in 1 .. Len(s[e].kids) : s2[s2[to[e]].kids[i]].tag = s[s[e].kids[i]].tag
  <2> DEFINE k == s[e].kids
             l == Len(k)
             k2 == s2[to[e]].kids
  <2>0. k \in Seq(Nat) /\ Range(k) \subseteq 1 .. n
    BY <1>5
  <2>6. k2 = [j \in DOMAIN k |-> to[k[j]]]
    BY <1>3, <1>8
  <2>1. /\ l \in Nat /\ DOMAIN k = 1 .. l /\ k2 = [j \in DOMAIN k |-> to[k[j]]]
        /\ Range(k) \subseteq 1 .. n
    BY <2>0, <2>6, LenProperties
  <2>2. \A i \in 1 .. l : k[i] \in 1 .. n
    BY <2>1 DEF Range
  <2>3. ~s2[to[e]].fn
    BY <1>3, <1>8
  <2> HIDE DEF k, l, k2
  <2>4. Len(k2) = l /\ \A i \in 1 .. l : k2[i] = to[k[i]]
    BY <2>1
  <2>5. ASSUME NEW i \in 1 .. l
        PROVE  s2[k2[i]].tag = s[k[i]].tag
    <3> DEFINE x == k[i]
    <3>1. x \in 1 .. n /\ k2[i] = to[x]
      BY <2>2, <2>4
    <3> HIDE DEF x
    <3>2. s2[to[x]].tag = s[x].tag
      BY <1>3, <3>1
    <3> QED
      BY <3>1, <3>2 DEF x
  <2> QED
    BY <2>3, <2>4, <2>5 DEF k, l, k2
<1>9. /\ ~s2[r2].fn /\ Len(s2[r2].kids) >= 3
      /\ s2[s2[r2].kids[1]].tag = 2 /\ s2[s2[r2].kids[2]].tag = 3 /\ s2[s2[r2].kids[3]].tag = 4
  <2>1. r2 = to[r]
    BY DEF to
  <2>2. Len(s[r].kids) \in Nat
    BY <1>3, <1>5
  <2>3. 1 \in 1 .. Len(s[r].kids) /\ 2 \in 1 .. Len(s[r].kids) /\ 3 \in 1 .. Len(s[r].kids)
    BY <1>6, <2>2
  <2>4. /\ ~s2[r2].fn /\ Len(s2[r2].kids) = Len(s[r].kids)
        /\ \A i \in 1 .. Len(s[r].kids) : s2[s2[r2].kids[i]].tag = s[s[r].kids[i]].tag
    <3>1. /\ ~s2[to[r]].fn /\ Len(s2[to[r]].kids) = Len(s[r].kids)
          /\ \A i \in 1 .. Len(s[r].kids) : s2[s2[to[r]].kids[i]].tag = s[s[r].kids[i]].tag
      BY <1>3, <1>6, <1>8
    <3> HIDE DEF to
    <3> QED
      BY <2>1, <3>1
  <2> QED
    BY <1>6, <2>3, <2>4
<1>10. ASSUME NEW i \in 1 .. Len(s2)
       PROVE  /\ s2[i].tag \in {2, 3, 5} => ~s2[i].fn /\ Len(s2[i].kids) = 0
              /\ s2[i].tag = 4 => /\ ~s2[i].fn /\ Len(s2[i].kids) = 1
                                  /\ s2[s2[i].kids[1]].tag = 5
  <2>1. PICK e \in 1 .. n : i = to[e]
    BY <1>3
  <2>2. s2[i].tag = s[e].tag
    BY <1>3, <2>1
  <2>3. CASE s2[i].tag \in {2, 3, 5}
    <3>1. ~s[e].fn /\ Len(s[e].kids) = 0 /\ s2[i].tag # 4
      BY <1>6, <2>2, <2>3
    <3> QED
      BY <1>8, <2>1, <3>1
  <2>4. CASE s2[i].tag = 4
    <3>1. ~s[e].fn /\ Len(s[e].kids) = 1 /\ s[s[e].kids[1]].tag = 5 /\ s2[i].tag \notin {2, 3, 5}
      <4>1. s[e].tag = 4
        BY <2>2, <2>4
      <4>2. ~s[e].fn /\ Len(s[e].kids) = 1 /\ s[s[e].kids[1]].tag = 5
        BY <1>6, <4>1
      <4> QED
        BY <2>4, <4>2
    <3>2. 1 \in 1 .. Len(s[e].kids)
      BY <3>1
    <3> QED
      BY <1>8, <2>1, <3>1, <3>2
  <2> QED
    BY <2>3, <2>4
<1>11. Builtins(s2, r2)
  BY <1>9, <1>10 DEF Builtins
<1> QED
  BY <1>7, <1>11

\* Entity a comes before entity c in list l.
ListedBefore(l, a, c) == \E p, q \in DOMAIN l : p < q /\ l[p] = a /\ l[q] = c

\* A sort keeps what is in the order of a sort, and what no sort puts in order.
LEMMA SortKeepsOrder ==
  ASSUME NEW s, NEW r, Structured(s, r), Functions(s, r), NEW m, InOrderSince(s, m),
         NEW s2, s2 = Reordered(s, r), NEW to, to = Moves(s, r),
         NEW f \in 1 .. Len(s),
         NEW i \in 1 .. Len(s[f].kids), NEW j \in 1 .. Len(s[f].kids), i < j,
         s[s[f].kids[i]].tag <= m, s[s[f].kids[j]].tag <= m
  PROVE  ListedBefore(s2[to[f]].kids, to[s[f].kids[i]], to[s[f].kids[j]])
<1> DEFINE n == Len(s)
           k == s[f].kids
           k2 == s2[to[f]].kids
           a == k[i]
           c == k[j]
           b == BodyOrder(s, f)
<1>1. k \in Seq(Nat) /\ IsInjective(k) /\ Range(k) \subseteq 1 .. n
  BY NodeIs
<1>2. DOMAIN k = 1 .. Len(k) /\ Len(k) \in Nat
  BY <1>1
<1>3. a \in Range(k) /\ c \in Range(k)
  BY <1>2 DEF Range
<1>4. CASE ~s[f].fn
  <2>1. Renumbered(s2, s, SortOrder(s, r), to)
    BY ReorderedIs
  <2>2. k2 = [x \in DOMAIN k |-> to[k[x]]]
    BY <1>4, <2>1 DEF Renumbered
  <2>3. DOMAIN k2 = 1 .. Len(k) /\ k2[i] = to[a] /\ k2[j] = to[c]
    BY <1>2, <2>2
  <2> HIDE DEF k, k2, a, c
  <2>4. ListedBefore(k2, to[a], to[c])
    <3>1. i \in DOMAIN k2 /\ j \in DOMAIN k2
      BY <2>3 DEF k
    <3> QED
      BY <2>3, <3>1 DEF ListedBefore
  <2> QED
    BY <2>4 DEF k, k2, a, c
<1>5. CASE s[f].fn
  <2>1. f \in Range(WalkOrder(s, r))
    BY <1>5 DEF Functions
  <2>2. /\ k2 = Renamed(b, to) /\ Len(k2) = Len(b)
        /\ \A x \in 1 .. Len(b) : k2[x] = to[b[x]]
    BY <2>1, BodyMoved
  <2>3. b \in Seq(1 .. n) /\ Range(b) = Range(k)
    BY BodyOrderIs
  <2>4. \A x, y \in 1 .. Len(b) : x < y => BodyBefore(s, b[x], b[y])
    BY <1>5, BodySorted
  <2>5. BodyBefore(s, a, c)
    BY <1>5 DEF InOrderSince
  <2>6. ~BodyBefore(s, c, a) /\ a # c
    <3>1. a \in 1 .. n /\ c \in 1 .. n
      <4> HIDE DEF a, c, k, n
      <4> QED
        BY <1>1, <1>3
    <3>2. s[a].param \in Nat /\ s[c].param \in Nat
      <4>1. a \in 1 .. Len(s) /\ c \in 1 .. Len(s)
        BY <3>1
      <4> HIDE DEF a, c
      <4> QED
        BY <4>1, NodeIs
    <3>3. a # c
      <4>1. i \in DOMAIN k /\ j \in DOMAIN k /\ i # j
        BY <1>2
      <4> HIDE DEF k
      <4> QED
        BY <1>1, <4>1 DEF IsInjective
    <3> HIDE DEF a, c, n
    <3> QED
      BY <2>5, <3>1, <3>2, <3>3 DEF BodyBefore
  <2>7. DOMAIN b = 1 .. Len(b) /\ Len(b) \in Nat /\ DOMAIN k2 = 1 .. Len(b)
    <3>1. DOMAIN b = 1 .. Len(b) /\ Len(b) \in Nat
      BY <2>3
    <3>2. DOMAIN Renamed(b, to) = DOMAIN b
      BY DEF Renamed
    <3> QED
      BY <2>2, <3>1, <3>2
  <2> HIDE DEF k, k2, a, c, b
  <2>8. PICK p \in 1 .. Len(b) : b[p] = a
    BY <1>3, <2>3, <2>7 DEF Range
  <2>9. PICK q \in 1 .. Len(b) : b[q] = c
    BY <1>3, <2>3, <2>7 DEF Range
  <2>10. p < q
    <3>1. p # q
      BY <2>6, <2>8, <2>9
    <3>2. ~(q < p)
      BY <2>4, <2>6, <2>8, <2>9
    <3> QED
      BY <2>7, <3>1, <3>2
  <2>11. ListedBefore(k2, to[a], to[c])
    BY <2>2, <2>7, <2>8, <2>9, <2>10 DEF ListedBefore
  <2> QED
    BY <2>11 DEF k, k2, a, c
<1> QED
  BY <1>4, <1>5

\* build_builtin_block.
LEMMA InitInvariant == Init => Invariant
<1> SUFFICES ASSUME Init
             PROVE  Invariant
  OBVIOUS
<1> DEFINE a == BlockOf(1, 0, <<2, 3, 4>>)
           b == Leaf(2, 1, 0)
           c == Leaf(3, 1, 0)
           d == BlockOf(4, 1, <<5>>)
           f == Leaf(5, 4, 2)
<1>1. store = <<a, b, c, d, f>> /\ root = 1 /\ fresh = 5
  BY DEF Init
<1>2. /\ a \in Node /\ a.tag = 1 /\ a.up = 0 /\ a.ref = 0 /\ a.kids = <<2, 3, 4>> /\ a.param = 0
      /\ b \in Node /\ b.tag = 2 /\ b.up = 1 /\ b.ref = 0 /\ b.kids = <<>> /\ b.param = 0
      /\ c \in Node /\ c.tag = 3 /\ c.up = 1 /\ c.ref = 0 /\ c.kids = <<>> /\ c.param = 0
      /\ d \in Node /\ d.tag = 4 /\ d.up = 1 /\ d.ref = 0 /\ d.kids = <<5>> /\ d.param = 0
      /\ f \in Node /\ f.tag = 5 /\ f.up = 4 /\ f.ref = 2 /\ f.kids = <<>> /\ f.param = 0
  <2>1. <<>> \in Seq(Nat) /\ <<5>> \in Seq(Nat) /\ <<2, 3, 4>> \in Seq(Nat)
    OBVIOUS
  <2> QED
    BY <2>1 DEF BlockOf, Leaf, Node
<1> HIDE DEF a, b, c, d, f
<1>3. /\ store \in Seq(Node) /\ Len(store) = 5
      /\ store[1] = a /\ store[2] = b /\ store[3] = c /\ store[4] = d /\ store[5] = f
  BY <1>1, <1>2
<1>4. /\ Range(<<2, 3, 4>>) = {2, 3, 4} /\ Range(<<5>>) = {5} /\ Range(<<>>) = {}
      /\ IsInjective(<<2, 3, 4>>) /\ IsInjective(<<5>>) /\ IsInjective(<<>>)
  BY DEF Range, IsInjective
<1>5. 1 .. 5 = {1, 2, 3, 4, 5} /\ 0 .. 5 = {0, 1, 2, 3, 4, 5}
  OBVIOUS
<1>10. /\ store[1].tag = 1 /\ store[1].up = 0 /\ store[1].ref = 0 /\ store[1].param = 0
       /\ store[2].tag = 2 /\ store[2].up = 1 /\ store[2].ref = 0 /\ store[2].param = 0
       /\ store[3].tag = 3 /\ store[3].up = 1 /\ store[3].ref = 0 /\ store[3].param = 0
       /\ store[4].tag = 4 /\ store[4].up = 1 /\ store[4].ref = 0 /\ store[4].param = 0
       /\ store[5].tag = 5 /\ store[5].up = 4 /\ store[5].ref = 2 /\ store[5].param = 0
  BY <1>2, <1>3
<1>11. /\ Range(store[1].kids) = {2, 3, 4} /\ Range(store[2].kids) = {}
       /\ Range(store[3].kids) = {} /\ Range(store[4].kids) = {5} /\ Range(store[5].kids) = {}
       /\ IsInjective(store[1].kids) /\ IsInjective(store[2].kids) /\ IsInjective(store[3].kids)
       /\ IsInjective(store[4].kids) /\ IsInjective(store[5].kids)
  BY <1>2, <1>3, <1>4
<1>6. ASSUME NEW e \in 1 .. 5
      PROVE  /\ store[e].up \in 0 .. 5 /\ store[e].ref \in 0 .. 5 /\ store[e].tag = e
             /\ store[e].param = 0
             /\ store[e].up # 0 => e \in Range(store[store[e].up].kids)
             /\ IsInjective(store[e].kids)
             /\ \A k \in Range(store[e].kids) :
                  k \in 1 .. 5 /\ store[k].tag > store[e].tag /\ store[k].up = e
  <2>1. e \in {1, 2, 3, 4, 5}
    BY <1>5
  <2>2. store[e].up \in 0 .. 5 /\ store[e].ref \in 0 .. 5 /\ store[e].tag = e /\ store[e].param = 0
    BY <1>5, <1>10, <2>1
  <2>3. store[e].up # 0 => e \in Range(store[store[e].up].kids)
    BY <1>10, <1>11, <2>1
  <2>4. IsInjective(store[e].kids)
    BY <1>11, <2>1
  <2>5. ASSUME NEW k \in Range(store[e].kids)
        PROVE  k \in 1 .. 5 /\ store[k].tag > store[e].tag /\ store[k].up = e
    <3>1. (e = 1 /\ k \in {2, 3, 4}) \/ (e = 4 /\ k = 5)
      BY <1>11, <2>1
    <3> QED
      BY <1>5, <1>10, <3>1
  <2> QED
    BY <2>2, <2>3, <2>4, <2>5
<1>7. \A e \in 1 .. 5 : /\ e # 0 /\ \A k \in Range(store[e].kids) : store[k].param = 0
  BY <1>6
<1>8. store[1].up = 0
  BY <1>2, <1>3
<1>9. Structured(store, 1)
  <2>1. \A e \in 1 .. 5 :
          /\ store[e].up \in 0 .. 5 /\ store[e].ref \in 0 .. 5 /\ store[e].tag \in 1 .. 5
          /\ store[e].up # 0 => e \in Range(store[store[e].up].kids)
          /\ IsInjective(store[e].kids)
          /\ \A k \in Range(store[e].kids) :
               /\ k \in 1 .. 5 /\ store[k].tag > store[e].tag
               /\ store[k].up # 0 /\ (store[k].up = e \/ (store[e].up = 0 /\ e # 1))
          /\ \A k, l \in Range(store[e].kids) :
               store[k].param > 0 /\ store[k].param = store[l].param => k = l
    BY <1>6, <1>7
  <2>2. \A t \in 1 .. 5 : \E e \in 1 .. 5 : store[e].tag = t
    BY <1>6
  <2>3. \A e, x \in 1 .. 5 : store[e].tag = store[x].tag => e = x
    BY <1>6
  <2>4. Len(store) = 5 /\ 1 \in 1 .. 5 /\ store \in Seq(Node)
    BY <1>3
  <2>5. /\ store \in Seq(Node) /\ 1 \in 1 .. Len(store) /\ store[1].up = 0
        /\ \A e \in 1 .. Len(store) :
             /\ store[e].up \in 0 .. Len(store) /\ store[e].ref \in 0 .. Len(store)
             /\ store[e].tag \in 1 .. Len(store)
             /\ store[e].up # 0 => e \in Range(store[store[e].up].kids)
             /\ IsInjective(store[e].kids)
             /\ \A k \in Range(store[e].kids) :
                  /\ k \in 1 .. Len(store) /\ store[k].tag > store[e].tag
                  /\ store[k].up # 0 /\ (store[k].up = e \/ (store[e].up = 0 /\ e # 1))
             /\ \A k, l \in Range(store[e].kids) :
                  store[k].param > 0 /\ store[k].param = store[l].param => k = l
    BY <1>8, <2>1, <2>4
  <2>6. /\ \A t \in 1 .. Len(store) : \E e \in 1 .. Len(store) : store[e].tag = t
        /\ \A e, x \in 1 .. Len(store) : store[e].tag = store[x].tag => e = x
    BY <2>2, <2>3, <2>4
  <2> QED
    BY <2>5, <2>6 DEF Structured
<1> QED
  BY <1>1, <1>3, <1>9 DEF Invariant

\* What a step is to the entities of the module.
LEMMA StepIs ==
  ASSUME Invariant, [Next]_vars
  PROVE  \/ Invariant' /\ Edit(store', store, root) /\ ~sorted' /\ UNCHANGED <<root, mark, cache>>
         \/ Sort
         \/ /\ UNCHANGED <<store, root, fresh, sorted, mark>>
            /\ cache' = cache \/ VerifierCaches \/ CacheBuiltins
<1> DEFINE Edits == /\ Invariant' /\ Edit(store', store, root) /\ ~sorted'
                    /\ UNCHANGED <<root, mark, cache>>
           Looks == /\ UNCHANGED <<store, root, fresh, sorted, mark>>
                    /\ cache' = cache \/ VerifierCaches \/ CacheBuiltins
<1>1. \A x \in Nameable : x \in Ids
  BY Known DEF Nameable, TypeTag
<1>2. ASSUME NEW b \in UserBlocks, Materialize(b)
      PROVE  Edits
  <2>1. ~sorted' /\ UNCHANGED <<root, mark, cache>>
    BY <1>2 DEF Materialize, Edited, history
  <2> QED
    BY <1>2, <2>1, MaterializeKeeps
<1>3. ASSUME NEW e \in Statements, NEW x \in Nameable, EarlyInclude(e, x) \/ FailInclude(e, x)
      PROVE  Edits
  <2>1. ~sorted' /\ UNCHANGED <<root, mark, cache>>
    BY <1>3 DEF EarlyInclude, FailInclude, Edited, history
  <2> QED
    BY <1>1, <1>3, <2>1, EarlyIncludeKeeps, FailIncludeKeeps
<1>4. ASSUME NEW b \in UserBlocks, InTree(b),
             \/ \E x \in Nameable : PushStatement(b, x)
             \/ \E f \in BOOLEAN : PushBlock(b, f)
             \/ Materialize(b)
      PROVE  Edits
  <2>1. CASE Materialize(b)
    BY <1>2, <2>1
  <2>2. CASE \/ \E x \in Nameable : PushStatement(b, x)
             \/ \E f \in BOOLEAN : PushBlock(b, f)
    <3>1. ~sorted' /\ UNCHANGED <<root, mark, cache>>
      BY <2>2 DEF PushStatement, PushBlock, Edited, history
    <3>2. Invariant' /\ Edit(store', store, root)
      BY <1>1, <1>4, <2>2, PushesKeep
    <3> QED
      BY <3>1, <3>2
  <2> QED
    BY <1>4, <2>1, <2>2
<1>5. ASSUME NEW e \in Statements, PinValue(e)
      PROVE  Edits
  <2>1. ~sorted' /\ UNCHANGED <<root, mark, cache>>
    BY <1>5 DEF PinValue, Edited
  <2> QED
    BY <1>5, <2>1, PinValueKeeps
<1>6. ASSUME VerifierCaches \/ CacheBuiltins
      PROVE  Looks
  BY <1>6 DEF CacheBuiltins, VerifierCaches, Cached
<1>7. ASSUME NEW b \in UserBlocks, StartWalk(b)
      PROVE  Looks
  BY <1>7 DEF StartWalk, history
<1>8. ASSUME VisitOther
      PROVE  Looks
  BY <1>8 DEF VisitOther, history
<1>9. ASSUME At \in UserBlocks, VisitFunction
      PROVE  Edits
  BY <1>2, <1>9 DEF VisitFunction
<1>10. ASSUME At \in Statements, NEW x \in Nameable, VisitInclude(x) \/ VisitBadInclude(x)
       PROVE  Edits
  BY <1>3, <1>10 DEF VisitInclude, VisitBadInclude
<1>11. EndWalk => Sort \/ Looks
  BY DEF EndWalk, history
<1>12. ASSUME UNCHANGED vars
       PROVE  Looks
  BY <1>12 DEF vars
<1>13. Edits \/ Sort \/ Looks
  <2> HIDE DEF Edits, Looks
  <2> QED
    BY <1>4, <1>5, <1>6, <1>7, <1>9, <1>8, <1>10, <1>11, <1>12 DEF Next
<1> QED
  BY <1>13

\* Every step keeps the invariant, and a sort what the module says.
LEMMA StepKeeps ==
  ASSUME Invariant, [Next]_vars
  PROVE  /\ Invariant'
         /\ ~sorted /\ sorted' =>
              Meaning(store') = Meaning(store) /\ TagAt(store', root') = TagAt(store, root)
<1> DEFINE Said == Meaning(store') = Meaning(store) /\ TagAt(store', root') = TagAt(store, root)
<1>1. CASE Invariant' /\ ~sorted'
  BY <1>1
<1>2. CASE Sort
  BY <1>2, SortKeeps
<1>3. CASE UNCHANGED <<store, root, fresh, sorted, mark>>
  <2>1. Invariant'
    BY <1>3 DEF Invariant
  <2> QED
    BY <1>3, <2>1
<1> QED
  BY <1>1, <1>2, <1>3, StepIs

\* Every step leaves a sorted module as a sort does: an edit says it is not.
LEMMA StepTidies ==
  ASSUME Invariant, [Next]_vars, sorted => Tidy(store, root)
  PROVE  sorted' => Tidy(store', root')
<1>1. CASE ~sorted'
  BY <1>1
<1>2. CASE Sort
  <2>1. Structured(store, root)
    BY DEF Invariant
  <2>2. /\ store' = Reordered(store, root) /\ root' = Len(WalkOrder(store, root))
    BY <1>2 DEF Sort
  <2>3. root' = Moves(store, root)[root]
    BY <2>1, <2>2, SortOrderIs
  <2>4. Tidy(Reordered(store, root), Moves(store, root)[root])
    BY <2>1, SortTidies
  <2> QED
    BY <2>2, <2>3, <2>4
<1>3. CASE UNCHANGED <<store, root, fresh, sorted, mark>>
  BY <1>3
<1> QED
  BY <1>1, <1>2, <1>3, StepIs

\* Which builtin a static denotes: the one it was resolved to when that was
\* behind a sort; the verifier's keeps the id "type" had before there was one.
CacheKept(s, c) ==
  /\ c[3] => mark > 0 /\ c[2] \in 1 .. 4 /\ s[c[2]].tag = c[1]
  /\ ~c[3] => c[1] = TypeTag /\ c[2] = TypeTag

\* What stays: the builtins' place, the functions' place and the order of their
\* bodies as of the last sort, and what a system has resolved since the first.
Arranged ==
  /\ Builtins(store, root) /\ Functions(store, root)
  /\ mark \in 0 .. fresh /\ InOrderSince(store, mark)
  /\ mark > 0 => Numbered(store)
  /\ mark = 0 => store[TypeTag].tag = TypeTag
  /\ \A c \in cache : CacheKept(store, c)

LEMMA InitArranged == Init => Arranged
<1> SUFFICES ASSUME Init
             PROVE  Arranged
  OBVIOUS
<1> DEFINE a == BlockOf(1, 0, <<2, 3, 4>>)
           b == Leaf(2, 1, 0)
           c == Leaf(3, 1, 0)
           d == BlockOf(4, 1, <<5>>)
           f == Leaf(5, 4, 2)
<1>1. store = <<a, b, c, d, f>> /\ root = 1 /\ fresh = 5 /\ mark = 0 /\ cache = {}
  BY DEF Init
<1>2. /\ a.tag = 1 /\ a.kids = <<2, 3, 4>> /\ a.fn = FALSE
      /\ b.tag = 2 /\ b.kids = <<>> /\ b.fn = FALSE
      /\ c.tag = 3 /\ c.kids = <<>> /\ c.fn = FALSE
      /\ d.tag = 4 /\ d.kids = <<5>> /\ d.fn = FALSE
      /\ f.tag = 5 /\ f.kids = <<>> /\ f.fn = FALSE
  BY DEF BlockOf, Leaf
<1> HIDE DEF a, b, c, d, f
<1>3. /\ Len(store) = 5
      /\ store[1] = a /\ store[2] = b /\ store[3] = c /\ store[4] = d /\ store[5] = f
  BY <1>1
<1>4. /\ store[1].tag = 1 /\ store[1].kids = <<2, 3, 4>> /\ store[1].fn = FALSE
      /\ store[2].tag = 2 /\ store[2].kids = <<>> /\ store[2].fn = FALSE
      /\ store[3].tag = 3 /\ store[3].kids = <<>> /\ store[3].fn = FALSE
      /\ store[4].tag = 4 /\ store[4].kids = <<5>> /\ store[4].fn = FALSE
      /\ store[5].tag = 5 /\ store[5].kids = <<>> /\ store[5].fn = FALSE
  BY <1>2, <1>3
<1>5. ASSUME NEW e \in 1 .. 5
      PROVE  /\ ~store[e].fn
             /\ store[e].tag \in {2, 3, 5} => Len(store[e].kids) = 0
             /\ store[e].tag = 4 => e = 4
  <2>1. e = 1 \/ e = 2 \/ e = 3 \/ e = 4 \/ e = 5
    OBVIOUS
  <2> QED
    BY <1>4, <2>1
<1>6. Builtins(store, root)
  <2>1. /\ ~store[1].fn /\ Len(store[1].kids) >= 3
        /\ store[store[1].kids[1]].tag = 2 /\ store[store[1].kids[2]].tag = 3
        /\ store[store[1].kids[3]].tag = 4
    BY <1>4
  <2>2. Len(store[4].kids) = 1 /\ store[store[4].kids[1]].tag = 5
    BY <1>4
  <2> QED
    BY <1>1, <1>3, <1>5, <2>1, <2>2 DEF Builtins
<1>7. Functions(store, root) /\ InOrderSince(store, mark)
  BY <1>3, <1>5 DEF Functions, InOrderSince
<1> QED
  BY <1>1, <1>4, <1>6, <1>7 DEF Arranged, TypeTag

LEMMA EditArranges ==
  ASSUME Invariant, Arranged, Invariant', Edit(store', store, root),
         UNCHANGED <<root, mark, cache>>
  PROVE  Arranged'
<1> DEFINE s == store
           s2 == store'
           n == Len(store)
<1>1. /\ Structured(s, root) /\ Structured(s2, root) /\ Edit(s2, s, root) /\ n >= 5
      /\ fresh = n /\ fresh' = Len(s2)
  BY DEF Invariant
<1>2. /\ Builtins(s, root) /\ Functions(s, root) /\ mark \in 0 .. n /\ InOrderSince(s, mark)
      /\ mark > 0 => Numbered(s)
      /\ mark = 0 => s[TypeTag].tag = TypeTag
      /\ \A c \in cache : CacheKept(s, c)
  BY <1>1 DEF Arranged
<1>3. /\ n \in Nat /\ Len(s2) \in Nat /\ Len(s2) >= n
      /\ \A e \in 1 .. n : s2[e].tag = s[e].tag
  <2> HIDE DEF s, s2
  <2> QED
    BY <1>1, EditSays DEF s
<1>4. \A e \in 1 .. 4 : s2[e].tag = s[e].tag
  BY <1>1, <1>3
<1>11. Len(s) >= 5 /\ mark \in 0 .. Len(s)
  BY <1>1, <1>2
<1> HIDE DEF s, s2, n
<1>5. Builtins(s2, root) /\ Functions(s2, root)
  <2>1. Builtins(s2, root)
    BY <1>1, <1>2, <1>11, BuiltinsStay
  <2>2. Functions(s2, root)
    BY <1>1, <1>2, FunctionsStay
  <2> QED
    BY <2>1, <2>2
<1>6. InOrderSince(s2, mark)
  BY <1>1, <1>2, <1>11, OrderStays
<1>7. mark > 0 => Numbered(s2)
  BY <1>2, <1>4 DEF Numbered
<1>8. /\ mark = 0 => s2[TypeTag].tag = TypeTag
      /\ \A c \in cache : CacheKept(s2, c)
  <2>1. mark = 0 => s2[TypeTag].tag = TypeTag
    BY <1>2, <1>4 DEF TypeTag
  <2>2. ASSUME NEW c \in cache
        PROVE  CacheKept(s2, c)
    BY <1>2, <1>4 DEF CacheKept
  <2> QED
    BY <2>1, <2>2
<1>9. mark \in 0 .. fresh'
  BY <1>1, <1>2, <1>3
<1>10. root' = root /\ mark' = mark /\ cache' = cache
  OBVIOUS
<1> QED
  BY <1>5, <1>6, <1>7, <1>8, <1>9, <1>10 DEF Arranged, CacheKept, s2

LEMMA SortArranges ==
  ASSUME Invariant, Arranged, Sort
  PROVE  Arranged'
<1> DEFINE s == store
           s2 == store'
<1>1. Structured(s, root) /\ fresh >= 5 /\ fresh = Len(s) /\ Len(s) \in Nat
  BY Known DEF Invariant
<1>2. /\ Builtins(s, root) /\ Functions(s, root)
      /\ mark > 0 => Numbered(s)
      /\ mark \in 0 .. fresh
      /\ \A c \in cache : CacheKept(s, c)
  BY DEF Arranged
<1>3. s2 = Reordered(s, root) /\ root' = Len(WalkOrder(s, root))
      /\ mark' = fresh /\ fresh' = fresh /\ cache' = cache
  BY DEF Sort
<1>4. root' = Moves(s, root)[root]
  BY <1>1, <1>3, SortOrderIs
<1> HIDE DEF s, s2
<1>5. Functions(s2, root') /\ InOrderSince(s2, mark')
  BY <1>1, <1>2, <1>3, <1>4, SortedFunctions
<1>6. Builtins(s2, root') /\ Numbered(s2)
  BY <1>1, <1>2, <1>3, <1>4, SortedBuiltins
<1>7. ASSUME NEW c \in cache
      PROVE  /\ c[3] => c[2] \in 1 .. 4 /\ s2[c[2]].tag = c[1]
             /\ ~c[3] => c[1] = TypeTag /\ c[2] = TypeTag
  <2>1. CacheKept(s, c)
    BY <1>2
  <2>2. ASSUME c[3]
        PROVE  c[2] \in 1 .. 4 /\ s2[c[2]].tag = c[1]
    <3> DEFINE i == c[2]
    <3>1. i \in 1 .. 4 /\ s[i].tag = c[1] /\ Numbered(s)
      BY <1>2, <2>1, <2>2 DEF CacheKept
    <3> HIDE DEF i
    <3>2. i = 1 \/ i = 2 \/ i = 3 \/ i = 4
      BY <3>1
    <3>3. s2[i].tag = s[i].tag
      BY <1>6, <3>1, <3>2 DEF Numbered
    <3> QED
      BY <3>1, <3>3 DEF i
  <2> QED
    BY <2>1, <2>2 DEF CacheKept
<1>8. mark' \in 0 .. fresh' /\ mark' > 0
  BY <1>1, <1>3
<1> QED
  BY <1>2, <1>3, <1>5, <1>6, <1>7, <1>8 DEF Arranged, CacheKept, s2

\* What a system resolves behind a sort it finds at the builtin's new id.
LEMMA Resolved ==
  ASSUME Invariant, Arranged, mark > 0, NEW t \in BuiltinTags
  PROVE  IdOf(t) \in 1 .. 4 /\ store[IdOf(t)].tag = t
<1>1. /\ Numbered(store) /\ Len(store) >= 5 /\ Len(store) \in Nat
      /\ \A e, x \in 1 .. Len(store) : store[e].tag = store[x].tag => e = x
  BY Known DEF Invariant, Arranged, Structured
<1>2. t = 2 \/ t = 3 \/ t = 4 \/ t = 5
  BY DEF BuiltinTags
<1>3. PICK i \in 1 .. 4 : store[i].tag = t
  BY <1>1, <1>2 DEF Numbered
<1>4. i \in Ids
  BY <1>1 DEF Ids
<1>5. IdOf(t) \in Ids /\ store[IdOf(t)].tag = t
  BY <1>3, <1>4 DEF IdOf
<1>6. IdOf(t) = i
  BY <1>1, <1>3, <1>4, <1>5 DEF Ids
<1> QED
  BY <1>3, <1>6

LEMMA StepArranges ==
  ASSUME Invariant, Arranged, [Next]_vars
  PROVE  Arranged'
<1>1. CASE Invariant' /\ Edit(store', store, root) /\ UNCHANGED <<root, mark, cache>>
  BY <1>1, EditArranges
<1>2. CASE Sort
  BY <1>2, SortArranges
<1>3. CASE UNCHANGED <<store, root, fresh, sorted, mark>> /\ cache' = cache
  BY <1>3 DEF Arranged, CacheKept
<1>4. ASSUME UNCHANGED <<store, root, fresh, sorted, mark>>, CacheBuiltins
      PROVE  Arranged'
  <2>1. mark > 0 /\ cache' = cache \cup { <<t, IdOf(t), mark > 0>> : t \in BuiltinTags }
    BY <1>4 DEF CacheBuiltins, Cached
  <2>2. ASSUME NEW t \in BuiltinTags
        PROVE  CacheKept(store, <<t, IdOf(t), mark > 0>>)
    BY <2>1, <2>2, Resolved DEF CacheKept
  <2>3. \A c \in cache' : CacheKept(store, c)
    BY <2>1, <2>2 DEF Arranged
  <2> QED
    BY <1>4, <2>3 DEF Arranged, CacheKept
<1>5. ASSUME UNCHANGED <<store, root, fresh, sorted, mark>>, VerifierCaches
      PROVE  Arranged'
  <2>1. /\ mark = 0 /\ store[TypeTag].tag = TypeTag
        /\ cache' = cache \cup { <<t, IdOf(t), mark > 0>> : t \in {TypeTag} }
    BY <1>5 DEF VerifierCaches, Cached, Arranged
  <2>2. IdOf(TypeTag) = TypeTag
    <3>1. /\ \A e, x \in 1 .. Len(store) : store[e].tag = store[x].tag => e = x
          /\ Len(store) \in Nat /\ Len(store) >= 5
      BY Known DEF Invariant, Structured
    <3>2. TypeTag \in Ids
      BY <3>1 DEF Ids, TypeTag
    <3>3. IdOf(TypeTag) \in Ids /\ store[IdOf(TypeTag)].tag = TypeTag
      BY <2>1, <3>2 DEF IdOf
    <3> QED
      BY <2>1, <3>1, <3>2, <3>3 DEF Ids
  <2>3. CacheKept(store, <<TypeTag, IdOf(TypeTag), mark > 0>>)
    <3> DEFINE c == <<TypeTag, IdOf(TypeTag), mark > 0>>
    <3>1. ~(mark > 0)
      BY <2>1
    <3>2. c[1] = TypeTag /\ c[2] = TypeTag /\ c[3] = (mark > 0)
      BY <2>2
    <3> HIDE DEF c
    <3>3. CacheKept(store, c)
      BY <3>1, <3>2, Zenon DEF CacheKept
    <3> QED
      BY <3>3 DEF c
  <2>4. \A c \in cache' : CacheKept(store, c)
    BY <2>1, <2>3 DEF Arranged
  <2> QED
    BY <1>5, <2>4 DEF Arranged, CacheKept
<1> QED
  BY <1>1, <1>2, <1>3, <1>4, <1>5, StepIs

\* Two entities of a body stay in their order.
LEMMA SortKeepsOld ==
  ASSUME Invariant, Arranged, Sort
  PROVE  \A f \in Ids : store[f].blk /\ InTree(f) =>
           \A t, u \in 1 .. mark :
             Before(store, f, t, u)
               => Before(store', CHOOSE g \in 1 .. Len(store) :
                                   store'[g].tag = store[f].tag, t, u)
<1> DEFINE s == store
           s2 == store'
           n == Len(store)
           to == Moves(store, root)
<1>1. /\ Structured(s, root) /\ n \in Nat /\ n = Len(s) /\ Functions(s, root)
      /\ InOrderSince(s, mark)
  BY Known DEF Invariant, Arranged
<1>2. s2 = Reordered(s, root) /\ to = Moves(s, root)
  BY DEF Sort
<1> HIDE DEF s, s2, n, to
<1>3. Renumbered(s2, s, SortOrder(s, root), to)
  BY <1>1, <1>2, ReorderedIs
<1>4. /\ \A e \in 1 .. n : to[e] \in 1 .. n /\ to[e] # 0 /\ s2[to[e]].tag = s[e].tag
      /\ \A i \in 1 .. n : \E e \in 1 .. n : i = to[e]
      /\ \A e, x \in 1 .. n : s[e].tag = s[x].tag => e = x
  <2>1. \A e \in 1 .. n : to[e] \in 1 .. n /\ to[e] # 0
    BY <1>1, <1>3, MovedIs
  <2>2. \A i \in 1 .. n : \E e \in 1 .. n : i = to[e]
    BY <1>1, <1>3, MovedIs
  <2>3. \A e \in 1 .. n : s2[to[e]].tag = s[e].tag
    BY <1>1, <1>3 DEF Renumbered
  <2>4. \A e, x \in 1 .. n : s[e].tag = s[x].tag => e = x
    BY <1>1 DEF Structured
  <2> QED
    BY <2>1, <2>2, <2>3, <2>4
<1>5. ASSUME NEW f \in 1 .. n, NEW t \in 1 .. mark, NEW u \in 1 .. mark, Before(s, f, t, u)
      PROVE  Before(s2, CHOOSE g \in 1 .. n : s2[g].tag = s[f].tag, t, u)
  <2> DEFINE g == CHOOSE g \in 1 .. n : s2[g].tag = s[f].tag
             k == s[f].kids
  <2>1. g = to[f]
    <3>1. ASSUME NEW x \in 1 .. n, s2[x].tag = s[f].tag
          PROVE  x = to[f]
      BY <1>4, <3>1
    <3>2. to[f] \in 1 .. n /\ s2[to[f]].tag = s[f].tag
      BY <1>4
    <3> QED
      BY <3>1, <3>2
  <2>2. k \in Seq(Nat) /\ Range(k) \subseteq 1 .. n /\ DOMAIN k = 1 .. Len(k)
    BY <1>1, NodeIs
  <2>3. PICK i, j \in DOMAIN k : i < j /\ TagAt(s, k[i]) = t /\ TagAt(s, k[j]) = u
    BY <1>5 DEF Before
  <2>4. k[i] \in 1 .. n /\ k[j] \in 1 .. n
    BY <2>2 DEF Range
  <2>5. s[k[i]].tag = t /\ s[k[j]].tag = u
    BY <1>1, <2>3, <2>4 DEF TagAt
  <2>6. mark \in Nat /\ t <= mark /\ u <= mark
    BY <1>1 DEF Arranged, Invariant
  <2>7. s[k[i]].tag <= mark /\ s[k[j]].tag <= mark /\ i \in 1 .. Len(k) /\ j \in 1 .. Len(k)
    BY <2>2, <2>3, <2>5, <2>6
  <2>8. ListedBefore(s2[to[f]].kids, to[k[i]], to[k[j]])
    <3>1. /\ f \in 1 .. Len(s) /\ i \in 1 .. Len(s[f].kids) /\ j \in 1 .. Len(s[f].kids) /\ i < j
          /\ s[s[f].kids[i]].tag <= mark /\ s[s[f].kids[j]].tag <= mark
      BY <1>1, <2>3, <2>7
    <3> HIDE DEF k
    <3>2. ListedBefore(s2[to[f]].kids, to[s[f].kids[i]], to[s[f].kids[j]])
      BY <1>1, <1>2, <3>1, SortKeepsOrder
    <3> QED
      BY <3>2 DEF k
  <2>9. TagAt(s2, to[k[i]]) = t /\ TagAt(s2, to[k[j]]) = u
    <3> DEFINE a == k[i]
               c == k[j]
    <3>1. a \in 1 .. n /\ c \in 1 .. n /\ s[a].tag = t /\ s[c].tag = u
      BY <2>4, <2>5
    <3> HIDE DEF a, c
    <3>2. to[a] # 0 /\ to[c] # 0 /\ s2[to[a]].tag = t /\ s2[to[c]].tag = u
      BY <1>4, <3>1
    <3> QED
      BY <3>2 DEF TagAt, a, c
  <2> HIDE DEF g, k
  <2> QED
    BY <2>1, <2>8, <2>9 DEF Before, ListedBefore, g
<1> QED
  BY <1>5 DEF Ids, s, s2, n

(***************************************************************************)
(* A sorted module, and what the callbacks of a walk have made of it.      *)
(***************************************************************************)
\* s is s0 after some edits.
Since(s, s0) ==
  /\ Len(s) >= Len(s0)
  /\ \A e \in 1 .. Len(s0) :
       /\ s[e].tag = s0[e].tag /\ s[e].up = s0[e].up /\ s[e].fn = s0[e].fn
       /\ s[e].param = s0[e].param /\ Keeps(s[e].kids, s0[e].kids, Len(s0))

\* How many entities there are, and that the root is one.
LEMMA Sized ==
  ASSUME NEW s, NEW r, Structured(s, r)
  PROVE  Len(s) \in Nat /\ DOMAIN s = 1 .. Len(s) /\ r \in 1 .. Len(s)
BY DEF Structured

\* A module is itself after no edit.
LEMMA SinceItself ==
  ASSUME NEW s, NEW r, Structured(s, r)
  PROVE  Since(s, s)
<1>1. Len(s) \in Nat
  BY DEF Structured
<1> QED
  BY <1>1, KeepsAll DEF Since

\* One more edit.
LEMMA SinceEdit ==
  ASSUME NEW s0, NEW r, Structured(s0, r), NEW s, Structured(s, r), Since(s, s0),
         NEW s2, Structured(s2, r), Edit(s2, s, r)
  PROVE  Since(s2, s0)
<1>1. /\ Len(s0) \in Nat /\ Len(s) \in Nat /\ Len(s2) \in Nat
      /\ Len(s) >= Len(s0) /\ Len(s2) >= Len(s)
      /\ \A e \in 1 .. Len(s) :
           /\ s2[e].tag = s[e].tag /\ s2[e].up = s[e].up /\ s2[e].fn = s[e].fn
           /\ s2[e].param = s[e].param /\ Keeps(s2[e].kids, s[e].kids, Len(s))
  <2>1. Len(s0) \in Nat /\ Len(s) >= Len(s0)
    BY Sized DEF Since
  <2> QED
    BY <2>1, EditSays
<1>2. ASSUME NEW e \in 1 .. Len(s0)
      PROVE  /\ s2[e].tag = s0[e].tag /\ s2[e].up = s0[e].up /\ s2[e].fn = s0[e].fn
             /\ s2[e].param = s0[e].param /\ Keeps(s2[e].kids, s0[e].kids, Len(s0))
  <2>1. e \in 1 .. Len(s) /\ e \in 1 .. Len(s2)
    BY <1>1
  <2>2. /\ s2[e].tag = s[e].tag /\ s2[e].up = s[e].up /\ s2[e].fn = s[e].fn
        /\ s2[e].param = s[e].param /\ Keeps(s2[e].kids, s[e].kids, Len(s))
    BY <1>1, <2>1
  <2>3. /\ s[e].tag = s0[e].tag /\ s[e].up = s0[e].up /\ s[e].fn = s0[e].fn
        /\ s[e].param = s0[e].param /\ Keeps(s[e].kids, s0[e].kids, Len(s0))
    BY DEF Since
  <2>4. s2[e].kids \in Seq(Nat) /\ DOMAIN s2[e].kids = 1 .. Len(s2[e].kids)
    BY <2>1, NodeIs, LenProperties
  <2>5. ASSUME NEW i \in 1 .. Len(s2[e].kids), NEW j \in 1 .. Len(s2[e].kids), i < j,
               s2[e].kids[i] <= Len(s0), s2[e].kids[j] <= Len(s0)
        PROVE  Precedes(s0[e].kids, s2[e].kids[i], s2[e].kids[j])
    <3>1. s2[e].kids[i] \in Nat /\ s2[e].kids[j] \in Nat
      BY <2>4, ElementOfSeq
    <3>2. s2[e].kids[i] <= Len(s) /\ s2[e].kids[j] <= Len(s)
      BY <1>1, <2>5, <3>1
    <3>3. Precedes(s[e].kids, s2[e].kids[i], s2[e].kids[j])
      BY <2>2, <2>5, <3>2 DEF Keeps
    <3>4. PICK p, q \in 1 .. Len(s[e].kids) :
            p < q /\ s[e].kids[p] = s2[e].kids[i] /\ s[e].kids[q] = s2[e].kids[j]
      BY <3>3 DEF Precedes
    <3>5. Precedes(s0[e].kids, s[e].kids[p], s[e].kids[q])
      BY <2>3, <2>5, <3>4 DEF Keeps
    <3> QED
      BY <3>4, <3>5
  <2> QED
    BY <2>2, <2>3, <2>5 DEF Keeps
<1> QED
  BY <1>1, <1>2 DEF Since

\* BodyBefore orders what it orders one way only.
LEMMA BodyBeforeOnce ==
  ASSUME NEW s, NEW r, Structured(s, r), NEW a \in 1 .. Len(s), NEW b \in 1 .. Len(s),
         BodyBefore(s, a, b), BodyBefore(s, b, a)
  PROVE  FALSE
<1>1. s[a].param \in Nat /\ s[b].param \in Nat /\ Len(s) \in Nat
  BY NodeIs
<1> QED
  BY <1>1 DEF BodyBefore

\* The bodies of what hangs in the tree have grown.
LEMMA BodiesGrow ==
  ASSUME NEW s0, NEW r, Structured(s0, r), NEW s, Structured(s, r), Since(s, s0)
  PROVE  ListsGrown(Bodies(s0), Bodies(s), Attached(s0, r))
<1> DEFINE n == Len(s0)
           k == Bodies(s0)
           l == Bodies(s)
<1>1. /\ n \in Nat /\ Len(s) \in Nat /\ \A e \in 1 .. n : e \in 1 .. Len(s)
      /\ \A e \in 1 .. n :
           /\ s[e].up = s0[e].up /\ s[e].fn = s0[e].fn /\ s[e].param = s0[e].param
           /\ Keeps(s[e].kids, s0[e].kids, n)
  <2>1. n \in Nat /\ Len(s) \in Nat /\ Len(s) >= n
    BY Sized DEF Since
  <2> QED
    BY <2>1 DEF Since
<1> SUFFICES ASSUME NEW e \in Attached(s0, r)
             PROVE  /\ Range(k[e]) \subseteq Range(l[e])
                    /\ \A i, j \in 1 .. Len(k[e]) : i < j => Precedes(l[e], k[e][i], k[e][j])
  BY DEF ListsGrown
<1>2. /\ e \in 1 .. n /\ e \in 1 .. Len(s)
      /\ k[e] = BodyOrder(s0, e) /\ l[e] = BodyOrder(s, e)
      /\ \A i \in 1 .. Len(k[e]) : Ups(s0)[k[e][i]] = e
  <2>1. e \in 1 .. n
    BY BodiesAre
  <2>2. e \in 1 .. Len(s)
    BY <1>1, <2>1
  <2> QED
    BY <2>1, <2>2, BodiesAre DEF Owned
<1> HIDE DEF k, l
<1>3. /\ k[e] \in Seq(1 .. n) /\ l[e] \in Seq(1 .. Len(s)) /\ IsInjective(k[e])
      /\ Range(k[e]) = Range(s0[e].kids) /\ Range(l[e]) = Range(s[e].kids)
      /\ ~s0[e].fn => k[e] = s0[e].kids /\ l[e] = s[e].kids
  BY <1>1, <1>2, BodyOrderIs
<1>4. DOMAIN k[e] = 1 .. Len(k[e]) /\ DOMAIN l[e] = 1 .. Len(l[e])
  BY <1>3, LenProperties
<1>5. ASSUME NEW x \in Range(k[e])
      PROVE  x \in 1 .. n /\ x \in Range(l[e])
  <2>1. PICK i \in 1 .. Len(k[e]) : k[e][i] = x
    BY <1>4, <1>5 DEF Range
  <2>2. x \in 1 .. n
    BY <1>3, <2>1, ElementOfSeq
  <2>3. s0[x].up = e
    <3>1. x \in DOMAIN s0
      BY <2>2 DEF Structured
    <3> QED
      BY <1>2, <2>1, <3>1 DEF Ups
  <2>4. s[x].up = e /\ e # 0 /\ x \in 1 .. Len(s)
    BY <1>1, <1>2, <2>2, <2>3
  <2>5. x \in Range(s[e].kids)
    BY <2>4 DEF Structured
  <2> QED
    BY <1>3, <2>2, <2>5
<1>6. ASSUME NEW i \in 1 .. Len(k[e]), NEW j \in 1 .. Len(k[e]), i < j
      PROVE  Precedes(l[e], k[e][i], k[e][j])
  <2> DEFINE x == k[e][i]
             y == k[e][j]
  <2>1. x \in Range(k[e]) /\ y \in Range(k[e])
    BY <1>4 DEF Range
  <2>2. x \in 1 .. n /\ y \in 1 .. n /\ x \in Range(l[e]) /\ y \in Range(l[e]) /\ x # y
    <3>1. \A a, b \in 1 .. Len(k[e]) : k[e][a] = k[e][b] => a = b
      BY <1>3, <1>4 DEF IsInjective
    <3>2. x # y
      BY <1>6, <3>1
    <3> QED
      BY <1>5, <2>1, <3>2
  <2> HIDE DEF x, y
  <2>3. PICK p \in 1 .. Len(l[e]) : l[e][p] = x
    BY <1>4, <2>2 DEF Range
  <2>4. PICK q \in 1 .. Len(l[e]) : l[e][q] = y
    BY <1>4, <2>2 DEF Range
  <2>5. ASSUME q < p
        PROVE  FALSE
    <3>1. CASE s0[e].fn
      <4>1. BodyBefore(s0, x, y)
        BY <1>2, <1>6, <3>1, BodySorted DEF x, y
      <4>2. BodyBefore(s, y, x)
        <5>1. s[e].fn /\ l[e] = BodyOrder(s, e)
          BY <1>1, <1>2, <3>1
        <5>2. \A a, b \in 1 .. Len(l[e]) : a < b => BodyBefore(s, l[e][a], l[e][b])
          BY <1>2, <5>1, BodySorted
        <5> QED
          BY <2>3, <2>4, <2>5, <5>2
      <4>3. BodyBefore(s0, y, x)
        BY <1>1, <2>2, <4>2 DEF BodyBefore
      <4> QED
        BY <2>2, <4>1, <4>3, BodyBeforeOnce
    <3>2. CASE ~s0[e].fn
      <4>1. Precedes(s0[e].kids, y, x)
        <5>1. Keeps(l[e], s0[e].kids, n)
          BY <1>1, <1>2, <1>3, <3>2
        <5>2. x <= n /\ y <= n
          BY <1>1, <2>2
        <5> QED
          BY <2>3, <2>4, <2>5, <5>1, <5>2 DEF Keeps
      <4>2. PICK a, b \in 1 .. Len(k[e]) : a < b /\ k[e][a] = y /\ k[e][b] = x
        BY <1>3, <3>2, <4>1 DEF Precedes
      <4>3. a = j /\ b = i
        BY <1>3, <1>4, <4>2 DEF IsInjective, x, y
      <4> QED
        BY <1>6, <4>2, <4>3
    <3> QED
      BY <3>1, <3>2
  <2>6. p < q
    BY <2>2, <2>3, <2>4, <2>5
  <2> QED
    BY <2>3, <2>4, <2>6 DEF Precedes, x, y
<1> QED
  BY <1>5, <1>6

\* So the walk comes to what was there before in the order it had then.
LEMMA WalkGrows ==
  ASSUME NEW s0, NEW r, Structured(s0, r), NEW s, Structured(s, r), Since(s, s0),
         NEW e \in Attached(s0, r)
  PROVE  /\ Range(WalkOrder(s0, e)) \subseteq Range(WalkOrder(s, e))
         /\ \A i, j \in 1 .. Len(WalkOrder(s0, e)) :
              i < j => Precedes(WalkOrder(s, e), WalkOrder(s0, e)[i], WalkOrder(s0, e)[j])
<1>1. /\ Ranked(Bodies(s0), Ages(s0), Len(s0)) /\ Owned(Bodies(s0), Ups(s0), Attached(s0, r))
      /\ Ranked(Bodies(s), Ages(s), Len(s)) /\ DOMAIN Bodies(s) = 1 .. Len(s)
      /\ Attached(s0, r) \subseteq 1 .. Len(s0)
  BY BodiesAre
<1>2. /\ Attached(s0, r) \subseteq 1 .. Len(s)
      /\ e \in 1 .. Len(s0) /\ e \in 1 .. Len(s)
  <2>1. Len(s0) \in Nat /\ Len(s) \in Nat /\ Len(s) >= Len(s0)
    BY Sized DEF Since
  <2> QED
    BY <1>1, <2>1
<1>3. WalkOrder(s0, e) = PostOrder(Bodies(s0), e) /\ WalkOrder(s, e) = PostOrder(Bodies(s), e)
  BY <1>2, BodiesAre
<1>4. ListsGrown(Bodies(s0), Bodies(s), Attached(s0, r))
  BY BodiesGrow
<1> QED
  BY <1>1, <1>2, <1>3, <1>4, GrownWalks

\* And to nothing else of what was there before.
LEMMA WalkAddsNew ==
  ASSUME NEW s0, NEW r, Structured(s0, r), NEW s, Structured(s, r), Since(s, s0),
         NEW e \in Attached(s0, r), NEW x \in Range(WalkOrder(s, e)), x <= Len(s0)
  PROVE  x \in Range(WalkOrder(s0, e))
<1> DEFINE n == Len(s0)
           W == Range(WalkOrder(s, e))
           V == Range(WalkOrder(s0, e))
           S == { k \in Nat : \A y \in W : y <= n /\ s[y].tag < k => y \in V }
<1>1. /\ n \in Nat /\ Len(s) \in Nat /\ Len(s) >= n
      /\ \A y \in 1 .. n : s[y].up = s0[y].up /\ s[y].tag = s0[y].tag
  BY Sized DEF Since
<1>2. e \in 1 .. n /\ e \in 1 .. Len(s) /\ e \in Attached(s, r)
  <2>1. e \in 1 .. n /\ (s0[e].up # 0 \/ e = r)
    BY BodiesAre DEF Attached
  <2>2. e \in 1 .. Len(s) /\ DOMAIN s = 1 .. Len(s)
    BY <1>1, <2>1 DEF Structured
  <2> QED
    BY <1>1, <2>1, <2>2 DEF Attached
<1>3. \A y \in W : /\ y \in 1 .. Len(s)
                   /\ y # e => s[y].up \in W /\ s[s[y].up].tag < s[y].tag
  <2>1. /\ Ranked(Bodies(s), Ages(s), Len(s)) /\ Owned(Bodies(s), Ups(s), Attached(s, r))
        /\ Attached(s, r) \subseteq 1 .. Len(s)
    BY BodiesAre
  <2>2. PICK F : Walks(Bodies(s), F) /\ \A y \in DOMAIN Bodies(s) : PostOrder(Bodies(s), y) = F[y]
    BY <2>1, PostOrderIs
  <2>3. WalkOrder(s, e) = F[e]
    BY <1>2, <2>2, BodiesAre
  <2>4. ASSUME NEW y \in W
        PROVE  /\ y \in 1 .. Len(s)
               /\ y # e => s[y].up \in W /\ s[s[y].up].tag < s[y].tag
    <3>1. /\ y \in Attached(s, r)
          /\ y # e => Ups(s)[y] \in W /\ Ages(s)[y] < Ages(s)[Ups(s)[y]]
      BY <1>2, <2>1, <2>2, <2>3, WalkUp
    <3>2. y \in 1 .. Len(s) /\ DOMAIN s = 1 .. Len(s)
      BY <2>1, <3>1 DEF Structured
    <3>3. s[y].up \in 0 .. Len(s) /\ s[y].tag \in 1 .. Len(s)
      BY <3>2, NodeIs
    <3>4. y # e => s[y].up \in W
      BY <3>1, <3>2 DEF Ups
    <3>5. ASSUME y # e
          PROVE  s[s[y].up].tag < s[y].tag
      <4>1. s[y].up \in Attached(s, r)
        BY <1>2, <2>1, <2>2, <2>3, <3>4, <3>5, WalkUp
      <4>2. s[y].up \in 1 .. Len(s)
        BY <2>1, <4>1
      <4>3. s[s[y].up].tag \in 1 .. Len(s)
        BY <4>2, NodeIs
      <4>4. Ages(s)[y] = Len(s) - s[y].tag /\ Ages(s)[s[y].up] = Len(s) - s[s[y].up].tag
        BY <3>2, <4>2 DEF Ages
      <4>5. Ages(s)[y] < Ages(s)[s[y].up]
        BY <3>1, <3>2, <3>5 DEF Ups
      <4> QED
        BY <1>1, <3>3, <4>3, <4>4, <4>5
    <3> QED
      BY <3>2, <3>4, <3>5
  <2> QED
    BY <2>4
<1>4. e \in V /\ \A y \in V : Range(s0[y].kids) \subseteq V
  <2>1. /\ Ranked(Bodies(s0), Ages(s0), Len(s0)) /\ DOMAIN Bodies(s0) = 1 .. n
        /\ WalkOrder(s0, e) = PostOrder(Bodies(s0), e)
        /\ \A y \in 1 .. n : Bodies(s0)[y] = BodyOrder(s0, y)
        /\ Owned(Bodies(s0), Ups(s0), Attached(s0, r))
    BY <1>2, BodiesAre
  <2>2. \A y \in V : y \in 1 .. n /\ Range(s0[y].kids) \subseteq V
    <3>1. \A y \in V : y \in 1 .. n /\ Range(Bodies(s0)[y]) \subseteq V
      BY <1>2, <2>1, WalkHolds
    <3>2. \A y \in 1 .. n : Range(BodyOrder(s0, y)) = Range(s0[y].kids)
      BY BodyOrderIs
    <3> QED
      BY <2>1, <3>1, <3>2
  <2>3. e \in V
    <3> DEFINE w == PostOrder(Bodies(s0), e)
    <3>1. w \in Seq(Attached(s0, r)) /\ w # <<>> /\ w[Len(w)] = e
      BY <2>1, VisitsOnce
    <3> HIDE DEF w
    <3>2. Len(w) \in 1 .. Len(w) /\ DOMAIN w = 1 .. Len(w)
      BY <3>1, LenProperties, EmptySeq
    <3>3. e \in Range(w)
      BY <3>1, <3>2 DEF Range
    <3> QED
      BY <2>1, <3>3 DEF w
  <2> QED
    BY <2>2, <2>3
<1>5. \A y \in W : s[y].tag \in Nat /\ s[y].tag < Len(s) + 1
  BY <1>1, <1>3, NodeIs
<1> HIDE DEF W, V
<1>6. 0 \in S
  BY <1>5
<1>7. ASSUME NEW k \in Nat, k \in S
      PROVE  k + 1 \in S
  <2>1. ASSUME NEW y \in W, y <= n, s[y].tag < k + 1, y # e
        PROVE  y \in V
    <3>1. y \in 1 .. n /\ s[y].up \in W /\ s[s[y].up].tag < s[y].tag
      BY <1>1, <1>3, <2>1
    <3>2. s[y].up = s0[y].up /\ s0[y].up \in 0 .. n /\ s[y].up \in 1 .. Len(s)
      BY <1>1, <1>3, <3>1, NodeIs
    <3>3. s[y].up <= n /\ s[s[y].up].tag < k
      BY <1>1, <1>5, <2>1, <3>1, <3>2
    <3>4. s0[y].up \in V
      BY <1>7, <3>1, <3>2, <3>3
    <3>5. y \in Range(s0[s0[y].up].kids)
      <4>1. \A a \in 1 .. n : s0[a].up # 0 => a \in Range(s0[s0[a].up].kids)
        BY DEF Structured
      <4> QED
        BY <1>1, <3>1, <3>2, <4>1
    <3> QED
      BY <1>4, <3>4, <3>5
  <2> QED
    BY <1>4, <2>1
<1>8. Len(s) + 1 \in S
  <2> HIDE DEF S
  <2> QED
    BY <1>1, <1>6, <1>7, SetInduction
<1>9. x \in W
  BY DEF W
<1> QED
  BY <1>5, <1>8, <1>9 DEF V

(***************************************************************************)
(* How the walker counts.                                                  *)
(***************************************************************************)
\* The first id a walk from e comes to.
Low(s, e) == WalkOrder(s, e)[1]

\* A walk in a sorted module counts from there to e, and the first child of e,
\* which is below it, starts where e does.
LEMMA Counted ==
  ASSUME NEW s, NEW r, Structured(s, r), Tidy(s, r), NEW e \in 1 .. r
  PROVE  /\ e \in Attached(s, r) /\ Low(s, e) \in 1 .. e
         /\ Len(WalkOrder(s, e)) = e + 1 - Low(s, e)
         /\ WalkOrder(s, e) = [i \in 1 .. e + 1 - Low(s, e) |-> Low(s, e) - 1 + i]
         /\ s[e].kids = <<>> => Low(s, e) = e
         /\ s[e].kids # <<>> => /\ s[e].kids[1] \in 1 .. e - 1
                                /\ Low(s, s[e].kids[1]) = Low(s, e)
<1> DEFINE n == Len(s)
           kids == Bodies(s)
           w == WalkOrder(s, e)
           m == Len(w)
<1>1. n \in Nat /\ DOMAIN s = 1 .. n /\ r \in 1 .. n /\ e \in 1 .. n
  BY Sized
<1>2. /\ DOMAIN kids = 1 .. n /\ Ranked(kids, Ages(s), n)
      /\ Owned(kids, Ups(s), Attached(s, r))
      /\ \A x \in 1 .. n : kids[x] = BodyOrder(s, x) /\ WalkOrder(s, x) = PostOrder(kids, x)
  BY BodiesAre
<1>3. /\ Range(WalkOrder(s, r)) = 1 .. r
      /\ \A x \in 1 .. r : BodyOrder(s, x) = s[x].kids
  BY TidyOrder
<1>4. e \in Attached(s, r)
  <2>1. e \in Range(WalkOrder(s, r)) /\ WalkOrder(s, r) \in Seq(Attached(s, r))
    BY <1>3, WalkOrderIs
  <2> QED
    BY <2>1, RangeOfSeq
<1>5. PICK F : Walks(kids, F) /\ \A x \in DOMAIN kids : PostOrder(kids, x) = F[x]
  BY <1>2, PostOrderIs
<1>6. \A x \in 1 .. n : /\ F[x] = WalkOrder(s, x) /\ F[x] \in Seq(1 .. n)
                        /\ Len(F[x]) \in Nat \ {0} /\ F[x][Len(F[x])] = x
  <2> SUFFICES ASSUME NEW x \in 1 .. n
               PROVE  /\ F[x] = WalkOrder(s, x) /\ F[x] \in Seq(1 .. n)
                      /\ Len(F[x]) \in Nat \ {0} /\ F[x][Len(F[x])] = x
    OBVIOUS
  <2>1. x \in DOMAIN kids
    BY <1>2
  <2>2. F[x] = WalkOrder(s, x)
    BY <1>2, <1>5, <2>1
  <2>3. F[x] \in Seq(DOMAIN kids) /\ Len(F[x]) \in Nat \ {0} /\ F[x][Len(F[x])] = x
    BY <1>2, <1>5, <2>1, WalkPlaces
  <2> QED
    BY <1>2, <2>2, <2>3
<1>7. m \in Nat \ {0} /\ w \in Seq(1 .. n) /\ DOMAIN w = 1 .. m
  BY <1>1, <1>6, LenProperties
<1>8. w = [i \in DOMAIN w |-> e - m + i]
  BY TidyIs
<1> DEFINE lo == Low(s, e)
<1>9. 1 \in 1 .. m /\ lo = e - m + 1 /\ lo \in 1 .. n
  <2>1. 1 \in 1 .. m
    BY <1>7
  <2>2. w[1] = e - m + 1 /\ w[1] \in 1 .. n
    BY <1>7, <1>8, <2>1, ElementOfSeq
  <2> QED
    BY <2>1, <2>2 DEF Low
<1> HIDE DEF lo, m, w
<1>10. lo \in 1 .. e /\ m = e + 1 - lo
  BY <1>1, <1>7, <1>9
<1>11. w = [i \in 1 .. e + 1 - lo |-> lo - 1 + i]
  <2>1. w = [i \in 1 .. m |-> e - m + i]
    BY <1>7, <1>8
  <2>2. \A i \in 1 .. m : e - m + i = lo - 1 + i
    BY <1>1, <1>7, <1>9
  <2> QED
    BY <1>10, <2>1, <2>2
<1>12. s[e].kids \in Seq(1 .. n) /\ kids[e] = s[e].kids /\ Range(s[e].kids) \subseteq 1 .. n
  <2>1. BodyOrder(s, e) \in Seq(1 .. n)
    BY <1>1, BodyOrderIs
  <2> QED
    BY <1>1, <1>2, <1>3, <2>1, NodeIs
<1>13. ASSUME s[e].kids = <<>>
       PROVE  lo = e
  <2>1. F[e] = <<e>>
    BY <1>1, <1>2, <1>5, <1>12, <1>13, LeafWalk
  <2> QED
    BY <1>1, <1>6, <2>1 DEF lo, Low
<1>14. ASSUME s[e].kids # <<>>
       PROVE  s[e].kids[1] \in 1 .. e - 1 /\ Low(s, s[e].kids[1]) = lo
  <2> DEFINE k == s[e].kids[1]
  <2>1. 1 \in 1 .. Len(kids[e]) /\ 1 \in DOMAIN s[e].kids
    BY <1>12, <1>14, EmptySeq, LenProperties
  <2>2. k \in Range(s[e].kids) /\ k \in 1 .. n
    BY <1>12, <2>1 DEF Range
  <2>3. PICK at : Placed(kids, F, e, at)
    BY <1>1, <1>2, <1>5, WalkPlaces
  <2>4. Segment(F[k], F[e], 0)
    BY <1>12, <2>1, <2>3 DEF Placed
  <2> HIDE DEF k
  <2>5. /\ Len(F[k]) \in Nat \ {0} /\ F[k][Len(F[k])] = k /\ F[k] = WalkOrder(s, k)
        /\ F[e] = w /\ 1 \in 1 .. Len(F[k]) /\ Len(F[k]) \in 1 .. Len(F[k])
    BY <1>1, <1>6, <2>2 DEF w
  <2>6. w[1] = F[k][1] /\ w[Len(F[k])] = k /\ Len(F[k]) <= m
    BY <1>7, <2>4, <2>5 DEF Segment, m
  <2>7. Low(s, k) = lo
    BY <2>5, <2>6 DEF lo, Low, w
  <2>8. k = e - m + Len(F[k])
    <3>1. Len(F[k]) \in 1 .. m
      BY <1>7, <2>5, <2>6
    <3> QED
      BY <1>7, <1>8, <2>6, <3>1
  <2>9. k # e
    <3>1. s[k].tag > s[e].tag
      BY <1>1, <2>2 DEF Structured
    <3>2. s[e].tag \in Nat
      BY <1>1, NodeIs
    <3> QED
      BY <3>1, <3>2
  <2>10. k \in 1 .. e - 1
    BY <1>1, <1>7, <2>2, <2>5, <2>6, <2>8, <2>9
  <2> QED
    BY <2>7, <2>10 DEF k
<1> QED
  BY <1>4, <1>10, <1>11, <1>13, <1>14 DEF lo, w, m

(***************************************************************************)
(* Ahead.                                                                  *)
(***************************************************************************)
\* Going on from x to N[x] until something in S is reached, and V of that.
Chained(D, N, S, V, F) == F = [x \in D |-> IF x \in S THEN V[x] ELSE F[N[x]]]

\* There is such a function, whether or not every chain comes to an end.
LEMMA ChainExists ==
  ASSUME NEW D, NEW N, \A x \in D : N[x] \in D, NEW S, S \subseteq D, NEW V
  PROVE  \E F : Chained(D, N, S, V, F)
<1> DEFINE Closed(C, x) == /\ C \subseteq D /\ x \in C
                           /\ \A z \in C : z \notin S => N[z] \in C
           E(x) == { y \in S : \A C \in SUBSET D : Closed(C, x) => y \in C }
           F == [x \in D |-> IF E(x) = {} THEN {} ELSE V[CHOOSE y \in E(x) : TRUE]]
<1>1. ASSUME NEW x \in S
      PROVE  E(x) = {x}
  <2>1. Closed({x}, x) /\ {x} \in SUBSET D
    OBVIOUS
  <2>2. x \in E(x)
    OBVIOUS
  <2>3. \A y \in E(x) : y \in {x}
    BY <2>1
  <2> QED
    BY <2>2, <2>3
<1>2. ASSUME NEW x \in D, x \notin S
      PROVE  E(x) = E(N[x])
  <2>1. ASSUME NEW y \in E(x)
        PROVE  y \in E(N[x])
    <3> SUFFICES ASSUME NEW C \in SUBSET D, Closed(C, N[x])
                 PROVE  y \in C
      OBVIOUS
    <3>1. Closed(C \cup {x}, x) /\ C \cup {x} \in SUBSET D
      OBVIOUS
    <3>2. y \in C \cup {x}
      BY <3>1
    <3> QED
      BY <1>2, <3>2
  <2>2. ASSUME NEW y \in E(N[x])
        PROVE  y \in E(x)
    <3> SUFFICES ASSUME NEW C \in SUBSET D, Closed(C, x)
                 PROVE  y \in C
      OBVIOUS
    <3>1. Closed(C, N[x])
      BY <1>2
    <3> QED
      BY <3>1
  <2> QED
    BY <2>1, <2>2
<1> HIDE DEF E
<1>3. ASSUME NEW x \in D
      PROVE  F[x] = IF x \in S THEN V[x] ELSE F[N[x]]
  <2>1. CASE x \in S
    <3>1. E(x) = {x} /\ E(x) # {}
      BY <1>1, <2>1
    <3>2. (CHOOSE y \in E(x) : TRUE) = x
      BY <3>1
    <3> QED
      BY <2>1, <3>1, <3>2
  <2>2. CASE x \notin S
    <3>1. E(x) = E(N[x]) /\ N[x] \in D
      BY <1>2, <2>2
    <3> QED
      BY <2>2, <3>1
  <2> QED
    BY <2>1, <2>2
<1>4. F = [x \in D |-> F[x]]
  OBVIOUS
<1> HIDE DEF F
<1>5. F = [x \in D |-> IF x \in S THEN V[x] ELSE F[N[x]]]
  BY <1>3, <1>4
<1> QED
  BY <1>5 DEF Chained

\* Counting on keeps a stack of ranges one.
LEMMA Bumped ==
  ASSUME NEW A, NEW rs \in Seq(A \X Nat), NEW n \in 1 .. Len(rs)
  PROVE  /\ Bump(rs, n) \in Seq(A \X Nat) /\ Len(Bump(rs, n)) = Len(rs)
<1> DEFINE P == A \X Nat
           p == rs[n]
           q == [p EXCEPT ![2] = @ + 1]
           v == Bump(rs, n)
<1>1. v = [rs EXCEPT ![n] = q]
  BY DEF Bump
<1>2. rs \in Seq(P) /\ p \in A \X Nat
  OBVIOUS
<1>3. q \in P /\ q = <<p[1], p[2] + 1>>
  <2>1. PICK a \in A, b \in Nat : p = <<a, b>>
    BY <1>2
  <2> HIDE DEF p
  <2>2. q = <<a, b + 1>>
    BY <2>1
  <2> QED
    BY <2>1, <2>2
<1> HIDE DEF P, q, v
<1>4. /\ v \in Seq(P) /\ Len(v) = Len(rs)
      /\ \A i \in 1 .. Len(rs) : v[i] = IF i = n THEN q ELSE rs[i]
  BY <1>1, <1>2, <1>3, ExceptSeq
<1> QED
  BY <1>3, <1>4 DEF P, v

\* Only the last id of range n counts on.
LEMMA BumpedAt ==
  ASSUME NEW A, NEW rs \in Seq(A \X Nat), NEW n \in 1 .. Len(rs), NEW i \in 1 .. Len(rs)
  PROVE  Bump(rs, n)[i] = IF i = n THEN <<rs[n][1], rs[n][2] + 1>> ELSE rs[i]
<1> DEFINE P == A \X Nat
           p == rs[n]
           q == [p EXCEPT ![2] = @ + 1]
           v == Bump(rs, n)
<1>1. v = [rs EXCEPT ![n] = q]
  BY DEF Bump
<1>2. rs \in Seq(P) /\ p \in A \X Nat
  OBVIOUS
<1>3. q \in P /\ q = <<p[1], p[2] + 1>>
  <2>1. PICK a \in A, b \in Nat : p = <<a, b>>
    BY <1>2
  <2> HIDE DEF p
  <2>2. q = <<a, b + 1>>
    BY <2>1
  <2> QED
    BY <2>1, <2>2
<1> HIDE DEF P, q, v
<1>4. /\ v \in Seq(P) /\ Len(v) = Len(rs)
      /\ \A h \in 1 .. Len(rs) : v[h] = IF h = n THEN q ELSE rs[h]
  BY <1>1, <1>2, <1>3, ExceptSeq
<1> QED
  BY <1>3, <1>4 DEF P, v

\* What the front and the last of a sequence are.
LEMMA FrontIs ==
  ASSUME NEW T, NEW rs \in Seq(T), rs # <<>>
  PROVE  /\ Len(rs) \in Nat \ {0} /\ Front(rs) \in Seq(T) /\ Len(Front(rs)) = Len(rs) - 1
         /\ \A i \in 1 .. Len(rs) - 1 : Front(rs)[i] = rs[i]
         /\ Front(rs) = <<>> <=> Len(rs) = 1
         /\ Last(rs) \in T
<1>1. Len(rs) \in Nat \ {0} /\ DOMAIN rs = 1 .. Len(rs)
  BY LenProperties, EmptySeq
<1>2. /\ Front(rs) \in Seq(T) /\ Len(Front(rs)) = Len(rs) - 1
      /\ \A i \in 1 .. Len(rs) - 1 : Front(rs)[i] = rs[i]
  BY <1>1 DEF Front
<1>3. Last(rs) \in T
  <2>1. Len(rs) \in 1 .. Len(rs)
    BY <1>1
  <2> QED
    BY <2>1, ElementOfSeq DEF Last
<1> QED
  BY <1>1, <1>2, <1>3, EmptySeq

\* The stacks of ranges the recursion of the walker goes through.
Ranges(s) == Seq((DOMAIN s) \X Nat)

\* Where the recursion goes from rs: as Ahead says, with f for its recursion.
Moving(s, f, rs) ==
  LET up == Front(rs)
      last == Last(rs)[1]
      e == Last(rs)[2]
      first == s[last].kids # <<>> /\ e = s[last].kids[1]
  IN IF rs = <<>> \/ (e > last /\ up = <<>>) THEN <<>>
     ELSE IF e > last THEN f[Bump(up, Len(up))]
     ELSE IF first /\ s[e].kids # <<>> THEN f[Append(rs, Entered(s, e))]
     ELSE rs

\* f is the function Ahead recurs with.
Recurses(s, f) == f = [rs \in Seq((DOMAIN s) \X Nat) |-> Moving(s, f, rs)]

\* There is one: Ahead is given by its recursion.
LEMMA AheadIs ==
  ASSUME NEW s, NEW r, Structured(s, r)
  PROVE  \E f : /\ Recurses(s, f)
                /\ \A rs \in Ranges(s) : Ahead(s, rs) = f[rs]
<1> DEFINE D == Ranges(s)
           f == CHOOSE f : Recurses(s, f)
           last(rs) == Last(rs)[1]
           e(rs) == Last(rs)[2]
           ends(rs) == rs = <<>> \/ (e(rs) > last(rs) /\ Front(rs) = <<>>)
           leaves(rs) == e(rs) > last(rs)
           enters(rs) == /\ s[last(rs)].kids # <<>> /\ e(rs) = s[last(rs)].kids[1]
                         /\ s[e(rs)].kids # <<>>
           up(rs) == Front(rs)
           left(rs) == Bump(up(rs), Len(up(rs)))
           in(rs) == Append(rs, Entered(s, e(rs)))
           S == { rs \in D : ends(rs) \/ (~leaves(rs) /\ ~enters(rs)) }
           N == [rs \in D |-> IF rs \in S THEN rs ELSE IF leaves(rs) THEN left(rs) ELSE in(rs)]
           V == [rs \in D |-> IF ends(rs) THEN <<>> ELSE rs]
<1>1. \A rs \in D : Ahead(s, rs) = f[rs]
  BY DEF Ahead, Recurses, Moving
<1>2. ASSUME NEW rs \in D, rs \notin S
      PROVE  N[rs] \in D
  <2>1. rs # <<>> /\ ~ends(rs)
    BY <1>2
  <2>2. rs \in Seq((DOMAIN s) \X Nat)
    BY DEF Ranges
  <2>3. CASE leaves(rs)
    <3>1. up(rs) \in Seq((DOMAIN s) \X Nat) /\ up(rs) # <<>>
      BY <2>1, <2>2, <2>3, FrontIs
    <3> DEFINE u == up(rs)
               v == Bump(u, Len(u))
    <3>2. N[rs] = v
      BY <1>2, <2>3
    <3> HIDE DEF u
    <3>4. Len(u) \in 1 .. Len(u)
      BY <3>1, LenProperties, EmptySeq DEF u
    <3>5. v \in Seq((DOMAIN s) \X Nat)
      <4> DEFINE A == DOMAIN s
      <4>1. u \in Seq(A \X Nat)
        BY <3>1 DEF u
      <4> HIDE DEF A
      <4>2. v \in Seq(A \X Nat)
        BY <3>4, <4>1, Bumped
      <4> QED
        BY <4>2 DEF A
    <3> QED
      BY <3>2, <3>5 DEF Ranges
  <2>4. CASE ~leaves(rs)
    <3>1. enters(rs)
      BY <1>2, <2>1, <2>4
    <3>2. N[rs] = in(rs)
      BY <1>2, <2>4
    <3>3. Last(rs) \in (DOMAIN s) \X Nat
      BY <2>1, <2>2, FrontIs
    <3>4. last(rs) \in 1 .. Len(s) /\ DOMAIN s = 1 .. Len(s)
      BY <3>3, Sized
    <3> DEFINE x == e(rs)
               a == last(rs)
    <3>5. x \in 1 .. Len(s)
      <4>1. /\ s[a].kids \in Seq(Nat) /\ s[a].kids # <<>> /\ Range(s[a].kids) \subseteq 1 .. Len(s)
            /\ x = s[a].kids[1]
        BY <3>1, <3>4, NodeIs
      <4> HIDE DEF x, a
      <4>2. 1 \in DOMAIN s[a].kids
        BY <4>1, EmptySeq, LenProperties
      <4> QED
        BY <4>1, <4>2 DEF Range
    <3>6. s[x].kids \in Seq(Nat) /\ s[x].kids # <<>>
      BY <3>1, <3>5, NodeIs
    <3> HIDE DEF x
    <3>7. s[x].kids[1] \in Nat
      BY <3>6
    <3>8. Entered(s, x) \in (DOMAIN s) \X Nat
      BY <3>4, <3>5, <3>6, <3>7 DEF Entered
    <3> QED
      <4> DEFINE P == (DOMAIN s) \X Nat
                 y == Entered(s, x)
      <4>1. rs \in Seq(P) /\ y \in P /\ N[rs] = Append(rs, y)
        BY <2>2, <3>2, <3>8 DEF x
      <4> HIDE DEF P, y, N
      <4>2. Append(rs, y) \in Seq(P)
        BY <4>1, AppendProperties
      <4> QED
        BY <4>1, <4>2 DEF P, Ranges
  <2> QED
    BY <2>3, <2>4
<1>3. \A rs \in D : N[rs] \in D
  BY <1>2
<1>4. PICK F : Chained(D, N, S, V, F)
  <2>1. S \subseteq D
    OBVIOUS
  <2> HIDE DEF D, N, S, V
  <2> QED
    BY <1>3, <2>1, ChainExists
<1>5. Recurses(s, F)
  <2>1. F = [rs \in D |-> F[rs]]
    BY <1>4 DEF Chained
  <2>2. ASSUME NEW rs \in D
        PROVE  F[rs] = Moving(s, F, rs)
    <3>1. F[rs] = IF rs \in S THEN V[rs] ELSE F[N[rs]]
      <4> HIDE DEF D, N, S, V
      <4> QED
        BY <1>4 DEF Chained
    <3>2. CASE ends(rs)
      BY <3>1, <3>2 DEF Moving
    <3>3. CASE ~ends(rs) /\ leaves(rs)
      BY <3>1, <3>3 DEF Moving
    <3>4. CASE ~ends(rs) /\ ~leaves(rs) /\ enters(rs)
      BY <3>1, <3>4 DEF Moving
    <3>5. CASE ~ends(rs) /\ ~leaves(rs) /\ ~enters(rs)
      BY <3>1, <3>5 DEF Moving
    <3> QED
      BY <3>2, <3>3, <3>4, <3>5
  <2> HIDE DEF N, S, V
  <2>3. F = [rs \in D |-> Moving(s, F, rs)]
    BY <2>1, <2>2
  <2> QED
    BY <2>3 DEF Recurses, Ranges
<1>6. Recurses(s, f)
  BY <1>5
<1> QED
  BY <1>1, <1>6

\* One step of Ahead, by where the last range is at.
LEMMA AheadGoes ==
  ASSUME NEW s, NEW r, Structured(s, r), NEW rs \in Ranges(s), rs # <<>>,
         NEW b, b = Last(rs)[1], NEW e, e = Last(rs)[2]
  PROVE  /\ e > b /\ Front(rs) = <<>> => Ahead(s, rs) = <<>>
         /\ e > b /\ Front(rs) # <<>> /\ Bump(Front(rs), Len(Front(rs))) \in Ranges(s) =>
              Ahead(s, rs) = Ahead(s, Bump(Front(rs), Len(Front(rs))))
         /\ /\ ~(e > b) /\ s[b].kids # <<>> /\ e = s[b].kids[1] /\ s[e].kids # <<>>
            /\ Append(rs, Entered(s, e)) \in Ranges(s)
            => Ahead(s, rs) = Ahead(s, Append(rs, Entered(s, e)))
         /\ ~(e > b) /\ ~(s[b].kids # <<>> /\ e = s[b].kids[1] /\ s[e].kids # <<>>) =>
              Ahead(s, rs) = rs
<1>1. PICK f : Recurses(s, f) /\ \A x \in Ranges(s) : Ahead(s, x) = f[x]
  BY AheadIs
<1>2. f[rs] = Moving(s, f, rs)
  BY <1>1 DEF Recurses, Ranges
<1>3. Ahead(s, rs) = f[rs]
  BY <1>1
<1>4. CASE e > b /\ Front(rs) = <<>>
  BY <1>2, <1>3, <1>4 DEF Moving
<1>5. CASE e > b /\ Front(rs) # <<>>
  BY <1>1, <1>2, <1>3, <1>5 DEF Moving
<1>6. CASE ~(e > b) /\ s[b].kids # <<>> /\ e = s[b].kids[1] /\ s[e].kids # <<>>
  BY <1>1, <1>2, <1>3, <1>6 DEF Moving
<1>7. CASE ~(e > b) /\ ~(s[b].kids # <<>> /\ e = s[b].kids[1] /\ s[e].kids # <<>>)
  BY <1>2, <1>3, <1>7 DEF Moving
<1> QED
  BY <1>4, <1>5, <1>6, <1>7

\* The ranges a walk from top is in when it comes to c: the range of a first
\* child in that of its parent, and each past the first child of its block.
Linked(s, r, rs, top, c) ==
  /\ rs \in Seq((1 .. r) \X Nat) /\ rs # <<>>
  /\ rs[1][1] = top /\ rs[Len(rs)][2] = c
  /\ \A i \in 1 .. Len(rs) :
       /\ rs[i][1] <= top /\ rs[i][2] \in 1 .. rs[i][1]
       /\ s[rs[i][1]].kids # <<>> => s[rs[i][1]].kids[1] <= rs[i][2]
  /\ \A i \in 1 .. Len(rs) - 1 : rs[i + 1][1] = rs[i][2] /\ rs[i][2] < rs[i][1]

\* What linked ranges say of the last one.
LEMMA LinkedIs ==
  ASSUME NEW s, NEW r, Structured(s, r), NEW rs, NEW top, NEW c, NEW s0, Linked(s0, r, rs, top, c)
  PROVE  /\ rs \in Ranges(s) /\ Len(rs) \in Nat \ {0} /\ Last(rs) = rs[Len(rs)]
         /\ \A i \in 1 .. Len(rs) : rs[i] \in (1 .. r) \X Nat /\ rs[i][1] \in 1 .. r /\ rs[i][2] \in Nat
         /\ Last(rs)[1] \in 1 .. r /\ Last(rs)[1] <= top /\ Last(rs)[2] = c
         /\ c \in 1 .. Last(rs)[1]
<1> DEFINE A == 1 .. r
<1>1. rs \in Seq(A \X Nat) /\ rs # <<>> /\ rs[Len(rs)][2] = c
  BY DEF Linked
<1>2. A \X Nat \subseteq (DOMAIN s) \X Nat
  BY Sized
<1>3. rs \in Ranges(s)
  <2> DEFINE P == A \X Nat
             Q == (DOMAIN s) \X Nat
  <2>1. P \subseteq Q /\ rs \in Seq(P)
    BY <1>1, <1>2
  <2> HIDE DEF P, Q
  <2>2. rs \in Seq(Q)
    BY <2>1, SeqMonotonic
  <2> QED
    BY <2>2 DEF Q, Ranges
<1>4. Len(rs) \in Nat \ {0} /\ Last(rs) = rs[Len(rs)]
  BY <1>1, FrontIs DEF Last
<1>5. \A i \in 1 .. Len(rs) : rs[i] \in A \X Nat
  <2> HIDE DEF A
  <2> QED
    BY <1>1, ElementOfSeq
<1>6. Len(rs) \in 1 .. Len(rs)
  BY <1>4
<1>7. /\ rs[Len(rs)][1] <= top /\ rs[Len(rs)][2] \in 1 .. rs[Len(rs)][1]
  BY <1>6 DEF Linked
<1> QED
  BY <1>1, <1>3, <1>4, <1>5, <1>6, <1>7

\* Entering a block: the recursion goes down to the first id below it.
LEMMA Descends ==
  ASSUME NEW s, NEW r, Structured(s, r), Tidy(s, r), NEW top \in 1 .. r, NEW m \in Nat
  PROVE  \A e \in 1 .. r : e < m =>
           \A rs : Linked(s, r, rs, top, Last(rs)[2]) /\ Last(rs) = Entered(s, e)
                     => Linked(s, r, Ahead(s, rs), top, Low(s, e))
<1> DEFINE Good(e) == \A rs : Linked(s, r, rs, top, Last(rs)[2]) /\ Last(rs) = Entered(s, e)
                                => Linked(s, r, Ahead(s, rs), top, Low(s, e))
           S == { k \in Nat : \A e \in 1 .. r : e < k => Good(e) }
<1>1. 0 \in S
  OBVIOUS
<1>2. ASSUME NEW k \in Nat, k \in S
      PROVE  k + 1 \in S
  <2>1. ASSUME NEW e \in 1 .. r, e < k + 1, NEW rs,
               Linked(s, r, rs, top, Last(rs)[2]), Last(rs) = Entered(s, e)
        PROVE  Linked(s, r, Ahead(s, rs), top, Low(s, e))
    <3> DEFINE x == IF s[e].kids = <<>> THEN e ELSE s[e].kids[1]
               n == Len(rs)
    <3>1. /\ rs \in Ranges(s) /\ n \in Nat \ {0} /\ Last(rs) = rs[n] /\ rs # <<>>
          /\ Last(rs)[1] = e /\ Last(rs)[2] = x /\ e <= top /\ x \in 1 .. e
          /\ rs[n] = <<e, x>>
      <4>1. Entered(s, e) = <<e, x>>
        BY DEF Entered
      <4>2. rs # <<>>
        BY <2>1 DEF Linked
      <4> HIDE DEF x
      <4>3. Last(rs)[1] = e /\ Last(rs)[2] = x
        BY <2>1, <4>1
      <4>4. /\ rs \in Ranges(s) /\ n \in Nat \ {0} /\ Last(rs) = rs[n]
            /\ e <= top /\ x \in 1 .. e
        BY <2>1, <4>3, LinkedIs
      <4> QED
        BY <2>1, <4>1, <4>2, <4>3, <4>4
    <3>2. /\ s[e].kids = <<>> => Low(s, e) = e
          /\ s[e].kids # <<>> => x < e /\ Low(s, x) = Low(s, e)
          /\ x \in 1 .. r
      <4>1. /\ s[e].kids = <<>> => Low(s, e) = e
            /\ s[e].kids # <<>> => /\ s[e].kids[1] \in 1 .. e - 1
                                   /\ Low(s, s[e].kids[1]) = Low(s, e)
        BY Counted
      <4> QED
        BY <3>1, <4>1, Sized
    <3> HIDE DEF x, n
    <3>3. CASE s[e].kids # <<>> /\ s[x].kids # <<>>
      <4> DEFINE y == s[x].kids[1]
                 v == Append(rs, <<x, y>>)
                 A == 1 .. r
      <4>1. y \in 1 .. x - 1 /\ x < e
        BY <3>2, <3>3, Counted
      <4>2. Entered(s, x) = <<x, y>>
        BY <3>3 DEF Entered
      <4>3. rs \in Seq(A \X Nat) /\ <<x, y>> \in A \X Nat
        BY <2>1, <3>2, <4>1 DEF Linked
      <4> HIDE DEF A, y
      <4>4. /\ v \in Seq(A \X Nat) /\ v # <<>> /\ Len(v) = n + 1
            /\ \A i \in 1 .. n : v[i] = rs[i]
            /\ v[n + 1] = <<x, y>>
        <5> DEFINE P == A \X Nat
                   p == <<x, y>>
                   w == Append(rs, p)
        <5>1. rs \in Seq(P) /\ p \in P
          BY <4>3
        <5> HIDE DEF P, p
        <5>2. /\ w \in Seq(P) /\ w # <<>> /\ Len(w) = Len(rs) + 1
              /\ \A i \in 1 .. Len(rs) : w[i] = rs[i]
              /\ w[Len(rs) + 1] = p
          BY <5>1, AppendProperties
        <5> QED
          BY <5>2 DEF n, P, p
      <4> HIDE DEF v
      <4>5. Linked(s, r, v, top, y)
        <5>1. v[1][1] = top
          <6>1. 1 \in 1 .. n
            BY <3>1
          <6>2. rs[1][1] = top
            BY <2>1 DEF Linked
          <6> QED
            BY <4>4, <6>1, <6>2
        <5>2. v[Len(v)][2] = y
          BY <4>4
        <5>3. ASSUME NEW i \in 1 .. Len(v)
              PROVE  /\ v[i][1] <= top /\ v[i][2] \in 1 .. v[i][1]
                     /\ s[v[i][1]].kids # <<>> => s[v[i][1]].kids[1] <= v[i][2]
          <6>1. CASE i \in 1 .. n
            <7>1. v[i] = rs[i]
              BY <4>4, <6>1
            <7> QED
              BY <2>1, <6>1, <7>1 DEF Linked, n
          <6>2. CASE i = n + 1
            <7>1. v[i][1] = x /\ v[i][2] = y
              BY <4>4, <6>2
            <7> QED
              BY <3>1, <3>2, <4>1, <7>1 DEF y
          <6> QED
            BY <3>1, <4>4, <6>1, <6>2
        <5>4. ASSUME NEW i \in 1 .. Len(v) - 1
              PROVE  v[i + 1][1] = v[i][2] /\ v[i][2] < v[i][1]
          <6>0. i \in 1 .. n /\ v[i] = rs[i]
            BY <3>1, <4>4
          <6>1. CASE i # n
            <7>1. i \in 1 .. n - 1 /\ i + 1 \in 1 .. n
              BY <3>1, <6>0, <6>1
            <7>2. v[i + 1] = rs[i + 1]
              BY <4>4, <7>1
            <7>3. rs[i + 1][1] = rs[i][2] /\ rs[i][2] < rs[i][1]
              BY <2>1, <7>1 DEF Linked, n
            <7> QED
              BY <6>0, <7>2, <7>3
          <6>2. CASE i = n
            <7>1. v[i + 1][1] = x /\ v[i][2] = x /\ v[i][1] = e
              BY <3>1, <4>4, <6>0, <6>2
            <7> QED
              BY <4>1, <7>1
          <6> QED
            BY <6>1, <6>2
        <5> QED
          BY <4>4, <5>1, <5>2, <5>3, <5>4 DEF Linked, A
      <4>6. Last(v) = Entered(s, x) /\ Last(v)[2] = y /\ v \in Ranges(s)
        BY <4>2, <4>4, <4>5, LinkedIs
      <4>7. Ahead(s, rs) = Ahead(s, v)
        <5>1. ~(x > e) /\ x = s[e].kids[1] /\ v = Append(rs, Entered(s, x))
          BY <3>2, <3>3, <4>1, <4>2 DEF v, x
        <5> QED
          BY <3>1, <3>3, <4>6, <5>1, AheadGoes
      <4>8. Linked(s, r, Ahead(s, v), top, Low(s, x))
        <5>1. x < k /\ x \in 1 .. r
          BY <2>1, <3>2, <4>1
        <5>2. Good(x)
          BY <1>2, <5>1
        <5> QED
          BY <4>5, <4>6, <5>2
      <4> QED
        BY <3>2, <3>3, <4>7, <4>8
    <3>4. CASE ~(s[e].kids # <<>> /\ s[x].kids # <<>>)
      <4>1. ~(x > e) /\ ~(s[e].kids # <<>> /\ x = s[e].kids[1] /\ s[x].kids # <<>>)
        BY <3>1, <3>4
      <4>2. Ahead(s, rs) = rs
        BY <3>1, <4>1, AheadGoes
      <4>3. Low(s, e) = x
        <5>1. CASE s[e].kids = <<>>
          BY <3>2, <5>1 DEF x
        <5>2. CASE s[e].kids # <<>>
          <6>1. s[x].kids = <<>>
            BY <3>4, <5>2
          <6>2. Low(s, x) = x
            BY <3>2, <6>1, Counted
          <6> QED
            BY <3>2, <5>2, <6>2
        <5> QED
          BY <5>1, <5>2
      <4> QED
        BY <2>1, <3>1, <4>2, <4>3
    <3> QED
      BY <3>3, <3>4
  <2> QED
    BY <2>1
<1>3. m \in S
  <2> HIDE DEF S
  <2> QED
    BY <1>1, <1>2, SetInduction
<1> QED
  BY <1>3

\* A walk begins at the first id below the entity it is started on.
LEMMA WalkBegins ==
  ASSUME NEW s, NEW r, Structured(s, r), Tidy(s, r), NEW top \in 1 .. r
  PROVE  Linked(s, r, Ahead(s, <<Entered(s, top)>>), top, Low(s, top))
<1> DEFINE x == IF s[top].kids = <<>> THEN top ELSE s[top].kids[1]
           rs == <<Entered(s, top)>>
<1>1. r \in Nat /\ top \in Nat
  BY Sized
<1>2. x \in 1 .. top
  <2>1. s[top].kids # <<>> => s[top].kids[1] \in 1 .. top - 1
    BY Counted
  <2> QED
    BY <1>1, <2>1
<1>3. Entered(s, top) = <<top, x>>
  BY DEF Entered
<1>4. /\ rs \in Seq((1 .. r) \X Nat) /\ rs # <<>> /\ Len(rs) = 1
      /\ rs[1][1] = top /\ rs[1][2] = x /\ Last(rs) = Entered(s, top) /\ Last(rs)[2] = x
  BY <1>1, <1>2, <1>3 DEF Last
<1> HIDE DEF rs
<1>5. Linked(s, r, rs, top, x)
  BY <1>1, <1>2, <1>4 DEF Linked
<1>6. top < r + 1 /\ r + 1 \in Nat
  BY <1>1
<1>7. Linked(s, r, Ahead(s, rs), top, Low(s, top))
  BY <1>4, <1>5, <1>6, Descends
<1> QED
  BY <1>7 DEF rs

\* From c on the blocks of s begin as those of s0 do.
Firsts(s, s0, c) ==
  \A e \in 1 .. Len(s0) : e >= c =>
    /\ s[e].kids = <<>> <=> s0[e].kids = <<>>
    /\ s0[e].kids # <<>> => s[e].kids[1] = s0[e].kids[1]

\* Behind the visit of c the walker comes to c + 1, or has come back to where
\* it was started.
LEMMA WalkGoesOn ==
  ASSUME NEW s0, NEW r, Structured(s0, r), NEW s, Structured(s, r), Since(s, s0),
         NEW top \in 1 .. r, NEW c, NEW rs, Linked(s0, r, rs, top, c), Firsts(s, s0, c + 1)
  PROVE  IF c = top THEN Ahead(s, Bump(rs, Len(rs))) = <<>>
         ELSE Linked(s0, r, Ahead(s, Bump(rs, Len(rs))), top, c + 1)
<1> DEFINE n == Len(rs)
           v == Bump(rs, n)
           b == rs[n][1]
           A == 1 .. r
<1>1. /\ rs \in Seq(A \X Nat) /\ n \in Nat \ {0} /\ rs # <<>>
      /\ \A i \in 1 .. n : rs[i][1] \in 1 .. r /\ rs[i][2] \in Nat
      /\ b \in 1 .. r /\ b <= top /\ c \in 1 .. b /\ rs[n][2] = c
  BY LinkedIs DEF Linked
<1>2. /\ r \in Nat /\ r \in 1 .. Len(s0) /\ Len(s0) \in Nat /\ Len(s) \in Nat /\ Len(s) >= Len(s0)
      /\ top \in Nat
  BY Sized DEF Since
<1>3. n \in 1 .. n
  BY <1>1
<1>4. \A i \in 1 .. n : /\ rs[i][1] <= top /\ rs[i][2] \in 1 .. rs[i][1]
                        /\ s0[rs[i][1]].kids # <<>> => s0[rs[i][1]].kids[1] <= rs[i][2]
  BY DEF Linked
<1>5. \A i \in 1 .. n - 1 : rs[i + 1][1] = rs[i][2] /\ rs[i][2] < rs[i][1]
  BY DEF Linked
<1>6. rs[1][1] = top
  BY DEF Linked
<1> HIDE DEF n, b, A
\* No id beyond the one a range is at is the first child of its block.
<1>7. ASSUME NEW i \in 1 .. n, NEW x, x = c + 1, rs[i][2] + 1 = x, ~(x > rs[i][1])
      PROVE  ~(s[rs[i][1]].kids # <<>> /\ x = s[rs[i][1]].kids[1] /\ s[x].kids # <<>>)
  <2> DEFINE a == rs[i][1]
  <2>0. a \in 1 .. r /\ rs[i][2] \in Nat /\ c \in Nat /\ b \in Nat
    BY <1>1, <1>2
  <2> HIDE DEF a
  <2>1. a \in 1 .. Len(s0) /\ a >= c + 1 /\ rs[i][2] = c
    <3> DEFINE d == rs[i][2]
    <3>1. /\ a \in 1 .. r /\ d \in Nat /\ c \in Nat /\ x = c + 1 /\ d + 1 = x /\ ~(x > a)
          /\ r \in 1 .. Len(s0) /\ Len(s0) \in Nat
      BY <1>2, <1>7, <2>0 DEF a
    <3> HIDE DEF d
    <3> QED
      BY <3>1 DEF d
  <2>2. /\ s[a].kids = <<>> <=> s0[a].kids = <<>>
        /\ s0[a].kids # <<>> => s[a].kids[1] = s0[a].kids[1]
    BY <2>1 DEF Firsts
  <2>3. s0[a].kids # <<>> => s0[a].kids[1] <= c /\ s0[a].kids[1] \in Nat
    <3>1. s0[a].kids \in Seq(Nat)
      BY <2>1, NodeIs
    <3>2. s0[a].kids # <<>> => s0[a].kids[1] \in Nat
      BY <3>1
    <3> QED
      BY <1>4, <2>1, <3>2 DEF a
  <2>4. c \in Nat
    BY <2>0
  <2>5. ~(s[a].kids # <<>> /\ x = s[a].kids[1])
    BY <1>7, <2>2, <2>3, <2>4
  <2> QED
    BY <2>5 DEF a
<1>8. A \X Nat \subseteq (DOMAIN s) \X Nat
  BY <1>2, Sized DEF A
<1>9. \A w \in Seq(A \X Nat) : w \in Ranges(s)
  <2> DEFINE P == A \X Nat
             Q == (DOMAIN s) \X Nat
  <2>1. P \subseteq Q
    BY <1>8
  <2> HIDE DEF P, Q
  <2>2. Seq(P) \subseteq Seq(Q)
    BY <2>1, SeqMonotonic
  <2> QED
    BY <2>2 DEF P, Q, Ranges
<1>10. \A z \in Seq(A \X Nat) : \A k \in 1 .. Len(z) :
         /\ Bump(z, k) \in Seq(A \X Nat) /\ Len(Bump(z, k)) = Len(z)
         /\ \A i \in 1 .. Len(z) :
              Bump(z, k)[i] = IF i = k THEN <<z[k][1], z[k][2] + 1>> ELSE z[i]
  <2> SUFFICES ASSUME NEW z \in Seq(A \X Nat), NEW k \in 1 .. Len(z)
               PROVE  /\ Bump(z, k) \in Seq(A \X Nat) /\ Len(Bump(z, k)) = Len(z)
                      /\ \A i \in 1 .. Len(z) :
                           Bump(z, k)[i] = IF i = k THEN <<z[k][1], z[k][2] + 1>> ELSE z[i]
    OBVIOUS
  <2>1. Bump(z, k) \in Seq(A \X Nat) /\ Len(Bump(z, k)) = Len(z)
    BY Bumped
  <2>2. ASSUME NEW i \in 1 .. Len(z)
        PROVE  Bump(z, k)[i] = IF i = k THEN <<z[k][1], z[k][2] + 1>> ELSE z[i]
    BY BumpedAt
  <2> QED
    BY <2>1, <2>2
<1>11. /\ v \in Seq(A \X Nat) /\ Len(v) = n
       /\ \A i \in 1 .. n : /\ v[i][1] = rs[i][1]
                            /\ v[i][2] = IF i = n THEN rs[i][2] + 1 ELSE rs[i][2]
  <2>1. n = Len(rs) /\ n \in 1 .. Len(rs)
    BY <1>3 DEF n
  <2>2. /\ Bump(rs, n) \in Seq(A \X Nat) /\ Len(Bump(rs, n)) = Len(rs)
        /\ \A i \in 1 .. Len(rs) :
              Bump(rs, n)[i] = IF i = n THEN <<rs[n][1], rs[n][2] + 1>> ELSE rs[i]
    BY <1>1, <1>10, <2>1, Zenon
  <2> QED
    BY <2>1, <2>2
<1> HIDE DEF v
<1>12. v # <<>> /\ Last(v) = v[n] /\ v[n][1] = b /\ v[n][2] = c + 1 /\ v \in Ranges(s)
  BY <1>1, <1>3, <1>9, <1>11, EmptySeq DEF Last, b
<1>13. CASE c # b
  <2>1. c < b /\ c # top
    BY <1>1, <1>2, <1>13
  <2>2. ~(c + 1 > b)
    BY <1>1, <2>1
  <2>3. Ahead(s, v) = v
    <3>1. ~(s[b].kids # <<>> /\ c + 1 = s[b].kids[1] /\ s[c + 1].kids # <<>>)
      BY <1>1, <1>3, <1>7, <2>2 DEF b
    <3> QED
      BY <1>12, <2>2, <3>1, AheadGoes
  <2>4. Linked(s0, r, v, top, c + 1)
    <3>1. v[1][1] = top
      <4>1. 1 \in 1 .. n
        BY <1>1
      <4> QED
        BY <1>6, <1>11, <4>1
    <3>2. ASSUME NEW i \in 1 .. n
          PROVE  /\ v[i][1] <= top /\ v[i][2] \in 1 .. v[i][1]
                 /\ s0[v[i][1]].kids # <<>> => s0[v[i][1]].kids[1] <= v[i][2]
      <4>1. CASE i = n
        <5>1. v[i][1] = b /\ v[i][2] = c + 1
          BY <1>12, <4>1
        <5>2. s0[b].kids # <<>> => s0[b].kids[1] <= c
          BY <1>1, <1>3, <1>4 DEF b
        <5>3. s0[b].kids # <<>> => s0[b].kids[1] \in Nat
          <6>1. b \in 1 .. Len(s0)
            BY <1>1, <1>2
          <6>2. s0[b].kids \in Seq(Nat)
            BY <6>1, NodeIs
          <6> QED
            BY <6>2
        <5> QED
          BY <1>1, <2>1, <5>1, <5>2, <5>3
      <4>2. CASE i # n
        BY <1>4, <1>11, <4>2
      <4> QED
        BY <4>1, <4>2
    <3>3. ASSUME NEW i \in 1 .. n - 1
          PROVE  v[i + 1][1] = v[i][2] /\ v[i][2] < v[i][1]
      <4>1. i \in 1 .. n /\ i # n /\ i + 1 \in 1 .. n
        BY <1>1
      <4> QED
        BY <1>5, <1>11, <4>1
    <3> QED
      BY <1>11, <1>12, <3>1, <3>2, <3>3 DEF Linked, A
  <2> QED
    BY <2>1, <2>3, <2>4 DEF v, n
<1>14. CASE c = b
  <2>1. c + 1 > b /\ c + 1 \in Nat
    BY <1>1, <1>14
  <2> DEFINE u == Front(v)
             w == Bump(u, Len(u))
  <2>2. /\ u \in Seq(A \X Nat) /\ Len(u) = n - 1 /\ \A i \in 1 .. n - 1 : u[i] = v[i]
        /\ u = <<>> <=> n = 1
    BY <1>11, <1>12, FrontIs
  <2>3. CASE n = 1
    <3>1. Ahead(s, v) = <<>>
      BY <1>12, <2>1, <2>2, <2>3, AheadGoes
    <3>2. c = top
      BY <1>6, <1>14, <2>3 DEF b
    <3> QED
      BY <3>1, <3>2 DEF v, n
  <2>4. CASE n # 1
    <3> DEFINE m == n - 1
               a == rs[m][1]
    <3>1. m \in 1 .. n - 1 /\ m \in 1 .. n /\ m \in Nat \ {0} /\ m # n /\ m + 1 = n /\ m \in 1 .. m
      BY <1>1, <2>4
    <3>2. rs[m][2] = c /\ c < a
      BY <1>5, <1>14, <3>1 DEF b
    <3>3. c # top /\ a \in 1 .. r /\ ~(c + 1 > a) /\ c \in Nat
      BY <1>1, <1>2, <1>4, <3>1, <3>2
    <3> HIDE DEF u, m, a
    <3>4. Len(u) = m /\ u # <<>> /\ \A i \in 1 .. m : u[i] = v[i]
      BY <2>2, <2>4 DEF m
    <3> HIDE DEF w
    <3>5. /\ w \in Seq(A \X Nat) /\ Len(w) = m
          /\ \A i \in 1 .. m : /\ w[i][1] = u[i][1]
                               /\ w[i][2] = IF i = m THEN u[i][2] + 1 ELSE u[i][2]
      <4>1. u \in Seq(A \X Nat) /\ m = Len(u) /\ m \in 1 .. Len(u)
        BY <2>2, <3>1, <3>4
      <4>2. /\ Bump(u, m) \in Seq(A \X Nat) /\ Len(Bump(u, m)) = Len(u)
            /\ \A i \in 1 .. Len(u) :
                 Bump(u, m)[i] = IF i = m THEN <<u[m][1], u[m][2] + 1>> ELSE u[i]
        BY <1>10, <4>1, Zenon
      <4> QED
        BY <4>1, <4>2 DEF w
    <3>6. \A i \in 1 .. m : /\ i \in 1 .. n
                            /\ w[i][1] = rs[i][1]
                            /\ w[i][2] = IF i = m THEN c + 1 ELSE rs[i][2]
      <4> SUFFICES ASSUME NEW i \in 1 .. m
                   PROVE  /\ i \in 1 .. n
                          /\ w[i][1] = rs[i][1]
                          /\ w[i][2] = IF i = m THEN c + 1 ELSE rs[i][2]
        OBVIOUS
      <4>1. i \in 1 .. n /\ i # n
        BY <1>1, <3>1
      <4>2. u[i][1] = rs[i][1] /\ u[i][2] = rs[i][2]
        BY <1>11, <3>4, <4>1
      <4> QED
        BY <3>2, <3>5, <4>1, <4>2
    <3>7. /\ w # <<>> /\ Last(w) = w[m] /\ w[m][1] = a /\ w[m][2] = c + 1 /\ w \in Ranges(s)
      BY <1>9, <3>1, <3>5, <3>6, EmptySeq DEF Last, a
    <3>8. Ahead(s, v) = Ahead(s, w)
      BY <1>12, <2>1, <3>4, <3>7, AheadGoes DEF u, w
    <3>9. Ahead(s, w) = w
      <4>1. ~(s[a].kids # <<>> /\ c + 1 = s[a].kids[1] /\ s[c + 1].kids # <<>>)
        BY <1>7, <3>1, <3>2, <3>3 DEF a
      <4> QED
        BY <3>3, <3>7, <4>1, AheadGoes
    <3>10. Linked(s0, r, w, top, c + 1)
      <4>1. w[1][1] = top
        <5>1. 1 \in 1 .. m
          BY <3>1
        <5> QED
          BY <1>6, <3>6, <5>1
      <4>2. ASSUME NEW i \in 1 .. m
            PROVE  /\ w[i][1] <= top /\ w[i][2] \in 1 .. w[i][1]
                   /\ s0[w[i][1]].kids # <<>> => s0[w[i][1]].kids[1] <= w[i][2]
        <5>1. CASE i = m
          <6>1. w[i][1] = a /\ w[i][2] = c + 1
            BY <3>7, <5>1
          <6>2. a <= top /\ (s0[a].kids # <<>> => s0[a].kids[1] <= c)
            BY <1>4, <3>1, <3>2 DEF a
          <6>3. s0[a].kids # <<>> => s0[a].kids[1] \in Nat
            <7>1. a \in 1 .. Len(s0)
              BY <1>2, <3>3
            <7>2. s0[a].kids \in Seq(Nat)
              BY <7>1, NodeIs
            <7> QED
              BY <7>2
          <6> QED
            BY <3>3, <6>1, <6>2, <6>3
        <5>2. CASE i # m
          BY <1>4, <3>6, <5>2
        <5> QED
          BY <5>1, <5>2
      <4>3. ASSUME NEW i \in 1 .. m - 1
            PROVE  w[i + 1][1] = w[i][2] /\ w[i][2] < w[i][1]
        <5>1. i \in 1 .. m /\ i # m /\ i + 1 \in 1 .. m /\ i \in 1 .. n - 1
          BY <1>1, <3>1
        <5> QED
          BY <1>5, <3>6, <5>1
      <4> QED
        BY <3>5, <3>7, <4>1, <4>2, <4>3 DEF Linked, A
    <3> QED
      BY <3>3, <3>8, <3>9, <3>10 DEF v, n
  <2> QED
    BY <2>3, <2>4
<1> QED
  BY <1>13, <1>14

(***************************************************************************)
(* What a walk has seen.                                                   *)
(***************************************************************************)
WalkRecord == [top : Nat, ranges : Seq(Nat \X Nat), failed : BOOLEAN, seen : Seq(Nat)]

\* Walk w, begun when the module was s0, has come through the ids of s0 below
\* its top one after the other, and no callback has put anything in front of a
\* first child that is yet to come.
Counting(s0, s, r, m, w) ==
  /\ Structured(s0, r) /\ Tidy(s0, r) /\ Len(s0) = m /\ Since(s, s0) /\ w.top \in 1 .. r
  /\ LET lo == Low(s0, w.top)
         n == Len(w.seen)
     IN /\ w.seen = [i \in 1 .. n |-> lo - 1 + i] /\ lo - 1 + n <= w.top
        /\ w.ranges # <<>> => Linked(s0, r, w.ranges, w.top, lo + n) /\ Firsts(s, s0, lo + n)
        /\ w.ranges = <<>> /\ ~w.failed => lo - 1 + n = w.top

\* The walk that is going on counts since the module it began in.
Seeing ==
  /\ walk \in WalkRecord /\ (sorted => mark = fresh)
  /\ walk # NoWalk => \E s0 : Counting(s0, store, root, mark, walk)

\* A walk that begins in a sorted module has everything before it.
LEMMA CountingBegins ==
  ASSUME NEW s, NEW r, Structured(s, r), Tidy(s, r), NEW b \in 1 .. r, NEW w,
         w.top = b, w.ranges = Ahead(s, <<Entered(s, b)>>), w.seen = <<>>
  PROVE  w.ranges \in Seq(Nat \X Nat) /\ Counting(s, s, r, Len(s), w)
<1> DEFINE rs == Ahead(s, <<Entered(s, b)>>)
           lo == Low(s, b)
<1>1. Linked(s, r, rs, b, lo)
  BY WalkBegins
<1>2. r \in Nat /\ b \in Nat /\ lo \in 1 .. b
  BY Sized, Counted
<1>3. rs \in Seq(Nat \X Nat) /\ rs # <<>>
  <2>1. rs \in Seq((1 .. r) \X Nat) /\ rs # <<>>
    BY <1>1 DEF Linked
  <2> DEFINE P == (1 .. r) \X Nat
             Q == Nat \X Nat
  <2>2. P \subseteq Q
    BY <1>2
  <2> HIDE DEF P, Q, rs
  <2>3. rs \in Seq(Q)
    BY <2>1, <2>2, SeqMonotonic DEF P
  <2> QED
    BY <2>1, <2>3 DEF Q
<1> HIDE DEF rs, lo
<1>5. w.top = b /\ w.ranges = rs /\ w.seen = <<>>
  BY DEF rs
<1>6. Len(w.seen) = 0
  BY <1>5
<1>7. w.seen = [i \in 1 .. 0 |-> lo - 1 + i]
  BY <1>5
<1>8. Firsts(s, s, lo)
  BY DEF Firsts
<1>9. Since(s, s)
  BY SinceItself
<1>10. lo + 0 = lo /\ lo - 1 + 0 <= b
  BY <1>2
<1>11. Counting(s, s, r, Len(s), w)
  BY <1>1, <1>3, <1>5, <1>6, <1>7, <1>8, <1>9, <1>10 DEF Counting, lo
<1> QED
  BY <1>3, <1>5, <1>11

\* A callback that leaves the beginning of every block that is yet to come, or
\* fails, leaves the walk to go on with the next id.
LEMMA CountingGoesOn ==
  ASSUME NEW s0, NEW s, NEW r, NEW m, NEW w \in WalkRecord, Counting(s0, s, r, m, w),
         w.ranges # <<>>, NEW s2, Structured(s2, r), Since(s2, s0),
         NEW ok \in BOOLEAN, ok => Firsts(s2, s0, Last(w.ranges)[2] + 1),
         NEW w2, w2.top = w.top, w2.failed = ~ok, w2.seen = Append(w.seen, Last(w.ranges)[2]),
         w2.ranges = IF ok THEN Ahead(s2, Bump(w.ranges, Len(w.ranges))) ELSE <<>>
  PROVE  /\ w2.ranges \in Seq(Nat \X Nat) /\ w2.seen \in Seq(Nat)
         /\ Counting(s0, s2, r, m, w2)
<1> DEFINE rs == w.ranges
           top == w.top
           lo == Low(s0, top)
           n == Len(w.seen)
           c == Last(rs)[2]
           rs2 == w2.ranges
<1>1. /\ Structured(s0, r) /\ Tidy(s0, r) /\ Len(s0) = m /\ top \in 1 .. r
      /\ w.seen = [i \in 1 .. n |-> lo - 1 + i] /\ lo - 1 + n <= top
      /\ Linked(s0, r, rs, top, lo + n)
  BY DEF Counting
<1>2. r \in Nat /\ top \in Nat /\ lo \in 1 .. top /\ n \in Nat /\ w.seen \in Seq(Nat)
  <2>1. w.seen \in Seq(Nat)
    BY DEF WalkRecord
  <2>2. r \in Nat
    BY <1>1, Sized
  <2>3. lo \in 1 .. top
    BY <1>1, Counted
  <2> HIDE DEF top, lo
  <2> QED
    BY <1>1, <2>1, <2>2, <2>3, LenProperties
<1>3. c = lo + n /\ c \in 1 .. top
  <2> DEFINE d == lo + n
  <2>0. Linked(s0, r, rs, top, d)
    BY <1>1
  <2> HIDE DEF d
  <2>1. c = d /\ d \in 1 .. Last(rs)[1] /\ Last(rs)[1] <= top /\ Last(rs)[1] \in 1 .. r
    BY <1>1, <2>0, LinkedIs
  <2> HIDE DEF c, top
  <2> QED
    BY <1>2, <2>1 DEF d
<1>4. rs2 = IF ok THEN Ahead(s2, Bump(rs, Len(rs))) ELSE <<>>
  OBVIOUS
<1> HIDE DEF c, lo, rs, top, n, rs2
<1>5. ok => IF c = top THEN rs2 = <<>> ELSE Linked(s0, r, rs2, top, c + 1)
  BY <1>1, <1>3, <1>4, WalkGoesOn DEF rs, c
<1>6. rs2 \in Seq(Nat \X Nat)
  <2>1. CASE rs2 = <<>>
    BY <2>1
  <2>2. CASE Linked(s0, r, rs2, top, c + 1)
    <3>1. rs2 \in Seq((1 .. r) \X Nat)
      BY <2>2 DEF Linked
    <3> DEFINE P == (1 .. r) \X Nat
               Q == Nat \X Nat
    <3>2. P \subseteq Q
      BY <1>2
    <3> HIDE DEF P, Q, rs2
    <3>3. rs2 \in Seq(Q)
      BY <3>1, <3>2, SeqMonotonic DEF P
    <3> QED
      BY <3>3 DEF Q
  <2>3. rs2 = <<>> \/ Linked(s0, r, rs2, top, c + 1)
    BY <1>4, <1>5
  <2> QED
    BY <2>1, <2>2, <2>3
<1> DEFINE seen2 == Append(w.seen, c)
           n2 == n + 1
<1>7. seen2 \in Seq(Nat) /\ Len(seen2) = n2 /\ seen2 = [i \in 1 .. n2 |-> lo - 1 + i]
  <2>1. seen2 \in Seq(Nat) /\ Len(seen2) = n2 /\ DOMAIN seen2 = 1 .. n2
    BY <1>2, <1>3 DEF n
  <2>2. \A i \in 1 .. n2 : seen2[i] = lo - 1 + i
    <3> SUFFICES ASSUME NEW i \in 1 .. n2
                 PROVE  seen2[i] = lo - 1 + i
      OBVIOUS
    <3>1. CASE i = n2
      BY <1>2, <1>3, <3>1 DEF n
    <3>2. CASE i # n2
      <4>1. i \in 1 .. n
        BY <1>2, <3>2
      <4>2. seen2[i] = w.seen[i]
        BY <1>2, <4>1 DEF n
      <4> QED
        BY <1>1, <4>1, <4>2
    <3> QED
      BY <3>1, <3>2
  <2> HIDE DEF seen2, n2
  <2>3. seen2 = [i \in 1 .. n2 |-> seen2[i]]
    BY <2>1
  <2> QED
    BY <2>1, <2>2, <2>3
<1> HIDE DEF seen2
<1>8. /\ w2.top = top /\ w2.ranges = rs2 /\ w2.seen = seen2
  BY DEF seen2, c, top, rs, rs2
<1>10. lo + n2 = c + 1 /\ lo - 1 + n2 <= top /\ (c = top => lo - 1 + n2 = top)
  BY <1>2, <1>3
<1>11. rs2 # <<>> => ok /\ c # top
  BY <1>4, <1>5
<1>12. rs2 # <<>> => Linked(s0, r, rs2, top, lo + n2) /\ Firsts(s2, s0, lo + n2)
  BY <1>5, <1>10, <1>11 DEF c, rs
<1>13. rs2 = <<>> /\ ~w2.failed => lo - 1 + n2 = top
  <2>1. rs2 = <<>> => ~Linked(s0, r, rs2, top, c + 1)
    BY DEF Linked
  <2> QED
    BY <1>5, <1>10, <2>1
<1>14. lo = Low(s0, w2.top) /\ n2 = Len(w2.seen) /\ w2.seen = [i \in 1 .. n2 |-> lo - 1 + i]
  BY <1>7, <1>8 DEF lo
<1> HIDE DEF n2
<1>15. Counting(s0, s2, r, m, w2)
  BY <1>1, <1>8, <1>10, <1>12, <1>13, <1>14 DEF Counting
<1> QED
  BY <1>6, <1>7, <1>8, <1>15

\* The blocks of s2 have the lists they have in s, but for b, which has l.
OtherLists(s2, s, b, l) ==
  \A a \in 1 .. Len(s) : s2[a].kids = IF a = b THEN l ELSE s[a].kids

\* What is created behind the others has no part in that.
LEMMA OtherListsStay ==
  ASSUME NEW s \in Seq(Node), NEW b, NEW l, NEW s1, Relisted(s1, s, b, l),
         NEW new \in Seq(Node)
  PROVE  OtherLists(s1 \o new, s, b, l)
<1>1. s1 \in Seq(Node) /\ Len(s1) = Len(s)
  BY DEF Relisted
<1>2. \A a \in 1 .. Len(s1) : (s1 \o new)[a] = s1[a]
  BY <1>1, Concatenated
<1> QED
  BY <1>1, <1>2 DEF Relisted, OtherLists

\* materialize_function_types_and_parameters gives its function a new first
\* child, and no other block.
LEMMA MaterializeBegins ==
  ASSUME Invariant, NEW f \in UserBlocks, Materialize(f)
  PROVE  Firsts(store', store, f + 1)
<1> DEFINE n == Len(store)
           v == IdOf(TypeTag)
           front == [i \in 1 .. Arity |-> n + Arity + 1 - i]
           new == [i \in 1 .. Arity |-> ParamOf(n + i, f, Arity + 1 - i, v)]
           l == front \o store[f].kids
           s1 == WithList(store, f, l)
<1>0. /\ n \in Nat /\ fresh = n /\ Structured(store, root)
      /\ store \in Seq(Node) /\ v \in 1 .. n /\ f \in 1 .. n /\ Arity \in Nat
  BY Known, BoundsAssumption DEF Invariant, Ids, TypeTag, UserBlocks
<1>1. store' = s1 \o new
  BY <1>0 DEF Materialize, Edited, WithList
<1>2. store[f].kids \in Seq(Nat)
  BY <1>0, NodeIs
<1>3. \A i \in 1 .. Arity : /\ n + Arity + 1 - i \in Nat /\ n + i \in Nat /\ Arity + 1 - i \in Nat
  BY <1>0
<1> HIDE DEF v
<1>4. front \in Seq(Nat)
  BY <1>0, <1>3
<1>5. new \in Seq(Node)
  <2>1. \A i \in 1 .. Arity : ParamOf(n + i, f, Arity + 1 - i, v) \in Node
    <3> SUFFICES ASSUME NEW i \in 1 .. Arity
                 PROVE  ParamOf(n + i, f, Arity + 1 - i, v) \in Node
      OBVIOUS
    <3> DEFINE a == n + i
               c == Arity + 1 - i
    <3>1. a \in Nat /\ c \in Nat /\ f \in Nat /\ v \in Nat
      BY <1>0, <1>3
    <3> HIDE DEF a, c
    <3>2. ParamOf(a, f, c, v) \in Node
      BY <3>1, ParamMade
    <3> QED
      BY <3>2 DEF a, c
  <2> QED
    BY <1>0, <2>1
<1>6. l \in Seq(Nat)
  BY <1>2, <1>4, ConcatProperties
<1> HIDE DEF l, new
<1>7. Relisted(s1, store, f, l)
  BY <1>0, <1>6, ListRewritten
<1> HIDE DEF s1
<1>8. OtherLists(store', store, f, l)
  BY <1>0, <1>1, <1>5, <1>7, OtherListsStay
<1>9. ASSUME NEW a \in 1 .. Len(store), a >= f + 1
      PROVE  store'[a].kids = store[a].kids
  <2>1. a # f
    <3>1. f \in Nat
      BY <1>0
    <3> QED
      BY <1>9, <3>1
  <2>2. store'[a].kids = IF a = f THEN l ELSE store[a].kids
    BY <1>8 DEF OtherLists
  <2> QED
    BY <2>1, <2>2
<1> QED
  BY <1>9 DEF Firsts

\* An early include inserts behind a statement, and never comes first.
LEMMA EarlyIncludeBegins ==
  ASSUME Invariant, NEW e \in Statements, NEW x \in Ids, EarlyInclude(e, x), NEW c
  PROVE  Firsts(store', store, c)
<1> DEFINE n == Len(store)
           b == store[e].up
           k == store[b].kids
           at == CHOOSE i \in DOMAIN k : k[i] = e
           l == InsertAt(k, at + 1, n + 2)
           v == IdOf(TypeTag)
           s1 == WithList(store, b, l)
           s2 == [s1 EXCEPT ![e].ref = v]
           block == BlockOf(n + 1, 0, <<n + 2>>)
           leaf == Leaf(n + 2, b, x)
<1>0. /\ n \in Nat /\ fresh = n /\ Structured(store, root)
      /\ store \in Seq(Node) /\ x \in 1 .. n /\ v \in 1 .. n /\ e \in 1 .. n /\ b \in 1 .. n
  BY Known, StatementIs DEF Invariant, Ids, TypeTag
<1>1. k \in Seq(Nat) /\ IsInjective(k) /\ Range(k) \subseteq 1 .. n /\ at \in DOMAIN k
  BY StatementIs DEF Ids
<1>2. store' = s2 \o <<block, leaf>>
  BY <1>0 DEF EarlyInclude, Edited, WithList
<1>3. l \in Seq(Nat) /\ l # <<>> /\ k # <<>> /\ l[1] = k[1]
  <2> DEFINE m == n + 2
             j == at + 1
  <2>1. m \in Nat /\ m \notin Range(k) /\ j \in 1 .. Len(k) + 1 /\ j > 1 /\ Len(k) \in Nat \ {0}
    <3>1. at \in 1 .. Len(k) /\ Len(k) \in Nat
      <4> HIDE DEF k, at
      <4> QED
        BY <1>1
    <3>2. m \in Nat /\ m \notin Range(k)
      BY <1>0, <1>1
    <3> HIDE DEF k, at, m
    <3> QED
      BY <3>1, <3>2
  <2> HIDE DEF k, m, j
  <2> DEFINE w == InsertAt(k, j, m)
  <2>2. /\ w \in Seq(Nat) /\ Len(w) = Len(k) + 1
        /\ \A i \in 1 .. Len(k) + 1 : w[i] = IF i < j THEN k[i] ELSE IF i = j THEN m ELSE k[i - 1]
    BY <1>1, <2>1, InsertIs
  <2> HIDE DEF w
  <2>3. 1 \in 1 .. Len(k) + 1
    BY <2>1
  <2>4. w[1] = k[1]
    BY <2>1, <2>2, <2>3
  <2>5. w # <<>> /\ k # <<>>
    BY <2>1, <2>2
  <2> QED
    BY <2>2, <2>4, <2>5 DEF w, m, j
<1> HIDE DEF at, l, v
<1>4. Relisted(s1, store, b, l)
  <2>1. store \in Seq(Node) /\ b \in 1 .. Len(store) /\ l \in Seq(Nat)
    BY <1>0, <1>3
  <2> HIDE DEF b
  <2> QED
    BY <2>1, ListRewritten
<1> HIDE DEF s1
<1>5. /\ s2 \in Seq(Node) /\ Len(s2) = n
      /\ \A a \in 1 .. n :
           /\ s2[a].tag = s1[a].tag /\ s2[a].up = s1[a].up /\ s2[a].param = s1[a].param
           /\ s2[a].fn = s1[a].fn /\ s2[a].kids = s1[a].kids
  <2>1. s1 \in Seq(Node) /\ Len(s1) = n
    BY <1>4 DEF Relisted
  <2> QED
    BY <1>0, <2>1, ReferenceRewritten
<1> HIDE DEF s2
<1>6. Relisted(s2, store, b, l)
  BY <1>4, <1>5 DEF Relisted
<1> HIDE DEF b
<1>7. n + 1 \in Nat /\ n + 2 \in Nat /\ <<n + 2>> \in Seq(Nat) /\ x \in Nat /\ b \in Nat
  BY <1>0
<1>8. block \in Node
  BY <1>7 DEF BlockOf, Leaf, Node
<1>9. leaf \in Node
  <2>1. n \in Nat /\ b \in Nat /\ x \in Nat
    BY <1>0, <1>7
  <2> HIDE DEF n
  <2> QED
    BY <2>1, LeafAfter
<1> DEFINE new == <<block, leaf>>
<1> HIDE DEF block, leaf
<1>10. new \in Seq(Node)
  BY <1>8, <1>9
<1> HIDE DEF new
<1>11. store' = s2 \o new
  BY <1>2 DEF new
<1>12. OtherLists(store', store, b, l)
  BY <1>0, <1>6, <1>10, <1>11, OtherListsStay
<1>13. \A a \in 1 .. Len(store) :
         /\ store'[a].kids = <<>> <=> store[a].kids = <<>>
         /\ store[a].kids # <<>> => store'[a].kids[1] = store[a].kids[1]
  <2> SUFFICES ASSUME NEW a \in 1 .. Len(store)
               PROVE  /\ store'[a].kids = <<>> <=> store[a].kids = <<>>
                      /\ store[a].kids # <<>> => store'[a].kids[1] = store[a].kids[1]
    OBVIOUS
  <2>1. store'[a].kids = IF a = b THEN l ELSE store[a].kids
    BY <1>12 DEF OtherLists
  <2> QED
    BY <1>3, <2>1
<1> QED
  BY <1>13 DEF Firsts

\* The ids a walk has to come to, in the order it comes to them.
LEMMA OldOnes ==
  ASSUME NEW s0, NEW r, Structured(s0, r), Tidy(s0, r), NEW s, Structured(s, r), Since(s, s0),
         NEW top \in 1 .. r
  PROVE  /\ { e \in Range(WalkOrder(s, top)) : e <= Len(s0) } = Low(s0, top) .. top
         /\ \A x, y \in Low(s0, top) .. top : x < y => Precedes(WalkOrder(s, top), x, y)
<1> DEFINE lo == Low(s0, top)
           w0 == WalkOrder(s0, top)
           w == WalkOrder(s, top)
           m == Len(s0)
           k == top + 1 - lo
<1>1. /\ top \in Attached(s0, r) /\ lo \in 1 .. top /\ Len(w0) = k
      /\ w0 = [i \in 1 .. k |-> lo - 1 + i]
  BY Counted
<1>2. r \in Nat /\ m \in Nat /\ r \in 1 .. m /\ top \in Nat
  BY Sized
<1>3. Range(w0) \subseteq Range(w) /\ \A i, j \in 1 .. Len(w0) : i < j => Precedes(w, w0[i], w0[j])
  BY <1>1, WalkGrows
<1>4. \A x \in Range(w) : x <= m => x \in Range(w0)
  BY <1>1, WalkAddsNew
<1> HIDE DEF w, w0, m, lo
<1>5. \A x \in lo .. top : LET i == x + 1 - lo IN i \in 1 .. k /\ w0[i] = x
  BY <1>1, <1>2
<1>6. Range(w0) = lo .. top
  <2>1. DOMAIN w0 = 1 .. k
    BY <1>1
  <2>2. ASSUME NEW i \in 1 .. k
        PROVE  w0[i] \in lo .. top
    BY <1>1, <1>2, <2>2
  <2>3. \A x \in lo .. top : \E i \in 1 .. k : w0[i] = x
    BY <1>5
  <2> QED
    BY <2>1, <2>2, <2>3 DEF Range
<1>7. \A x \in lo .. top : x <= m
  BY <1>1, <1>2
<1>8. { e \in Range(w) : e <= m } = lo .. top
  BY <1>3, <1>4, <1>6, <1>7
<1>9. ASSUME NEW x \in lo .. top, NEW y \in lo .. top, x < y
      PROVE  Precedes(w, x, y)
  <2> DEFINE i == x + 1 - lo
             j == y + 1 - lo
  <2>1. i \in 1 .. k /\ j \in 1 .. k /\ w0[i] = x /\ w0[j] = y
    BY <1>5
  <2>2. i < j
    BY <1>1, <1>2, <1>9
  <2> HIDE DEF i, j
  <2> QED
    BY <1>1, <1>3, <2>1, <2>2
<1> QED
  BY <1>8, <1>9 DEF lo, w, m

\* What a sorted walk comes to has its parent before it.
LEMMA ParentsFollow ==
  ASSUME NEW s0, NEW r, Structured(s0, r), Tidy(s0, r), NEW s, Structured(s, r), Since(s, s0),
         NEW c \in 1 .. r, c # r
  PROVE  s[c].up \in c + 1 .. r /\ c \in Range(s[s[c].up].kids)
<1> DEFINE u == s0[c].up
           n == Len(s0)
<1>1. r \in Nat /\ n \in Nat /\ r \in 1 .. n /\ c \in 1 .. n /\ Len(s) \in Nat /\ n <= Len(s)
  BY Sized DEF Since
<1>2. /\ Range(WalkOrder(s0, r)) = 1 .. r
      /\ \A e \in 1 .. r : BodyOrder(s0, e) = s0[e].kids
  BY TidyOrder
<1>3. u \in 1 .. r
  BY <1>2, InTreeIs
<1>4. c \in Range(s0[u].kids) /\ s0[u].tag < s0[c].tag
  <2>1. c \in Range(WalkOrder(s0, r))
    BY <1>2
  <2>2. s0[u].tag < s0[c].tag
    BY <2>1, InTreeIs
  <2>3. u # 0
    BY <1>1, <1>3
  <2>4. c \in Range(s0[u].kids)
    BY <1>1, <2>3 DEF Structured
  <2> QED
    BY <2>2, <2>4
<1>5. c < u
  <2> DEFINE lo == Low(s0, u)
             k == u + 1 - lo
             w == WalkOrder(s0, u)
  <2>1. lo \in 1 .. u /\ Len(w) = k /\ w = [i \in 1 .. k |-> lo - 1 + i]
    <3> HIDE DEF u
    <3>1. lo \in 1 .. u
      BY <1>3, Counted
    <3>2. Len(w) = k
      BY <1>3, Counted
    <3>3. w = [i \in 1 .. k |-> lo - 1 + i]
      BY <1>3, Counted
    <3> QED
      BY <3>1, <3>2, <3>3
  <2>2. u \in Nat /\ u \in 1 .. n
    BY <1>1, <1>3
  <2>3. c # u
    <3>1. s0[c].tag \in Nat
      BY <1>1, NodeIs
    <3> HIDE DEF u
    <3> QED
      BY <1>4, <3>1
  <2> HIDE DEF u, lo, w
  <2>4. Range(w) \subseteq 1 .. u /\ u \in Range(w)
    <3>1. DOMAIN w = 1 .. k /\ k \in 1 .. k /\ \A i \in 1 .. k : w[i] = lo - 1 + i
      BY <2>1, <2>2
    <3>2. w[k] = u /\ \A i \in 1 .. k : w[i] \in 1 .. u
      BY <2>1, <2>2, <3>1
    <3> QED
      BY <3>1, <3>2 DEF Range
  <2>5. c \in Range(w)
    <3> DEFINE kids == Bodies(s0)
    <3>1. /\ DOMAIN kids = 1 .. n /\ Ranked(kids, Ages(s0), n)
          /\ kids[u] = BodyOrder(s0, u) /\ w = PostOrder(kids, u)
      BY <2>2, BodiesAre DEF w
    <3> HIDE DEF kids
    <3>2. Range(kids[u]) \subseteq Range(w)
      BY <2>2, <2>4, <3>1, WalkHolds
    <3> QED
      BY <1>2, <1>3, <1>4, <3>1, <3>2
  <2>6. c \in 1 .. u
    BY <2>4, <2>5
  <2> QED
    BY <2>2, <2>3, <2>6
<1>6. s[c].up = u
  BY <1>1 DEF Since
<1>7. c \in Range(s[u].kids)
  <2>1. u # 0 /\ c \in 1 .. Len(s)
    BY <1>1, <1>3
  <2> HIDE DEF u
  <2> QED
    BY <1>6, <2>1 DEF Structured
<1> QED
  BY <1>1, <1>3, <1>5, <1>6, <1>7

\* What the count of a walk says of what it has seen.
LEMMA SeeingMeans ==
  ASSUME Invariant, Seeing
  PROVE  SortedSeesAll
<1> SUFFICES ASSUME walk # NoWalk
             PROVE  SortedSeesAll
  BY DEF SortedSeesAll
<1>1. PICK s0 : Counting(s0, store, root, mark, walk)
  BY DEF Seeing
<1> DEFINE top == walk.top
           lo == Low(s0, top)
           n == Len(walk.seen)
           order == WalkOrder(store, top)
           old == { e \in Range(order) : e <= mark }
           left == old \ Range(walk.seen)
           Follows(e, d) == \E i, j \in DOMAIN order : i < j /\ order[i] = d /\ order[j] = e
<1>2. /\ Structured(s0, root) /\ Tidy(s0, root) /\ Len(s0) = mark /\ Since(store, s0)
      /\ top \in 1 .. root /\ walk.seen = [i \in 1 .. n |-> lo - 1 + i] /\ lo - 1 + n <= top
      /\ walk.ranges # <<>> => Linked(s0, root, walk.ranges, top, lo + n)
      /\ walk.ranges = <<>> /\ ~walk.failed => lo - 1 + n = top
  BY <1>1 DEF Counting
<1>3. Structured(store, root)
  BY DEF Invariant
<1>4. root \in Nat /\ top \in Nat /\ lo \in 1 .. top /\ n \in Nat /\ top <= root
  <2>1. root \in Nat
    BY <1>3, Sized
  <2>2. lo \in 1 .. top
    BY <1>2, Counted
  <2>3. walk.seen \in Seq(Nat)
    BY DEF Seeing, WalkRecord
  <2>4. n \in Nat
    BY <2>3, LenProperties
  <2> HIDE DEF top, lo, n
  <2> QED
    BY <1>2, <2>1, <2>2, <2>4
<1>5. old = lo .. top /\ \A x, y \in lo .. top : x < y => Precedes(order, x, y)
  BY <1>2, <1>3, OldOnes
<1>6. DOMAIN order = 1 .. Len(order)
  <2>1. top \in Attached(s0, root) /\ top \in 1 .. Len(store)
    <3>1. top \in Attached(s0, root)
      BY <1>2, Counted
    <3>2. root \in 1 .. Len(store) /\ Len(store) \in Nat
      BY <1>3, Sized
    <3> HIDE DEF top
    <3> QED
      BY <1>4, <3>1, <3>2
  <2> DEFINE kids == Bodies(store)
             m == Len(store)
  <2>2. DOMAIN kids = 1 .. m /\ Ranked(kids, Ages(store), m) /\ order = PostOrder(kids, top)
    BY <1>3, <2>1, BodiesAre
  <2>3. PICK F : Walks(kids, F) /\ \A e \in DOMAIN kids : PostOrder(kids, e) = F[e]
    BY <2>2, PostOrderIs
  <2>4. F[top] \in Seq(DOMAIN kids) /\ order = F[top]
    BY <2>1, <2>2, <2>3, WalkPlaces
  <2> QED
    BY <2>4, LenProperties
<1>7. \A x, y \in lo .. top : x < y => Follows(y, x)
  BY <1>5, <1>6 DEF Precedes
<1> HIDE DEF top, lo, n, order, old, Follows
<1>8. DOMAIN walk.seen = 1 .. n /\ \A i \in 1 .. n : walk.seen[i] = lo - 1 + i /\ walk.seen[i] \in lo .. top
  <2>1. DOMAIN walk.seen = 1 .. n /\ \A i \in 1 .. n : walk.seen[i] = lo - 1 + i
    BY <1>2
  <2>2. \A i \in 1 .. n : lo - 1 + i \in lo .. top
    BY <1>2, <1>4
  <2> QED
    BY <2>1, <2>2
<1>9. Range(walk.seen) = lo .. lo - 1 + n
  <2>1. \A x \in lo .. lo - 1 + n : x + 1 - lo \in 1 .. n /\ lo - 1 + (x + 1 - lo) = x
    BY <1>4
  <2>2. \A x \in lo .. lo - 1 + n : \E i \in 1 .. n : walk.seen[i] = x
    BY <1>8, <2>1
  <2>3. \A i \in 1 .. n : walk.seen[i] \in lo .. lo - 1 + n
    BY <1>4, <1>8
  <2> QED
    BY <1>8, <2>2, <2>3 DEF Range
<1>10. IsInjective(walk.seen)
  <2>1. \A i, j \in 1 .. n : walk.seen[i] = walk.seen[j] => i = j
    BY <1>4, <1>8
  <2> QED
    BY <1>8, <2>1 DEF IsInjective
<1>11. Range(walk.seen) \subseteq old
  BY <1>2, <1>4, <1>5, <1>9
<1>12. \A i, j \in DOMAIN walk.seen : i < j => Follows(walk.seen[j], walk.seen[i])
  <2> SUFFICES ASSUME NEW i \in 1 .. n, NEW j \in 1 .. n, i < j
               PROVE  Follows(walk.seen[j], walk.seen[i])
    BY <1>8
  <2> DEFINE x == walk.seen[i]
             y == walk.seen[j]
  <2>1. x = lo - 1 + i /\ y = lo - 1 + j /\ x \in lo .. top /\ y \in lo .. top
    BY <1>8
  <2> HIDE DEF x, y
  <2>2. x < y
    BY <1>4, <2>1
  <2>3. Follows(y, x)
    BY <1>7, <2>1, <2>2
  <2> QED
    BY <2>3 DEF x, y
<1>13. \A d \in Range(walk.seen), e \in left : Follows(e, d)
  <2> SUFFICES ASSUME NEW d \in Range(walk.seen), NEW e \in left
               PROVE  Follows(e, d)
    OBVIOUS
  <2>1. d \in lo .. top /\ e \in lo .. top /\ d < e
    BY <1>2, <1>4, <1>5, <1>9
  <2> QED
    BY <1>7, <2>1
<1>14. walk.ranges = <<>> /\ ~walk.failed => left = {}
  BY <1>2, <1>5, <1>9
<1>15. ASSUME Walking, At # root
       PROVE  store[At].up \in At + 1 .. root /\ At \in Range(store[store[At].up].kids)
  <2> DEFINE c == lo + n
  <2>1. Linked(s0, root, walk.ranges, top, c)
    BY <1>2, <1>15 DEF Walking
  <2> HIDE DEF c
  <2>2. Last(walk.ranges)[2] = c /\ c \in 1 .. Last(walk.ranges)[1] /\ Last(walk.ranges)[1] \in 1 .. root
    BY <1>2, <2>1, LinkedIs
  <2>3. At = c
    BY <2>2 DEF At
  <2>4. c \in 1 .. root
    <3> DEFINE l == Last(walk.ranges)[1]
    <3>1. c \in 1 .. l /\ l \in 1 .. root
      BY <2>2
    <3> HIDE DEF l
    <3> QED
      BY <1>4, <3>1
  <2>5. c # root
    BY <1>15, <2>3
  <2>6. store[c].up \in c + 1 .. root /\ c \in Range(store[store[c].up].kids)
    BY <1>2, <1>3, <2>4, <2>5, ParentsFollow
  <2> QED
    BY <2>3, <2>6
<1> HIDE DEF left
<1>16. /\ IsInjective(walk.seen) /\ Range(walk.seen) \subseteq old
       /\ \A i, j \in DOMAIN walk.seen : i < j => Follows(walk.seen[j], walk.seen[i])
       /\ \A d \in Range(walk.seen), e \in left : Follows(e, d)
       /\ ~Walking /\ ~walk.failed => left = {}
       /\ Walking /\ At # root =>
            store[At].up \in At + 1 .. root /\ At \in Range(store[store[At].up].kids)
  BY <1>10, <1>11, <1>12, <1>13, <1>14, <1>15 DEF Walking
<1> QED
  BY <1>16 DEF SortedSeesAll, order, old, left, top, Follows

\* What the callback of the walk does.
LEMMA VisitIs ==
  ASSUME NEW s, NEW ok, Visited(s, ok), walk \in WalkRecord
  PROVE  walk' = [top |-> walk.top,
                  ranges |-> IF ok THEN Ahead(s, Bump(walk.ranges, Len(walk.ranges))) ELSE <<>>,
                  failed |-> ~ok, seen |-> Append(walk.seen, Last(walk.ranges)[2])]
<1> DEFINE rs == IF ok THEN Ahead(s, Bump(walk.ranges, Len(walk.ranges))) ELSE <<>>
           seen == Append(walk.seen, At)
           no == ~ok
<1>1. walk' = [walk EXCEPT !.ranges = rs, !.failed = no, !.seen = seen]
  BY DEF Visited
<1> HIDE DEF rs, seen, no
<1>2. walk' = [top |-> walk.top, ranges |-> rs, failed |-> no, seen |-> seen]
  BY <1>1 DEF WalkRecord
<1> QED
  BY <1>2 DEF rs, seen, no, At

\* No walk is a walk record.
LEMMA NoWalkIs == NoWalk \in WalkRecord
<1>1. <<>> \in Seq(Nat) /\ <<>> \in Seq(Nat \X Nat)
  OBVIOUS
<1> QED
  BY <1>1 DEF NoWalk, WalkRecord

\* A walk goes on behind a callback that has edited the module.
LEMMA VisitSees ==
  ASSUME Invariant, Invariant', Seeing, Walking, NEW ok \in BOOLEAN, Visited(store', ok),
         UNCHANGED <<root, mark>>, Edit(store', store, root) \/ store' = store,
         ok => Firsts(store', store, At + 1)
  PROVE  walk' \in WalkRecord /\ \E s0 : Counting(s0, store', root', mark', walk')
<1>1. walk \in WalkRecord /\ walk # NoWalk
  BY DEF Seeing, Walking, NoWalk
<1>2. PICK s0 : Counting(s0, store, root, mark, walk)
  BY <1>1 DEF Seeing
<1> DEFINE rs == IF ok THEN Ahead(store', Bump(walk.ranges, Len(walk.ranges))) ELSE <<>>
           seen == Append(walk.seen, Last(walk.ranges)[2])
           no == ~ok
           w == [top |-> walk.top, ranges |-> rs, failed |-> no, seen |-> seen]
<1>3. walk' = w
  BY <1>1, VisitIs
<1>4. Structured(store, root) /\ Structured(store', root) /\ root' = root /\ mark' = mark
  BY DEF Invariant
<1>5. Structured(s0, root) /\ Since(store, s0)
  BY <1>2 DEF Counting
<1>6. Since(store', s0)
  BY <1>4, <1>5, SinceEdit
<1>7. ok => Firsts(store', s0, Last(walk.ranges)[2] + 1)
  <2> SUFFICES ASSUME ok
               PROVE  Firsts(store', s0, Last(walk.ranges)[2] + 1)
    OBVIOUS
  <2> DEFINE c == Last(walk.ranges)[2]
             lo == Low(s0, walk.top)
             n == Len(walk.seen)
             d == lo + n
  <2>1. Linked(s0, root, walk.ranges, walk.top, d) /\ Firsts(store, s0, d)
    BY <1>2 DEF Counting, Walking
  <2> HIDE DEF d
  <2>2. c = d /\ c \in Nat
    <3>1. /\ c = d /\ c \in 1 .. Last(walk.ranges)[1] /\ Last(walk.ranges)[1] \in 1 .. root
      BY <1>5, <2>1, LinkedIs
    <3> DEFINE b == Last(walk.ranges)[1]
    <3>2. b \in 1 .. root
      BY <3>1
    <3>3. c \in 1 .. b
      BY <3>1
    <3>4. root \in Nat
      BY <1>4, Sized
    <3> HIDE DEF b, c
    <3> QED
      BY <3>1, <3>2, <3>3, <3>4
  <2>3. Firsts(store', store, c + 1)
    BY DEF At
  <2>4. Len(s0) \in Nat /\ Len(store) \in Nat /\ Len(s0) <= Len(store)
    BY <1>4, <1>5, Sized DEF Since
  <2> HIDE DEF c
  <2>5. \A e \in 1 .. Len(s0) : e >= c + 1 =>
          /\ store[e].kids = <<>> <=> s0[e].kids = <<>>
          /\ s0[e].kids # <<>> => store[e].kids[1] = s0[e].kids[1]
    BY <2>1, <2>2, <2>4 DEF Firsts
  <2>6. \A e \in 1 .. Len(s0) : e >= c + 1 =>
          /\ store'[e].kids = <<>> <=> store[e].kids = <<>>
          /\ store[e].kids # <<>> => store'[e].kids[1] = store[e].kids[1]
    BY <2>3, <2>4 DEF Firsts
  <2>7. Firsts(store', s0, c + 1)
    BY <2>5, <2>6 DEF Firsts
  <2> QED
    BY <2>7 DEF c
<1>8. /\ w.top = walk.top /\ w.failed = no /\ w.seen = seen /\ w.ranges = rs
      /\ walk.ranges # <<>>
  BY DEF Walking
<1> DEFINE w2 == walk'
<1>9. w2.top = walk.top /\ w2.failed = ~ok /\ w2.seen = seen /\ w2.ranges = rs
  <2> HIDE DEF w, rs, seen
  <2> QED
    BY <1>3, <1>8
<1> HIDE DEF w2
<1>10. /\ rs \in Seq(Nat \X Nat) /\ seen \in Seq(Nat)
       /\ Counting(s0, store', root, mark, w2)
  <2>1. /\ w2.ranges \in Seq(Nat \X Nat) /\ w2.seen \in Seq(Nat)
        /\ Counting(s0, store', root, mark, w2)
    BY <1>1, <1>2, <1>4, <1>6, <1>7, <1>8, <1>9, CountingGoesOn
  <2> HIDE DEF rs, seen
  <2> QED
    BY <1>9, <2>1
<1>11. w \in WalkRecord
  <2>1. walk.top \in Nat /\ no \in BOOLEAN
    BY <1>1 DEF WalkRecord
  <2> HIDE DEF rs, seen, no
  <2> QED
    BY <1>10, <2>1 DEF WalkRecord
<1> QED
  BY <1>3, <1>4, <1>10, <1>11 DEF w2

\* Every step leaves a walk with what it has to have seen.
LEMMA StepSees ==
  ASSUME Invariant, sorted => Tidy(store, root), Seeing, [Next]_vars
  PROVE  Seeing'
<1> DEFINE Counts == walk' # NoWalk => \E s0 : Counting(s0, store', root', mark', walk')
           Sees == walk' \in WalkRecord /\ Counts
<1>1. sorted' => mark' = fresh'
  <2>1. CASE ~sorted'
    BY <2>1
  <2>2. CASE Sort
    BY <2>2 DEF Sort
  <2>3. CASE UNCHANGED <<store, root, fresh, sorted, mark>>
    BY <2>3 DEF Seeing
  <2> QED
    BY <2>1, <2>2, <2>3, StepIs
<1>2. Invariant'
  BY StepKeeps
<1>3. \A x \in Nameable : x \in Ids
  BY Known DEF Nameable, TypeTag
<1>4. ASSUME walk' = NoWalk
      PROVE  Sees
  BY <1>4, NoWalkIs
<1>5. ASSUME NEW b \in UserBlocks, InTree(b), StartWalk(b)
      PROVE  Sees
  <2>1. /\ Structured(store, root) /\ Tidy(store, root) /\ mark = Len(store)
        /\ UNCHANGED <<store, root, mark>>
    BY <1>5 DEF StartWalk, Invariant, Seeing, history
  <2>2. b \in 1 .. root
    <3>1. Range(WalkOrder(store, root)) = 1 .. root
      BY <2>1, TidyOrder
    <3> QED
      BY <1>5, <3>1 DEF InTree
  <2> DEFINE rs == Ahead(store, <<Entered(store, b)>>)
             w2 == walk'
  <2>3. walk' = [NoWalk EXCEPT !.top = b, !.ranges = rs]
    BY <1>5 DEF StartWalk
  <2> HIDE DEF rs
  <2>4. walk' = [top |-> b, ranges |-> rs, failed |-> FALSE, seen |-> <<>>]
    BY <2>3 DEF NoWalk
  <2>5. w2.top = b /\ w2.ranges = rs /\ w2.seen = <<>>
    BY <2>4
  <2> HIDE DEF w2
  <2>6. w2.ranges \in Seq(Nat \X Nat) /\ Counting(store, store, root, Len(store), w2)
    BY <2>1, <2>2, <2>5, CountingBegins DEF rs
  <2>7. rs \in Seq(Nat \X Nat) /\ b \in Nat /\ <<>> \in Seq(Nat)
    <3>1. root \in Nat
      BY <2>1, Sized
    <3> QED
      BY <2>2, <2>5, <2>6, <3>1
  <2>8. walk' \in WalkRecord
    BY <2>4, <2>7 DEF WalkRecord
  <2>9. Counting(store, store', root', mark', walk')
    BY <2>1, <2>6 DEF w2
  <2> QED
    BY <2>8, <2>9
<1>6. ASSUME Walking, VisitOther
      PROVE  Sees
  <2>1. UNCHANGED <<store, root, mark>> /\ Visited(store, TRUE)
    BY <1>6 DEF VisitOther, history
  <2>2. Visited(store', TRUE) /\ Firsts(store', store, At + 1)
    BY <2>1 DEF Firsts
  <2> QED
    BY <1>2, <1>6, <2>1, <2>2, VisitSees
<1>7. ASSUME Walking, At \in UserBlocks, VisitFunction
      PROVE  Sees
  <2>1. Materialize(At) /\ Visited(store', TRUE)
    BY <1>7 DEF VisitFunction
  <2>2. Edit(store', store, root) /\ Firsts(store', store, At + 1)
    BY <1>7, <2>1, MaterializeKeeps, MaterializeBegins
  <2>3. UNCHANGED <<root, mark>>
    BY <2>1 DEF Materialize, history
  <2> QED
    BY <1>2, <1>7, <2>1, <2>2, <2>3, VisitSees
<1>8. ASSUME Walking, At \in Statements, NEW x \in Nameable, VisitInclude(x)
      PROVE  Sees
  <2>1. EarlyInclude(At, x) /\ Visited(store', TRUE)
    BY <1>8 DEF VisitInclude
  <2>2. Edit(store', store, root) /\ Firsts(store', store, At + 1)
    BY <1>3, <1>8, <2>1, EarlyIncludeKeeps, EarlyIncludeBegins
  <2>3. UNCHANGED <<root, mark>>
    BY <2>1 DEF EarlyInclude, history
  <2> QED
    BY <1>2, <1>8, <2>1, <2>2, <2>3, VisitSees
<1>9. ASSUME Walking, At \in Statements, NEW x \in Nameable, VisitBadInclude(x)
      PROVE  Sees
  <2>1. FailInclude(At, x) /\ Visited(store', FALSE)
    BY <1>9 DEF VisitBadInclude
  <2>2. Edit(store', store, root)
    BY <1>3, <1>9, <2>1, FailIncludeKeeps
  <2>3. UNCHANGED <<root, mark>>
    BY <2>1 DEF FailInclude, history
  <2> QED
    BY <1>2, <1>9, <2>1, <2>2, <2>3, VisitSees
<1>10. ASSUME UNCHANGED vars
       PROVE  Sees
  BY <1>10 DEF Seeing, vars
<1>11. Idle => walk' = NoWalk
  BY DEF Idle
<1>12. EndWalk => walk' = NoWalk
  BY DEF EndWalk
<1>13. Sees
  <2> HIDE DEF Sees
  <2> QED
    BY <1>4, <1>5, <1>6, <1>7, <1>8, <1>9, <1>10, <1>11, <1>12 DEF Next
<1> QED
  BY <1>1, <1>13 DEF Seeing

\* The program begins without a walk.
LEMMA InitSeeing == Init => Seeing
BY NoWalkIs DEF Init, Seeing

(***************************************************************************)
(* What the invariant means.                                               *)
(***************************************************************************)
LEMMA InvariantTypes == Invariant => TypeOK
<1> SUFFICES ASSUME Invariant
             PROVE  TypeOK
  OBVIOUS
<1>1. Structured(store, root) /\ fresh = Len(store)
  BY DEF Invariant
<1>2. /\ root \in Ids
      /\ \A e \in Ids : /\ store[e].up \in 0 .. Len(store) /\ store[e].ref \in 0 .. Len(store)
                        /\ Range(store[e].kids) \subseteq Ids /\ store[e].tag \in 1 .. Len(store)
      /\ \A t \in 1 .. Len(store) : \E e \in Ids : store[e].tag = t
  <2>1. \A e \in 1 .. Len(store) : Range(store[e].kids) \subseteq 1 .. Len(store)
    BY <1>1, NodeIs
  <2> QED
    BY <1>1, <2>1 DEF Structured, Ids
<1>3. \A e \in Ids : \A i \in DOMAIN store[e].kids : store[e].kids[i] \in Ids
  BY <1>2 DEF Range
<1>4. { store[e].tag : e \in Ids } = 1 .. Len(store)
  BY <1>2
<1> QED
  BY <1>1, <1>2, <1>3, <1>4 DEF TypeOK

\* No edit and no sort leaves a parent, a reference or a listed entity that is
\* not an entity of the module, and every entity is there once: of entities
\* without number and functions of any arity.
THEOREM TypeCorrect == Spec => []TypeOK
<1>1. Init => Invariant
  BY InitInvariant
<1>2. Invariant /\ [Next]_vars => Invariant'
  BY StepKeeps
<1>3. Invariant => TypeOK
  BY InvariantTypes
<1> QED
  BY <1>1, <1>2, <1>3, PTL DEF Spec

\* canonicalize::sort renumbers the entities and rewrites what names them so
\* that every parent, reference and block says what it said: only a function's
\* body may be in another order.
THEOREM SortKeepsMeaning == Spec => MeaningKept
<1>1. Init => Invariant
  BY InitInvariant
<1>2. Invariant /\ [Next]_vars => Invariant'
  BY StepKeeps
<1>3. Invariant /\ [Next]_vars =>
        [~sorted /\ sorted' =>
           Meaning(store') = Meaning(store) /\ TagAt(store', root') = TagAt(store, root)]_vars
  BY StepKeeps
<1> QED
  BY <1>1, <1>2, <1>3, PTL DEF Spec, MeaningKept

\* Behind a sort the tree is numbered as the "sorted" walker counts through it,
\* the parameters of a function come first and in order, and another sort
\* would move nothing.
THEOREM SortedIsCanonical == Spec => []Canonical
<1> DEFINE Inv == Invariant /\ (sorted => Tidy(store, root))
<1>1. Init => Inv
  BY InitInvariant DEF Init
<1>2. Inv /\ [Next]_vars => Inv'
  BY StepKeeps, StepTidies
<1>3. Inv => Canonical
  <2> SUFFICES ASSUME Structured(store, root), Tidy(store, root)
               PROVE  Canonical
    BY DEF Invariant, Canonical
  <2>1. Reordered(store, root) = store
    BY TidyStays
  <2>2. /\ root = Len(WalkOrder(store, root))
        /\ \A e \in 1 .. root :
             WalkOrder(store, e)
               = [i \in DOMAIN WalkOrder(store, e) |-> e - Len(WalkOrder(store, e)) + i]
        /\ \A f \in 1 .. root : store[f].fn =>
             \A i, j \in DOMAIN store[f].kids :
               i < j /\ store[store[f].kids[j]].param > 0
               => store[store[f].kids[i]].param \in 1 .. store[store[f].kids[j]].param - 1
    BY TidyIs
  <2> QED
    BY <2>1, <2>2 DEF Canonical
<1> HIDE DEF Inv
<1> QED
  BY <1>1, <1>2, <1>3, PTL DEF Spec

\* The id a system resolved into a static behind a sort is the builtin's for
\* good: no edit comes before the builtins, so that every sort but the first
\* gives them the same numbers.  The first one gives them others, so that the
\* id the verifier has kept denotes another builtin from there on.
THEOREM StaticsNeverStale == Spec => []StaticsStay
<1> DEFINE Inv == Invariant /\ Arranged
<1>1. Init => Inv
  BY InitInvariant, InitArranged
<1>2. Inv /\ [Next]_vars => Inv'
  BY StepKeeps, StepArranges
<1>3. Inv => StaticsStay
  <2> SUFFICES ASSUME Inv, NEW c \in cache
               PROVE  store[c[2]].tag = c[1] <=> c[3] \/ mark = 0
    BY DEF StaticsStay
  <2>1. CacheKept(store, c) /\ mark \in Nat
    BY DEF Arranged, Invariant
  <2>2. CASE c[3]
    BY <2>1, <2>2 DEF CacheKept
  <2>3. CASE ~c[3] /\ mark = 0
    BY <2>1, <2>3 DEF CacheKept, Arranged
  <2>4. CASE ~c[3] /\ mark > 0
    BY <2>1, <2>4 DEF CacheKept, Arranged, Numbered, TypeTag
  <2> QED
    BY <2>1, <2>2, <2>3, <2>4
<1> QED
  BY <1>1, <1>2, <1>3, PTL DEF Spec

\* A sort does not change the order of two statements of a function that an
\* earlier sort has been through, whatever has been inserted since.
THEOREM SortedOrderIsKept == Spec => OldOrderKept
<1> DEFINE Inv == Invariant /\ Arranged
           Kept == \A f \in Ids : store[f].blk /\ InTree(f) =>
                     \A t, u \in 1 .. mark :
                       Before(store, f, t, u)
                         => Before(store', CHOOSE g \in 1 .. Len(store) :
                                             store'[g].tag = store[f].tag, t, u)
<1>1. Init => Inv
  BY InitInvariant, InitArranged
<1>2. Inv /\ [Next]_vars => Inv'
  BY StepKeeps, StepArranges
<1>3. Inv /\ [Next]_vars => [~sorted /\ sorted' => Kept]_vars
  <2>1. Inv /\ [Next]_vars /\ ~sorted /\ sorted' => Sort
    BY StepIs
  <2>2. Inv /\ Sort => Kept
    BY SortKeepsOld
  <2> HIDE DEF Inv, Kept
  <2> QED
    BY <2>1, <2>2
<1> QED
  BY <1>1, <1>2, <1>3, PTL DEF Spec, OldOrderKept

\* The "sorted" walker comes to everything below what it is started on, once
\* and children before their parent, whatever its callbacks have inserted.
THEOREM WalkSeesAll == Spec => []SortedSeesAll
<1> DEFINE Inv == Invariant /\ (sorted => Tidy(store, root)) /\ Seeing
<1>1. Init => Inv
  BY InitInvariant, InitSeeing DEF Init
<1>2. Inv /\ [Next]_vars => Inv'
  BY StepKeeps, StepTidies, StepSees
<1>3. Inv => SortedSeesAll
  BY SeeingMeans
<1> HIDE DEF Inv
<1> QED
  BY <1>1, <1>2, <1>3, PTL DEF Spec
=============================================================================
