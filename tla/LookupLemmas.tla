----------------------------- MODULE LookupLemmas -----------------------------
(***************************************************************************)
(* What the proofs about Lookup rest on: the scopes of a sorted module,    *)
(* what a search that scans the ids upwards comes to in them, the          *)
(* recursions through modifiers and aliases, and what becomes of all that  *)
(* when an entity is given parameters.                                     *)
(***************************************************************************)
EXTENDS Lookup, TreeProofs

\* The least of a set of ids, and zero of none.
LEMMA LeastIs ==
  ASSUME NEW S \in SUBSET Nat, S # {}
  PROVE  LeastOr0(S) \in S /\ \A x \in S : LeastOr0(S) <= x
<1>1. \E n \in S : \A k \in S : n <= k
  BY LeastNumber
<1>2. Min(S) \in S /\ \A x \in S : Min(S) <= x
  BY <1>1, Zenon DEF Min
<1> QED
  BY <1>2 DEF LeastOr0

\* A set of ids with one element.
LEMMA LeastOfOne ==
  ASSUME NEW x \in Nat
  PROVE  LeastOr0({x}) = x
BY LeastIs

\* What a search of the ids returns is one of them, or zero.
LEMMA LeastIn ==
  ASSUME NEW S \in SUBSET Nat
  PROVE  LeastOr0(S) \in S \cup {0}
<1>1. CASE S = {}
  BY <1>1 DEF LeastOr0
<1>2. CASE S # {}
  BY <1>2, LeastIs
<1> QED
  BY <1>1, <1>2

\* What is not known of a detached block is that of an entity with nothing to it.
LEMMA DetachedIs ==
  ASSUME NEW m, NEW r, NEW b, Detached(m, r, b)
  PROVE  /\ b > r /\ m[b].up = 0 /\ m[b].blk /\ m[b].name = "" /\ ~m[b].space /\ ~m[b].tdef
         /\ ~m[b].fn /\ m[b].names = <<>> /\ m[b].param = 0 /\ ~m[b].modifier
<1> DEFINE d == m[b]
           ks == m[b].kids
<1>1. b > r /\ d = [Blank EXCEPT !.blk = TRUE, !.kids = ks]
  BY DEF Detached
<1> HIDE DEF d, ks
<1>2. /\ d.up = 0 /\ d.blk /\ d.name = "" /\ ~d.space /\ ~d.tdef
      /\ ~d.fn /\ d.names = <<>> /\ d.param = 0 /\ ~d.modifier
  BY <1>1 DEF Blank
<1> QED
  BY <1>1, <1>2, Zenon DEF d

\* Every entity but the root and the detached blocks has a parent, which has a
\* block that lists it.
LEMMA Parents ==
  ASSUME NEW m, NEW r, Shaped(m, r), NEW e \in DOMAIN m
  PROVE  /\ DOMAIN m = 1 .. Len(m) /\ Len(m) \in Nat /\ r \in 1 .. Len(m)
         /\ m[e] \in Entity
         /\ m[e].up \in 0 .. Len(m) /\ (m[e].up = 0 <=> e = r \/ Detached(m, r, e))
         /\ m[e].up = 0 => e >= r
         /\ m[e].up # 0 => /\ m[e].up \in DOMAIN m /\ m[e].up <= r /\ m[m[e].up].blk
                           /\ e \in Range(m[m[e].up].kids)
                           /\ e <= r => e < m[e].up
<1>1. m \in Seq(Entity) /\ r \in DOMAIN m /\ m[r].up = 0
  BY DEF Shaped
<1>2. DOMAIN m = 1 .. Len(m) /\ Len(m) \in Nat /\ r \in 1 .. Len(m) /\ m[e] \in Entity
  BY <1>1
<1>3. CASE e = r
  BY <1>1, <1>2, <1>3
<1>4. CASE e # r /\ Detached(m, r, e)
  <2>1. m[e].up = 0 /\ e > r
    BY <1>4, DetachedIs, Zenon
  <2> QED
    BY <1>2, <1>4, <2>1
<1>5. CASE e # r /\ ~Detached(m, r, e)
  <2>1. /\ m[e].up \in 1 .. r /\ e \in Range(m[m[e].up].kids)
        /\ (e < r => e < m[e].up)
    BY <1>5 DEF Shaped
  <2>2. m[m[e].up].kids # <<>> /\ m[e].up \in DOMAIN m
    BY <1>2, <2>1 DEF Range
  <2>3. m[m[e].up].blk
    BY <2>2 DEF Shaped
  <2> QED
    BY <1>2, <1>5, <2>1, <2>2, <2>3
<1> QED
  BY <1>3, <1>4, <1>5

\* A block whose id is asked for is found at once.
LEMMA BlockFromBlock ==
  ASSUME NEW m, NEW r, Shaped(m, r), NEW b \in DOMAIN m, m[b].blk
  PROVE  BlockFrom(m, b) = b
<1> DEFINE S == { c \in DOMAIN m : c >= b /\ m[c].blk }
<1>1. DOMAIN m = 1 .. Len(m) /\ Len(m) \in Nat
  BY Parents
<1>2. S \in SUBSET Nat /\ b \in S /\ b \in Nat /\ \A c \in S : c \in Nat /\ b <= c
  BY <1>1
<1>3. BlockFrom(m, b) = LeastOr0(S)
  BY DEF BlockFrom
<1> HIDE DEF S
<1>4. S # {}
  BY <1>2
<1> DEFINE l == LeastOr0(S)
<1>5. l \in S /\ l <= b
  BY <1>2, <1>4, LeastIs
<1> HIDE DEF l
<1>6. l \in Nat /\ b <= l /\ b \in Nat
  BY <1>2, <1>5
<1>7. l = b
  BY <1>5, <1>6
<1> QED
  BY <1>3, <1>7 DEF l

\* What the search for a block returns is the first one, or nothing.
LEMMA BlockFromIs ==
  ASSUME NEW m, NEW r, Shaped(m, r), NEW e \in Nat
  PROVE  /\ BlockFrom(m, e) \in DOMAIN m \cup {0}
         /\ BlockFrom(m, e) # 0 => m[BlockFrom(m, e)].blk /\ BlockFrom(m, e) >= e
         /\ \A b \in DOMAIN m : b >= e /\ m[b].blk => BlockFrom(m, e) # 0 /\ BlockFrom(m, e) <= b
<1> DEFINE S == { c \in DOMAIN m : c >= e /\ m[c].blk }
<1>1. DOMAIN m = 1 .. Len(m) /\ Len(m) \in Nat
  BY Parents DEF Shaped
<1>2. S \in SUBSET Nat /\ S \subseteq DOMAIN m /\ 0 \notin S
  BY <1>1
<1>3. BlockFrom(m, e) = LeastOr0(S)
  BY DEF BlockFrom
<1>4. \A b : b \in S <=> b \in DOMAIN m /\ b >= e /\ m[b].blk
  OBVIOUS
<1> HIDE DEF S
<1>5. CASE S = {}
  <2>1. BlockFrom(m, e) = 0
    BY <1>3, <1>5 DEF LeastOr0
  <2> QED
    BY <1>4, <1>5, <2>1
<1>6. CASE S # {}
  <2>1. LeastOr0(S) \in S /\ \A x \in S : LeastOr0(S) <= x
    BY <1>2, <1>6, LeastIs
  <2> QED
    BY <1>2, <1>3, <1>4, <2>1
<1> QED
  BY <1>5, <1>6

\* A search that goes on from a block goes on in its parent, or else in what
\* stands behind it, where there are the detached blocks only.
LEMMA OuterIsParent ==
  ASSUME NEW m, NEW r, Shaped(m, r), NEW b \in DOMAIN m
  PROVE  /\ m[b].up # 0 => Outer(m, b) = m[b].up
         /\ m[b].up = 0 => /\ Outer(m, b) = BlockFrom(m, b + 1)
                           /\ Outer(m, b) # 0 => Outer(m, b) > b /\ m[Outer(m, b)].up = 0
         /\ Outer(m, b) \in DOMAIN m \cup {0}
<1>1. CASE m[b].up # 0
  <2>1. m[b].up \in DOMAIN m /\ m[m[b].up].blk
    BY <1>1, Parents
  <2>2. BlockFrom(m, m[b].up) = m[b].up
    BY <2>1, BlockFromBlock
  <2> QED
    BY <1>1, <2>1, <2>2 DEF Outer
<1>2. CASE m[b].up = 0
  <2>1. b >= r /\ DOMAIN m = 1 .. Len(m) /\ Len(m) \in Nat /\ r \in Nat /\ b \in Nat
    BY <1>2, Parents
  <2> DEFINE x == BlockFrom(m, b + 1)
  <2>2. Outer(m, b) = x
    BY <1>2 DEF Outer
  <2>3. x \in DOMAIN m \cup {0} /\ (x # 0 => m[x].blk /\ x >= b + 1)
    BY <2>1, BlockFromIs
  <2> HIDE DEF x
  <2>4. ASSUME x # 0
        PROVE  x > b /\ m[x].up = 0
    <3>1. x \in DOMAIN m /\ x > r /\ x > b /\ m[x].blk
      BY <2>1, <2>3, <2>4
    <3>2. Detached(m, r, x)
      BY <2>1, <3>1 DEF Shaped
    <3> QED
      BY <3>1, <3>2, DetachedIs
  <2> QED
    BY <1>2, <2>2, <2>3, <2>4 DEF x
<1> QED
  BY <1>1, <1>2

\* What lists an entity is its parent, or a detached block.
LEMMA ListedBy ==
  ASSUME NEW m, NEW r, Shaped(m, r), NEW b \in DOMAIN m, NEW e \in Range(m[b].kids)
  PROVE  /\ e \in DOMAIN m /\ m[b].blk
         /\ \/ b <= r /\ m[e].up = b
            \/ Detached(m, r, b) /\ e < r
<1>1. e \in DOMAIN m /\ (b <= r => m[e].up = b) /\ m[b].kids # <<>>
  BY DEF Shaped, Range
<1>2. m[b].blk
  BY <1>1 DEF Shaped
<1>3. DOMAIN m = 1 .. Len(m) /\ Len(m) \in Nat /\ r \in 1 .. Len(m)
  BY Parents
<1>4. CASE b <= r
  BY <1>1, <1>2, <1>4
<1>5. CASE ~(b <= r)
  <2>1. b # r /\ ~(b < r)
    BY <1>3, <1>5
  <2>2. Detached(m, r, b)
    BY <1>2, <2>1 DEF Shaped
  <2>3. e \in 1 .. r - 1
    BY <2>2 DEF Detached
  <2> QED
    BY <1>1, <1>2, <1>3, <2>2, <2>3
<1> QED
  BY <1>4, <1>5

\* What a block lists is there.
LEMMA KidsAre ==
  ASSUME NEW m, NEW r, Shaped(m, r), NEW b \in DOMAIN m
  PROVE  /\ m[b].kids \in Seq(Nat) /\ \A i \in DOMAIN m[b].kids : m[b].kids[i] \in DOMAIN m
         /\ b <= r => \A i \in DOMAIN m[b].kids : m[m[b].kids[i]].up = b
<1>1. m[b].kids \in Seq(Nat)
  BY Parents DEF Entity
<1>2. \A k \in Range(m[b].kids) : k \in DOMAIN m /\ (b <= r => m[k].up = b)
  BY DEF Shaped
<1> QED
  BY <1>1, <1>2 DEF Range

\* The first block behind an entity that lists it is its parent.
LEMMA HoldingIsParent ==
  ASSUME NEW m, NEW r, Shaped(m, r), NEW e \in DOMAIN m, e <= r, m[e].up # 0
  PROVE  BlockHolding(m, e) = m[e].up
<1> DEFINE S == { b \in DOMAIN m : b >= e /\ m[b].blk /\ e \in Range(m[b].kids) }
           u == m[e].up
<1>0. DOMAIN m = 1 .. Len(m) /\ Len(m) \in Nat /\ r \in Nat
  BY Parents
<1>1. \A b \in S : b = u \/ b > r
  <2> SUFFICES ASSUME NEW b \in DOMAIN m, e \in Range(m[b].kids)
               PROVE  b = u \/ b > r
    OBVIOUS
  <2>1. m[e].up = b \/ Detached(m, r, b)
    BY ListedBy
  <2>2. Detached(m, r, b) => b > r
    BY DetachedIs, Zenon
  <2> QED
    BY <2>1, <2>2
<1>2. u \in S /\ u \in Nat /\ u <= r
  <2>1. u \in DOMAIN m /\ u <= r /\ m[u].blk /\ e \in Range(m[u].kids) /\ e < u
    BY Parents
  <2> QED
    BY <1>0, <2>1
<1>3. S \in SUBSET Nat /\ BlockHolding(m, e) = LeastOr0(S)
  BY <1>0 DEF BlockHolding
<1> DEFINE l == LeastOr0(S)
<1> HIDE DEF S, u
<1>4. l \in S /\ l <= u
  BY <1>2, <1>3, LeastIs
<1> HIDE DEF l
<1>5. l \in Nat /\ (l = u \/ l > r)
  BY <1>1, <1>3, <1>4
<1>6. l = u
  BY <1>0, <1>2, <1>4, <1>5
<1> QED
  BY <1>3, <1>6 DEF u, l

-----------------------------------------------------------------------------
(***************************************************************************)
(* Scopes.                                                                 *)
(***************************************************************************)
\* How far an entity is below the root, at most.
Height(m, r) == [x \in DOMAIN m |-> IF x > r THEN r ELSE r - x]

\* The parents of a sorted module lead to its root.
LEMMA ParentsClimb ==
  ASSUME NEW m, NEW r, Shaped(m, r)
  PROVE  Climbable([x \in DOMAIN m |-> m[x].up], Height(m, r), r)
<1> DEFINE up == [x \in DOMAIN m |-> m[x].up]
           h == Height(m, r)
<1>1. DOMAIN m = 1 .. Len(m) /\ Len(m) \in Nat /\ r \in 1 .. Len(m) /\ r \in DOMAIN m
  BY Parents DEF Shaped
<1>2. Len(up) = Len(m)
  BY <1>1
<1>3. ASSUME NEW x \in 1 .. Len(m)
      PROVE  /\ up[x] \in 0 .. Len(m) /\ h[x] \in 0 .. r
             /\ up[x] # 0 => h[up[x]] < h[x]
  <2>1. up[x] = m[x].up /\ m[x].up \in 0 .. Len(m)
    BY <1>1, Parents
  <2>2. h[x] = IF x > r THEN r ELSE r - x
    BY <1>1 DEF Height
  <2>3. h[x] \in 0 .. r
    BY <1>1, <2>2
  <2>4. ASSUME m[x].up # 0
        PROVE  h[m[x].up] < h[x]
    <3>1. m[x].up \in DOMAIN m /\ m[x].up <= r /\ (x <= r => x < m[x].up)
      BY <1>1, <2>4, Parents
    <3>2. h[m[x].up] = r - m[x].up
      BY <1>1, <3>1 DEF Height
    <3> HIDE DEF h, up
    <3> QED
      BY <1>1, <2>2, <3>1, <3>2
  <2> HIDE DEF h, up
  <2> QED
    BY <2>1, <2>3, <2>4
<1> HIDE DEF up, h
<1> QED
  BY <1>1, <1>2, <1>3 DEF Climbable, up, h

\* The blocks around an entity are its parent and the blocks around that.
LEMMA AroundIs ==
  ASSUME NEW m, NEW r, Shaped(m, r), NEW e \in DOMAIN m
  PROVE  Around(m, e) = IF m[e].up = 0 THEN {} ELSE {m[e].up} \cup Around(m, m[e].up)
<1> DEFINE up == [x \in DOMAIN m |-> m[x].up]
<1>1. DOMAIN m = 1 .. Len(m) /\ Len(m) \in Nat
  BY Parents
<1>2. Len(up) = Len(m) /\ up[e] = m[e].up
  BY <1>1
<1>3. Climbable(up, Height(m, r), r)
  BY ParentsClimb
<1>4. \A x : Around(m, x) = Ancestors(up, x)
  BY DEF Around
<1> HIDE DEF up
<1>5. Ancestors(up, e) = IF up[e] = 0 THEN {} ELSE {up[e]} \cup Ancestors(up, up[e])
  BY <1>1, <1>2, <1>3, AncestorsAre
<1> QED
  BY <1>2, <1>4, <1>5

\* Induction from the root down: what every entity has whose parent has it, or
\* that has no parent, all have.
LEMMA FromTheRoot ==
  ASSUME NEW m, NEW r, Shaped(m, r), NEW G,
         \A e \in DOMAIN m : (m[e].up # 0 => m[e].up \in G) => e \in G
  PROVE  DOMAIN m \subseteq G
<1> DEFINE h == Height(m, r)
           S == { k \in Nat : \A e \in DOMAIN m : h[e] < k => e \in G }
<1>0. DOMAIN m = 1 .. Len(m) /\ Len(m) \in Nat /\ r \in 1 .. Len(m) /\ r \in Nat
  BY Parents DEF Shaped
<1>1. \A e \in DOMAIN m : h[e] \in 0 .. r
  BY <1>0 DEF Height
<1>2. \A e \in DOMAIN m : m[e].up # 0 => m[e].up \in DOMAIN m /\ h[m[e].up] < h[e]
  <2> DEFINE up == [x \in DOMAIN m |-> m[x].up]
  <2>1. Climbable(up, h, r)
    BY ParentsClimb
  <2>2. Len(up) = Len(m) /\ \A e \in DOMAIN m : up[e] = m[e].up
    BY <1>0
  <2> HIDE DEF up, h
  <2>3. \A e \in 1 .. Len(m) : up[e] # 0 => h[up[e]] < h[e]
    BY <2>1, <2>2 DEF Climbable, up
  <2> QED
    BY <1>0, <2>2, <2>3, Parents
<1> HIDE DEF h
<1>3. 0 \in S
  BY <1>1
<1>4. ASSUME NEW k \in Nat, k \in S
      PROVE  k + 1 \in S
  <2>1. ASSUME NEW e \in DOMAIN m, h[e] < k + 1
        PROVE  e \in G
    <3>1. ASSUME m[e].up # 0
          PROVE  m[e].up \in G
      <4>1. m[e].up \in DOMAIN m /\ h[m[e].up] < h[e]
        BY <1>2, <3>1
      <4>2. h[m[e].up] \in Nat /\ h[e] \in Nat
        BY <1>1, <4>1
      <4> QED
        BY <1>4, <2>1, <4>1, <4>2
    <3> QED
      BY <3>1
  <2> QED
    BY <2>1
<1>5. r + 1 \in S
  <2> HIDE DEF S
  <2> QED
    BY <1>0, <1>3, <1>4, SetInduction
<1>6. \A e \in DOMAIN m : h[e] < r + 1
  BY <1>0, <1>1
<1> QED
  BY <1>5, <1>6

\* The blocks around an entity have higher ids, up to the root's.
LEMMA AroundHigher ==
  ASSUME NEW m, NEW r, Shaped(m, r)
  PROVE  \A e \in DOMAIN m : \A x \in Around(m, e) :
           x \in DOMAIN m /\ x <= r /\ (e <= r => e < x)
<1> DEFINE Good(e) == \A x \in Around(m, e) : x \in DOMAIN m /\ x <= r /\ (e <= r => e < x)
           G == { e \in DOMAIN m : Good(e) }
<1>0. DOMAIN m = 1 .. Len(m) /\ Len(m) \in Nat /\ r \in 1 .. Len(m) /\ r \in Nat
  BY Parents DEF Shaped
<1>1. ASSUME NEW e \in DOMAIN m, m[e].up # 0 => m[e].up \in G
      PROVE  e \in G
  <2> SUFFICES ASSUME NEW x \in Around(m, e)
               PROVE  x \in DOMAIN m /\ x <= r /\ (e <= r => e < x)
    OBVIOUS
  <2>1. m[e].up # 0 /\ x \in {m[e].up} \cup Around(m, m[e].up)
    BY AroundIs
  <2>2. m[e].up \in DOMAIN m /\ m[e].up <= r /\ (e <= r => e < m[e].up)
    BY <2>1, Parents
  <2>3. CASE x = m[e].up
    BY <2>2, <2>3
  <2>4. CASE x # m[e].up
    <3>1. x \in DOMAIN m /\ x <= r /\ m[e].up < x
      BY <1>1, <2>1, <2>2, <2>4
    <3> QED
      BY <1>0, <2>2, <3>1
  <2> QED
    BY <2>3, <2>4
<1> HIDE DEF G
<1>2. DOMAIN m \subseteq G
  BY <1>1, FromTheRoot
<1> QED
  BY <1>2 DEF G

\* What scoping shows an entity: what its parent has, or shows.
LEMMA SeenIs ==
  ASSUME NEW m, NEW r, Shaped(m, r), NEW e \in DOMAIN m, NEW found
  PROVE  Seen(m, e, found) =
           IF m[e].up = 0 THEN 0
           ELSE IF found[m[e].up] # 0 THEN found[m[e].up] ELSE Seen(m, m[e].up, found)
<1> DEFINE T(x) == { y \in Around(m, x) : found[y] # 0 }
           u == m[e].up
<1>0. DOMAIN m = 1 .. Len(m) /\ Len(m) \in Nat /\ r \in 1 .. Len(m)
  BY Parents DEF Shaped
<1>1. \A x : Seen(m, x, found) = IF Innermost(m, T(x)) = 0 THEN 0 ELSE found[Innermost(m, T(x))]
  BY DEF Seen
<1>2. CASE u = 0
  <2>1. T(e) = {}
    BY <1>2, AroundIs
  <2> HIDE DEF T
  <2>2. Innermost(m, T(e)) = 0
    BY <2>1 DEF Innermost
  <2> QED
    BY <1>1, <1>2, <2>2
<1>3. CASE u # 0 /\ found[u] = 0
  <2>1. T(e) = T(u)
    BY <1>3, AroundIs
  <2> HIDE DEF T
  <2> QED
    BY <1>1, <1>3, <2>1
<1>4. CASE u # 0 /\ found[u] # 0
  <2>1. u \in DOMAIN m /\ u \in 1 .. Len(m)
    BY <1>0, <1>4, Parents
  <2>2. T(e) = {u} \cup T(u)
    BY <1>4, AroundIs
  <2>3. T(e) \ {u} \subseteq Around(m, u)
    BY <2>2
  <2>4. ASSUME NEW b \in T(e), T(e) \ {b} \subseteq Around(m, b)
        PROVE  b = u
    <3> SUFFICES ASSUME b # u
                 PROVE  FALSE
      OBVIOUS
    <3>1. u \in Around(m, b) /\ b \in Around(m, u)
      BY <2>2, <2>4
    <3>2. b \in DOMAIN m /\ b <= r /\ (u <= r => u < b) /\ (b <= r => b < u)
      BY <2>1, <3>1, AroundHigher
    <3>3. u <= r
      BY <1>4, Parents
    <3> QED
      BY <1>0, <2>1, <3>2, <3>3
  <2>5. u \in T(e) /\ T(e) # {}
    BY <2>2
  <2> HIDE DEF T
  <2>6. Innermost(m, T(e)) = u
    <3>1. Innermost(m, T(e)) = CHOOSE b \in T(e) : T(e) \ {b} \subseteq Around(m, b)
      BY <2>5 DEF Innermost
    <3> QED
      BY <2>3, <2>4, <2>5, <3>1
  <2> QED
    BY <1>1, <1>4, <2>6
<1> QED
  BY <1>2, <1>3, <1>4

\* It is an entity, or nothing.
LEMMA SeenType ==
  ASSUME NEW m, NEW r, Shaped(m, r), NEW found,
         \A b \in DOMAIN m : found[b] \in DOMAIN m \cup {0}
  PROVE  \A e \in DOMAIN m : Seen(m, e, found) \in DOMAIN m \cup {0}
<1> DEFINE G == { e \in DOMAIN m : Seen(m, e, found) \in DOMAIN m \cup {0} }
<1>1. ASSUME NEW e \in DOMAIN m, m[e].up # 0 => m[e].up \in G
      PROVE  e \in G
  <2>1. m[e].up # 0 => m[e].up \in DOMAIN m
    BY Parents
  <2> QED
    BY <1>1, <2>1, SeenIs
<1> HIDE DEF G
<1>2. DOMAIN m \subseteq G
  BY <1>1, FromTheRoot
<1> QED
  BY <1>2 DEF G

-----------------------------------------------------------------------------
(***************************************************************************)
(* The search.                                                             *)
(***************************************************************************)
\* What the first block at or behind k has that has something.
AstrayFrom(m, k, found) ==
  LET b == LeastOr0({ x \in DOMAIN m : x >= k /\ m[x].blk /\ found[x] # 0 })
  IN IF b = 0 THEN 0 ELSE found[b]

\* It is what the first block there has, or what is behind that.
LEMMA AstrayStep ==
  ASSUME NEW m, NEW r, Shaped(m, r), NEW k \in Nat, NEW found, NEW x, x = BlockFrom(m, k)
  PROVE  AstrayFrom(m, k, found) =
           IF x = 0 THEN 0 ELSE IF found[x] # 0 THEN found[x] ELSE AstrayFrom(m, x + 1, found)
<1> DEFINE T(j) == { y \in DOMAIN m : y >= j /\ m[y].blk /\ found[y] # 0 }
<1>0. DOMAIN m = 1 .. Len(m) /\ Len(m) \in Nat
  BY Parents DEF Shaped
<1>1. \A j : AstrayFrom(m, j, found) =
               IF LeastOr0(T(j)) = 0 THEN 0 ELSE found[LeastOr0(T(j))]
  BY DEF AstrayFrom
<1>2. /\ x \in DOMAIN m \cup {0} /\ (x # 0 => m[x].blk /\ x >= k)
      /\ \A b \in DOMAIN m : b >= k /\ m[b].blk => x # 0 /\ x <= b
  BY BlockFromIs
<1>3. CASE x = 0
  <2>1. T(k) = {}
    BY <1>2, <1>3
  <2> HIDE DEF T
  <2> QED
    BY <1>1, <1>3, <2>1 DEF LeastOr0
<1>4. CASE x # 0 /\ found[x] # 0
  <2>1. x \in T(k) /\ T(k) \in SUBSET Nat /\ x \in Nat /\ \A y \in T(k) : x <= y
    BY <1>0, <1>2, <1>4
  <2> HIDE DEF T
  <2> DEFINE l == LeastOr0(T(k))
  <2>2. l \in T(k) /\ l <= x
    BY <2>1, LeastIs
  <2> HIDE DEF l
  <2>3. l = x
    BY <2>1, <2>2
  <2> QED
    BY <1>1, <1>4, <2>3 DEF l
<1>5. CASE x # 0 /\ found[x] = 0
  <2>1. T(k) = T(x + 1)
    BY <1>0, <1>2, <1>5
  <2> HIDE DEF T
  <2> QED
    BY <1>1, <1>5, <2>1
<1> QED
  BY <1>3, <1>4, <1>5

\* A solution of Outward's recursion.
Scans(m, found, F) ==
  F = [b \in 0 .. Len(m) |-> IF b = 0 THEN 0
                             ELSE IF found[b] # 0 THEN found[b] ELSE F[Outer(m, b)]]

\* There is one, and it is what the search computes.
LEMMA OutwardScans ==
  ASSUME NEW m, NEW r, Shaped(m, r), NEW found
  PROVE  \E F : Scans(m, found, F) /\ \A start : Outward(m, start, found) = F[start]
<1> DEFINE Past(b) == IF m[b].up = 0 THEN b + 1 ELSE r + 1
           W == [b \in 0 .. Len(m) |->
                   IF b = 0 THEN 0 ELSE IF found[b] # 0 THEN found[b]
                   ELSE IF Seen(m, b, found) # 0 THEN Seen(m, b, found)
                   ELSE AstrayFrom(m, Past(b), found)]
           F == CHOOSE F : Scans(m, found, F)
<1>0. DOMAIN m = 1 .. Len(m) /\ Len(m) \in Nat /\ r \in Nat /\ r \in DOMAIN m
  BY Parents DEF Shaped
<1>1. ASSUME NEW b \in DOMAIN m, m[b].up # 0
      PROVE  W[Outer(m, b)] = IF Seen(m, b, found) # 0 THEN Seen(m, b, found)
                              ELSE AstrayFrom(m, Past(b), found)
  <2> DEFINE u == m[b].up
  <2>1. u # 0 /\ u \in DOMAIN m /\ u <= r /\ Outer(m, b) = u
    BY <1>1, OuterIsParent, Parents
  <2>2. m[u].up = 0 => u >= r
    BY <2>1, Parents
  <2>3. Past(u) = r + 1 /\ Past(b) = r + 1
    BY <1>0, <1>1, <2>1, <2>2
  <2>4. Seen(m, b, found) = IF found[u] # 0 THEN found[u] ELSE Seen(m, u, found)
    BY <1>1, SeenIs
  <2>5. W[u] = IF found[u] # 0 THEN found[u] ELSE IF Seen(m, u, found) # 0 THEN Seen(m, u, found)
               ELSE AstrayFrom(m, Past(u), found)
    BY <1>0, <2>1
  <2> HIDE DEF W, u, Past
  <2> QED
    BY <2>1, <2>3, <2>4, <2>5
<1>2. ASSUME NEW b \in DOMAIN m, m[b].up = 0
      PROVE  W[Outer(m, b)] = AstrayFrom(m, Past(b), found)
  <2> DEFINE x == BlockFrom(m, b + 1)
  <2>1. Outer(m, b) = x /\ x \in DOMAIN m \cup {0} /\ (x # 0 => m[x].up = 0) /\ Past(b) = b + 1
    BY <1>2, OuterIsParent
  <2>2. AstrayFrom(m, b + 1, found) = IF x = 0 THEN 0 ELSE IF found[x] # 0 THEN found[x]
                                      ELSE AstrayFrom(m, x + 1, found)
    <3>1. b + 1 \in Nat
      BY <1>0
    <3> QED
      BY <3>1, AstrayStep
  <2>3. x # 0 => Seen(m, x, found) = 0 /\ Past(x) = x + 1
    BY <2>1, SeenIs
  <2>4. W[x] = IF x = 0 THEN 0 ELSE IF found[x] # 0 THEN found[x]
               ELSE IF Seen(m, x, found) # 0 THEN Seen(m, x, found)
               ELSE AstrayFrom(m, Past(x), found)
    <3>1. x \in 0 .. Len(m)
      BY <1>0, <2>1
    <3> HIDE DEF x
    <3> QED
      BY <3>1
  <2> HIDE DEF W, x, Past
  <2> QED
    BY <2>1, <2>2, <2>3, <2>4
<1>3. Scans(m, found, W)
  <2>1. ASSUME NEW b \in 0 .. Len(m)
        PROVE  W[b] = IF b = 0 THEN 0 ELSE IF found[b] # 0 THEN found[b] ELSE W[Outer(m, b)]
    <3>1. CASE b = 0
      BY <3>1
    <3>2. CASE b # 0
      <4>1. b \in DOMAIN m
        BY <1>0, <3>2
      <4>2. m[b].up = 0 => Seen(m, b, found) = 0
        BY <4>1, SeenIs
      <4>3. W[b] = IF found[b] # 0 THEN found[b]
                   ELSE IF Seen(m, b, found) # 0 THEN Seen(m, b, found)
                   ELSE AstrayFrom(m, Past(b), found)
        BY <3>2
      <4> HIDE DEF W, Past
      <4> QED
        BY <1>1, <1>2, <3>2, <4>1, <4>2, <4>3
    <3> QED
      BY <3>1, <3>2
  <2>2. W = [b \in 0 .. Len(m) |-> W[b]]
    OBVIOUS
  <2> HIDE DEF W
  <2> QED
    BY <2>1, <2>2 DEF Scans
<1>4. Scans(m, found, F)
  BY <1>3
<1>5. \A start : Outward(m, start, found) = F[start]
  BY DEF Outward, Scans
<1> HIDE DEF F
<1> QED
  BY <1>4, <1>5

\* The search, one block further.
LEMMA OutwardStep ==
  ASSUME NEW m, NEW r, Shaped(m, r), NEW found
  PROVE  /\ Outward(m, 0, found) = 0
         /\ \A b \in DOMAIN m : Outward(m, b, found) =
              IF found[b] # 0 THEN found[b] ELSE Outward(m, Outer(m, b), found)
<1>0. DOMAIN m = 1 .. Len(m) /\ Len(m) \in Nat
  BY Parents DEF Shaped
<1>1. PICK F : Scans(m, found, F) /\ \A start : Outward(m, start, found) = F[start]
  BY OutwardScans
<1>2. \A b \in 0 .. Len(m) :
        F[b] = IF b = 0 THEN 0 ELSE IF found[b] # 0 THEN found[b] ELSE F[Outer(m, b)]
  BY <1>1, Zenon DEF Scans
<1>3. 0 \in 0 .. Len(m) /\ \A b \in DOMAIN m : b # 0 /\ b \in 0 .. Len(m)
  BY <1>0
<1> QED
  BY <1>1, <1>2, <1>3

\* Induction along the search: what every entity has from which the search goes on
\* to one that has it, or to none, all have.
LEMMA AlongTheSearch ==
  ASSUME NEW m, NEW r, Shaped(m, r), NEW G,
         \A e \in DOMAIN m : (Outer(m, e) # 0 => Outer(m, e) \in G) => e \in G
  PROVE  DOMAIN m \subseteq G
<1> DEFINE l == Len(m)
           S == { k \in Nat : \A e \in DOMAIN m : m[e].up = 0 /\ e + k > l => e \in G }
<1>0. DOMAIN m = 1 .. l /\ l \in Nat
  BY Parents DEF Shaped
<1> HIDE DEF l
<1>1. 0 \in S
  BY <1>0
<1>2. ASSUME NEW k \in Nat, k \in S
      PROVE  k + 1 \in S
  <2>1. ASSUME NEW e \in DOMAIN m, m[e].up = 0, e + (k + 1) > l
        PROVE  e \in G
    <3> DEFINE x == Outer(m, e)
    <3>1. x \in DOMAIN m \cup {0} /\ (x # 0 => x > e /\ m[x].up = 0)
      BY <2>1, OuterIsParent
    <3> HIDE DEF x
    <3>2. x # 0 => x + k > l
      BY <1>0, <2>1, <3>1
    <3>3. x # 0 => x \in G
      BY <1>2, <3>1, <3>2
    <3> QED
      BY <3>3 DEF x
  <2> QED
    BY <2>1
<1>3. l \in S
  <2> HIDE DEF S
  <2> QED
    BY <1>0, <1>1, <1>2, SetInduction
<1>4. \A e \in DOMAIN m : m[e].up = 0 => e \in G
  BY <1>0, <1>3
<1>5. \A e \in DOMAIN m : (m[e].up # 0 => m[e].up \in G) => e \in G
  BY <1>4, OuterIsParent
<1> QED
  BY <1>5, FromTheRoot

\* A search from the parent of an entity finds what scoping shows the entity, and
\* else what the blocks behind the root have.
LEMMA OutwardIs ==
  ASSUME NEW m, NEW r, Shaped(m, r), NEW found
  PROVE  \A e \in DOMAIN m : m[e].up # 0 =>
           Outward(m, m[e].up, found) =
             IF Seen(m, e, found) # 0 THEN Seen(m, e, found) ELSE AstrayFrom(m, r + 1, found)
<1> DEFINE Is(b) == m[b].up = 0 => Outward(m, Outer(m, b), found) = AstrayFrom(m, b + 1, found)
           D == { b \in DOMAIN m : Is(b) }
           To(e) == m[e].up # 0 => Outward(m, m[e].up, found) =
                      IF Seen(m, e, found) # 0 THEN Seen(m, e, found) ELSE AstrayFrom(m, r + 1, found)
           G == { e \in DOMAIN m : To(e) }
<1>0. DOMAIN m = 1 .. Len(m) /\ Len(m) \in Nat /\ r \in Nat
  BY Parents DEF Shaped
<1>1. ASSUME NEW b \in DOMAIN m, Outer(m, b) # 0 => Outer(m, b) \in D, m[b].up = 0
      PROVE  Outward(m, Outer(m, b), found) = AstrayFrom(m, b + 1, found)
  <2> DEFINE x == Outer(m, b)
  <2>1. x = BlockFrom(m, b + 1) /\ x \in DOMAIN m \cup {0} /\ (x # 0 => m[x].up = 0)
    BY <1>1, OuterIsParent
  <2>2. AstrayFrom(m, b + 1, found) = IF x = 0 THEN 0 ELSE IF found[x] # 0 THEN found[x]
                                      ELSE AstrayFrom(m, x + 1, found)
    <3>1. b + 1 \in Nat
      BY <1>0
    <3> QED
      BY <2>1, <3>1, AstrayStep
  <2>3. Outward(m, x, found) = IF x = 0 THEN 0 ELSE IF found[x] # 0 THEN found[x]
                               ELSE Outward(m, Outer(m, x), found)
    BY <2>1, OutwardStep
  <2>4. x # 0 => Outward(m, Outer(m, x), found) = AstrayFrom(m, x + 1, found)
    BY <1>1, <2>1
  <2> HIDE DEF x
  <2> QED
    BY <2>2, <2>3, <2>4 DEF x
<1>2. DOMAIN m \subseteq D
  <2>1. \A b \in DOMAIN m : (Outer(m, b) # 0 => Outer(m, b) \in D) => b \in D
    BY <1>1
  <2> HIDE DEF D
  <2> QED
    BY <2>1, AlongTheSearch
<1>3. ASSUME NEW e \in DOMAIN m, m[e].up # 0 => m[e].up \in G, m[e].up # 0
      PROVE  To(e)
  <2> DEFINE u == m[e].up
  <2>1. u # 0 /\ u \in DOMAIN m /\ u <= r /\ (m[u].up = 0 => u >= r) /\ To(u)
    BY <1>3, Parents
  <2>2. Seen(m, e, found) = IF found[u] # 0 THEN found[u] ELSE Seen(m, u, found)
    BY <1>3, SeenIs
  <2>3. Outward(m, u, found) = IF found[u] # 0 THEN found[u] ELSE Outward(m, Outer(m, u), found)
    BY <2>1, OutwardStep
  <2>4. CASE m[u].up # 0
    <3>1. Outer(m, u) = m[u].up
      BY <2>1, <2>4, OuterIsParent
    <3> QED
      BY <2>1, <2>2, <2>3, <2>4, <3>1
  <2>5. CASE m[u].up = 0
    <3>1. u = r /\ Seen(m, u, found) = 0
      BY <1>0, <2>1, <2>5, SeenIs
    <3>2. Outward(m, Outer(m, u), found) = AstrayFrom(m, u + 1, found)
      BY <1>2, <2>1, <2>5
    <3> QED
      BY <2>2, <2>3, <3>1, <3>2
  <2> QED
    BY <2>4, <2>5
<1>4. DOMAIN m \subseteq G
  <2>1. \A e \in DOMAIN m : (m[e].up # 0 => m[e].up \in G) => e \in G
    BY <1>3
  <2> HIDE DEF G
  <2> QED
    BY <2>1, FromTheRoot
<1> QED
  BY <1>4

\* What it finds is what blocks have, or nothing.
LEMMA OutwardType ==
  ASSUME NEW m, NEW r, Shaped(m, r), NEW found, NEW start \in DOMAIN m \cup {0}, NEW T,
         \A b \in DOMAIN m : found[b] \in T \cup {0}
  PROVE  Outward(m, start, found) \in T \cup {0}
<1> DEFINE G == { b \in DOMAIN m : Outward(m, b, found) \in T \cup {0} }
<1>1. ASSUME NEW b \in DOMAIN m, Outer(m, b) # 0 => Outer(m, b) \in G
      PROVE  b \in G
  BY <1>1, OutwardStep
<1> HIDE DEF G
<1>2. DOMAIN m \subseteq G
  BY <1>1, AlongTheSearch
<1> QED
  BY <1>2, OutwardStep DEF G

\* What stands in the tree.
Held(m) == { e \in DOMAIN m : m[e].up # 0 }

\* The first child of a block that is in some set stands there.
LEMMA FirstKidType ==
  ASSUME NEW m, NEW r, Shaped(m, r), NEW b \in DOMAIN m, NEW S
  PROVE  FirstKid(m, b, S) \in Held(m) \cup {0}
<1> DEFINE at == { i \in DOMAIN m[b].kids : m[b].kids[i] \in S }
<1>1. m[b] \in Entity
  BY Parents
<1>2. m[b].kids \in Seq(Nat)
  BY <1>1 DEF Entity
<1>3. at \in SUBSET Nat
  BY <1>2
<1>4. ASSUME at # {}
      PROVE  m[b].kids[Min(at)] \in Held(m)
  <2>1. LeastOr0(at) = Min(at)
    BY <1>4 DEF LeastOr0
  <2>2. Min(at) \in at
    <3> HIDE DEF at
    <3> QED
      BY <1>3, <1>4, <2>1, LeastIs
  <2>3. Min(at) \in DOMAIN m[b].kids
    BY <2>2
  <2> HIDE DEF at
  <2> DEFINE k == m[b].kids[Min(at)]
  <2>4. k \in Range(m[b].kids)
    BY <2>3 DEF Range
  <2> HIDE DEF k
  <2>5. k \in DOMAIN m /\ ((b <= r /\ m[k].up = b) \/ k < r)
    BY <2>4, ListedBy
  <2>6. DOMAIN m = 1 .. Len(m) /\ Len(m) \in Nat /\ r \in Nat
    BY Parents
  <2>7. k < r => m[k].up # 0
    BY <2>5, <2>6, Parents
  <2>8. m[k].up # 0
    BY <2>5, <2>6, <2>7
  <2> QED
    BY <2>5, <2>8 DEF k, Held
<1> HIDE DEF at
<1>5. FirstKid(m, b, S) = IF at = {} THEN 0 ELSE m[b].kids[Min(at)]
  BY DEF FirstKid, at
<1> QED
  BY <1>4, <1>5

\* So are what a block has of a name, and what it has of a namespace.
LEMMA NamedType ==
  ASSUME NEW m, NEW r, Shaped(m, r), NEW b \in DOMAIN m, NEW n
  PROVE  Named(m, b, n) \in Held(m) \cup {0} /\ Space(m, b, n) \in Held(m) \cup {0}
BY FirstKidType DEF Named, Space

\* A solution of Inside's recursion.
Enters(m, b, p, H) ==
  H = [i \in 1 .. Len(p) - 1 |->
         IF i = 1 THEN b ELSE IF H[i - 1] = 0 THEN 0 ELSE Space(m, H[i - 1], p[i])]

\* A dotted name leads from namespace to namespace.
LEMMA EntersExists ==
  ASSUME NEW m, NEW b, NEW p, Len(p) \in Nat
  PROVE  \E H : Enters(m, b, p, H)
<1> DEFINE I == 1 .. Len(p) - 1
           At(H, i) == IF i = 1 THEN b ELSE IF H[i - 1] = 0 THEN 0 ELSE Space(m, H[i - 1], p[i])
           Good(H, k) == \A i \in I : i <= k => H[i] = At(H, i)
           S == { k \in Nat : \E H : Good(H, k) }
<1>1. 0 \in S
  <2>1. \A i \in I : ~(i <= 0)
    OBVIOUS
  <2>2. Good(0, 0)
    BY <2>1
  <2> HIDE DEF Good
  <2> QED
    BY <2>2
<1>2. ASSUME NEW k \in Nat, k \in S
      PROVE  k + 1 \in S
  <2>1. PICK H : Good(H, k)
    BY <1>2
  <2> DEFINE J == [i \in I |-> At(H, i)]
  <2>2. \A i \in I : i <= k => J[i] = H[i]
    BY <2>1
  <2>3. ASSUME NEW i \in I, i <= k + 1
        PROVE  J[i] = At(J, i)
    <3>1. CASE i = 1
      BY <3>1
    <3>2. CASE i # 1
      <4>1. i - 1 \in I /\ i - 1 <= k
        BY <2>3, <3>2
      <4>2. J[i - 1] = H[i - 1]
        BY <2>2, <4>1
      <4> QED
        BY <4>2
    <3> QED
      BY <3>1, <3>2
  <2> HIDE DEF J, At
  <2>4. Good(J, k + 1)
    BY <2>3
  <2> HIDE DEF Good
  <2> QED
    BY <2>4
<1>3. Len(p) \in S
  <2> HIDE DEF S
  <2> QED
    BY <1>1, <1>2, SetInduction
<1>4. PICK H : Good(H, Len(p))
  BY <1>3
<1> DEFINE J == [i \in I |-> H[i]]
<1>5. \A i \in I : J[i] = At(H, i)
  BY <1>4
<1>6. ASSUME NEW i \in I
      PROVE  At(J, i) = At(H, i)
  <2>1. CASE i = 1
    BY <2>1
  <2>2. CASE i # 1
    <3>1. i - 1 \in I
      BY <2>2
    <3> QED
      BY <3>1
  <2> QED
    BY <2>1, <2>2
<1>7. J = [i \in I |-> At(J, i)]
  <2>1. \A i \in I : J[i] = At(J, i)
    BY <1>5, <1>6
  <2>2. J = [i \in I |-> J[i]]
    OBVIOUS
  <2> HIDE DEF J, At
  <2> QED
    BY <2>1, <2>2
<1> HIDE DEF J
<1>8. Enters(m, b, p, J)
  BY <1>7 DEF Enters
<1> QED
  BY <1>8

\* What it leads to is an entity, or nothing.
LEMMA InsideType ==
  ASSUME NEW m, NEW r, Shaped(m, r), NEW b \in Held(m) \cup {0}, NEW p,
         Len(p) \in Nat \ {0, 1}
  PROVE  Inside(m, b, p) \in Held(m) \cup {0}
<1> DEFINE H == CHOOSE H : Enters(m, b, p, H)
           n == Len(p) - 1
           S == { k \in Nat : k + 1 <= n => H[k + 1] \in Held(m) \cup {0} }
<1>0. n \in Nat \ {0}
  OBVIOUS
<1>1. Enters(m, b, p, H)
  BY EntersExists
<1>2. Inside(m, b, p) = IF H[n] = 0 THEN 0 ELSE Named(m, H[n], Last(p))
  BY DEF Inside, Enters
<1> HIDE DEF H
<1>3. \A i \in 1 .. n : H[i] = IF i = 1 THEN b ELSE IF H[i - 1] = 0 THEN 0
                               ELSE Space(m, H[i - 1], p[i])
  BY <1>1, Zenon DEF Enters
<1> HIDE DEF n
<1>4. 0 \in S
  <2>1. 1 \in 1 .. n
    BY <1>0
  <2>2. H[1] = b
    BY <1>3, <2>1
  <2> QED
    BY <2>2
<1>5. ASSUME NEW k \in Nat, k \in S
      PROVE  k + 1 \in S
  <2>1. ASSUME k + 2 <= n
        PROVE  H[k + 2] \in Held(m) \cup {0}
    <3>1. H[k + 1] \in Held(m) \cup {0}
      BY <1>0, <1>5, <2>1
    <3>2. k + 2 \in 1 .. n /\ k + 2 # 1 /\ (k + 2) - 1 = k + 1
      BY <1>0, <2>1
    <3>3. H[k + 2] = IF H[k + 1] = 0 THEN 0 ELSE Space(m, H[k + 1], p[k + 2])
      BY <1>3, <3>2
    <3> QED
      BY <3>1, <3>3, NamedType DEF Held
  <2> QED
    BY <2>1
<1>6. n - 1 \in S
  <2> HIDE DEF S
  <2> QED
    BY <1>0, <1>4, <1>5, SetInduction
<1>7. H[n] \in Held(m) \cup {0}
  BY <1>0, <1>6
<1> QED
  BY <1>2, <1>7, NamedType DEF Held

\* So a lookup is resolved to an entity of the tree, or not at all.
LEMMA ResolveType ==
  ASSUME NEW m, NEW r, Shaped(m, r), NEW e \in DOMAIN m, NEW strict,
         NEW p \in Seq(STRING) \ {<<>>}
  PROVE  Resolve(m, e, p, strict) \in Held(m) \cup {0}
<1> DEFINE start == IF strict THEN BlockHolding(m, e) ELSE BlockFrom(m, e)
           named == [b \in DOMAIN m |-> Named(m, b, p[1])]
           space == [b \in DOMAIN m |-> Space(m, b, p[1])]
<1>0. Len(p) \in Nat \ {0}
  OBVIOUS
<1>1. start \in DOMAIN m \cup {0}
  <2>1. DOMAIN m = 1 .. Len(m) /\ Len(m) \in Nat
    BY Parents
  <2> DEFINE A == { b \in DOMAIN m : b >= e /\ m[b].blk }
             B == { b \in DOMAIN m : b >= e /\ m[b].blk /\ e \in Range(m[b].kids) }
  <2>2. A \in SUBSET Nat /\ B \in SUBSET Nat /\ A \subseteq DOMAIN m /\ B \subseteq DOMAIN m
    BY <2>1
  <2>3. BlockFrom(m, e) = LeastOr0(A) /\ BlockHolding(m, e) = LeastOr0(B)
    BY DEF BlockFrom, BlockHolding
  <2> HIDE DEF A, B
  <2> QED
    BY <2>2, <2>3, LeastIn
<1>2. \A b \in DOMAIN m : named[b] \in Held(m) \cup {0} /\ space[b] \in Held(m) \cup {0}
  BY NamedType DEF Held
<1>3. Resolve(m, e, p, strict) = IF Len(p) = 1 THEN Outward(m, start, named)
                                 ELSE Inside(m, Outward(m, start, space), p)
  BY DEF Resolve
<1> HIDE DEF start, named, space
<1>4. Outward(m, start, named) \in Held(m) \cup {0}
  BY <1>1, <1>2, OutwardType
<1>5. Outward(m, start, space) \in Held(m) \cup {0}
  BY <1>1, <1>2, OutwardType
<1>6. Len(p) # 1 => Inside(m, Outward(m, start, space), p) \in Held(m) \cup {0}
  BY <1>0, <1>5, InsideType
<1> QED
  BY <1>3, <1>4, <1>6

\* For every entity the sort has numbered, a strict search is lexical scoping, and
\* behind that what the blocks have that stand behind the root.
LEMMA StrictIsLexical ==
  ASSUME NEW m, NEW r, Shaped(m, r), Root = r, NEW e \in DOMAIN m, e <= r, m[e].up # 0, NEW p
  PROVE  Resolve(m, e, p, TRUE) = IF InScope(m, e, p) THEN Lexical(m, e, p) ELSE OutOfScope(m, p)
<1> DEFINE named == [b \in DOMAIN m |-> Named(m, b, p[1])]
           space == [b \in DOMAIN m |-> Space(m, b, p[1])]
           u == m[e].up
<1>0. DOMAIN m = 1 .. Len(m) /\ Len(m) \in Nat /\ r \in Nat
  BY Parents DEF Shaped
<1>1. BlockHolding(m, e) = u
  BY HoldingIsParent
<1>2. ASSUME NEW found
      PROVE  Outward(m, u, found) =
               IF Seen(m, e, found) # 0 THEN Seen(m, e, found) ELSE Astray(m, found)
  <2>1. { x \in DOMAIN m : x > r /\ m[x].blk /\ found[x] # 0 }
          = { x \in DOMAIN m : x >= r + 1 /\ m[x].blk /\ found[x] # 0 }
    BY <1>0
  <2>2. Astray(m, found) = AstrayFrom(m, r + 1, found)
    BY <2>1 DEF Astray, AstrayFrom
  <2> QED
    BY <2>2, OutwardIs
<1>3. Resolve(m, e, p, TRUE) = IF Len(p) = 1 THEN Outward(m, BlockHolding(m, e), named)
                               ELSE Inside(m, Outward(m, BlockHolding(m, e), space), p)
  BY DEF Resolve
<1>4. Lexical(m, e, p) = IF Len(p) = 1 THEN Seen(m, e, named) ELSE Inside(m, Seen(m, e, space), p)
  BY DEF Lexical
<1>5. OutOfScope(m, p) = IF Len(p) = 1 THEN Astray(m, named) ELSE Inside(m, Astray(m, space), p)
  BY DEF OutOfScope
<1>6. InScope(m, e, p) = (IF Len(p) = 1 THEN Seen(m, e, named) # 0 ELSE Seen(m, e, space) # 0)
  <2>1. CASE Len(p) = 1
    BY <2>1 DEF InScope
  <2>2. CASE Len(p) # 1
    BY <2>2 DEF InScope
  <2> QED
    BY <2>1, <2>2
<1> HIDE DEF named, space, u
<1>7. /\ Outward(m, u, named) = IF Seen(m, e, named) # 0 THEN Seen(m, e, named) ELSE Astray(m, named)
      /\ Outward(m, u, space) = IF Seen(m, e, space) # 0 THEN Seen(m, e, space) ELSE Astray(m, space)
  BY <1>2
<1>8. CASE Len(p) = 1
  BY <1>1, <1>3, <1>4, <1>5, <1>6, <1>7, <1>8
<1>9. CASE Len(p) # 1
  BY <1>1, <1>3, <1>4, <1>5, <1>6, <1>7, <1>9
<1> QED
  BY <1>8, <1>9

\* The first child in a set, and none before it.
LEMMA FirstKidIs ==
  ASSUME NEW m, NEW b, m[b].kids \in Seq(Nat), NEW S
  PROVE  \/ FirstKid(m, b, S) = 0 /\ \A i \in DOMAIN m[b].kids : m[b].kids[i] \notin S
         \/ \E i \in DOMAIN m[b].kids :
              /\ FirstKid(m, b, S) = m[b].kids[i] /\ m[b].kids[i] \in S
              /\ \A j \in DOMAIN m[b].kids : m[b].kids[j] \in S => i <= j
<1> DEFINE at == { i \in DOMAIN m[b].kids : m[b].kids[i] \in S }
<1>1. at \in SUBSET Nat
  OBVIOUS
<1>2. CASE at = {}
  BY <1>2 DEF FirstKid
<1>3. CASE at # {}
  <2>1. LeastOr0(at) = Min(at)
    BY <1>3 DEF LeastOr0
  <2>2. Min(at) \in at /\ \A j \in at : Min(at) <= j
    <3> HIDE DEF at
    <3> QED
      BY <1>1, <1>3, <2>1, LeastIs
  <2>3. FirstKid(m, b, S) = m[b].kids[Min(at)]
    BY <1>3 DEF FirstKid
  <2>4. Min(at) \in DOMAIN m[b].kids /\ m[b].kids[Min(at)] \in S
    BY <2>2
  <2>5. \A j \in DOMAIN m[b].kids : m[b].kids[j] \in S => Min(at) <= j
    BY <2>2
  <2> QED
    BY <2>3, <2>4, <2>5
<1> QED
  BY <1>2, <1>3

\* A search that starts inside f and finds nothing there comes to f.
LEMMA ClimbsTo ==
  ASSUME NEW m, NEW r, Shaped(m, r), NEW f \in DOMAIN m, NEW found, found[f] # 0,
         \A e \in DOMAIN m : f \in Around(m, e) => found[e] = 0
  PROVE  \A e \in DOMAIN m : f \in Around(m, e) => Outward(m, e, found) = found[f]
<1> DEFINE G == { e \in DOMAIN m : f \in Around(m, e) => Outward(m, e, found) = found[f] }
<1>1. Outward(m, f, found) = found[f]
  BY OutwardStep
<1>2. ASSUME NEW e \in DOMAIN m, m[e].up # 0 => m[e].up \in G, f \in Around(m, e)
      PROVE  Outward(m, e, found) = found[f]
  <2>1. m[e].up # 0 /\ (f = m[e].up \/ f \in Around(m, m[e].up))
    BY <1>2, AroundIs
  <2>2. Outward(m, e, found) = Outward(m, m[e].up, found)
    BY <1>2, <2>1, OutwardStep, OuterIsParent
  <2> QED
    BY <1>1, <1>2, <2>1, <2>2
<1>3. DOMAIN m \subseteq G
  <2>1. \A e \in DOMAIN m : (m[e].up # 0 => m[e].up \in G) => e \in G
    BY <1>2
  <2> HIDE DEF G
  <2> QED
    BY <2>1, FromTheRoot
<1> QED
  BY <1>3

-----------------------------------------------------------------------------
(***************************************************************************)
(* Types and the walk.                                                     *)
(***************************************************************************)
\* One step along next from what is in go, and what those behind it lead to.
Follow(go, next, n, g) == [t \in Ids |-> IF n > 0 /\ t \in go THEN g[next[t]] ELSE t]

Followed(F, go, next) == F = [n \in 0 .. Len(ent) |-> Follow(go, next, n, F[n - 1])]

\* Such a recursion has a solution.
LEMMA FollowedExists ==
  ASSUME Len(ent) \in Nat, NEW go, NEW next
  PROVE  \E F : Followed(F, go, next)
<1> DEFINE N == 0 .. Len(ent)
           Good(F, k) == \A n \in N : n <= k => F[n] = Follow(go, next, n, F[n - 1])
           S == { k \in Nat : \E F : Good(F, k) }
<1>1. ASSUME NEW g, NEW h
      PROVE  Follow(go, next, 0, g) = Follow(go, next, 0, h)
  BY DEF Follow
<1>2. 0 \in S
  <2> DEFINE F == [n \in {0} |-> Follow(go, next, 0, 0)]
  <2>1. ASSUME NEW n \in N, n <= 0
        PROVE  F[n] = Follow(go, next, n, F[n - 1])
    <3>1. n = 0
      BY <2>1
    <3>2. F[0] = Follow(go, next, 0, 0)
      OBVIOUS
    <3> HIDE DEF F
    <3> QED
      BY <1>1, <3>1, <3>2
  <2> HIDE DEF F
  <2>2. Good(F, 0)
    BY <2>1
  <2> HIDE DEF Good
  <2> QED
    BY <2>2
<1>3. ASSUME NEW k \in Nat, k \in S
      PROVE  k + 1 \in S
  <2>1. PICK H : Good(H, k)
    BY <1>3
  <2> DEFINE J == [n \in N |-> Follow(go, next, n, H[n - 1])]
  <2>2. \A n \in N : n <= k => J[n] = H[n]
    BY <2>1
  <2>3. ASSUME NEW n \in N, n <= k + 1
        PROVE  J[n] = Follow(go, next, n, J[n - 1])
    <3>0. J[n] = Follow(go, next, n, H[n - 1])
      OBVIOUS
    <3>1. CASE n = 0
      <4> HIDE DEF J
      <4> QED
        BY <1>1, <3>0, <3>1
    <3>2. CASE n # 0
      <4>1. n - 1 \in N /\ n - 1 <= k
        BY <2>3, <3>2
      <4> HIDE DEF J
      <4>2. J[n - 1] = H[n - 1]
        BY <2>2, <4>1
      <4> QED
        BY <3>0, <4>2
    <3> QED
      BY <3>1, <3>2
  <2> HIDE DEF J
  <2>4. Good(J, k + 1)
    BY <2>3
  <2> HIDE DEF Good
  <2> QED
    BY <2>4
<1>4. Len(ent) \in S
  <2> HIDE DEF S
  <2> QED
    BY <1>2, <1>3, SetInduction
<1>5. PICK H : Good(H, Len(ent))
  BY <1>4
<1> DEFINE J == [n \in N |-> H[n]]
<1>6. ASSUME NEW n \in N
      PROVE  J[n] = Follow(go, next, n, J[n - 1])
  <2>0. J[n] = Follow(go, next, n, H[n - 1])
    BY <1>5
  <2>1. CASE n = 0
    <3> HIDE DEF J
    <3> QED
      BY <1>1, <2>0, <2>1
  <2>2. CASE n # 0
    <3>1. n - 1 \in N
      BY <2>2
    <3>2. J[n - 1] = H[n - 1]
      BY <3>1
    <3> HIDE DEF J
    <3> QED
      BY <2>0, <3>2
  <2> QED
    BY <2>1, <2>2
<1>7. J = [n \in N |-> J[n]]
  OBVIOUS
<1> HIDE DEF J
<1>8. Followed(J, go, next)
  BY <1>6, <1>7 DEF Followed
<1> QED
  BY <1>8

\* Solutions of the recursions of FunctionType and FinalType.
Through(n, g) ==
  [t \in Ids |-> IF n > 0 /\ Modifies(t) THEN g[bind[<<t, "input", 1>>]] ELSE t]

Unmodified(F) == F = [n \in 0 .. Len(ent) |-> Through(n, F[n - 1])]

AliasOf(n, g) ==
  [t \in Ids |-> IF n > 0 /\ <<t, "alias", 1>> \in DOMAIN bind
                 THEN g[bind[<<t, "alias", 1>>]] ELSE t]

Unaliased(F) == F = [n \in 0 .. Len(ent) |-> AliasOf(n, F[n - 1])]

\* FunctionType goes by one.
LEMMA UnmodifiedExists ==
  ASSUME Len(ent) \in Nat
  PROVE  \E F : Unmodified(F)
<1> DEFINE go == { t \in Ids : Modifies(t) }
           next == [t \in Ids |-> bind[<<t, "input", 1>>]]
<1>1. ASSUME NEW n, NEW g
      PROVE  Follow(go, next, n, g) = Through(n, g)
  BY DEF Follow, Through
<1> HIDE DEF go, next
<1>2. PICK F : Followed(F, go, next)
  BY FollowedExists
<1>3. Unmodified(F)
  BY <1>1, <1>2 DEF Followed, Unmodified
<1> QED
  BY <1>3

\* So does FinalType.
LEMMA UnaliasedExists ==
  ASSUME Len(ent) \in Nat
  PROVE  \E F : Unaliased(F)
<1> DEFINE go == { t \in Ids : <<t, "alias", 1>> \in DOMAIN bind }
           next == [t \in Ids |-> bind[<<t, "alias", 1>>]]
<1>1. ASSUME NEW n, NEW g
      PROVE  Follow(go, next, n, g) = AliasOf(n, g)
  BY DEF Follow, AliasOf
<1> HIDE DEF go, next
<1>2. PICK F : Followed(F, go, next)
  BY FollowedExists
<1>3. Unaliased(F)
  BY <1>1, <1>2 DEF Followed, Unaliased
<1> QED
  BY <1>3

\* What a type is behind its modifiers is one of the entities that lookups are bound to.
LEMMA FunctionTypeIs ==
  ASSUME Len(ent) \in Nat, NEW T \in SUBSET Ids, \A s \in DOMAIN bind : bind[s] \in T,
         NEW e, <<e, "type", 1>> \in DOMAIN bind
  PROVE  FunctionType(e) \in T
<1> DEFINE F == CHOOSE F : Unmodified(F)
           S == { k \in Nat : k <= Len(ent) => \A t \in T : F[k][t] \in T }
<1>1. Unmodified(F)
  BY UnmodifiedExists
<1>2. FunctionType(e) = F[Len(ent)][bind[<<e, "type", 1>>]]
  BY DEF FunctionType, Unmodified, Through
<1> HIDE DEF F
<1>3. \A n \in 0 .. Len(ent) : F[n] = Through(n, F[n - 1])
  BY <1>1, Zenon DEF Unmodified
<1>4. 0 \in S
  <2>1. F[0] = Through(0, F[0 - 1])
    BY <1>3
  <2>2. \A t \in T : F[0][t] = t
    BY <2>1 DEF Through
  <2> QED
    BY <2>2
<1>5. ASSUME NEW k \in Nat, k \in S
      PROVE  k + 1 \in S
  <2>1. ASSUME k + 1 <= Len(ent), NEW t \in T
        PROVE  F[k + 1][t] \in T
    <3>1. \A x \in T : F[k][x] \in T
      BY <1>5, <2>1
    <3>2. F[k + 1] = Through(k + 1, F[k])
      <4>1. k + 1 \in 0 .. Len(ent) /\ (k + 1) - 1 = k
        BY <2>1
      <4> QED
        BY <1>3, <4>1
    <3> DEFINE to == bind[<<t, "input", 1>>]
    <3>3. F[k + 1][t] \in {F[k][to], t} /\ (F[k + 1][t] = t \/ <<t, "input", 1>> \in DOMAIN bind)
      BY <3>2 DEF Through, Modifies
    <3>4. <<t, "input", 1>> \in DOMAIN bind => to \in T
      OBVIOUS
    <3> HIDE DEF to
    <3> QED
      BY <3>1, <3>3, <3>4
  <2> QED
    BY <2>1
<1>6. Len(ent) \in S
  <2> HIDE DEF S
  <2> QED
    BY <1>4, <1>5, SetInduction
<1> QED
  BY <1>2, <1>6

\* The root is the first without a parent.
LEMMA FirstIsRoot ==
  ASSUME NEW m, NEW r, Shaped(m, r)
  PROVE  Min({ e \in 1 .. Len(m) : m[e].up = 0 }) = r
<1> DEFINE S == { e \in 1 .. Len(m) : m[e].up = 0 }
           l == Min(S)
<1>0. DOMAIN m = 1 .. Len(m) /\ Len(m) \in Nat /\ r \in DOMAIN m /\ m[r].up = 0
  BY Parents DEF Shaped
<1>1. S \in SUBSET Nat /\ r \in S /\ r \in Nat
  BY <1>0
<1>2. \A e \in S : r <= e
  BY <1>0, Parents
<1> HIDE DEF S
<1>3. LeastOr0(S) = l
  BY <1>1 DEF LeastOr0
<1>4. l \in S /\ l <= r
  BY <1>1, <1>3, LeastIs
<1> HIDE DEF l
<1>5. l = r
  BY <1>1, <1>2, <1>4
<1> QED
  BY <1>5 DEF l, S

LEMMA RootIs ==
  ASSUME NEW r, Shaped(ent, r)
  PROVE  Root = r
BY FirstIsRoot DEF Root, Ids

\* A walk comes to every entity in the tree, parameters that were pushed included.
LEMMA WalkSeesAll ==
  ASSUME NEW r, Shaped(ent, r)
  PROVE  Walk \in Seq(Ids) /\ \A e \in Ids : e = r \/ ent[e].up # 0 => e \in Range(Walk)
<1> DEFINE rank == [e \in Ids |-> IF Detached(ent, r, e) THEN r + 1 ELSE IF e > r THEN 0 ELSE e]
           C == { e \in Ids : e = r \/ ent[e].up # 0 }
<1>0. DOMAIN ent = Ids /\ Len(ent) \in Nat /\ r \in Ids /\ r \in Nat /\ r <= Len(ent) /\ Ids \subseteq Nat
  BY Parents DEF Shaped, Ids
<1>11. \A x : Detached(ent, r, x) => x > r /\ ent[x].up = 0
  BY DetachedIs, Zenon
<1>1. DOMAIN Kids = Ids /\ \A e \in Ids : Kids[e] = ent[e].kids
  BY DEF Kids
<1>2. \A e \in Ids : Kids[e] \in Seq(Ids)
  <2> TAKE e \in Ids
  <2>1. ent[e] \in Entity
    BY <1>0, Parents
  <2>2. ent[e].kids \in Seq(Nat)
    BY <2>1 DEF Entity
  <2>3. \A i \in 1 .. Len(ent[e].kids) : ent[e].kids[i] \in Ids
    <3> TAKE i \in 1 .. Len(ent[e].kids)
    <3>1. ent[e].kids[i] \in Range(ent[e].kids)
      BY <2>2 DEF Range
    <3> QED
      BY <1>0, <3>1, ListedBy
  <2> QED
    BY <1>1, <2>2, <2>3
<1>3. \A e \in Ids : rank[e] \in 0 .. r + 1
  BY <1>0
<1>4. ASSUME NEW e \in Ids, NEW i \in 1 .. Len(Kids[e])
      PROVE  rank[Kids[e][i]] < rank[e]
  <2> DEFINE k == Kids[e][i]
  <2>1. k \in Range(ent[e].kids)
    BY <1>1, <1>2 DEF Range
  <2> HIDE DEF k
  <2>2. /\ k \in Ids
        /\ \/ e <= r /\ ent[k].up = e
           \/ Detached(ent, r, e) /\ k < r
    BY <1>0, <2>1, ListedBy
  <2>3. rank[k] = IF Detached(ent, r, k) THEN r + 1 ELSE IF k > r THEN 0 ELSE k
    BY <2>2
  <2>4. rank[e] = IF Detached(ent, r, e) THEN r + 1 ELSE IF e > r THEN 0 ELSE e
    OBVIOUS
  <2> HIDE DEF rank
  <2>5. ASSUME e <= r, ent[k].up = e
        PROVE  rank[k] < rank[e]
    <3>1. e # 0 /\ ~Detached(ent, r, k) /\ ~Detached(ent, r, e)
      BY <1>0, <1>11, <2>5
    <3>2. k <= r => k < e
      BY <1>0, <2>2, <2>5, <3>1, Parents
    <3>3. rank[k] = IF k > r THEN 0 ELSE k
      BY <2>3, <3>1
    <3>4. rank[e] = e /\ k \in Nat /\ e \in Nat
      BY <1>0, <2>2, <2>4, <2>5, <3>1
    <3> QED
      BY <1>0, <3>1, <3>2, <3>3, <3>4
  <2>6. ASSUME Detached(ent, r, e), k < r
        PROVE  rank[k] < rank[e]
    <3>1. ~Detached(ent, r, k) /\ k \in Nat
      BY <1>0, <1>11, <2>2, <2>6
    <3>2. rank[k] = k /\ rank[e] = r + 1
      BY <1>0, <2>3, <2>4, <2>6, <3>1
    <3> QED
      BY <1>0, <2>6, <3>1, <3>2
  <2>7. rank[k] < rank[e]
    BY <2>2, <2>5, <2>6
  <2> QED
    BY <2>7 DEF k
<1>5. rank \in [Ids -> 0 .. r + 1]
  BY <1>3
<1>6. Kids \in [Ids -> Seq(Ids)]
  BY <1>1, <1>2 DEF Kids
<1> HIDE DEF rank
<1>7. Ranked(Kids, rank, r + 1)
  BY <1>0, <1>1, <1>4, <1>5, <1>6 DEF Ranked
<1>8. \A e \in C \ {r} : \E b \in C : e \in Range(Kids[b])
  <2> SUFFICES ASSUME NEW e \in C, e # r
               PROVE  \E b \in C : e \in Range(Kids[b])
    OBVIOUS
  <2> DEFINE u == ent[e].up
  <2>1. u \in Ids /\ e \in Range(ent[u].kids) /\ u <= r
    BY <1>0, Parents
  <2>2. u = r \/ ent[u].up # 0
    BY <1>0, <2>1, Parents
  <2> QED
    BY <1>1, <2>1, <2>2
<1>9. C \in SUBSET DOMAIN Kids /\ r \in C
  BY <1>0, <1>1
<1> HIDE DEF C
<1>10. PostOrder(Kids, r) \in Seq(DOMAIN Kids) /\ C \subseteq Range(PostOrder(Kids, r))
  BY <1>7, <1>8, <1>9, VisitsAll
<1> QED
  BY <1>1, <1>10, RootIs DEF Walk, C

-----------------------------------------------------------------------------
(***************************************************************************)
(* The parameters of a function.                                           *)
(***************************************************************************)
\* The module once e has n parameters named by the type ft.
Grown(e, ft, n) ==
  [ent EXCEPT ![e].fn = TRUE, ![e].kids = [i \in 1 .. n |-> Fresh(i, n)] \o @]
  \o [j \in 1 .. n |-> [Blank EXCEPT !.up = e, !.param = n + 1 - j,
                                     !.name = NameOf(ent, ft, n + 1 - j)]]

\* The lookups they are given, and the slots these come from.
Passed(e, ft, n) ==
  (IF ent[e].fn THEN {} ELSE {<<<<ft, "ret", 1>>, <<e, "ret", 1>>>>})
  \cup { <<<<ft, "input", i>>, <<Fresh(i, n), "type", 1>>>> : i \in 1 .. n }

\* What is to be known of it: only e and those behind the first N are touched.
Extends(g, e, n, N) ==
  /\ g \in Seq(Entity) /\ Len(g) = N + n
  /\ \A x \in Ids : /\ g[x].up = ent[x].up /\ g[x].blk = ent[x].blk
                    /\ g[x].param = ent[x].param
                    /\ x # e => g[x] = ent[x]
  /\ g[e].kids \in Seq(Nat) /\ Len(g[e].kids) = n + Len(ent[e].kids)
  /\ \A i \in 1 .. n : g[e].kids[i] = Fresh(i, n)
  /\ \A i \in 1 .. Len(ent[e].kids) : g[e].kids[n + i] = ent[e].kids[i]
  /\ \A j \in 1 .. n : /\ g[N + j].up = e /\ g[N + j].kids = <<>>
                       /\ ~g[N + j].blk /\ g[N + j].param = n + 1 - j

\* What is where in a concatenation.
LEMMA ConcatIs ==
  ASSUME NEW T, NEW s \in Seq(T), NEW t \in Seq(T), NEW n, n = Len(s)
  PROVE  /\ s \o t \in Seq(T) /\ Len(s \o t) = n + Len(t)
         /\ \A i \in 1 .. n : (s \o t)[i] = s[i]
         /\ \A i \in 1 .. Len(t) : (s \o t)[n + i] = t[i]
<1>1. Len(s \o t) = Len(s) + Len(t) /\ s \o t \in Seq(T)
  BY ConcatProperties
<1>2. \A i \in 1 .. Len(s) + Len(t) :
        (s \o t)[i] = IF i <= Len(s) THEN s[i] ELSE t[i - Len(s)]
  BY ConcatProperties
<1>3. n \in Nat /\ Len(t) \in Nat
  OBVIOUS
<1>4. ASSUME NEW i \in 1 .. n
      PROVE  (s \o t)[i] = s[i]
  BY <1>2, <1>3
<1>5. ASSUME NEW i \in 1 .. Len(t)
      PROVE  (s \o t)[n + i] = t[i]
  <2>1. n + i \in 1 .. Len(s) + Len(t) /\ ~(n + i <= Len(s)) /\ (n + i) - Len(s) = i
    BY <1>3
  <2> QED
    BY <1>2, <2>1
<1> QED
  BY <1>1, <1>4, <1>5

\* What push_parameters makes of the entities.
LEMMA GrownIs ==
  ASSUME NEW r, Shaped(ent, r), NEW e \in Ids, NEW ft \in Ids, NEW n \in Nat,
         n <= Len(DefaultNames), NEW g, g = Grown(e, ft, n), NEW N, N = Len(ent)
  PROVE  Extends(g, e, n, N)
<1> DEFINE front == [i \in 1 .. n |-> Fresh(i, n)]
           ks == front \o ent[e].kids
           base == [ent EXCEPT ![e].fn = TRUE, ![e].kids = [i \in 1 .. n |-> Fresh(i, n)] \o @]
           new == [j \in 1 .. n |-> [Blank EXCEPT !.up = e, !.param = n + 1 - j,
                                                  !.name = NameOf(ent, ft, n + 1 - j)]]
<1>0. /\ ent \in Seq(Entity) /\ N \in Nat /\ Ids = 1 .. N /\ DOMAIN ent = Ids
      /\ \A x \in Ids : ent[x] \in Entity
  BY DEF Shaped, Ids
<1>1. /\ ent[e].kids \in Seq(Nat) /\ ent[ft].names \in Seq(STRING)
      /\ DefaultNames \in Seq(STRING)
  BY <1>0, NamesByDefault DEF Entity
<1>2. front \in Seq(Nat) /\ Len(front) = n /\ \A i \in 1 .. n : front[i] = Fresh(i, n)
  <2>1. \A i \in 1 .. n : Fresh(i, n) \in Nat
    BY <1>0 DEF Fresh
  <2> QED
    BY <2>1
<1>3. /\ ks \in Seq(Nat) /\ Len(ks) = n + Len(ent[e].kids)
      /\ \A i \in 1 .. n : ks[i] = Fresh(i, n)
      /\ \A i \in 1 .. Len(ent[e].kids) : ks[n + i] = ent[e].kids[i]
  <2> DEFINE old == ent[e].kids
  <2>1. front \in Seq(Nat) /\ old \in Seq(Nat) /\ n = Len(front)
    BY <1>1, <1>2
  <2> HIDE DEF front, old
  <2>2. /\ front \o old \in Seq(Nat) /\ Len(front \o old) = n + Len(old)
        /\ \A i \in 1 .. n : (front \o old)[i] = front[i]
        /\ \A i \in 1 .. Len(old) : (front \o old)[n + i] = old[i]
    BY <2>1, ConcatIs
  <2>3. ks = front \o old
    BY DEF old
  <2> HIDE DEF ks
  <2>4. /\ ks \in Seq(Nat) /\ Len(ks) = n + Len(old)
        /\ \A i \in 1 .. n : ks[i] = front[i]
        /\ \A i \in 1 .. Len(old) : ks[n + i] = old[i]
    BY <2>2, <2>3
  <2> QED
    BY <1>2, <2>4 DEF old
<1>4. /\ base \in [Ids -> Entity]
      /\ \A x \in Ids : x # e => base[x] = ent[x]
      /\ base[e].up = ent[e].up /\ base[e].blk = ent[e].blk /\ base[e].param = ent[e].param
      /\ base[e].kids = ks
  <2> DEFINE old == ent[e]
             at == [[old EXCEPT !.fn = TRUE] EXCEPT !.kids = ks]
  <2>1. base[e] = at /\ DOMAIN base = Ids /\ \A x \in Ids : x # e => base[x] = ent[x]
    BY <1>0
  <2>2. old \in Entity
    BY <1>0
  <2> HIDE DEF ks, old
  <2>3. at \in Entity /\ at.up = old.up /\ at.blk = old.blk /\ at.param = old.param /\ at.kids = ks
    BY <1>3, <2>2 DEF Entity
  <2>4. base = [x \in Ids |-> base[x]]
    BY <1>0
  <2> HIDE DEF base, at
  <2>5. \A x \in Ids : base[x] \in Entity
    BY <1>0, <2>1, <2>3
  <2> QED
    BY <2>1, <2>3, <2>4, <2>5 DEF old
<1>5. base \in Seq(Entity) /\ Len(base) = N
  <2> HIDE DEF base
  <2> QED
    BY <1>0, <1>4
<1>6. /\ new \in Seq(Entity) /\ Len(new) = n
      /\ \A j \in 1 .. n : /\ new[j].up = e /\ new[j].kids = <<>>
                           /\ ~new[j].blk /\ new[j].param = n + 1 - j
  <2>1. ASSUME NEW j \in 1 .. n
        PROVE  /\ new[j] \in Entity /\ new[j].up = e /\ new[j].kids = <<>>
               /\ ~new[j].blk /\ new[j].param = n + 1 - j
    <3>1. n + 1 - j \in 1 .. Len(DefaultNames) /\ n + 1 - j \in Nat
      BY <1>1
    <3>2. NameOf(ent, ft, n + 1 - j) \in STRING
      BY <1>1, <3>1 DEF NameOf
    <3>3. e \in Nat
      BY <1>0
    <3> DEFINE nm == NameOf(ent, ft, n + 1 - j)
               p == n + 1 - j
    <3>4. new[j] = [Blank EXCEPT !.up = e, !.param = p, !.name = nm]
      OBVIOUS
    <3> HIDE DEF new, nm, p
    <3>5. nm \in STRING /\ p \in Nat
      BY <3>1, <3>2 DEF nm, p
    <3>6. new[j] = [up |-> e, kids |-> <<>>, blk |-> FALSE, name |-> nm, space |-> FALSE,
                    tdef |-> FALSE, fn |-> FALSE, names |-> <<>>, param |-> p, modifier |-> FALSE]
      BY <3>4 DEF Blank
    <3>7. new[j] \in Entity
      BY <3>3, <3>5, <3>6 DEF Entity
    <3> QED
      BY <3>6, <3>7 DEF p
  <2>2. new = [j \in 1 .. n |-> new[j]]
    OBVIOUS
  <2> HIDE DEF new
  <2> QED
    BY <2>1, <2>2
<1>7. g = base \o new
  BY DEF Grown
<1> HIDE DEF base, new, ks, front
<1>8. /\ g \in Seq(Entity) /\ Len(g) = N + n
      /\ \A x \in 1 .. N : g[x] = base[x]
      /\ \A j \in 1 .. n : g[N + j] = new[j]
  <2>1. /\ base \o new \in Seq(Entity) /\ Len(base \o new) = N + Len(new)
        /\ \A x \in 1 .. N : (base \o new)[x] = base[x]
        /\ \A j \in 1 .. Len(new) : (base \o new)[N + j] = new[j]
    <3>1. base \in Seq(Entity) /\ new \in Seq(Entity) /\ N = Len(base)
      BY <1>5, <1>6
    <3> QED
      BY <3>1, ConcatIs
  <2> QED
    BY <1>6, <1>7, <2>1
<1>9. e \in 1 .. N /\ g[e].kids = ks
  BY <1>0, <1>4, <1>8
<1>10. \A x \in Ids : /\ g[x].up = ent[x].up /\ g[x].blk = ent[x].blk
                      /\ g[x].param = ent[x].param
                      /\ x # e => g[x] = ent[x]
  BY <1>0, <1>4, <1>8
<1>11. /\ g[e].kids \in Seq(Nat) /\ Len(g[e].kids) = n + Len(ent[e].kids)
       /\ \A i \in 1 .. n : g[e].kids[i] = Fresh(i, n)
       /\ \A i \in 1 .. Len(ent[e].kids) : g[e].kids[n + i] = ent[e].kids[i]
  BY <1>3, <1>9
<1>12. \A j \in 1 .. n : /\ g[N + j].up = e /\ g[N + j].kids = <<>>
                         /\ ~g[N + j].blk /\ g[N + j].param = n + 1 - j
  BY <1>6, <1>8
<1> QED
  BY <1>8, <1>10, <1>11, <1>12 DEF Extends

\* It is still what a sort makes of the ids, new parameters behind the root.
LEMMA GrownShaped ==
  ASSUME NEW r, Shaped(ent, r), NEW e \in Ids, NEW ft \in Ids, NEW n \in Nat,
         n <= Len(DefaultNames), NEW g, g = Grown(e, ft, n), NEW N, N = Len(ent),
         ent[e].up # 0, n # 0 => ent[e].blk
  PROVE  Shaped(g, r)
<1> DEFINE l == Len(ent[e].kids)
<1>0. /\ ent \in Seq(Entity) /\ N \in Nat /\ Ids = 1 .. N /\ DOMAIN ent = Ids
      /\ r \in Ids /\ ent[r].up = 0 /\ l \in Nat /\ DOMAIN ent[e].kids = 1 .. l
  <2>1. ent \in Seq(Entity) /\ r \in DOMAIN ent /\ ent[r].up = 0
    BY DEF Shaped
  <2>2. N \in Nat /\ Ids = 1 .. N /\ DOMAIN ent = Ids
    BY <2>1 DEF Ids
  <2>3. ent[e] \in Entity
    BY <2>1, <2>2
  <2>4. ent[e].kids \in Seq(Nat)
    BY <2>3 DEF Entity
  <2> QED
    BY <2>1, <2>2, <2>4
<1>1. Extends(g, e, n, N)
  BY GrownIs
<1>2. g \in Seq(Entity) /\ Len(g) = N + n /\ g[e].kids \in Seq(Nat) /\ Len(g[e].kids) = n + l
  BY <1>1 DEF Extends
<1>3. \A x \in Ids : /\ g[x].up = ent[x].up /\ g[x].blk = ent[x].blk
                     /\ g[x].param = ent[x].param
                     /\ x # e => g[x] = ent[x]
  BY <1>1 DEF Extends
<1>4. \A j \in 1 .. n : /\ g[N + j].up = e /\ g[N + j].kids = <<>>
                        /\ ~g[N + j].blk /\ g[N + j].param = n + 1 - j
  BY <1>1 DEF Extends
<1>5. /\ \A i \in 1 .. n : g[e].kids[i] = N + (n + 1 - i)
      /\ \A i \in 1 .. l : g[e].kids[n + i] = ent[e].kids[i]
  <2>1. \A i \in 1 .. n : g[e].kids[i] = Fresh(i, n)
    BY <1>1 DEF Extends
  <2>2. \A i \in 1 .. n : Fresh(i, n) = N + (n + 1 - i)
    BY <1>0 DEF Fresh
  <2>3. \A i \in 1 .. l : g[e].kids[n + i] = ent[e].kids[i]
    BY <1>1 DEF Extends
  <2> QED
    BY <2>1, <2>2, <2>3
<1> HIDE DEF l
<1>6. DOMAIN g[e].kids = 1 .. n + l
  BY <1>2
<1>7. DOMAIN g = 1 .. N + n /\ Ids \subseteq DOMAIN g
  BY <1>0, <1>2
<1>8. \A x \in DOMAIN g \ Ids : x - N \in 1 .. n /\ x = N + (x - N)
  BY <1>0, <1>7
<1>9. n # 0 => e <= r
  <2>1. e > r => ~ent[e].blk \/ Detached(ent, r, e)
    BY <1>0 DEF Shaped
  <2>2. ~Detached(ent, r, e)
    BY DetachedIs, Zenon
  <2> QED
    BY <1>0, <2>1, <2>2
<1>10. r \in DOMAIN g /\ g[r].up = 0
  BY <1>0, <1>3, <1>7
<1>11. ASSUME NEW x \in DOMAIN g \ {r}, ~Detached(g, r, x)
       PROVE  /\ g[x].up \in 1 .. r /\ x \in Range(g[g[x].up].kids)
              /\ IF x < r THEN x < g[x].up ELSE ~g[x].blk /\ g[x].param # 0
  <2>1. CASE x \in Ids
    <3> DEFINE u == ent[x].up
    <3>1. ~Detached(ent, r, x)
      <4>1. CASE x = e
        BY <4>1, DetachedIs
      <4>2. CASE x # e
        BY <1>3, <1>11, <2>1, <4>2 DEF Detached
      <4> QED
        BY <4>1, <4>2
    <3>2. /\ u \in 1 .. r /\ u \in Ids /\ x \in Range(ent[u].kids)
          /\ IF x < r THEN x < u ELSE ~ent[x].blk /\ ent[x].param # 0
          /\ g[x].up = u /\ g[x].blk = ent[x].blk /\ g[x].param = ent[x].param
      BY <1>0, <1>3, <2>1, <3>1 DEF Shaped
    <3>3. x \in Range(g[u].kids)
      <4>1. CASE u # e
        BY <1>3, <3>2, <4>1
      <4>2. CASE u = e
        <5>1. PICK i \in DOMAIN ent[e].kids : x = ent[e].kids[i]
          BY <3>2, <4>2 DEF Range
        <5>2. i \in 1 .. l /\ n + i \in 1 .. n + l
          BY <1>0, <5>1
        <5>3. n + i \in DOMAIN g[e].kids /\ g[e].kids[n + i] = x
          BY <1>5, <1>6, <5>1, <5>2
        <5> QED
          BY <4>2, <5>3 DEF Range
      <4> QED
        BY <4>1, <4>2
    <3> QED
      BY <3>2, <3>3
  <2>2. CASE x \notin Ids
    <3>1. x - N \in 1 .. n /\ x = N + (x - N)
      BY <1>8, <2>2
    <3>2. g[x].up = e /\ ~g[x].blk /\ g[x].param = n + 1 - (x - N)
      BY <1>4, <3>1
    <3> DEFINE i == n + 1 - (x - N)
    <3>3. i \in 1 .. n /\ i \in 1 .. n + l /\ N + (n + 1 - i) = x
      BY <1>0, <3>1
    <3> HIDE DEF i
    <3>4. i \in DOMAIN g[e].kids /\ g[e].kids[i] = x
      BY <1>5, <1>6, <3>3
    <3>5. x \in Range(g[e].kids)
      BY <3>4 DEF Range
    <3>6. e \in 1 .. r /\ ~(x < r) /\ g[x].param # 0
      BY <1>0, <1>9, <3>1, <3>2
    <3> QED
      BY <3>2, <3>5, <3>6
  <2> QED
    BY <2>1, <2>2
<1>12. ASSUME NEW b \in DOMAIN g
       PROVE  /\ g[b].kids # <<>> => g[b].blk
              /\ \A k \in Range(g[b].kids) : k \in DOMAIN g /\ (b <= r => g[k].up = b)
  <2>1. CASE b \in Ids /\ b # e
    <3>1. /\ ent[b].kids # <<>> => ent[b].blk
          /\ \A k \in Range(ent[b].kids) : k \in Ids /\ (b <= r => ent[k].up = b)
      BY <1>0, <2>1 DEF Shaped
    <3>2. g[b] = ent[b]
      BY <1>3, <2>1
    <3> QED
      BY <1>3, <1>7, <3>1, <3>2
  <2>2. CASE b = e
    <3>1. /\ \A k \in Range(ent[e].kids) : k \in Ids /\ (e <= r => ent[k].up = e)
          /\ ent[e].kids # <<>> => ent[e].blk
      BY <1>0 DEF Shaped
    <3>2. ASSUME NEW i \in DOMAIN g[e].kids
          PROVE  g[e].kids[i] \in DOMAIN g /\ (e <= r => g[g[e].kids[i]].up = e)
      <4>1. i \in 1 .. n + l
        BY <1>6
      <4>2. CASE i <= n
        <5>1. i \in 1 .. n /\ n + 1 - i \in 1 .. n /\ N + (n + 1 - i) \in 1 .. N + n
          BY <1>0, <4>1, <4>2
        <5>2. g[e].kids[i] = N + (n + 1 - i) /\ g[N + (n + 1 - i)].up = e
          BY <1>4, <1>5, <5>1
        <5> QED
          BY <1>7, <5>1, <5>2
      <4>3. CASE ~(i <= n)
        <5>1. i - n \in 1 .. l /\ n + (i - n) = i
          BY <1>0, <4>1, <4>3
        <5>2. g[e].kids[i] = ent[e].kids[i - n]
          BY <1>5, <5>1
        <5>3. ent[e].kids[i - n] \in Range(ent[e].kids)
          BY <1>0, <5>1 DEF Range
        <5> QED
          BY <1>3, <1>7, <3>1, <5>2, <5>3
      <4> QED
        BY <4>2, <4>3
    <3>3. g[e].kids # <<>> => g[e].blk
      <4>1. CASE n = 0
        <5>1. g[e].kids \in Seq(Nat) /\ Len(g[e].kids) = n + l
          BY <1>2
        <5>2. g[e].kids # <<>> => l # 0
          BY <1>0, <4>1, <5>1
        <5>3. l # 0 => ent[e].kids # <<>>
          BY DEF l
        <5> QED
          BY <1>3, <3>1, <5>2, <5>3
      <4>2. CASE n # 0
        BY <1>3, <4>2
      <4> QED
        BY <4>1, <4>2
    <3> QED
      BY <2>2, <3>2, <3>3 DEF Range
  <2>3. CASE b \notin Ids
    <3>1. b - N \in 1 .. n /\ b = N + (b - N)
      BY <1>8, <2>3
    <3>2. g[b].kids = <<>>
      BY <1>4, <3>1
    <3> QED
      BY <3>2 DEF Range
  <2> QED
    BY <2>1, <2>2, <2>3
<1> QED
  BY <1>2, <1>10, <1>11, <1>12 DEF Shaped

\* A slot is given the lookup of one slot only.
LEMMA PassedIs ==
  ASSUME Len(ent) \in Nat, NEW e, NEW ft, NEW n \in Nat
  PROVE  /\ \A p, q \in Passed(e, ft, n) : p[2] = q[2] => p = q
         /\ \A p \in Passed(e, ft, n) :
              \/ p[2] = <<e, "ret", 1>>
              \/ \E i \in 1 .. n : p[2] = <<Fresh(i, n), "type", 1>>
<1> DEFINE R == {<<<<ft, "ret", 1>>, <<e, "ret", 1>>>>}
           P == { <<<<ft, "input", i>>, <<Fresh(i, n), "type", 1>>>> : i \in 1 .. n }
<1>1. \A p \in R : p = <<<<ft, "ret", 1>>, <<e, "ret", 1>>>> /\ p[2] = <<e, "ret", 1>>
  OBVIOUS
<1>2. \A p \in P : \E i \in 1 .. n : /\ p = <<<<ft, "input", i>>, <<Fresh(i, n), "type", 1>>>>
                                     /\ p[2] = <<Fresh(i, n), "type", 1>>
  OBVIOUS
<1>3. Passed(e, ft, n) \subseteq R \cup P
  BY DEF Passed
<1> HIDE DEF R, P
<1>4. \A i, j \in 1 .. n : Fresh(i, n) = Fresh(j, n) => i = j
  BY DEF Fresh
<1>5. ASSUME NEW p \in Passed(e, ft, n), NEW q \in Passed(e, ft, n), p[2] = q[2]
      PROVE  p = q
  <2>1. CASE p \in R
    <3>1. q \notin P
      <4> SUFFICES ASSUME q \in P
                   PROVE  FALSE
        OBVIOUS
      <4>1. PICK i \in 1 .. n : q[2] = <<Fresh(i, n), "type", 1>>
        BY <1>2
      <4>2. <<e, "ret", 1>> = <<Fresh(i, n), "type", 1>>
        BY <1>1, <1>5, <2>1, <4>1
      <4> QED
        BY <4>2
    <3>2. q \in R
      BY <1>3, <3>1
    <3> QED
      BY <1>1, <2>1, <3>2
  <2>2. CASE p \in P
    <3>1. PICK i \in 1 .. n : /\ p = <<<<ft, "input", i>>, <<Fresh(i, n), "type", 1>>>>
                              /\ p[2] = <<Fresh(i, n), "type", 1>>
      BY <1>2, <2>2
    <3>2. CASE q \in R
      <4>1. <<e, "ret", 1>> = <<Fresh(i, n), "type", 1>>
        BY <1>1, <1>5, <3>1, <3>2
      <4> QED
        BY <4>1
    <3>3. CASE q \in P
      <4>1. PICK j \in 1 .. n : /\ q = <<<<ft, "input", j>>, <<Fresh(j, n), "type", 1>>>>
                                /\ q[2] = <<Fresh(j, n), "type", 1>>
        BY <1>2, <3>3
      <4>2. Fresh(i, n) = Fresh(j, n)
        BY <1>5, <3>1, <4>1
      <4>3. i = j
        BY <1>4, <4>2
      <4> QED
        BY <3>1, <4>1, <4>3
    <3> QED
      BY <1>3, <3>2, <3>3
  <2> QED
    BY <1>3, <2>1, <2>2
<1>6. ASSUME NEW p \in Passed(e, ft, n)
      PROVE  p[2] = <<e, "ret", 1>> \/ \E i \in 1 .. n : p[2] = <<Fresh(i, n), "type", 1>>
  BY <1>1, <1>2, <1>3
<1> QED
  BY <1>5, <1>6

\* What is copied is what there was.
LEMMA CopiedType ==
  ASSUME NEW f, NEW old, NEW pairs, NEW T,
         \A p, q \in pairs : p[2] = q[2] => p = q,
         \A s \in DOMAIN old : old[s] \in T, \A s \in DOMAIN f : f[s] \in T,
         NEW c, c = CopiedTo(f, old, pairs)
  PROVE  /\ DOMAIN c \subseteq DOMAIN f \cup { p[2] : p \in pairs }
         /\ c \in [DOMAIN c -> T]
<1> DEFINE Q == { q \in pairs : q[1] \in DOMAIN old }
           D == { p[2] : p \in Q }
           new == [s \in D |-> old[(CHOOSE p \in pairs : p[2] = s)[1]]]
<1>1. c = [s \in D \cup DOMAIN f |-> IF s \in D THEN new[s] ELSE f[s]]
  BY DEF CopiedTo
<1>2. ASSUME NEW s \in D
      PROVE  new[s] \in T
  <2>1. PICK p \in Q : s = p[2]
    OBVIOUS
  <2> DEFINE o == CHOOSE q \in pairs : q[2] = s
  <2>2. o \in pairs /\ o[2] = s
    BY <2>1
  <2> HIDE DEF o
  <2>3. o = p
    BY <2>1, <2>2
  <2>4. new[s] = old[o[1]]
    BY DEF o
  <2> QED
    BY <2>1, <2>3, <2>4
<1>3. D \subseteq { p[2] : p \in pairs }
  OBVIOUS
<1> HIDE DEF D, new
<1>4. DOMAIN c = D \cup DOMAIN f
  BY <1>1
<1>5. \A s \in D \cup DOMAIN f : c[s] \in T
  BY <1>1, <1>2
<1>6. c \in [D \cup DOMAIN f -> T]
  BY <1>1, <1>5
<1> QED
  BY <1>3, <1>4, <1>6

-----------------------------------------------------------------------------
(***************************************************************************)
(* A module that has grown: e has n more children, in front of the others. *)
(***************************************************************************)
Widened(m, g, e, n) ==
  /\ DOMAIN m \subseteq DOMAIN g /\ n \in Nat /\ e \in DOMAIN m
  /\ \A x \in DOMAIN m : /\ g[x].up = m[x].up /\ g[x].blk = m[x].blk
                         /\ g[x].name = m[x].name /\ g[x].space = m[x].space
                         /\ x # e => g[x].kids = m[x].kids
  /\ Len(g[e].kids) = n + Len(m[e].kids)
  /\ \A i \in 1 .. n : g[e].kids[i] \in DOMAIN g \ DOMAIN m
  /\ \A i \in 1 .. Len(m[e].kids) : g[e].kids[n + i] = m[e].kids[i]
  /\ \A x \in DOMAIN g \ DOMAIN m : g[x].kids = <<>> /\ ~g[x].blk /\ ~g[x].space

\* The first child of a kind is what it was, or new.
LEMMA FirstKidWidened ==
  ASSUME NEW m, NEW r, Shaped(m, r), NEW g, Shaped(g, r), NEW e, NEW n, Widened(m, g, e, n),
         NEW b \in DOMAIN m, NEW S, NEW R, S = R \cap DOMAIN m
  PROVE  /\ FirstKid(g, b, R) \in {FirstKid(m, b, S)} \cup (R \ DOMAIN m)
         /\ R \subseteq DOMAIN m => FirstKid(g, b, R) = FirstKid(m, b, S)
<1> DEFINE ks == m[b].kids
           ls == g[b].kids
           l == Len(ks)
           w == IF b = e THEN n ELSE 0
<1>0. b \in DOMAIN g /\ ks \in Seq(Nat) /\ ls \in Seq(Nat)
  BY Parents DEF Widened, Entity
<1>1. l \in Nat /\ DOMAIN ks = 1 .. l /\ \A i \in 1 .. l : ks[i] \in DOMAIN m
  <2>1. l \in Nat /\ DOMAIN ks = 1 .. l
    BY <1>0
  <2>2. \A k \in Range(ks) : k \in DOMAIN m
    BY ListedBy
  <2> QED
    BY <2>1, <2>2 DEF Range
<1>2. w \in Nat /\ DOMAIN ls = 1 .. w + l
  <2>1. w \in Nat
    BY DEF Widened
  <2>2. CASE b = e
    <3>1. Len(g[e].kids) = n + Len(m[e].kids)
      BY DEF Widened
    <3>2. Len(ls) = w + l
      BY <2>2, <3>1
    <3> HIDE DEF w, l, ls
    <3> QED
      BY <1>0, <2>1, <3>2
  <2>3. CASE b # e
    <3>1. g[b].kids = m[b].kids
      BY <2>3 DEF Widened
    <3>2. DOMAIN ls = 1 .. l
      BY <1>1, <3>1
    <3> QED
      BY <1>1, <2>1, <2>3, <3>2
  <2> QED
    BY <2>2, <2>3
<1>3. \A i \in 1 .. l : ls[w + i] = ks[i]
  <2>1. CASE b = e
    BY <2>1 DEF Widened
  <2>2. CASE b # e
    BY <1>1, <2>2 DEF Widened
  <2> QED
    BY <2>1, <2>2
<1>4. \A i \in 1 .. w : ls[i] \notin DOMAIN m
  BY DEF Widened
<1>5. \/ FirstKid(m, b, S) = 0 /\ \A i \in 1 .. l : ks[i] \notin S
      \/ \E i \in 1 .. l : /\ FirstKid(m, b, S) = ks[i] /\ ks[i] \in S
                           /\ \A j \in 1 .. l : ks[j] \in S => i <= j
  BY <1>0, <1>1, FirstKidIs
<1>6. \/ FirstKid(g, b, R) = 0 /\ \A i \in 1 .. w + l : ls[i] \notin R
      \/ \E i \in 1 .. w + l : /\ FirstKid(g, b, R) = ls[i] /\ ls[i] \in R
                               /\ \A j \in 1 .. w + l : ls[j] \in R => i <= j
  BY <1>0, <1>2, FirstKidIs
<1> HIDE DEF ks, ls, l, w
<1>7. \A i \in 1 .. l : /\ w + i \in 1 .. w + l
                        /\ ls[w + i] \in R <=> ks[i] \in S
  BY <1>1, <1>2, <1>3
<1>8. CASE FirstKid(g, b, R) = 0 /\ \A i \in 1 .. w + l : ls[i] \notin R
  <2>1. \A i \in 1 .. l : ks[i] \notin S
    BY <1>7, <1>8
  <2> QED
    BY <1>5, <1>8, <2>1
<1>9. ASSUME NEW i \in 1 .. w + l, FirstKid(g, b, R) = ls[i], ls[i] \in R,
             \A j \in 1 .. w + l : ls[j] \in R => i <= j
      PROVE  FirstKid(g, b, R) = FirstKid(m, b, S) \/ ls[i] \notin DOMAIN m
  <2>1. CASE i <= w
    BY <1>1, <1>2, <1>4, <2>1
  <2>2. CASE ~(i <= w)
    <3>1. i - w \in 1 .. l /\ w + (i - w) = i
      BY <1>1, <1>2, <2>2
    <3>2. ks[i - w] = ls[i] /\ ks[i - w] \in S
      BY <1>3, <1>7, <1>9, <3>1
    <3>3. PICK k \in 1 .. l : /\ FirstKid(m, b, S) = ks[k] /\ ks[k] \in S
                              /\ \A j \in 1 .. l : ks[j] \in S => k <= j
      BY <1>5, <3>1, <3>2
    <3>4. k <= i - w /\ i <= w + k
      BY <1>7, <1>9, <3>1, <3>2, <3>3
    <3>5. k = i - w
      BY <1>1, <1>2, <3>1, <3>4
    <3> QED
      BY <1>9, <3>2, <3>3, <3>5
  <2> QED
    BY <2>1, <2>2
<1> QED
  BY <1>6, <1>8, <1>9

\* So is what a name means in a block; a namespace stays what it is.
LEMMA NamedWidened ==
  ASSUME NEW m, NEW r, Shaped(m, r), NEW g, Shaped(g, r), NEW e, NEW n, Widened(m, g, e, n),
         NEW b \in DOMAIN m, NEW name
  PROVE  /\ Named(g, b, name) \in {Named(m, b, name)} \cup (DOMAIN g \ DOMAIN m)
         /\ Space(g, b, name) = Space(m, b, name)
<1> DEFINE S == { x \in DOMAIN m : m[x].name = name }
           R == { x \in DOMAIN g : g[x].name = name }
           P == { x \in DOMAIN m : m[x].name = name /\ m[x].space }
           Q == { x \in DOMAIN g : g[x].name = name /\ g[x].space }
<1>1. S = R \cap DOMAIN m /\ R \subseteq DOMAIN g
  BY DEF Widened
<1>2. P = Q \cap DOMAIN m /\ Q \subseteq DOMAIN m
  BY DEF Widened
<1>3. /\ Named(m, b, name) = FirstKid(m, b, S) /\ Named(g, b, name) = FirstKid(g, b, R)
      /\ Space(m, b, name) = FirstKid(m, b, P) /\ Space(g, b, name) = FirstKid(g, b, Q)
  BY DEF Named, Space
<1> HIDE DEF S, R, P, Q
<1>4. FirstKid(g, b, R) \in {FirstKid(m, b, S)} \cup (R \ DOMAIN m)
  BY <1>1, FirstKidWidened
<1>5. FirstKid(g, b, Q) = FirstKid(m, b, P)
  BY <1>2, FirstKidWidened
<1> QED
  BY <1>1, <1>3, <1>4, <1>5

\* The blocks a search starts from are the same.
LEMMA BlocksWidened ==
  ASSUME NEW m, NEW r, Shaped(m, r), NEW g, Shaped(g, r), NEW e, NEW n, Widened(m, g, e, n),
         NEW x \in DOMAIN m
  PROVE  BlockFrom(g, x) = BlockFrom(m, x) /\ BlockHolding(g, x) = BlockHolding(m, x)
<1>1. { b \in DOMAIN g : b >= x /\ g[b].blk } = { b \in DOMAIN m : b >= x /\ m[b].blk }
  BY DEF Widened
<1>2. \A b \in DOMAIN m : x \in Range(g[b].kids) <=> x \in Range(m[b].kids)
  <2> SUFFICES ASSUME NEW b \in DOMAIN m
               PROVE  x \in Range(g[b].kids) <=> x \in Range(m[b].kids)
    OBVIOUS
  <2>1. CASE b # e
    BY <2>1 DEF Widened
  <2>2. CASE b = e
    <3> DEFINE ks == m[e].kids
               ls == g[e].kids
               l == Len(ks)
    <3>0. e \in DOMAIN g /\ e \in DOMAIN m /\ ks \in Seq(Nat) /\ ls \in Seq(Nat) /\ n \in Nat
      BY Parents DEF Widened, Entity
    <3>1. l \in Nat /\ DOMAIN ks = 1 .. l /\ DOMAIN ls = 1 .. n + l
      BY <3>0 DEF Widened
    <3>2. /\ \A i \in 1 .. l : ls[n + i] = ks[i]
          /\ \A i \in 1 .. n : ls[i] \notin DOMAIN m
      BY DEF Widened
    <3> HIDE DEF ks, ls, l
    <3>3. ASSUME NEW i \in 1 .. n + l, ls[i] = x
          PROVE  \E j \in 1 .. l : ks[j] = x
      <4>1. i - n \in 1 .. l /\ n + (i - n) = i
        BY <3>0, <3>1, <3>2, <3>3
      <4> QED
        BY <3>2, <3>3, <4>1
    <3>4. ASSUME NEW j \in 1 .. l, ks[j] = x
          PROVE  \E i \in 1 .. n + l : ls[i] = x
      <4>1. n + j \in 1 .. n + l
        BY <3>0, <3>1
      <4> QED
        BY <3>2, <3>4, <4>1
    <3>5. x \in Range(ls) <=> x \in Range(ks)
      BY <3>1, <3>3, <3>4 DEF Range
    <3> QED
      BY <2>2, <3>5 DEF ks, ls
  <2> QED
    BY <2>1, <2>2
<1>3. { b \in DOMAIN g : b >= x /\ g[b].blk /\ x \in Range(g[b].kids) }
        = { b \in DOMAIN m : b >= x /\ m[b].blk /\ x \in Range(m[b].kids) }
  BY <1>2 DEF Widened
<1> QED
  BY <1>1, <1>3 DEF BlockFrom, BlockHolding

\* So a search goes on where it went on.
LEMMA OuterWidened ==
  ASSUME NEW m, NEW r, Shaped(m, r), NEW g, Shaped(g, r), NEW e, NEW n, Widened(m, g, e, n),
         NEW x \in DOMAIN m
  PROVE  Outer(g, x) = Outer(m, x)
<1>1. \A y : { b \in DOMAIN g : b >= y /\ g[b].blk } = { b \in DOMAIN m : b >= y /\ m[b].blk }
  BY DEF Widened
<1>2. \A y : BlockFrom(g, y) = BlockFrom(m, y)
  BY <1>1 DEF BlockFrom
<1>3. g[x].up = m[x].up
  BY DEF Widened
<1> QED
  BY <1>2, <1>3 DEF Outer

\* What a search outwards finds is what it was, or new.
LEMMA OutwardWidened ==
  ASSUME NEW m, NEW r, Shaped(m, r), NEW g, Shaped(g, r), NEW e, NEW n, Widened(m, g, e, n),
         NEW fm, NEW fg, NEW New, 0 \notin New, NEW start \in DOMAIN m \cup {0},
         \A b \in DOMAIN m : fg[b] \in {fm[b]} \cup New
  PROVE  Outward(g, start, fg) \in {Outward(m, start, fm)} \cup New
<1> DEFINE G == { b \in DOMAIN m : Outward(g, b, fg) \in {Outward(m, b, fm)} \cup New }
<1>0. Outward(m, 0, fm) = 0 /\ Outward(g, 0, fg) = 0
  BY OutwardStep
<1>1. ASSUME NEW b \in DOMAIN m, Outer(m, b) # 0 => Outer(m, b) \in G
      PROVE  b \in G
  <2>0. b \in DOMAIN g
    BY DEF Widened
  <2>1. b \in DOMAIN g /\ Outer(g, b) = Outer(m, b)
    BY <2>0, OuterWidened
  <2>2. Outward(m, b, fm) = IF fm[b] # 0 THEN fm[b] ELSE Outward(m, Outer(m, b), fm)
    BY OutwardStep
  <2>3. Outward(g, b, fg) = IF fg[b] # 0 THEN fg[b] ELSE Outward(g, Outer(m, b), fg)
    BY <2>1, OutwardStep
  <2>4. Outward(g, Outer(m, b), fg) \in {Outward(m, Outer(m, b), fm)} \cup New
    BY <1>0, <1>1
  <2>5. fg[b] = fm[b] \/ (fg[b] \in New /\ fg[b] # 0)
    OBVIOUS
  <2>6. Outward(g, b, fg) \in {Outward(m, b, fm)} \cup New
    BY <2>2, <2>3, <2>4, <2>5
  <2> QED
    BY <2>6
<1> HIDE DEF G
<1>2. DOMAIN m \subseteq G
  BY <1>1, AlongTheSearch
<1> QED
  BY <1>0, <1>2 DEF G

\* So is what a dotted name means in a namespace.
LEMMA InsideWidened ==
  ASSUME NEW m, NEW r, Shaped(m, r), NEW g, Shaped(g, r), NEW e, NEW n, Widened(m, g, e, n),
         NEW b \in DOMAIN m \cup {0}, NEW p, Len(p) \in Nat \ {0, 1}
  PROVE  Inside(g, b, p) \in {Inside(m, b, p)} \cup (DOMAIN g \ DOMAIN m)
<1> DEFINE H == CHOOSE K : Enters(m, b, p, K)
           J == CHOOSE K : Enters(g, b, p, K)
           l == Len(p) - 1
           S == { k \in Nat : k + 1 <= l => /\ H[k + 1] \in DOMAIN m \cup {0}
                                            /\ J[k + 1] = H[k + 1] }
<1>0. l \in Nat \ {0}
  OBVIOUS
<1>1. Enters(m, b, p, H) /\ Enters(g, b, p, J)
  BY EntersExists
<1>2. /\ Inside(m, b, p) = IF H[l] = 0 THEN 0 ELSE Named(m, H[l], Last(p))
      /\ Inside(g, b, p) = IF J[l] = 0 THEN 0 ELSE Named(g, J[l], Last(p))
  BY DEF Inside, Enters
<1> HIDE DEF H, J
<1>3. /\ \A i \in 1 .. l : H[i] = IF i = 1 THEN b ELSE IF H[i - 1] = 0 THEN 0
                                  ELSE Space(m, H[i - 1], p[i])
      /\ \A i \in 1 .. l : J[i] = IF i = 1 THEN b ELSE IF J[i - 1] = 0 THEN 0
                                  ELSE Space(g, J[i - 1], p[i])
  BY <1>1, Zenon DEF Enters
<1> HIDE DEF l
<1>4. 0 \in S
  <2>1. 1 \in 1 .. l
    BY <1>0
  <2>2. H[1] = b /\ J[1] = b
    BY <1>3, <2>1
  <2> QED
    BY <2>2
<1>5. ASSUME NEW k \in Nat, k \in S
      PROVE  k + 1 \in S
  <2>1. ASSUME k + 2 <= l
        PROVE  H[k + 2] \in DOMAIN m \cup {0} /\ J[k + 2] = H[k + 2]
    <3>1. H[k + 1] \in DOMAIN m \cup {0} /\ J[k + 1] = H[k + 1]
      BY <1>0, <1>5, <2>1
    <3>2. k + 2 \in 1 .. l /\ k + 2 # 1 /\ (k + 2) - 1 = k + 1
      BY <1>0, <2>1
    <3>3. /\ H[k + 2] = IF H[k + 1] = 0 THEN 0 ELSE Space(m, H[k + 1], p[k + 2])
          /\ J[k + 2] = IF J[k + 1] = 0 THEN 0 ELSE Space(g, J[k + 1], p[k + 2])
      BY <1>3, <3>2
    <3> QED
      BY <3>1, <3>3, NamedType, NamedWidened DEF Held
  <2> QED
    BY <2>1
<1>6. l - 1 \in S
  <2> HIDE DEF S
  <2> QED
    BY <1>0, <1>4, <1>5, SetInduction
<1>7. H[l] \in DOMAIN m \cup {0} /\ J[l] = H[l]
  BY <1>0, <1>6
<1> QED
  BY <1>2, <1>7, NamedWidened

\* Nothing is in no namespace.
LEMMA InsideNothing ==
  ASSUME NEW m, NEW p, Len(p) \in Nat \ {0, 1}
  PROVE  Inside(m, 0, p) = 0
<1> DEFINE H == CHOOSE K : Enters(m, 0, p, K)
           l == Len(p) - 1
           S == { k \in Nat : k + 1 <= l => H[k + 1] = 0 }
<1>0. l \in Nat \ {0}
  OBVIOUS
<1>1. Enters(m, 0, p, H)
  BY EntersExists
<1>2. Inside(m, 0, p) = IF H[l] = 0 THEN 0 ELSE Named(m, H[l], Last(p))
  BY DEF Inside, Enters
<1> HIDE DEF H
<1>3. \A i \in 1 .. l : H[i] = IF i = 1 THEN 0 ELSE IF H[i - 1] = 0 THEN 0
                               ELSE Space(m, H[i - 1], p[i])
  BY <1>1, Zenon DEF Enters
<1> HIDE DEF l
<1>4. 0 \in S
  BY <1>0, <1>3
<1>5. ASSUME NEW k \in Nat, k \in S
      PROVE  k + 1 \in S
  <2>1. ASSUME k + 2 <= l
        PROVE  H[k + 2] = 0
    <3>1. k + 2 \in 1 .. l /\ k + 2 # 1 /\ (k + 2) - 1 = k + 1 /\ k + 1 <= l
      BY <1>0, <2>1
    <3> QED
      BY <1>3, <1>5, <3>1
  <2> QED
    BY <2>1
<1>6. l - 1 \in S
  <2> HIDE DEF S
  <2> QED
    BY <1>0, <1>4, <1>5, SetInduction
<1> QED
  BY <1>0, <1>2, <1>6

\* A lookup means what it meant, or one of those that are new.
LEMMA ResolveWidened ==
  ASSUME NEW m, NEW r, Shaped(m, r), NEW g, Shaped(g, r), NEW e, NEW n, Widened(m, g, e, n),
         NEW x \in DOMAIN m, NEW strict, NEW p \in Seq(STRING) \ {<<>>}
  PROVE  Resolve(g, x, p, strict) \in {Resolve(m, x, p, strict)} \cup (DOMAIN g \ DOMAIN m)
<1> DEFINE start == IF strict THEN BlockHolding(m, x) ELSE BlockFrom(m, x)
           nm == [b \in DOMAIN m |-> Named(m, b, p[1])]
           ng == [b \in DOMAIN g |-> Named(g, b, p[1])]
           sm == [b \in DOMAIN m |-> Space(m, b, p[1])]
           sg == [b \in DOMAIN g |-> Space(g, b, p[1])]
           New == DOMAIN g \ DOMAIN m
<1>0. Len(p) \in Nat \ {0} /\ 0 \notin New
  <2>1. 0 \notin DOMAIN g
    BY Parents DEF Shaped
  <2> QED
    BY <2>1
<1>1. start \in DOMAIN m \cup {0}
  <2>1. DOMAIN m = 1 .. Len(m) /\ Len(m) \in Nat
    BY Parents
  <2> DEFINE A == { b \in DOMAIN m : b >= x /\ m[b].blk }
             B == { b \in DOMAIN m : b >= x /\ m[b].blk /\ x \in Range(m[b].kids) }
  <2>2. A \in SUBSET Nat /\ B \in SUBSET Nat /\ A \subseteq DOMAIN m /\ B \subseteq DOMAIN m
    BY <2>1
  <2>3. BlockFrom(m, x) = LeastOr0(A) /\ BlockHolding(m, x) = LeastOr0(B)
    BY DEF BlockFrom, BlockHolding
  <2> HIDE DEF A, B
  <2> QED
    BY <2>2, <2>3, LeastIn
<1>2. start = IF strict THEN BlockHolding(g, x) ELSE BlockFrom(g, x)
  BY BlocksWidened
<1>3. \A b \in DOMAIN m : b \in DOMAIN g /\ ng[b] \in {nm[b]} \cup New /\ sg[b] \in {sm[b]} \cup {}
  <2> TAKE b \in DOMAIN m
  <2>1. b \in DOMAIN g
    BY DEF Widened
  <2>2. /\ Named(g, b, p[1]) \in {Named(m, b, p[1])} \cup (DOMAIN g \ DOMAIN m)
        /\ Space(g, b, p[1]) = Space(m, b, p[1])
    BY NamedWidened
  <2> QED
    BY <2>1, <2>2
<1>4. /\ Resolve(m, x, p, strict) = IF Len(p) = 1 THEN Outward(m, start, nm)
                                    ELSE Inside(m, Outward(m, start, sm), p)
      /\ Resolve(g, x, p, strict) = IF Len(p) = 1 THEN Outward(g, start, ng)
                                    ELSE Inside(g, Outward(g, start, sg), p)
  BY <1>2 DEF Resolve
<1>5. \A b \in DOMAIN m : sm[b] \in DOMAIN m \cup {0}
  BY NamedType DEF Held
<1> HIDE DEF start, nm, ng, sm, sg, New
<1>6. Outward(g, start, ng) \in {Outward(m, start, nm)} \cup New
  BY <1>0, <1>1, <1>3, OutwardWidened
<1>7. Outward(g, start, sg) \in {Outward(m, start, sm)} \cup {}
  BY <1>1, <1>3, OutwardWidened
<1>8. Outward(m, start, sm) \in DOMAIN m \cup {0}
  BY <1>1, <1>5, OutwardType
<1>9. Len(p) # 1 => Inside(g, Outward(m, start, sm), p)
                      \in {Inside(m, Outward(m, start, sm), p)} \cup New
  BY <1>0, <1>8, InsideWidened DEF New
<1> QED
  BY <1>4, <1>6, <1>7, <1>9 DEF New

\* What stands behind the root no block there lists, so a strict search finds nothing.
LEMMA BehindSeesNothing ==
  ASSUME NEW m, NEW r, Shaped(m, r), NEW x \in DOMAIN m, x > r,
         NEW p \in Seq(STRING) \ {<<>>}
  PROVE  Resolve(m, x, p, TRUE) = 0
<1>1. BlockHolding(m, x) = 0
  <2>0. DOMAIN m = 1 .. Len(m) /\ Len(m) \in Nat /\ r \in 1 .. Len(m)
    BY Parents
  <2>1. \A b \in DOMAIN m : b >= x => x \notin Range(m[b].kids)
    BY <2>0, ListedBy
  <2>2. { b \in DOMAIN m : b >= x /\ m[b].blk /\ x \in Range(m[b].kids) } = {}
    BY <2>1
  <2> QED
    BY <2>2 DEF BlockHolding, LeastOr0
<1>2. \A found : Outward(m, 0, found) = 0
  BY OutwardStep
<1>3. Len(p) \in Nat \ {0}
  OBVIOUS
<1>4. CASE Len(p) = 1
  BY <1>1, <1>2, <1>4 DEF Resolve
<1>5. CASE Len(p) # 1
  <2>1. Resolve(m, x, p, TRUE) = Inside(m, 0, p)
    BY <1>1, <1>2, <1>5 DEF Resolve
  <2>2. Inside(m, 0, p) = 0
    BY <1>3, <1>5, InsideNothing
  <2> QED
    BY <2>1, <2>2
<1> QED
  BY <1>4, <1>5

\* The blocks around an entity are the same.
LEMMA AroundWidened ==
  ASSUME NEW m, NEW r, Shaped(m, r), NEW g, Shaped(g, r), NEW e, NEW n, Widened(m, g, e, n)
  PROVE  \A x \in DOMAIN m : Around(g, x) = Around(m, x)
<1> DEFINE G == { x \in DOMAIN m : Around(g, x) = Around(m, x) }
<1>1. ASSUME NEW x \in DOMAIN m, m[x].up # 0 => m[x].up \in G
      PROVE  x \in G
  <2>1. x \in DOMAIN g /\ g[x].up = m[x].up
    BY DEF Widened
  <2>2. Around(m, x) = IF m[x].up = 0 THEN {} ELSE {m[x].up} \cup Around(m, m[x].up)
    BY AroundIs
  <2>3. Around(g, x) = IF m[x].up = 0 THEN {} ELSE {m[x].up} \cup Around(g, m[x].up)
    BY <2>1, AroundIs
  <2> QED
    BY <1>1, <2>2, <2>3
<1> HIDE DEF G
<1>2. DOMAIN m \subseteq G
  BY <1>1, FromTheRoot
<1> QED
  BY <1>2 DEF G

-----------------------------------------------------------------------------
(***************************************************************************)
(* What there is to know of new parameters, and of the rest.               *)
(***************************************************************************)
Adds(g, e, ft, n, N) ==
  /\ \A x \in Ids : /\ g[x].name = ent[x].name /\ g[x].space = ent[x].space
                    /\ g[x].tdef = ent[x].tdef /\ g[x].names = ent[x].names
                    /\ g[x].modifier = ent[x].modifier
                    /\ x # e => g[x].fn = ent[x].fn
  /\ g[e].fn = TRUE
  /\ \A j \in 1 .. n : /\ g[N + j].name = NameOf(ent, ft, n + 1 - j)
                       /\ g[N + j].names = <<>> /\ ~g[N + j].space /\ ~g[N + j].tdef
                       /\ ~g[N + j].fn /\ ~g[N + j].modifier

\* Names, types and functions of the module it makes.
LEMMA GrownAdds ==
  ASSUME NEW r, Shaped(ent, r), NEW e \in Ids, NEW ft \in Ids, NEW n \in Nat,
         NEW g, g = Grown(e, ft, n), NEW N, N = Len(ent)
  PROVE  Adds(g, e, ft, n, N)
<1> DEFINE ks == [i \in 1 .. n |-> Fresh(i, n)] \o ent[e].kids
           base == [ent EXCEPT ![e].fn = TRUE, ![e].kids = [i \in 1 .. n |-> Fresh(i, n)] \o @]
           new == [j \in 1 .. n |-> [Blank EXCEPT !.up = e, !.param = n + 1 - j,
                                                  !.name = NameOf(ent, ft, n + 1 - j)]]
<1>0. /\ ent \in Seq(Entity) /\ N \in Nat /\ Ids = 1 .. N /\ DOMAIN ent = Ids
      /\ \A x \in Ids : ent[x] \in Entity
  BY DEF Shaped, Ids
<1>1. /\ DOMAIN base = Ids /\ \A x \in Ids : x # e => base[x] = ent[x]
      /\ base[e].name = ent[e].name /\ base[e].space = ent[e].space
      /\ base[e].tdef = ent[e].tdef /\ base[e].names = ent[e].names
      /\ base[e].modifier = ent[e].modifier /\ base[e].fn = TRUE
  <2> DEFINE old == ent[e]
             at == [[old EXCEPT !.fn = TRUE] EXCEPT !.kids = ks]
  <2>1. base[e] = at /\ DOMAIN base = Ids /\ \A x \in Ids : x # e => base[x] = ent[x]
    BY <1>0
  <2>2. old \in Entity
    BY <1>0
  <2> HIDE DEF ks, old
  <2>3. /\ at.name = old.name /\ at.space = old.space /\ at.tdef = old.tdef
        /\ at.names = old.names /\ at.modifier = old.modifier /\ at.fn = TRUE
    BY <2>2 DEF Entity
  <2> HIDE DEF base, at
  <2> QED
    BY <2>1, <2>3 DEF old
<1>2. DOMAIN new = 1 .. n
  OBVIOUS
<1>3. \A j \in 1 .. n : /\ new[j].name = NameOf(ent, ft, n + 1 - j)
                        /\ new[j].names = <<>> /\ ~new[j].space /\ ~new[j].tdef
                        /\ ~new[j].fn /\ ~new[j].modifier
  <2> TAKE j \in 1 .. n
  <2> DEFINE nm == NameOf(ent, ft, n + 1 - j)
             p == n + 1 - j
  <2>1. new[j] = [Blank EXCEPT !.up = e, !.param = p, !.name = nm]
    OBVIOUS
  <2> HIDE DEF new, nm, p
  <2>2. new[j] = [up |-> e, kids |-> <<>>, blk |-> FALSE, name |-> nm, space |-> FALSE,
                  tdef |-> FALSE, fn |-> FALSE, names |-> <<>>, param |-> p, modifier |-> FALSE]
    BY <2>1 DEF Blank
  <2> QED
    BY <2>2 DEF nm
<1>4. g = base \o new
  BY DEF Grown
<1>5. base = [x \in 1 .. N |-> base[x]] /\ new = [j \in 1 .. n |-> new[j]]
  BY <1>0, <1>1
<1> HIDE DEF base, new, ks
<1>6. (\A x \in 1 .. N : g[x] = base[x]) /\ (\A j \in 1 .. n : g[N + j] = new[j])
  <2> DEFINE T == {base[x] : x \in 1 .. N} \cup {new[j] : j \in 1 .. n}
  <2>1. (\A x \in 1 .. N : base[x] \in T) /\ (\A j \in 1 .. n : new[j] \in T)
    OBVIOUS
  <2> HIDE DEF T
  <2>2. base \in Seq(T) /\ Len(base) = N
    BY <1>0, <1>5, <2>1
  <2>3. new \in Seq(T) /\ Len(new) = n
    BY <1>5, <2>1
  <2>4. /\ \A x \in 1 .. N : (base \o new)[x] = base[x]
        /\ \A j \in 1 .. Len(new) : (base \o new)[N + j] = new[j]
    <3>1. base \in Seq(T) /\ new \in Seq(T) /\ N = Len(base)
      BY <2>2, <2>3
    <3> QED
      BY <3>1, ConcatIs
  <2> QED
    BY <1>4, <2>3, <2>4
<1>7. /\ \A x \in Ids : /\ g[x].name = ent[x].name /\ g[x].space = ent[x].space
                        /\ g[x].tdef = ent[x].tdef /\ g[x].names = ent[x].names
                        /\ g[x].modifier = ent[x].modifier
                        /\ x # e => g[x].fn = ent[x].fn
      /\ g[e].fn = TRUE
  BY <1>0, <1>1, <1>6
<1>8. \A j \in 1 .. n : /\ g[N + j].name = NameOf(ent, ft, n + 1 - j)
                        /\ g[N + j].names = <<>> /\ ~g[N + j].space /\ ~g[N + j].tdef
                        /\ ~g[N + j].fn /\ ~g[N + j].modifier
  BY <1>3, <1>6
<1> QED
  BY <1>7, <1>8 DEF Adds

\* What a copy holds.
LEMMA CopiedIs ==
  ASSUME NEW f, NEW old, NEW pairs, \A p, q \in pairs : p[2] = q[2] => p = q,
         NEW c, c = CopiedTo(f, old, pairs)
  PROVE  /\ \A s : s \in DOMAIN c <=> \/ s \in DOMAIN f
                                     \/ \E p \in pairs : p[1] \in DOMAIN old /\ p[2] = s
         /\ \A p \in pairs : p[1] \in DOMAIN old => c[p[2]] = old[p[1]]
         /\ \A s \in DOMAIN f : ~(\E p \in pairs : p[1] \in DOMAIN old /\ p[2] = s) => c[s] = f[s]
<1> DEFINE Q == { q \in pairs : q[1] \in DOMAIN old }
           D == { p[2] : p \in Q }
<1>1. c = [s \in D \cup DOMAIN f |->
             IF s \in D THEN old[(CHOOSE p \in pairs : p[2] = s)[1]] ELSE f[s]]
  BY DEF CopiedTo
<1>2. \A s : s \in D <=> \E p \in pairs : p[1] \in DOMAIN old /\ p[2] = s
  OBVIOUS
<1>3. ASSUME NEW p \in pairs
      PROVE  (CHOOSE q \in pairs : q[2] = p[2]) = p
  <2> DEFINE o == CHOOSE q \in pairs : q[2] = p[2]
  <2>1. o \in pairs /\ o[2] = p[2]
    OBVIOUS
  <2> HIDE DEF o
  <2>2. o = p
    BY <2>1
  <2> QED
    BY <2>2 DEF o
<1> HIDE DEF D
<1>4. DOMAIN c = D \cup DOMAIN f
  BY <1>1
<1>5. ASSUME NEW p \in pairs, p[1] \in DOMAIN old
      PROVE  c[p[2]] = old[p[1]]
  <2>1. p[2] \in D
    BY <1>2, <1>5
  <2>2. c[p[2]] = old[(CHOOSE q \in pairs : q[2] = p[2])[1]]
    BY <1>1, <2>1
  <2> QED
    BY <1>3, <2>2
<1>6. ASSUME NEW s \in DOMAIN f, s \notin D
      PROVE  c[s] = f[s]
  BY <1>1, <1>6
<1> QED
  BY <1>2, <1>4, <1>5, <1>6
===============================================================================
