----------------------------- MODULE LookupProofs -----------------------------
(***************************************************************************)
(* Proofs about Lookup.  A search that knows no scopes and scans the ids   *)
(* upwards for the next block finds the scopes all the same when the ids   *)
(* are those of a sorted module: the next block is the parent.  That what  *)
(* is found by the walks stays right while functions are given parameters  *)
(* needs to know of every lookup left what it would find.                  *)
(***************************************************************************)
EXTENDS LookupLemmas

-----------------------------------------------------------------------------
(***************************************************************************)
(* The invariant.                                                          *)
(***************************************************************************)
\* The module stays what a sort makes of it, parameters behind its root, and
\* lookups stay with its entities.
Sound == Shaped(ent, Root) /\ Linked(ent, path, bind)

Phased == todo \in Seq(Ids) /\ phase \in DOMAIN Then \cup {"accepted"} \cup Verdicts

\* What the full walk has come by is resolved, or no search would find it.
Searched ==
  \A s \in Unresolved :
    \/ phase \notin {"full", "validate", "arity", "accepted", "rejected"}
    \/ phase = "full" /\ s[1] \in Range(todo)
    \/ Resolve(ent, s[1], path[s], Strict(s[2])) = 0

Invariant == Sound /\ Phased /\ Searched

\* The first slot component is an entity.
LEMMA Slotted ==
  ASSUME Sound, NEW s \in DOMAIN path \cup DOMAIN bind
  PROVE  s \in SlotsOf(ent) /\ s[1] \in DOMAIN ent /\ s[1] \in Ids /\ ent[s[1]].up # 0
<1>1. s \in SlotsOf(ent) /\ ent[s[1]].up # 0
  BY DEF Sound, Linked
<1>2. DOMAIN ent = Ids
  BY Parents DEF Sound, Shaped, Ids
<1> QED
  BY <1>1, <1>2 DEF SlotsOf

\* So what has a type stands in the tree.
LEMMA TypedStands ==
  ASSUME Sound, NEW e, Typed(e)
  PROVE  e \in Ids /\ ent[e].up # 0
<1> DEFINE s == <<e, "type", 1>>
<1>1. s \in DOMAIN path \cup DOMAIN bind /\ s[1] = e
  BY DEF Typed
<1> HIDE DEF s
<1> QED
  BY <1>1, Slotted

\* A block in the tree is numbered up to the root.
LEMMA BlocksStand ==
  ASSUME Sound, NEW b \in Ids, ent[b].blk, ent[b].up # 0
  PROVE  b <= Root
<1>1. Shaped(ent, Root) /\ DOMAIN ent = 1 .. Len(ent) /\ Len(ent) \in Nat /\ Root \in 1 .. Len(ent)
  BY Parents DEF Sound, Shaped
<1>2. ~Detached(ent, Root, b)
  BY <1>1, DetachedIs
<1>3. b = Root \/ b < Root
  BY <1>1, <1>2 DEF Shaped, Ids
<1> QED
  BY <1>1, <1>3 DEF Ids

\* Everything up to the root stands in the tree.
LEMMA BelowTheRoot ==
  ASSUME Sound, NEW b \in 1 .. Root
  PROVE  /\ b \in Ids /\ b \in DOMAIN ent /\ (b = Root \/ ent[b].up # 0)
         /\ \A i \in DOMAIN ent[b].kids : ent[b].kids[i] \in Ids /\ ent[ent[b].kids[i]].up = b
<1>1. Shaped(ent, Root) /\ DOMAIN ent = 1 .. Len(ent) /\ Len(ent) \in Nat /\ Root \in 1 .. Len(ent)
  BY Parents DEF Sound, Shaped
<1>2. b \in DOMAIN ent /\ b <= Root
  BY <1>1
<1>3. ent[b].up = 0 => b >= Root
  BY <1>1, <1>2, Parents
<1>4. \A i \in DOMAIN ent[b].kids : ent[b].kids[i] \in DOMAIN ent /\ ent[ent[b].kids[i]].up = b
  BY <1>1, <1>2, KidsAre
<1> QED
  BY <1>1, <1>2, <1>3, <1>4 DEF Ids

\* What Sound says of ids and of what slots hold.
LEMMA Basics ==
  ASSUME Sound
  PROVE  /\ Root \in Ids /\ DOMAIN ent = Ids /\ Len(ent) \in Nat /\ ent \in Seq(Entity)
         /\ \A s \in DOMAIN bind : bind[s] \in Ids /\ bind[s] \in Held(ent)
         /\ \A s \in DOMAIN path : /\ path[s] \in Seq(STRING \ {""}) \ {<<>>}
                                   /\ path[s] \in Seq(STRING) \ {<<>>}
<1>1. Root \in Ids /\ DOMAIN ent = Ids /\ Len(ent) \in Nat /\ ent \in Seq(Entity)
  BY Parents DEF Sound, Shaped, Ids
<1>2. \A s \in DOMAIN bind : bind[s] \in Ids /\ bind[s] \in Held(ent)
  <2>1. bind \in [DOMAIN bind -> Held(ent)]
    BY DEF Sound, Linked, Held
  <2> QED
    BY <1>1, <2>1 DEF Held
<1>3. ASSUME NEW s \in DOMAIN path
      PROVE  /\ path[s] \in Seq(STRING \ {""}) \ {<<>>}
             /\ path[s] \in Seq(STRING) \ {<<>>}
  <2> DEFINE p == path[s]
             S == STRING \ {""}
  <2>1. path \in [DOMAIN path -> Seq(STRING \ {""}) \ {<<>>}]
    BY DEF Sound, Linked
  <2>2. p \in Seq(S) \ {<<>>} /\ S \subseteq STRING
    BY <2>1
  <2> HIDE DEF p, S
  <2>3. Len(p) \in Nat /\ p = [i \in 1 .. Len(p) |-> p[i]] /\ \A i \in 1 .. Len(p) : p[i] \in S
    BY <2>2
  <2>4. \A i \in 1 .. Len(p) : p[i] \in STRING
    BY <2>2, <2>3
  <2>5. p \in Seq(STRING)
    BY <2>3, <2>4
  <2> QED
    BY <2>2, <2>5 DEF p, S
<1> QED
  BY <1>1, <1>2, <1>3

\* What a lookup is taken for is an entity, or nothing.
LEMMA TargetType ==
  ASSUME Sound, NEW s \in DOMAIN path \cup DOMAIN bind
  PROVE  Target(s) \in Held(ent) \cup {0} /\ Target(s) \in Ids \cup {0}
<1>1. CASE s \in DOMAIN bind
  BY <1>1, Basics DEF Target
<1>2. CASE s \notin DOMAIN bind
  <2>1. Shaped(ent, Root) /\ s[1] \in DOMAIN ent /\ path[s] \in Seq(STRING) \ {<<>>}
    BY <1>2, Slotted, Basics DEF Sound
  <2>2. Resolve(ent, s[1], path[s], Strict(s[2])) \in Held(ent) \cup {0}
    BY <2>1, ResolveType
  <2> QED
    BY <1>2, <2>2, Basics DEF Target, Held
<1> QED
  BY <1>1, <1>2

\* A walk that starts.
LEMMA WalkType ==
  ASSUME Sound
  PROVE  Walk \in Seq(Ids) /\ \A e \in Ids : e = Root \/ ent[e].up # 0 => e \in Range(Walk)
BY WalkSeesAll DEF Sound

\* It holds of the programs there are.
LEMMA InitSound ==
  ASSUME Init
  PROVE  Invariant
<1>1. PICK p \in Programs : ent = p.ent /\ path = p.path /\ bind = p.bind
  BY DEF Init
<1>2. \E r \in DOMAIN ent : Shaped(ent, r)
  BY <1>1, SortedPrograms
<1>7. Linked(ent, path, bind)
  BY <1>1, SortedPrograms
<1>3. Sound
  BY <1>2, <1>7, RootIs DEF Sound
<1>4. phase = "names" /\ todo = Walk
  BY DEF Init
<1>5. Phased
  BY <1>3, <1>4, WalkType DEF Phased, Then
<1>6. Searched
  BY <1>4 DEF Searched
<1> QED
  BY <1>3, <1>5, <1>6 DEF Invariant

-----------------------------------------------------------------------------
(***************************************************************************)
(* Steps.                                                                  *)
(***************************************************************************)
\* What only looks leaves the module as it is.
LEMMA SoundStays ==
  ASSUME Sound, UNCHANGED <<ent, path, bind>>
  PROVE  Sound' /\ Ids' = Ids
BY DEF Sound, Root, Ids

\* A walk goes on with what it has not visited.
LEMMA TailIs ==
  ASSUME NEW T, NEW s \in Seq(T), s # <<>>
  PROVE  /\ Tail(s) \in Seq(T) /\ Head(s) \in T
         /\ \A x \in Range(s) : x = Head(s) \/ x \in Range(Tail(s))
<1>1. Tail(s) \in Seq(T) /\ Head(s) \in T /\ Len(Tail(s)) = Len(s) - 1 /\ Head(s) = s[1]
      /\ \A i \in 1 .. Len(s) - 1 : Tail(s)[i] = s[i + 1]
  OBVIOUS
<1>2. ASSUME NEW i \in 1 .. Len(s)
      PROVE  s[i] = Head(s) \/ s[i] \in Range(Tail(s))
  <2>1. CASE i = 1
    BY <1>1, <2>1
  <2>2. CASE i # 1
    <3>1. i - 1 \in 1 .. Len(s) - 1 /\ (i - 1) + 1 = i
      BY <2>2
    <3>2. Tail(s)[i - 1] = s[i] /\ i - 1 \in DOMAIN Tail(s)
      BY <1>1, <3>1
    <3> QED
      BY <3>2 DEF Range
  <2> QED
    BY <2>1, <2>2
<1> QED
  BY <1>1, <1>2 DEF Range

\* What a call can make of function_arity.
LEMMA ArityEnds ==
  ASSUME FunctionArity
  PROVE  phase = "arity" /\ phase' \in {phase} \cup Verdicts
<1>1. ASSUME NEW t
      PROVE  ComesTo(t) \in {phase} \cup Verdicts
  BY DEF ComesTo, Verdicts
<1>2. ASSUME NEW call, NEW callee
      PROVE  Arity(call, callee) \in {phase} \cup Verdicts
  BY <1>1 DEF Arity, Verdicts
<1> QED
  BY <1>2 DEF FunctionArity

\* The walks that only look: names, lookups, arity.
LEMMA LookingStep ==
  ASSUME Invariant, NameReuse \/ LookupsResolved \/ FunctionArity
  PROVE  Invariant'
<1>0. Sound /\ Phased /\ Searched
  BY DEF Invariant
<1>1. todo # <<>> /\ todo' = Tail(todo) /\ UNCHANGED <<ent, path, bind>>
  BY DEF NameReuse, LookupsResolved, FunctionArity
<1>2. Sound' /\ Ids' = Ids
  BY <1>0, <1>1, SoundStays
<1>3. phase' \in DOMAIN Then \cup {"accepted"} \cup Verdicts
  <2>1. CASE NameReuse \/ LookupsResolved
    BY <1>0, <2>1 DEF NameReuse, LookupsResolved, Phased, Verdicts
  <2>2. CASE FunctionArity
    BY <1>0, <2>2, ArityEnds DEF Phased
  <2> QED
    BY <2>1, <2>2
<1>4. Phased'
  <2>1. todo' \in Seq(Ids)
    BY <1>0, <1>1, TailIs DEF Phased
  <2> QED
    BY <1>2, <1>3, <2>1 DEF Phased
<1>5. CASE NameReuse
  <2>1. phase' \in {"names", "redefined"}
    BY <1>5 DEF NameReuse
  <2>2. Searched'
    BY <2>1 DEF Searched
  <2> QED
    BY <1>2, <1>4, <2>2 DEF Invariant
<1>6. CASE LookupsResolved \/ FunctionArity
  <2>1. phase \in {"validate", "arity"}
    BY <1>6 DEF LookupsResolved, FunctionArity
  <2>2. \A s \in Unresolved : Resolve(ent, s[1], path[s], Strict(s[2])) = 0
    BY <1>0, <2>1 DEF Searched
  <2>3. Unresolved' = Unresolved /\ ent' = ent /\ path' = path
    BY <1>1 DEF Unresolved
  <2>4. Searched'
    BY <2>2, <2>3 DEF Searched
  <2> QED
    BY <1>2, <1>4, <2>4 DEF Invariant
<1> QED
  BY <1>5, <1>6

\* resolve_lookups.
LEMMA ResolvingStep ==
  ASSUME Invariant, NEW typesOnly \in BOOLEAN, ResolveLookups(typesOnly)
  PROVE  Invariant'
<1> DEFINE here == { s \in DOMAIN path \ DOMAIN bind :
                       s[1] = Head(todo) /\ LooksAt(s, typesOnly) /\ Target(s) # 0 }
<1>0. Sound /\ Phased /\ Searched
  BY DEF Invariant
<1>1. /\ phase = IF typesOnly THEN "types" ELSE "full"
      /\ todo # <<>> /\ todo' = Tail(todo)
      /\ bind' = [s \in here \cup DOMAIN bind |-> Target(s)]
      /\ UNCHANGED <<ent, path, phase>>
  BY DEF ResolveLookups
<1>2. here \subseteq DOMAIN path
  OBVIOUS
<1>3. \A s \in here \cup DOMAIN bind : Target(s) \in Held(ent)
  <2>1. \A s \in here : Target(s) \in Held(ent)
    BY <1>0, TargetType, Basics
  <2>2. \A s \in DOMAIN bind : Target(s) \in Held(ent)
    BY <1>0, Basics DEF Target
  <2> HIDE DEF here
  <2> QED
    BY <2>1, <2>2
<1>4. Sound' /\ Ids' = Ids
  <2>1. Shaped(ent, Root) /\ Linked(ent, path, bind)
    BY <1>0 DEF Sound
  <2>2. ent' = ent /\ path' = path /\ Root' = Root /\ Ids' = Ids
    BY <1>1 DEF Root, Ids
  <2>3. DOMAIN bind' = here \cup DOMAIN bind /\ bind' \in [DOMAIN bind' -> Held(ent)]
    <3> HIDE DEF here
    <3> QED
      BY <1>1, <1>3
  <2>4. /\ DOMAIN path \cup DOMAIN bind' \subseteq SlotsOf(ent)
        /\ \A s \in DOMAIN path \cup DOMAIN bind' : ent[s[1]].up # 0
    BY <1>2, <2>1, <2>3 DEF Linked
  <2>5. path \in [DOMAIN path -> Seq(STRING \ {""}) \ {<<>>}]
    BY <2>1 DEF Linked
  <2>6. Linked(ent, path, bind')
    BY <2>3, <2>4, <2>5 DEF Linked, Held
  <2> QED
    BY <2>1, <2>2, <2>6 DEF Sound
<1>5. Phased'
  <2>1. todo' \in Seq(Ids)
    BY <1>0, <1>1, TailIs DEF Phased
  <2> QED
    BY <1>0, <1>1, <1>4, <2>1 DEF Phased
<1>6. Searched'
  <2>1. CASE typesOnly
    <3>1. phase' = "types"
      BY <1>1, <2>1
    <3> QED
      BY <3>1 DEF Searched
  <2>2. CASE ~typesOnly
    <3>0. phase = "full" /\ phase' = "full" /\ typesOnly = FALSE
      BY <1>1, <2>2
    <3>1. ASSUME NEW s \in Unresolved'
          PROVE  s[1] \in Range(todo') \/ Resolve(ent, s[1], path[s], Strict(s[2])) = 0
      <4>1. s \in Unresolved /\ s \notin here /\ s \in DOMAIN path \ DOMAIN bind
        <5> HIDE DEF here
        <5> QED
          BY <1>1 DEF Unresolved
      <4>2. CASE s[1] = Head(todo)
        <5>1. LooksAt(s, typesOnly)
          BY <3>0 DEF LooksAt
        <5>2. Target(s) = 0
          BY <4>1, <4>2, <5>1
        <5> QED
          BY <4>1, <5>2 DEF Target
      <4>3. CASE s[1] # Head(todo)
        <5>1. s[1] \in Range(todo) \/ Resolve(ent, s[1], path[s], Strict(s[2])) = 0
          BY <1>0, <3>0, <4>1 DEF Searched
        <5>2. s[1] \in Range(todo) => s[1] \in Range(Tail(todo))
          BY <1>0, <1>1, <4>3, TailIs DEF Phased
        <5> QED
          BY <1>1, <5>1, <5>2
      <4> QED
        BY <4>2, <4>3
    <3>2. ent' = ent /\ path' = path
      BY <1>1
    <3> QED
      BY <3>0, <3>1, <3>2 DEF Searched
  <2> QED
    BY <2>1, <2>2
<1> QED
  BY <1>4, <1>5, <1>6 DEF Invariant

\* From one walk to the next.
LEMMA NextWalkStep ==
  ASSUME Invariant, NextWalk
  PROVE  Invariant'
<1>0. Sound /\ Phased /\ Searched
  BY DEF Invariant
<1>1. /\ todo = <<>> /\ phase \in DOMAIN Then /\ phase' = Then[phase]
      /\ todo' = IF phase' = "accepted" THEN <<>> ELSE Walk
      /\ UNCHANGED <<ent, path, bind>>
  BY DEF NextWalk
<1>2. Sound' /\ Ids' = Ids
  BY <1>0, <1>1, SoundStays
<1>3. Walk \in Seq(Ids) /\ \A e \in Ids : ent[e].up # 0 => e \in Range(Walk)
  BY <1>0, WalkType
<1>4. /\ phase \in {"names", "types", "materialize", "full", "validate", "arity"}
      /\ phase' \in {"types", "materialize", "full", "validate", "arity", "accepted"}
      /\ phase' = "full" <=> phase = "materialize"
      /\ phase' \in {"validate", "arity", "accepted"} <=> phase \in {"full", "validate", "arity"}
  BY <1>1 DEF Then
<1>5. Phased'
  <2>1. todo' \in Seq(Ids)
    BY <1>1, <1>3
  <2>2. phase' \in DOMAIN Then \cup {"accepted"}
    BY <1>4 DEF Then
  <2> QED
    BY <1>2, <2>1, <2>2 DEF Phased
<1>6. Unresolved' = Unresolved /\ ent' = ent /\ path' = path
  BY <1>1 DEF Unresolved
<1>7. Searched'
  <2>1. CASE phase' \in {"types", "materialize"}
    BY <2>1 DEF Searched
  <2>2. CASE phase' = "full"
    <3>1. \A e \in Ids : ent[e].up # 0 => e \in Range(todo')
      BY <1>1, <1>3, <2>2
    <3>2. \A s \in Unresolved : s[1] \in Ids /\ ent[s[1]].up # 0
      BY <1>0, Slotted DEF Unresolved
    <3> QED
      BY <1>6, <2>2, <3>1, <3>2 DEF Searched
  <2>3. CASE phase' \in {"validate", "arity", "accepted"}
    <3>1. phase \in {"full", "validate", "arity"} /\ Range(todo) = {}
      BY <1>1, <1>4, <2>3 DEF Range
    <3>2. \A s \in Unresolved : Resolve(ent, s[1], path[s], Strict(s[2])) = 0
      BY <1>0, <3>1 DEF Searched
    <3> QED
      BY <1>6, <3>2 DEF Searched
  <2> QED
    BY <1>4, <2>1, <2>2, <2>3
<1> QED
  BY <1>2, <1>5, <1>7 DEF Invariant

\* The parameters of the type ft, n of them, are given to e.
Grows(e, ft, n) ==
  /\ Typed(e) /\ ft = FunctionType(e) /\ ent[ft].fn /\ ComesTo(ft) = phase
  /\ n = IF WantsParams(e, ft) THEN Cardinality(Inputs(ft)) ELSE 0
  /\ n <= Len(DefaultNames) /\ (n # 0 => ent[e].blk)
  /\ ent' = Grown(e, ft, n)
  /\ path' = CopiedTo(path, [s \in DOMAIN path \ DOMAIN bind |-> path[s]], Passed(e, ft, n))
  /\ bind' = CopiedTo(bind, bind, Passed(e, ft, n))

\* Everything has as many inputs as there are default names, or fewer.
LEMMA InputsFew ==
  ASSUME NEW t
  PROVE  /\ IsFiniteSet(Inputs(t)) /\ Cardinality(Inputs(t)) \in Nat
         /\ Cardinality(Inputs(t)) <= Len(DefaultNames) /\ Len(DefaultNames) \in Nat
<1> DEFINE N == Len(DefaultNames)
<1>1. DOMAIN DefaultNames = 1 .. N /\ N \in Nat
  BY NamesByDefault
<1>2. Inputs(t) \subseteq 1 .. N
  BY <1>1 DEF Inputs, InputsAmong
<1> HIDE DEF N
<1>3. IsFiniteSet(1 .. N) /\ Cardinality(1 .. N) = N
  BY <1>1, UpTo
<1>4. IsFiniteSet(Inputs(t)) /\ Cardinality(Inputs(t)) <= Cardinality(1 .. N)
  BY <1>2, <1>3, FS_Subset
<1>5. Cardinality(Inputs(t)) \in Nat
  BY <1>4, FS_CardinalityType
<1> QED
  BY <1>1, <1>3, <1>4, <1>5 DEF N

\* What materializing comes to for the entity the walk is at.
LEMMA MaterializeIs ==
  ASSUME Sound, Phased, Materialize, NEW e, e = Head(todo)
  PROVE  \/ /\ UNCHANGED <<ent, path, bind>>
            /\ \/ phase' = phase /\ ~(Typed(e) /\ ent[FunctionType(e)].fn)
               \/ phase' \in {"undefined", "hung"}
         \/ phase' = phase /\ \E ft \in Ids, n \in Nat : Grows(e, ft, n)
<1> DEFINE ft == FunctionType(e)
           n == IF WantsParams(e, ft) THEN Cardinality(Inputs(ft)) ELSE 0
<1>1. phase' = IF ~Typed(e) THEN phase
               ELSE IF ReadsNoInputs(e) THEN "undefined" ELSE ComesTo(ft)
  BY DEF Materialize
<1>2. phase' \in {phase, "undefined", "hung"}
  BY <1>1 DEF ComesTo
<1>3. CASE Typed(e) /\ phase' = phase /\ ent[ft].fn
  <2>1. ft \in Ids
    BY <1>3, Basics, FunctionTypeIs DEF Typed
  <2>2. ComesTo(ft) = phase
    BY <1>1, <1>3 DEF Materialize
  <2>3. /\ ent' = Grown(e, ft, n)
        /\ path' = CopiedTo(path, [s \in DOMAIN path \ DOMAIN bind |-> path[s]], Passed(e, ft, n))
        /\ bind' = CopiedTo(bind, bind, Passed(e, ft, n))
    BY <1>3 DEF Materialize, Grown, Passed
  <2>4. n \in Nat /\ n <= Len(DefaultNames) /\ (n # 0 => ent[e].blk)
    BY InputsFew DEF WantsParams
  <2>5. Grows(e, ft, n)
    BY <1>3, <2>2, <2>3, <2>4 DEF Grows
  <2> HIDE DEF n
  <2> QED
    BY <1>3, <2>1, <2>4, <2>5
<1>4. CASE ~(Typed(e) /\ phase' = phase /\ ent[ft].fn)
  <2>1. UNCHANGED <<ent, path, bind>>
    BY <1>4 DEF Materialize
  <2> QED
    BY <1>2, <1>4, <2>1
<1> QED
  BY <1>3, <1>4

\* It leaves a module a sort could have made, and lookups of its entities.
LEMMA GrowingSound ==
  ASSUME Sound, NEW e \in Ids, NEW ft \in Ids, NEW n \in Nat, Grows(e, ft, n)
  PROVE  Sound' /\ Ids \subseteq Ids' /\ Root' = Root /\ Ids' = DOMAIN ent'
<1> DEFINE r == Root
<1>0. /\ Shaped(ent, r) /\ Linked(ent, path, bind)
      /\ r \in Ids /\ DOMAIN ent = Ids /\ Len(ent) \in Nat /\ ent \in Seq(Entity)
  BY Basics DEF Sound
<1>1. /\ n <= Len(DefaultNames) /\ (n # 0 => ent[e].blk)
      /\ ent' = Grown(e, ft, n)
      /\ path' = CopiedTo(path, [s \in DOMAIN path \ DOMAIN bind |-> path[s]],
                          Passed(e, ft, n))
      /\ bind' = CopiedTo(bind, bind, Passed(e, ft, n))
  BY DEF Grows
<1> DEFINE N == Len(ent)
           g == ent'
           pairs == Passed(e, ft, n)
           old == [s \in DOMAIN path \ DOMAIN bind |-> path[s]]
<1> HIDE DEF r, pairs, N, g
<1>2. g = Grown(e, ft, n) /\ N = Len(ent)
  BY <1>1 DEF g, N
<1>14. ent[e].up # 0
  <2>1. <<e, "type", 1>> \in DOMAIN path \cup DOMAIN bind
    BY DEF Grows, Typed
  <2> DEFINE s == <<e, "type", 1>>
  <2>2. s[1] = e /\ s \in DOMAIN path \cup DOMAIN bind
    BY <2>1
  <2> HIDE DEF s
  <2> QED
    BY <2>2, Slotted
<1>3. Shaped(g, r)
  BY <1>0, <1>1, <1>2, <1>14, GrownShaped
<1>4. /\ g \in Seq(Entity) /\ Len(g) = N + n
      /\ \A x \in Ids : g[x].up = ent[x].up
      /\ \A j \in 1 .. n : g[N + j].up = e
  <2>1. Extends(g, e, n, N)
    BY <1>0, <1>1, <1>2, GrownIs
  <2> QED
    BY <2>1 DEF Extends
<1>5. DOMAIN g = 1 .. N + n /\ DOMAIN ent = 1 .. N /\ DOMAIN ent \subseteq DOMAIN g /\ N \in Nat
  BY <1>0, <1>2, <1>4
<1>6. Root' = r /\ Ids' = DOMAIN g
  <2>1. Ids' = DOMAIN g
    BY <1>4, <1>5 DEF Ids, g
  <2>2. Root' = Min({ x \in 1 .. Len(g) : g[x].up = 0 })
    BY DEF Root, Ids, g
  <2> QED
    BY <1>3, <2>1, <2>2, FirstIsRoot
<1>7. /\ \A p, q \in pairs : p[2] = q[2] => p = q
      /\ \A p \in pairs : \/ p[2] = <<e, "ret", 1>>
                          \/ \E i \in 1 .. n : p[2] = <<Fresh(i, n), "type", 1>>
  BY <1>0, PassedIs DEF pairs
<1>8. ASSUME NEW p \in pairs
      PROVE  p[2] \in SlotsOf(g) /\ g[p[2][1]].up # 0
  <2>1. CASE p[2] = <<e, "ret", 1>>
    <3>1. e \in DOMAIN g /\ g[e].up # 0
      BY <1>0, <1>4, <1>5, <1>14
    <3> QED
      BY <2>1, <3>1 DEF SlotsOf
  <2>2. ASSUME NEW i \in 1 .. n, p[2] = <<Fresh(i, n), "type", 1>>
        PROVE  p[2] \in SlotsOf(g) /\ g[p[2][1]].up # 0
    <3> DEFINE j == n + 1 - i
    <3>1. j \in 1 .. n /\ Fresh(i, n) = N + j
      BY <1>2, <1>5 DEF Fresh
    <3> HIDE DEF j
    <3>2. N + j \in DOMAIN g /\ e # 0
      BY <1>0, <1>5, <3>1
    <3>3. g[N + j].up = e
      BY <1>4, <3>1
    <3> QED
      BY <2>2, <3>1, <3>2, <3>3 DEF SlotsOf
  <2> QED
    BY <1>7, <2>1, <2>2
<1>9. ASSUME NEW s \in DOMAIN path \cup DOMAIN bind
      PROVE  s \in SlotsOf(g) /\ g[s[1]].up # 0
  <2>1. s \in SlotsOf(ent) /\ s[1] \in Ids /\ ent[s[1]].up # 0
    BY Slotted
  <2>2. SlotsOf(ent) \subseteq SlotsOf(g)
    BY <1>5 DEF SlotsOf
  <2> QED
    BY <1>4, <2>1, <2>2
<1>10. /\ DOMAIN path' \subseteq DOMAIN path \cup { p[2] : p \in pairs }
       /\ path' \in [DOMAIN path' -> Seq(STRING \ {""}) \ {<<>>}]
  <2> DEFINE T == Seq(STRING \ {""}) \ {<<>>}
  <2>1. \A s \in DOMAIN path : path[s] \in T
    BY Basics
  <2>2. \A s \in DOMAIN old : old[s] \in T
    BY <2>1
  <2>3. path' = CopiedTo(path, old, pairs)
    BY <1>1 DEF pairs
  <2> HIDE DEF T, old
  <2>4. /\ DOMAIN path' \subseteq DOMAIN path \cup { p[2] : p \in pairs }
        /\ path' \in [DOMAIN path' -> T]
    BY <1>7, <2>1, <2>2, <2>3, CopiedType
  <2> QED
    BY <2>4 DEF T
<1>11. /\ DOMAIN bind' \subseteq DOMAIN bind \cup { p[2] : p \in pairs }
       /\ bind' \in [DOMAIN bind' -> Held(g)]
  <2>1. \A s \in DOMAIN bind : bind[s] \in Held(g)
    <3>1. \A s \in DOMAIN bind : bind[s] \in Held(ent)
      BY Basics
    <3> QED
      BY <1>0, <1>4, <1>5, <3>1 DEF Held
  <2>2. bind' = CopiedTo(bind, bind, pairs)
    BY <1>1 DEF pairs
  <2> QED
    BY <1>7, <2>1, <2>2, CopiedType
<1>12. Linked(g, path', bind')
  <2>1. ASSUME NEW s \in DOMAIN path' \cup DOMAIN bind'
        PROVE  s \in SlotsOf(g) /\ g[s[1]].up # 0
    <3>1. s \in DOMAIN path \cup DOMAIN bind \/ \E p \in pairs : s = p[2]
      BY <1>10, <1>11
    <3> QED
      BY <1>8, <1>9, <3>1
  <2> QED
    BY <1>10, <1>11, <2>1 DEF Linked, Held
<1>13. Sound'
  BY <1>3, <1>6, <1>12 DEF Sound, g
<1> QED
  BY <1>0, <1>5, <1>6, <1>13 DEF g, r

\* So does the pass, wherever it is.
LEMMA MaterializingSound ==
  ASSUME Sound, Phased, Materialize
  PROVE  Sound' /\ Ids \subseteq Ids'
<1> DEFINE e == Head(todo)
<1>1. e \in Ids
  BY TailIs DEF Materialize, Phased
<1>2. CASE UNCHANGED <<ent, path, bind>>
  BY <1>2, SoundStays
<1>3. ASSUME NEW ft \in Ids, NEW n \in Nat, Grows(e, ft, n)
      PROVE  Sound' /\ Ids \subseteq Ids'
  BY <1>1, <1>3, GrowingSound
<1> HIDE DEF e
<1> QED
  BY <1>2, <1>3, MaterializeIs DEF e

\* The pass that gives functions their parameters keeps the invariant.
LEMMA MaterializingStep ==
  ASSUME Invariant, Materialize
  PROVE  Invariant'
<1>0. Sound /\ Phased /\ Searched
  BY DEF Invariant
<1>1. /\ todo # <<>> /\ todo' = Tail(todo) /\ phase = "materialize"
      /\ phase' \in {phase, "undefined", "hung"}
  BY <1>0, MaterializeIs DEF Materialize
<1>2. Sound' /\ Ids \subseteq Ids'
  BY <1>0, MaterializingSound
<1>3. Phased'
  <2>1. todo' \in Seq(Ids)
    BY <1>0, <1>1, TailIs DEF Phased
  <2>2. todo' \in Seq(Ids')
    BY <1>2, <2>1
  <2> QED
    BY <1>1, <2>2 DEF Phased, Then, Verdicts
<1>4. Searched'
  BY <1>1 DEF Searched
<1> QED
  BY <1>2, <1>3, <1>4 DEF Invariant

\* Every step keeps it.
LEMMA InvariantStep ==
  ASSUME Invariant, [Next]_vars
  PROVE  Invariant'
<1>1. CASE NameReuse \/ LookupsResolved \/ FunctionArity
  BY <1>1, LookingStep
<1>2. CASE ResolveLookups(TRUE)
  BY <1>2, ResolvingStep
<1>3. CASE ResolveLookups(FALSE)
  BY <1>3, ResolvingStep
<1>4. CASE Materialize
  BY <1>4, MaterializingStep
<1>5. CASE NextWalk
  BY <1>5, NextWalkStep
<1>6. CASE UNCHANGED vars
  <2>1. UNCHANGED <<ent, path, bind, todo, phase>> /\ Sound /\ Phased /\ Searched
    BY <1>6 DEF vars, Invariant
  <2>2. Sound' /\ Ids' = Ids
    BY <2>1, SoundStays
  <2> QED
    BY <2>1, <2>2 DEF Invariant, Phased, Searched, Unresolved
<1> QED
  BY <1>1, <1>2, <1>3, <1>4, <1>5, <1>6 DEF Next

\* The invariant holds of every reachable state.
LEMMA Holds == Spec => []Invariant
<1>1. Init => Invariant
  BY InitSound
<1>2. Invariant /\ [Next]_vars => Invariant'
  BY InvariantStep
<1> QED
  BY <1>1, <1>2, PTL DEF Spec

-----------------------------------------------------------------------------
(*****************************************************************************)
(* What a step does to types and lookups.                                   *)
(*****************************************************************************)
Slots == DOMAIN path \cup DOMAIN bind

\* The lookups after a step that gives e its parameters.
Carried(e, ft, n) ==
  /\ DOMAIN path \subseteq DOMAIN path' /\ DOMAIN bind \subseteq DOMAIN bind'
  /\ \A s \in Slots' : \/ s \in Slots \/ s = <<e, "ret", 1>>
                       \/ \E i \in 1 .. n : s = <<Fresh(i, n), "type", 1>>
  /\ \A s : s # <<e, "ret", 1>> /\ s[1] \in Ids =>
       /\ s \in DOMAIN path' <=> s \in DOMAIN path
       /\ s \in DOMAIN bind' <=> s \in DOMAIN bind
       /\ s \in DOMAIN path => path'[s] = path[s]
       /\ s \in DOMAIN bind => bind'[s] = bind[s]
  /\ \A i \in 1 .. n : LET s == <<Fresh(i, n), "type", 1>>
                           t == <<ft, "input", i>>
                       IN /\ s \in DOMAIN path' <=> t \in Unresolved
                          /\ s \in DOMAIN bind' <=> t \in DOMAIN bind

\* What becomes of the slots when e is given parameters.
LEMMA GrowingCarries ==
  ASSUME Sound, NEW e \in Ids, NEW ft \in Ids, NEW n \in Nat, Grows(e, ft, n)
  PROVE  Carried(e, ft, n)
<1> DEFINE pairs == Passed(e, ft, n)
           old == [s \in DOMAIN path \ DOMAIN bind |-> path[s]]
           New(s) == \E i \in 1 .. n : s = <<Fresh(i, n), "type", 1>>
<1>0. Len(ent) \in Nat /\ Ids = 1 .. Len(ent)
  BY Basics DEF Ids
<1>1. path' = CopiedTo(path, old, pairs) /\ bind' = CopiedTo(bind, bind, pairs)
  BY DEF Grows
<1>2. /\ \A p, q \in pairs : p[2] = q[2] => p = q
      /\ \A p \in pairs : p[2] = <<e, "ret", 1>> \/ New(p[2])
  BY <1>0, PassedIs
<1>3. \A i \in 1 .. n : <<<<ft, "input", i>>, <<Fresh(i, n), "type", 1>>>> \in pairs
  BY DEF Passed
<1>4. \A i \in 1 .. n : Fresh(i, n) \notin Ids
  BY <1>0 DEF Fresh
<1>5. \A s \in Slots : s[1] \in Ids
  BY Slotted DEF Slots
<1> DEFINE From(o, s) == \E p \in pairs : p[1] \in DOMAIN o /\ p[2] = s
<1>6. /\ \A s : s \in DOMAIN path' <=> s \in DOMAIN path \/ From(old, s)
      /\ \A p \in pairs : p[1] \in DOMAIN old => path'[p[2]] = old[p[1]]
      /\ \A s \in DOMAIN path : ~From(old, s) => path'[s] = path[s]
  <2> HIDE DEF pairs, old
  <2> QED
    BY <1>1, <1>2, CopiedIs
<1>7. /\ \A s : s \in DOMAIN bind' <=> s \in DOMAIN bind \/ From(bind, s)
      /\ \A p \in pairs : p[1] \in DOMAIN bind => bind'[p[2]] = bind[p[1]]
      /\ \A s \in DOMAIN bind : ~From(bind, s) => bind'[s] = bind[s]
  <2> HIDE DEF pairs, old
  <2> QED
    BY <1>1, <1>2, CopiedIs
<1>8. DOMAIN old = Unresolved
  BY DEF Unresolved
<1>9. ASSUME NEW o, NEW s, From(o, s)
      PROVE  s = <<e, "ret", 1>> \/ New(s)
  BY <1>2, <1>9
<1>10. ASSUME NEW s, s[1] \in Ids
       PROVE  ~New(s)
  BY <1>4, <1>10
<1>11. ASSUME NEW i \in 1 .. n, NEW o
       PROVE  From(o, <<Fresh(i, n), "type", 1>>) <=> <<ft, "input", i>> \in DOMAIN o
  <2> DEFINE s == <<Fresh(i, n), "type", 1>>
             q == <<<<ft, "input", i>>, s>>
  <2>1. q \in pairs /\ q[2] = s /\ q[1] = <<ft, "input", i>>
    BY <1>3
  <2>2. \A p \in pairs : p[2] = s => p = q
    BY <1>2, <2>1
  <2> HIDE DEF pairs, q, s
  <2>3. From(o, s) <=> <<ft, "input", i>> \in DOMAIN o
    BY <2>1, <2>2
  <2> QED
    BY <2>3 DEF s
<1> HIDE DEF pairs, old, From, New
<1>12. ASSUME NEW i \in 1 .. n
       PROVE  <<Fresh(i, n), "type", 1>> \notin Slots
  <2>1. <<Fresh(i, n), "type", 1>>[1] = Fresh(i, n)
    OBVIOUS
  <2> QED
    BY <1>4, <1>5, <2>1
<1>13. \A s \in Slots' : s \in Slots \/ s = <<e, "ret", 1>> \/ New(s)
  BY <1>6, <1>7, <1>9 DEF Slots
<1>14. \A s : s # <<e, "ret", 1>> /\ s[1] \in Ids =>
         /\ s \in DOMAIN path' <=> s \in DOMAIN path
         /\ s \in DOMAIN bind' <=> s \in DOMAIN bind
         /\ s \in DOMAIN path => path'[s] = path[s]
         /\ s \in DOMAIN bind => bind'[s] = bind[s]
  BY <1>6, <1>7, <1>9, <1>10
<1>15. \A i \in 1 .. n :
         /\ <<Fresh(i, n), "type", 1>> \in DOMAIN path' <=> <<ft, "input", i>> \in Unresolved
         /\ <<Fresh(i, n), "type", 1>> \in DOMAIN bind' <=> <<ft, "input", i>> \in DOMAIN bind
  BY <1>6, <1>7, <1>8, <1>11, <1>12 DEF Slots
<1> QED
  BY <1>6, <1>7, <1>13, <1>14, <1>15 DEF Carried, New

\* What giving e its parameters does to the module.
Grew(e, ft, n) ==
  /\ Shaped(ent, Root) /\ Shaped(ent', Root) /\ Widened(ent, ent', e, n)
  /\ Adds(ent', e, ft, n, Len(ent)) /\ Extends(ent', e, n, Len(ent))
  /\ Root \in Ids /\ DOMAIN ent = Ids /\ DOMAIN ent' = Ids' /\ Ids \subseteq Ids'
  /\ Root' = Root /\ Len(ent) \in Nat
  /\ \A x \in Ids' \ Ids : \E j \in 1 .. n : x = Len(ent) + j
  /\ \A j \in 1 .. n : Len(ent) + j \in Ids' \ Ids
  /\ \A x \in Ids' \ Ids :
       /\ x > Root /\ ent'[x].up = e /\ ent'[x].param # 0 /\ ent'[x].kids = <<>>
       /\ ent'[x].names = <<>>
       /\ ~ent'[x].blk /\ ~ent'[x].tdef /\ ~ent'[x].fn /\ ~ent'[x].modifier /\ ~ent'[x].space

\* And of the entities.
LEMMA GrowingWidens ==
  ASSUME Sound, NEW e \in Ids, NEW ft \in Ids, NEW n \in Nat, Grows(e, ft, n)
  PROVE  Grew(e, ft, n)
<1> DEFINE N == Len(ent)
           g == ent'
           r == Root
<1>0. /\ Shaped(ent, r) /\ r \in Ids /\ DOMAIN ent = Ids /\ N \in Nat /\ ent \in Seq(Entity)
      /\ Ids = 1 .. N
  BY Basics DEF Sound, Ids
<1>1. g = Grown(e, ft, n) /\ n <= Len(DefaultNames) /\ (n # 0 => ent[e].blk)
  BY DEF Grows
<1>2. Sound' /\ Ids \subseteq Ids' /\ Root' = r /\ Ids' = DOMAIN g
  BY GrowingSound
<1> HIDE DEF r, N, g
<1>3. Extends(g, e, n, N)
  BY <1>0, <1>1, GrownIs DEF N
<1>4. Adds(g, e, ft, n, N)
  BY <1>0, <1>1, GrownAdds DEF N
<1>5. Shaped(g, r)
  BY <1>2 DEF Sound, g
<1>6. /\ g \in Seq(Entity) /\ Len(g) = N + n
      /\ \A x \in Ids : /\ g[x].up = ent[x].up /\ g[x].blk = ent[x].blk
                        /\ x # e => g[x].kids = ent[x].kids
      /\ Len(g[e].kids) = n + Len(ent[e].kids)
      /\ \A i \in 1 .. n : g[e].kids[i] = Fresh(i, n)
      /\ \A i \in 1 .. Len(ent[e].kids) : g[e].kids[n + i] = ent[e].kids[i]
      /\ \A j \in 1 .. n : /\ g[N + j].up = e /\ g[N + j].kids = <<>>
                           /\ ~g[N + j].blk /\ g[N + j].param = n + 1 - j
  BY <1>3 DEF Extends
<1>7. DOMAIN g = 1 .. N + n
  BY <1>6
<1>8. \A x \in Ids' \ Ids : \E j \in 1 .. n : x = N + j
  <2> TAKE x \in Ids' \ Ids
  <2>1. x - N \in 1 .. n /\ x = N + (x - N)
    BY <1>0, <1>2, <1>7
  <2> QED
    BY <2>1
<1>9. \A j \in 1 .. n : N + j \in Ids' \ Ids
  BY <1>0, <1>2, <1>7
<1>10. /\ \A x \in Ids : g[x].name = ent[x].name /\ g[x].space = ent[x].space
       /\ \A j \in 1 .. n : /\ g[N + j].names = <<>> /\ ~g[N + j].space /\ ~g[N + j].tdef
                            /\ ~g[N + j].fn /\ ~g[N + j].modifier
  BY <1>4 DEF Adds
<1>11. ASSUME NEW x \in Ids' \ Ids
       PROVE  /\ x > r /\ g[x].up = e /\ g[x].param # 0 /\ g[x].kids = <<>>
              /\ g[x].names = <<>>
              /\ ~g[x].blk /\ ~g[x].tdef /\ ~g[x].fn /\ ~g[x].modifier /\ ~g[x].space
  <2>1. PICK j \in 1 .. n : x = N + j
    BY <1>8
  <2>2. x > r
    BY <1>0, <2>1
  <2>3. g[x].param # 0
    BY <1>6, <2>1
  <2> QED
    BY <1>6, <1>10, <2>1, <2>2, <2>3
<1>12. \A i \in 1 .. n : Fresh(i, n) \in Ids' \ Ids
  <2> TAKE i \in 1 .. n
  <2>1. n + 1 - i \in 1 .. n /\ Fresh(i, n) = N + (n + 1 - i)
    BY <1>0 DEF Fresh, N
  <2> QED
    BY <1>9, <2>1
<1>13. Widened(ent, g, e, n)
  BY <1>0, <1>2, <1>6, <1>10, <1>11, <1>12 DEF Widened
<1> QED
  BY <1>0, <1>2, <1>3, <1>4, <1>5, <1>8, <1>9, <1>11, <1>13 DEF Grew, N, g, r

-----------------------------------------------------------------------------
(***************************************************************************)
(* The types of functions behind their modifiers.                          *)
(***************************************************************************)
\* F is what FunctionType goes by.
Solves(F) ==
  /\ \A n \in 0 .. Len(ent) : \A t \in Ids :
       F[n][t] = IF n > 0 /\ Modifies(t) THEN F[n - 1][bind[<<t, "input", 1>>]] ELSE t
  /\ \A e : FunctionType(e) = F[Len(ent)][bind[<<e, "type", 1>>]]

\* There is one.
LEMMA TypeBy == Len(ent) \in Nat => \E F : Solves(F)
<1> SUFFICES ASSUME Len(ent) \in Nat
             PROVE  \E F : Solves(F)
  OBVIOUS
<1> DEFINE F == CHOOSE F : Unmodified(F)
<1>1. Unmodified(F)
  BY UnmodifiedExists
<1>2. \A e : FunctionType(e) = F[Len(ent)][bind[<<e, "type", 1>>]]
  BY DEF FunctionType, Unmodified, Through
<1> HIDE DEF F
<1>3. \A n \in 0 .. Len(ent) : F[n] = Through(n, F[n - 1])
  BY <1>1, Zenon DEF Unmodified
<1>4. \A n \in 0 .. Len(ent) : \A t \in Ids :
        F[n][t] = IF n > 0 /\ Modifies(t) THEN F[n - 1][bind[<<t, "input", 1>>]] ELSE t
  BY <1>3 DEF Through
<1>5. Solves(F)
  BY <1>2, <1>4 DEF Solves
<1> QED
  BY <1>5

\* After the step, too.
LEMMA TypeByNext == (Len(ent) \in Nat)' => (\E F : Solves(F))'
BY TypeBy, PTL

\* What modifiers lead to is in the module.
LEMMA Bounded ==
  Sound => Len(ent) \in Nat /\ \A t \in Ids : Modifies(t) => bind[<<t, "input", 1>>] \in Ids
BY Basics DEF Modifies

\* After the step, too.
LEMMA BoundedNext ==
  Sound' => (Len(ent) \in Nat /\ \A t \in Ids : Modifies(t) => bind[<<t, "input", 1>>] \in Ids)'
BY Bounded, PTL

\* A type that is no modifier is what it is.
LEMMA TypeAtOnce ==
  Sound => \A e : Typed(e) /\ ~Modifies(bind[<<e, "type", 1>>])
                  => FunctionType(e) = bind[<<e, "type", 1>>]
<1> SUFFICES ASSUME Sound, NEW e, Typed(e), ~Modifies(bind[<<e, "type", 1>>])
             PROVE  FunctionType(e) = bind[<<e, "type", 1>>]
  OBVIOUS
<1>1. Len(ent) \in Nat /\ bind[<<e, "type", 1>>] \in Ids
  BY Basics DEF Typed
<1>2. PICK F : Solves(F)
  BY <1>1, TypeBy
<1>3. Len(ent) \in 0 .. Len(ent)
  BY <1>1
<1> QED
  BY <1>1, <1>2, <1>3 DEF Solves

\* What has a type comes to one, that stands in the tree.
LEMMA TypeStands == Sound => \A e : Typed(e) => FunctionType(e) \in Held(ent)
<1> SUFFICES ASSUME Sound, NEW e, Typed(e)
             PROVE  FunctionType(e) \in Held(ent)
  OBVIOUS
<1>1. Held(ent) \in SUBSET Ids /\ Len(ent) \in Nat /\ \A s \in DOMAIN bind : bind[s] \in Held(ent)
  BY Basics DEF Held
<1> QED
  BY <1>1, FunctionTypeIs DEF Typed

LEMMA TypeKnown == Sound => \A e : Typed(e) => FunctionType(e) \in Ids
BY TypeStands, Basics DEF Held

\* The modifiers there are stay as they are.
ModifiersStay ==
  \A t \in Ids : /\ Modifies(t)' <=> Modifies(t)
                 /\ Modifies(t) => bind'[<<t, "input", 1>>] = bind[<<t, "input", 1>>]

\* What a type comes to stays when modifiers do, if it came to an end.
LEMMA TypeStays ==
  ASSUME Sound, Sound', Ids \subseteq Ids', Len(ent) <= Len(ent'), ModifiersStay,
         NEW f, Typed(f), bind'[<<f, "type", 1>>] = bind[<<f, "type", 1>>],
         ~Modifies(FunctionType(f))
  PROVE  FunctionType(f)' = FunctionType(f)
<1> DEFINE N == Len(ent)
           M == Len(ent')
           u == bind[<<f, "type", 1>>]
<1>0. N \in Nat /\ u \in Ids /\ \A s \in DOMAIN bind : bind[s] \in Ids
  BY Basics DEF Typed
<1>1. M \in Nat
  BY BoundedNext
<1>2. PICK F : Solves(F)
  BY <1>0, TypeBy
<1>3. PICK H : Solves(H)'
  BY <1>1, TypeByNext
<1>4. \A n \in 0 .. N : \A t \in Ids :
        F[n][t] = IF n > 0 /\ Modifies(t) THEN F[n - 1][bind[<<t, "input", 1>>]] ELSE t
  BY <1>2 DEF Solves
<1>5. \A n \in 0 .. M : \A t \in Ids' :
        H[n][t] = IF n > 0 /\ Modifies(t)' THEN H[n - 1][bind'[<<t, "input", 1>>]] ELSE t
  BY <1>3 DEF Solves
<1>6. FunctionType(f) = F[N][u] /\ FunctionType(f)' = H[M][u]
  BY <1>2, <1>3 DEF Solves
<1> DEFINE To(t) == bind[<<t, "input", 1>>]
<1>7. \A n \in 0 .. M : \A t \in Ids :
        H[n][t] = IF n > 0 /\ Modifies(t) THEN H[n - 1][To(t)] ELSE t
  BY <1>5 DEF ModifiersStay
<1>8. \A t \in Ids : Modifies(t) => To(t) \in Ids
  BY <1>0 DEF Modifies
<1> DEFINE S == { k \in Nat : k <= N => \A t \in Ids :
                    ~Modifies(F[k][t]) => \A j \in k .. M : H[j][t] = F[k][t] }
<1>9. N <= M
  OBVIOUS
<1> HIDE DEF N, M, u, To
<1>10. 0 \in S
  <2>1. ASSUME NEW t \in Ids
        PROVE  F[0][t] = t
    <3>1. 0 \in 0 .. N /\ ~(0 > 0)
      BY <1>0 DEF N
    <3> QED
      BY <1>4, <3>1
  <2>2. ASSUME NEW t \in Ids, ~Modifies(F[0][t]), NEW j \in 0 .. M
        PROVE  H[j][t] = F[0][t]
    BY <1>7, <2>1, <2>2
  <2> QED
    BY <2>2
<1>11. ASSUME NEW k \in Nat, k \in S
       PROVE  k + 1 \in S
  <2>1. ASSUME k + 1 <= N, NEW t \in Ids, ~Modifies(F[k + 1][t]), NEW j \in k + 1 .. M
        PROVE  H[j][t] = F[k + 1][t]
    <3>1. k + 1 \in 0 .. N /\ k + 1 > 0 /\ (k + 1) - 1 = k /\ k <= N
      BY <1>0, <2>1
    <3>2. j \in 0 .. M /\ j > 0 /\ j - 1 \in k .. M
      BY <1>1, <2>1 DEF M
    <3>3. CASE Modifies(t)
      <4>1. To(t) \in Ids /\ F[k + 1][t] = F[k][To(t)] /\ H[j][t] = H[j - 1][To(t)]
        BY <1>4, <1>7, <1>8, <3>1, <3>2, <3>3 DEF To
      <4>2. H[j - 1][To(t)] = F[k][To(t)]
        BY <1>11, <2>1, <3>1, <3>2, <4>1
      <4> QED
        BY <4>1, <4>2
    <3>4. CASE ~Modifies(t)
      BY <1>4, <1>7, <3>1, <3>2, <3>4
    <3> QED
      BY <3>3, <3>4
  <2> QED
    BY <2>1
<1>12. N \in S
  <2> HIDE DEF S
  <2> QED
    BY <1>0, <1>10, <1>11, SetInduction DEF N
<1>13. M \in N .. M
  BY <1>0, <1>1, <1>9 DEF N, M
<1>14. N <= N
  BY <1>0 DEF N
<1>15. u \in Ids
  BY <1>0 DEF u
<1> QED
  BY <1>6, <1>12, <1>13, <1>14, <1>15

\* A modifier of something that has not been found.
Open(t) == Modifier(t) /\ <<t, "input", 1>> \notin DOMAIN bind

\* Modifiers stay, but for open ones, which turn into what is none.
OpenTurn(r) ==
  \A t \in Ids : /\ Modifies(t) => /\ Modifies(t)'
                                   /\ bind'[<<t, "input", 1>>] = bind[<<t, "input", 1>>]
                 /\ Modifies(t)' /\ ~Modifies(t)
                    => /\ Open(t) /\ bind'[<<t, "input", 1>>] > r
                       /\ \A u \in Ids : u = bind'[<<t, "input", 1>>] => ~Modifies(u)'

\* Then so does what types come to.
LEMMA TypeTurns ==
  ASSUME Sound, Sound', ent' = ent, NEW r, OpenTurn(r),
         NEW f, Typed(f), bind'[<<f, "type", 1>>] = bind[<<f, "type", 1>>]
  PROVE  \/ FunctionType(f)' = FunctionType(f)
         \/ FunctionType(f)' > r /\ Open(FunctionType(f))
<1> DEFINE N == Len(ent)
           u == bind[<<f, "type", 1>>]
<1>0. N \in Nat /\ u \in Ids /\ \A s \in DOMAIN bind : bind[s] \in Ids
  BY Basics DEF Typed
<1>1. Ids' = Ids
  BY DEF Ids
<1>2. PICK F : Solves(F)
  BY <1>0, TypeBy
<1>3. PICK H : Solves(H)'
  BY <1>0, TypeByNext
<1>4. \A n \in 0 .. N : \A t \in Ids :
        F[n][t] = IF n > 0 /\ Modifies(t) THEN F[n - 1][bind[<<t, "input", 1>>]] ELSE t
  BY <1>2 DEF Solves
<1>5. \A n \in 0 .. N : \A t \in Ids :
        H[n][t] = IF n > 0 /\ Modifies(t)' THEN H[n - 1][bind'[<<t, "input", 1>>]] ELSE t
  BY <1>1, <1>3 DEF Solves
<1>6. FunctionType(f) = F[N][u] /\ FunctionType(f)' = H[N][u]
  BY <1>2, <1>3 DEF Solves
<1>7. \A t \in Ids : Modifies(t) => bind[<<t, "input", 1>>] \in Ids
  BY <1>0 DEF Modifies
<1>8. \A t \in Ids : Modifies(t)' => bind'[<<t, "input", 1>>] \in Ids
  BY <1>1, BoundedNext
<1> DEFINE To(t) == bind[<<t, "input", 1>>]
           Next2(t) == bind'[<<t, "input", 1>>]
           Fine(a, b) == b = a \/ (b > r /\ Open(a))
           S == { k \in Nat : k <= N => \A t \in Ids : Fine(F[k][t], H[k][t]) }
<1>9. \A t \in Ids : Modifies(t) => Modifies(t)' /\ Next2(t) = To(t)
  BY DEF OpenTurn
<1>10. \A t \in Ids : Modifies(t)' /\ ~Modifies(t)
                      => Open(t) /\ Next2(t) > r /\ \A x \in Ids : x = Next2(t) => ~Modifies(x)'
  BY DEF OpenTurn
<1>11. 0 \in S
  <2>1. ASSUME NEW t \in Ids
        PROVE  F[0][t] = t /\ H[0][t] = t
    <3>1. 0 \in 0 .. N /\ ~(0 > 0)
      BY <1>0
    <3> HIDE DEF N
    <3> QED
      BY <1>1, <1>4, <1>5, <3>1
  <2> QED
    BY <2>1
<1> HIDE DEF N, u, Fine, Next2, To
<1>12. ASSUME NEW k \in Nat, k \in S
       PROVE  k + 1 \in S
  <2>1. ASSUME k + 1 <= N, NEW t \in Ids
        PROVE  Fine(F[k + 1][t], H[k + 1][t])
    <3>1. k + 1 \in 0 .. N /\ k + 1 > 0 /\ (k + 1) - 1 = k /\ k <= N /\ k \in 0 .. N
      BY <1>0, <2>1 DEF N
    <3>2. CASE Modifies(t)
      <4>1. To(t) \in Ids /\ F[k + 1][t] = F[k][To(t)] /\ H[k + 1][t] = H[k][To(t)]
        BY <1>4, <1>5, <1>7, <1>9, <3>1, <3>2 DEF To, Next2
      <4> QED
        BY <1>12, <3>1, <4>1
    <3>3. CASE ~Modifies(t) /\ Modifies(t)'
      <4>1. /\ Next2(t) \in Ids /\ F[k + 1][t] = t /\ H[k + 1][t] = H[k][Next2(t)]
            /\ Open(t) /\ Next2(t) > r /\ \A x \in Ids : x = Next2(t) => ~Modifies(x)'
        BY <1>4, <1>5, <1>8, <1>10, <3>1, <3>3 DEF Next2
      <4>2. PICK x \in Ids : x = Next2(t)
        BY <4>1
      <4>3. H[k][x] = x
        BY <1>5, <3>1, <4>1, <4>2
      <4> QED
        BY <4>1, <4>2, <4>3 DEF Fine
    <3>4. CASE ~Modifies(t) /\ ~Modifies(t)'
      <4>1. F[k + 1][t] = t /\ H[k + 1][t] = t
        BY <1>4, <1>5, <3>1, <3>4
      <4> QED
        BY <4>1 DEF Fine
    <3> QED
      BY <3>2, <3>3, <3>4
  <2> QED
    BY <2>1
<1>13. N \in S
  <2> HIDE DEF S
  <2> QED
    BY <1>0, <1>11, <1>12, SetInduction DEF N
<1>14. u \in Ids /\ N <= N
  BY <1>0 DEF u, N
<1>15. Fine(F[N][u], H[N][u])
  BY <1>13, <1>14
<1> QED
  BY <1>6, <1>15 DEF Fine

-----------------------------------------------------------------------------
(*****************************************************************************)
(* What is known of lookups and of parameters while the walks go on.        *)
(*****************************************************************************)
\* How inputs are numbered, and what entities have.
Formed ==
  /\ \A s \in Slots : s[2] = "input" => /\ s[3] \in DOMAIN DefaultNames
                                        /\ \A i \in 1 .. s[3] : <<s[1], "input", i>> \in Slots
  /\ \A s \in Slots : s[2] # "input" => s[3] = 1
  /\ \A e \in Ids : ent[e].tdef => \A kind \in {"type", "call", "alias"} : <<e, kind, 1>> \notin Slots
  /\ \A e \in Ids : ent[e].names # <<>> => DOMAIN ent[e].names = Inputs(e)
  /\ \A e \in Ids : ent[e].param # 0 => ent[e].up # 0 /\ ent[ent[e].up].fn

\* Parameters are pushed late, and have nothing but a type.
Plain ==
  /\ phase \in {"names", "types"} => \A e \in Ids : ent[e].up # 0 => e <= Root
  /\ phase = "materialize" => \A x \in Range(todo) : ent[x].up # 0 => x <= Root
  /\ \A e \in Ids : e > Root => ~ent[e].tdef /\ ~ent[e].fn /\ ~ent[e].modifier /\ ent[e].names = <<>>
  /\ \A s \in Slots : s[1] > Root => s[2] = "type"

\* Inputs are numbered from one.
LEMMA InputsAre ==
  Formed => \A t : Inputs(t) = 1 .. Cardinality(Inputs(t)) /\ Cardinality(Inputs(t)) \in Nat
<1> SUFFICES ASSUME Formed, NEW t
             PROVE  Inputs(t) = 1 .. Cardinality(Inputs(t)) /\ Cardinality(Inputs(t)) \in Nat
  OBVIOUS
<1> DEFINE I == Inputs(t)
           N == Len(DefaultNames)
           S == { k \in Nat : \A i \in I : i <= k }
<1>1. DOMAIN DefaultNames = 1 .. N /\ N \in Nat
  BY NamesByDefault
<1>2. I \subseteq 1 .. N
  BY <1>1 DEF Inputs, InputsAmong
<1>3. ASSUME NEW i \in I
      PROVE  1 .. i \subseteq I
  <2>1. <<t, "input", i>> \in Slots
    BY DEF Inputs, InputsAmong, Slots
  <2> DEFINE s == <<t, "input", i>>
  <2>2. s \in Slots /\ s[1] = t /\ s[2] = "input" /\ s[3] = i
    BY <2>1
  <2> HIDE DEF s
  <2>3. \A j \in 1 .. i : <<t, "input", j>> \in Slots
    BY <2>2 DEF Formed
  <2>4. \A j \in 1 .. i : j \in DOMAIN DefaultNames
    BY <1>1, <1>2
  <2> QED
    BY <2>3, <2>4 DEF Inputs, InputsAmong, Slots
<1> HIDE DEF I, N
<1>4. N \in S /\ S \in SUBSET Nat
  BY <1>1, <1>2
<1>5. PICK m \in S : \A k \in S : m <= k
  <2> HIDE DEF S
  <2> QED
    BY <1>4, LeastNumber
<1>6. I = 1 .. m
  <2>1. \A i \in I : i \in 1 .. m
    BY <1>1, <1>2, <1>5
  <2>2. CASE m = 0
    BY <2>1, <2>2
  <2>3. CASE m # 0
    <3>1. m - 1 \in Nat /\ m - 1 \notin S
      BY <1>5, <2>3
    <3>2. PICK i \in I : ~(i <= m - 1)
      BY <3>1
    <3>3. i = m
      BY <1>1, <1>2, <1>5, <2>1, <3>2
    <3>4. 1 .. m \subseteq I
      BY <1>3, <3>3
    <3> QED
      BY <2>1, <3>4
  <2> QED
    BY <2>2, <2>3
<1>7. m \in Nat /\ Cardinality(1 .. m) = m
  BY <1>5, UpTo
<1> QED
  BY <1>6, <1>7 DEF I

\* After the step, too.
LEMMA InputsAreNext ==
  Formed' => (\A t : Inputs(t) = 1 .. Cardinality(Inputs(t)) /\ Cardinality(Inputs(t)) \in Nat)'
BY InputsAre, PTL

\* What a step that only looks leaves as it was.
LEMMA LookingKeeps ==
  ASSUME UNCHANGED <<ent, path, bind>>
  PROVE  /\ Ids' = Ids /\ Root' = Root /\ Slots' = Slots /\ Unresolved' = Unresolved
         /\ \A e : /\ FunctionType(e)' = FunctionType(e) /\ Typed(e)' = Typed(e)
                   /\ FinalType(e)' = FinalType(e)
                   /\ Modifies(e)' = Modifies(e) /\ Modifier(e)' = Modifier(e)
                   /\ Open(e)' = Open(e) /\ Inputs(e)' = Inputs(e)
                   /\ HasInputs(e)' = HasInputs(e)
<1>1. Ids' = Ids /\ Slots' = Slots /\ Unresolved' = Unresolved
  BY DEF Ids, Slots, Unresolved
<1>2. Root' = Root
  BY <1>1 DEF Root
<1>3. ASSUME NEW e
      PROVE  /\ Modifies(e)' = Modifies(e) /\ Modifier(e)' = Modifier(e) /\ Open(e)' = Open(e)
             /\ Inputs(e)' = Inputs(e) /\ HasInputs(e)' = HasInputs(e) /\ Typed(e)' = Typed(e)
  BY DEF Modifies, Modifier, Open, Inputs, HasInputs, Typed
<1>4. ASSUME NEW e
      PROVE  FunctionType(e)' = FunctionType(e)
  BY DEF FunctionType, Modifies, Modifier, Ids
<1>5. ASSUME NEW e
      PROVE  FinalType(e)' = FinalType(e)
  BY <1>1, <1>4 DEF FinalType
<1> QED
  BY <1>1, <1>2, <1>3, <1>4, <1>5

\* What giving e its parameters leaves as it was.
LEMMA GrowingKeeps ==
  ASSUME Sound, NEW e \in Ids, NEW ft \in Ids, NEW n \in Nat, Grows(e, ft, n)
  PROVE  /\ \A t \in Ids : /\ Modifier(t)' <=> Modifier(t)
                           /\ Modifies(t)' <=> Modifies(t)
                           /\ Open(t)' <=> Open(t)
                           /\ Inputs(t)' = Inputs(t)
                           /\ Typed(t)' <=> Typed(t)
         /\ ModifiersStay
         /\ \A s : s # <<e, "ret", 1>> /\ s[1] \in Ids =>
              (s \in Slots' <=> s \in Slots) /\ (s \in Unresolved' <=> s \in Unresolved)
         /\ \A s \in Slots' : s[1] \notin Ids => s[1] \in Ids' \ Ids /\ s[2] = "type" /\ s[3] = 1
<1>1. Carried(e, ft, n)
  BY GrowingCarries
<1>2. Grew(e, ft, n)
  BY GrowingWidens
<1>3. \A s : s # <<e, "ret", 1>> /\ s[1] \in Ids =>
        /\ s \in DOMAIN path' <=> s \in DOMAIN path
        /\ s \in DOMAIN bind' <=> s \in DOMAIN bind
        /\ s \in DOMAIN bind => bind'[s] = bind[s]
  BY <1>1 DEF Carried
<1>4. \A s : s # <<e, "ret", 1>> /\ s[1] \in Ids =>
        (s \in Slots' <=> s \in Slots) /\ (s \in Unresolved' <=> s \in Unresolved)
  BY <1>3 DEF Slots, Unresolved
<1>5. \A s \in DOMAIN bind : bind[s] \in Ids
  BY Basics
<1>6. \A x \in Ids : ent'[x].modifier = ent[x].modifier
  BY <1>2 DEF Grew, Adds
<1>7. ASSUME NEW t \in Ids, NEW kind \in {"type", "call", "input"}, NEW i
      PROVE  LET s == <<t, kind, i>>
             IN /\ s \in DOMAIN path' <=> s \in DOMAIN path
                /\ s \in DOMAIN bind' <=> s \in DOMAIN bind
                /\ s \in DOMAIN bind => bind'[s] = bind[s]
  <2>1. <<t, kind, i>> # <<e, "ret", 1>>
    OBVIOUS
  <2> DEFINE s == <<t, kind, i>>
  <2>2. s # <<e, "ret", 1>> /\ s[1] \in Ids
    BY <2>1
  <2> HIDE DEF s
  <2>3. /\ s \in DOMAIN path' <=> s \in DOMAIN path
        /\ s \in DOMAIN bind' <=> s \in DOMAIN bind
        /\ s \in DOMAIN bind => bind'[s] = bind[s]
    BY <1>3, <2>2
  <2> QED
    BY <2>3 DEF s
<1>8. ASSUME NEW t \in Ids
      PROVE  /\ Modifier(t)' <=> Modifier(t)
             /\ Modifies(t)' <=> Modifies(t)
             /\ Modifies(t) => bind'[<<t, "input", 1>>] = bind[<<t, "input", 1>>]
             /\ Open(t)' <=> Open(t)
             /\ Typed(t)' <=> Typed(t)
  <2>1. Modifier(t)' <=> Modifier(t)
    BY <1>5, <1>6, <1>7 DEF Modifier
  <2>2. /\ <<t, "input", 1>> \in DOMAIN bind' <=> <<t, "input", 1>> \in DOMAIN bind
        /\ <<t, "input", 1>> \in DOMAIN bind => bind'[<<t, "input", 1>>] = bind[<<t, "input", 1>>]
        /\ <<t, "type", 1>> \in DOMAIN bind' <=> <<t, "type", 1>> \in DOMAIN bind
    BY <1>7
  <2> QED
    BY <2>1, <2>2 DEF Modifies, Open, Typed
<1>9. ASSUME NEW t \in Ids
      PROVE  Inputs(t)' = Inputs(t)
  <2>1. \A i : <<t, "input", i>> \in DOMAIN path' \cup DOMAIN bind'
               <=> <<t, "input", i>> \in DOMAIN path \cup DOMAIN bind
    BY <1>7
  <2> QED
    BY <2>1 DEF Inputs, InputsAmong
<1>10. ModifiersStay
  BY <1>8 DEF ModifiersStay
<1>11. ASSUME NEW s \in Slots', s[1] \notin Ids
       PROVE  s[1] \in Ids' \ Ids /\ s[2] = "type" /\ s[3] = 1
  <2>1. \/ s \in Slots \/ s = <<e, "ret", 1>>
        \/ \E i \in 1 .. n : s = <<Fresh(i, n), "type", 1>>
    BY <1>1 DEF Carried
  <2>2. s \notin Slots
    BY <1>11, Slotted DEF Slots
  <2>3. s # <<e, "ret", 1>>
    BY <1>11
  <2>4. PICK i \in 1 .. n : s = <<Fresh(i, n), "type", 1>>
    BY <2>1, <2>2, <2>3
  <2>5. Fresh(i, n) = Len(ent) + (n + 1 - i) /\ n + 1 - i \in 1 .. n
    <3>1. Len(ent) \in Nat
      BY Basics
    <3> QED
      BY <3>1 DEF Fresh
  <2>6. Fresh(i, n) \in Ids' \ Ids
    BY <1>2, <2>5 DEF Grew
  <2> QED
    BY <2>4, <2>6
<1> QED
  BY <1>4, <1>8, <1>9, <1>10, <1>11

\* What resolve_lookups does at the entity it is at.
Resolves(typesOnly) ==
  /\ phase = (IF typesOnly THEN "types" ELSE "full") /\ phase' = phase
  /\ todo # <<>> /\ todo' = Tail(todo) /\ ent' = ent /\ path' = path
  /\ Ids' = Ids /\ Root' = Root /\ Slots' = Slots /\ Unresolved' \subseteq Unresolved
  /\ DOMAIN bind \subseteq DOMAIN bind' /\ \A s \in DOMAIN bind : bind'[s] = bind[s]
  /\ \A s \in DOMAIN bind' \ DOMAIN bind :
       /\ s \in Unresolved /\ s[1] = Head(todo) /\ LooksAt(s, typesOnly)
       /\ bind'[s] = Resolve(ent, s[1], path[s], Strict(s[2])) /\ bind'[s] \in Ids
  /\ \A s \in Unresolved' : s[1] = Head(todo) /\ LooksAt(s, typesOnly)
                            => Resolve(ent, s[1], path[s], Strict(s[2])) = 0
  /\ \A s \in Unresolved : s[1] = Head(todo) /\ LooksAt(s, typesOnly)
                           /\ Resolve(ent, s[1], path[s], Strict(s[2])) # 0 => s \in DOMAIN bind'

\* That is what resolve_lookups does.
LEMMA ResolvingIs ==
  ASSUME Sound, NEW typesOnly \in BOOLEAN, ResolveLookups(typesOnly)
  PROVE  Resolves(typesOnly)
<1> DEFINE here == { s \in DOMAIN path \ DOMAIN bind :
                       s[1] = Head(todo) /\ LooksAt(s, typesOnly) /\ Target(s) # 0 }
<1>1. /\ phase = (IF typesOnly THEN "types" ELSE "full")
      /\ todo # <<>> /\ todo' = Tail(todo)
      /\ bind' = [s \in here \cup DOMAIN bind |-> Target(s)]
      /\ UNCHANGED <<ent, path, phase>>
  BY DEF ResolveLookups
<1>2. Ids' = Ids /\ Root' = Root
  BY <1>1 DEF Ids, Root
<1>3. \A s \in Unresolved : /\ Target(s) = Resolve(ent, s[1], path[s], Strict(s[2]))
                            /\ Target(s) \in Ids \cup {0}
  <2> TAKE s \in Unresolved
  <2>1. s \in DOMAIN path \cup DOMAIN bind /\ s \notin DOMAIN bind
    BY DEF Unresolved
  <2>2. Target(s) \in Ids \cup {0}
    BY <2>1, TargetType
  <2> QED
    BY <2>1, <2>2 DEF Target
<1>4. \A s \in DOMAIN bind : Target(s) = bind[s]
  BY DEF Target
<1>5. \A s : s \in here <=> s \in Unresolved /\ s[1] = Head(todo) /\ LooksAt(s, typesOnly) /\ Target(s) # 0
  BY DEF Unresolved
<1> HIDE DEF here
<1>6. DOMAIN bind' = here \cup DOMAIN bind /\ \A s \in DOMAIN bind' : bind'[s] = Target(s)
  BY <1>1
<1>7. Slots' = Slots /\ Unresolved' \subseteq Unresolved
  <2>1. here \subseteq DOMAIN path
    BY <1>5 DEF Unresolved
  <2> QED
    BY <1>1, <1>6, <2>1 DEF Slots, Unresolved
<1>8. \A s \in DOMAIN bind' \ DOMAIN bind :
        /\ s \in Unresolved /\ s[1] = Head(todo) /\ LooksAt(s, typesOnly)
        /\ bind'[s] = Resolve(ent, s[1], path[s], Strict(s[2])) /\ bind'[s] \in Ids
  BY <1>3, <1>5, <1>6
<1>9. \A s \in Unresolved' : s[1] = Head(todo) /\ LooksAt(s, typesOnly)
                             => Resolve(ent, s[1], path[s], Strict(s[2])) = 0
  <2> TAKE s \in Unresolved'
  <2>1. s \in Unresolved /\ s \notin DOMAIN bind'
    BY <1>7 DEF Unresolved
  <2> QED
    BY <1>3, <1>5, <1>6, <2>1
<1>10. \A s \in Unresolved : s[1] = Head(todo) /\ LooksAt(s, typesOnly)
                           /\ Resolve(ent, s[1], path[s], Strict(s[2])) # 0 => s \in DOMAIN bind'
  BY <1>3, <1>5, <1>6
<1>11. \A s \in DOMAIN bind : bind'[s] = bind[s]
  BY <1>4, <1>6
<1> QED
  BY <1>1, <1>2, <1>6, <1>7, <1>8, <1>9, <1>10, <1>11 DEF Resolves

\* What resolve_lookups looks at before there are parameters.
Seeks(s) == s[2] \in {"type", "call"} \/ (s[2] = "input" /\ (ent[s[1]].tdef \/ Modifier(s[1])))

\* Those found nothing in the module as it was: since then they may find parameters.
Late ==
  \A s \in Unresolved : Seeks(s) =>
    LET t == Resolve(ent, s[1], path[s], Strict(s[2]))
    IN /\ phase = "types" => s[1] \in Range(todo) \/ t = 0
       /\ phase \in {"materialize", "full"} => t = 0 \/ t > Root

\* A function written with its type.
Lit(f) == ent[f].blk /\ <<f, "type", 1>> \in DOMAIN bind \ DOMAIN path

Kept ==
  /\ \A f \in Ids : Lit(f) => ent[f].fn /\ Literal(ent, path, bind, f)
  /\ phase \in {"names", "types"} => \A f \in Ids : ent[f].blk /\ ent[f].fn => Lit(f)

Early == {"names", "types", "materialize"}

Waits(f) == \E k \in Range(ent[f].kids) : k > Root /\ <<k, "type", 1>> \in Unresolved

Given(f) == Declares(ent, f, FunctionType(f), Cardinality(Inputs(FunctionType(f))))

Ready(f) ==
  /\ Given(f) /\ (Open(FunctionType(f)) => Waits(f))
  /\ phase \in Early => ~Modifies(FunctionType(f))

Turned(f) == phase \notin Early /\ FunctionType(f) > Root /\ Waits(f)

\* Functions have the parameters of their types, or of what these were when they
\* got them, and then some lookup is left that nothing will be found for.
Provided == \A f \in Ids : ent[f].blk /\ ent[f].fn => Typed(f) /\ (Ready(f) \/ Turned(f))

Complete ==
  /\ phase = "validate" => \A s \in Unresolved : s[1] \in Range(todo)
  /\ phase \in {"arity", "accepted"} => Unresolved = {}

Tracked == Formed /\ Plain /\ Late /\ Kept /\ Provided /\ Complete

\* What the walks that only look do.
Moves ==
  /\ UNCHANGED <<ent, path, bind>>
  /\ \/ /\ phase' = phase /\ (phase # "types" \/ todo' = todo)
        /\ \A x \in Range(todo') : x \in Range(todo)
        /\ phase = "validate" => \A s \in Unresolved : s[1] \in Range(todo) => s[1] \in Range(todo')
     \/ phase' \in Verdicts
     \/ NextWalk

\* A walk comes to nothing new.
LEMMA TailWithin ==
  ASSUME NEW T, NEW s \in Seq(T), s # <<>>
  PROVE  \A x \in Range(Tail(s)) : x \in Range(s)
<1>1. Tail(s) \in Seq(T) /\ Len(Tail(s)) = Len(s) - 1 /\ Len(s) \in Nat
      /\ \A i \in 1 .. Len(s) - 1 : Tail(s)[i] = s[i + 1]
  OBVIOUS
<1>2. ASSUME NEW i \in DOMAIN Tail(s)
      PROVE  Tail(s)[i] \in Range(s)
  <2>1. i \in 1 .. Len(s) - 1 /\ i + 1 \in DOMAIN s
    BY <1>1
  <2> QED
    BY <1>1, <2>1 DEF Range
<1> QED
  BY <1>2 DEF Range

\* Those that check, and the pass where it has nothing to give.
LEMMA LooksMove ==
  ASSUME Invariant, \/ NameReuse \/ LookupsResolved \/ FunctionArity \/ NextWalk \/ UNCHANGED vars
                    \/ Materialize /\ UNCHANGED <<ent, path, bind>>
  PROVE  Moves
<1>0. todo \in Seq(Ids) /\ Sound /\ Phased
  BY DEF Invariant, Phased
<1>1. CASE NameReuse
  <2>1. /\ UNCHANGED <<ent, path, bind>> /\ todo # <<>> /\ todo' = Tail(todo) /\ phase = "names"
        /\ phase' \in {phase, "redefined"}
    BY <1>1 DEF NameReuse
  <2> QED
    BY <1>0, <2>1, TailWithin DEF Moves, Verdicts
<1>2. CASE LookupsResolved
  <2>1. /\ UNCHANGED <<ent, path, bind>> /\ todo # <<>> /\ todo' = Tail(todo) /\ phase = "validate"
        /\ phase' = IF \E s \in Unresolved : s[1] = Head(todo) THEN "rejected" ELSE phase
    BY <1>2 DEF LookupsResolved
  <2>2. CASE phase' = phase
    <3>1. \A s \in Unresolved : s[1] # Head(todo)
      BY <2>1, <2>2
    <3> QED
      BY <1>0, <2>1, <2>2, <3>1, TailIs, TailWithin DEF Moves
  <2>3. CASE phase' # phase
    BY <2>1, <2>3 DEF Moves, Verdicts
  <2> QED
    BY <2>2, <2>3
<1>3. CASE FunctionArity
  <2>1. UNCHANGED <<ent, path, bind>> /\ todo # <<>> /\ todo' = Tail(todo)
    BY <1>3 DEF FunctionArity
  <2>2. phase = "arity" /\ phase' \in {phase} \cup Verdicts
    BY <1>3, ArityEnds
  <2> QED
    BY <1>0, <2>1, <2>2, TailWithin DEF Moves
<1>4. CASE NextWalk
  BY <1>4 DEF Moves, NextWalk
<1>5. CASE UNCHANGED vars
  BY <1>5 DEF Moves, vars
<1>6. CASE Materialize /\ UNCHANGED <<ent, path, bind>>
  <2>1. todo # <<>> /\ todo' = Tail(todo) /\ phase = "materialize"
    BY <1>6 DEF Materialize
  <2>2. phase' \in {phase, "undefined", "hung"}
    BY <1>0, <1>6, MaterializeIs
  <2> QED
    BY <1>0, <1>6, <2>1, <2>2, TailWithin DEF Moves, Verdicts
<1> QED
  BY <1>1, <1>2, <1>3, <1>4, <1>5, <1>6

\* A walk of everything in the tree.
Covers(walk) ==
  Range(walk) \subseteq Ids /\ \A e \in Ids : e = Root \/ ent[e].up # 0 => e \in Range(walk)

LEMMA WalkCovers == Sound => Covers(Walk)
BY WalkType DEF Covers, Range

\* What comes after what.
LEMMA PhaseMoves ==
  ASSUME Invariant, Moves
  PROVE  /\ phase' \in {"names", "types"} => phase \in {"names", "types"}
         /\ phase' \in Early => phase \in Early
         /\ phase' = phase \/ phase' \in Verdicts
            \/ /\ todo = <<>> /\ phase \in DOMAIN Then /\ phase' = Then[phase]
               /\ phase' # "accepted" => Covers(todo')
<1>1. ASSUME NextWalk
      PROVE  /\ todo = <<>> /\ phase \in DOMAIN Then /\ phase' = Then[phase]
             /\ phase' # "accepted" => Covers(todo')
  BY <1>1, WalkCovers DEF NextWalk, Invariant
<1>2. phase' = phase \/ phase' \in Verdicts \/ NextWalk
  BY DEF Moves
<1>3. ASSUME phase \in DOMAIN Then, phase' = Then[phase]
      PROVE  /\ phase' \in {"names", "types"} => phase \in {"names", "types"}
             /\ phase' \in Early => phase \in Early
  BY <1>3 DEF Then, Early
<1>4. \A x \in Verdicts : x \notin Early
  BY DEF Verdicts, Early
<1> QED
  BY <1>1, <1>2, <1>3, <1>4 DEF Early

\* They change nothing that is tracked.
LEMMA LookingTracked ==
  ASSUME Invariant, Tracked, Moves
  PROVE  Tracked'
<1>0. Sound /\ Phased /\ Formed /\ Plain /\ Late /\ Kept /\ Provided /\ Complete
  BY DEF Invariant, Tracked
<1>1. UNCHANGED <<ent, path, bind>>
  BY DEF Moves
<1>2. /\ Ids' = Ids /\ Root' = Root /\ Slots' = Slots /\ Unresolved' = Unresolved
      /\ \A e : /\ FunctionType(e)' = FunctionType(e) /\ Typed(e)' = Typed(e)
                /\ Modifies(e)' = Modifies(e) /\ Modifier(e)' = Modifier(e)
                /\ Open(e)' = Open(e) /\ Inputs(e)' = Inputs(e)
  BY <1>1, LookingKeeps
<1>3. /\ phase' \in {"names", "types"} => phase \in {"names", "types"}
      /\ phase' \in Early => phase \in Early
      /\ phase' = phase \/ phase' \in Verdicts
         \/ /\ todo = <<>> /\ phase \in DOMAIN Then /\ phase' = Then[phase]
            /\ phase' # "accepted" => Covers(todo')
  BY PhaseMoves
<1>4. Formed'
  BY <1>0, <1>1, <1>2 DEF Formed
<1>5. ASSUME NEW f \in Ids
      PROVE  /\ (Given(f)' <=> Given(f)) /\ (Waits(f)' <=> Waits(f)) /\ (Lit(f)' <=> Lit(f))
             /\ Open(FunctionType(f))' <=> Open(FunctionType(f))
             /\ Modifies(FunctionType(f))' <=> Modifies(FunctionType(f))
  <2>1. FunctionType(f)' = FunctionType(f) /\ Inputs(FunctionType(f))' = Inputs(FunctionType(f))
    BY <1>1, <1>2 DEF Inputs
  <2>2. Given(f)' <=> Given(f)
    BY <1>1, <2>1 DEF Given
  <2>3. (Waits(f)' <=> Waits(f)) /\ (Lit(f)' <=> Lit(f))
    BY <1>1, <1>2 DEF Waits, Lit
  <2>4. Modifier(FunctionType(f))' <=> Modifier(FunctionType(f))
    BY <1>1, <2>1 DEF Modifier
  <2> QED
    BY <1>1, <2>1, <2>2, <2>3, <2>4 DEF Open, Modifies
<1>6. /\ \A f \in Ids : Lit(f) => ent[f].fn /\ Literal(ent, path, bind, f)
      /\ phase \in {"names", "types"} => \A f \in Ids : ent[f].blk /\ ent[f].fn => Lit(f)
  BY <1>0 DEF Kept
<1>7. Kept'
  BY <1>1, <1>2, <1>3, <1>5, <1>6 DEF Kept
<1>8. Provided'
  <2>1. ASSUME NEW f \in Ids, Ready(f)
        PROVE  Ready(f)'
    BY <1>3, <1>5, <2>1 DEF Ready
  <2>2. ASSUME NEW f \in Ids, Turned(f)
        PROVE  Turned(f)'
    BY <1>2, <1>3, <1>5, <2>2 DEF Turned
  <2> QED
    BY <1>0, <1>1, <1>2, <2>1, <2>2 DEF Provided
<1> DEFINE t(s) == Resolve(ent, s[1], path[s], Strict(s[2]))
           Stays == /\ phase' = phase /\ (phase # "types" \/ todo' = todo)
                    /\ \A x \in Range(todo') : x \in Range(todo)
                    /\ phase = "validate" =>
                         \A s \in Unresolved : s[1] \in Range(todo) => s[1] \in Range(todo')
<1>9. Stays \/ phase' \in Verdicts \/ NextWalk
  BY DEF Moves
<1>10. ASSUME NextWalk
       PROVE  /\ Range(todo) = {} /\ phase \in DOMAIN Then /\ phase' = Then[phase]
              /\ phase' # "accepted" => Covers(todo')
  BY <1>0, <1>10, WalkCovers DEF NextWalk, Range
<1>11. \A s \in Unresolved : s[1] \in Ids /\ ent[s[1]].up # 0
  BY <1>0, Slotted DEF Unresolved
<1>12. Plain'
  <2>0. /\ phase \in {"names", "types"} => \A e \in Ids : ent[e].up # 0 => e <= Root
        /\ phase = "materialize" => \A x \in Range(todo) : ent[x].up # 0 => x <= Root
        /\ \A e \in Ids : e > Root => /\ ~ent[e].tdef /\ ~ent[e].fn /\ ~ent[e].modifier
                                      /\ ent[e].names = <<>>
        /\ \A s \in Slots : s[1] > Root => s[2] = "type"
    BY <1>0 DEF Plain
  <2>1. phase' = "materialize" => \A x \in Range(todo') : ent[x].up # 0 => x <= Root
    <3>1. CASE Stays
      BY <2>0, <3>1
    <3>2. CASE phase' \in Verdicts
      BY <3>2 DEF Verdicts
    <3>3. CASE NextWalk
      <4>1. phase' = "materialize" => phase = "types" /\ Covers(todo')
        BY <1>10, <3>3 DEF Then
      <4> QED
        BY <2>0, <4>1 DEF Covers
    <3> QED
      BY <1>9, <3>1, <3>2, <3>3
  <2> QED
    BY <1>1, <1>2, <1>3, <2>0, <2>1 DEF Plain
<1>13. Late'
  <2>0. ASSUME NEW s \in Unresolved, Seeks(s)
        PROVE  /\ phase = "types" => s[1] \in Range(todo) \/ t(s) = 0
               /\ phase \in {"materialize", "full"} => t(s) = 0 \/ t(s) > Root
    BY <1>0, <2>0 DEF Late
  <2>1. ASSUME NEW s \in Unresolved, Seeks(s)
        PROVE  /\ phase' = "types" => s[1] \in Range(todo') \/ t(s) = 0
               /\ phase' \in {"materialize", "full"} => t(s) = 0 \/ t(s) > Root
    <3> HIDE DEF t
    <3>1. CASE Stays
      BY <2>0, <2>1, <3>1
    <3>2. CASE phase' \in Verdicts
      BY <3>2 DEF Verdicts
    <3>3. CASE NextWalk
      <4>1. /\ phase' = "types" => Covers(todo')
            /\ phase' \in {"materialize", "full"} =>
                 (phase = "types" /\ Range(todo) = {}) \/ phase = "materialize"
        BY <1>10, <3>3 DEF Then
      <4> QED
        BY <1>11, <2>0, <2>1, <4>1 DEF Covers
    <3> QED
      BY <1>9, <3>1, <3>2, <3>3
  <2>2. \A s : Seeks(s)' <=> Seeks(s)
    BY <1>1, <1>2 DEF Seeks
  <2> QED
    BY <1>1, <1>2, <2>1, <2>2 DEF Late
<1>14. Complete'
  <2>1. /\ phase' = "validate" => \A s \in Unresolved : s[1] \in Range(todo')
        /\ phase' \in {"arity", "accepted"} => Unresolved = {}
    <3>1. CASE Stays
      BY <1>0, <3>1 DEF Complete
    <3>2. CASE phase' \in Verdicts
      BY <3>2 DEF Verdicts
    <3>3. CASE NextWalk
      <4>1. /\ phase' = "validate" => Covers(todo')
            /\ phase' \in {"arity", "accepted"} =>
                 (phase = "validate" /\ Range(todo) = {}) \/ phase = "arity"
        BY <1>10, <3>3 DEF Then
      <4>2. phase = "validate" /\ Range(todo) = {} => Unresolved = {}
        BY <1>0 DEF Complete
      <4> QED
        BY <1>0, <1>11, <4>1, <4>2 DEF Complete, Covers
    <3> QED
      BY <1>9, <3>1, <3>2, <3>3
  <2> QED
    BY <1>2, <2>1 DEF Complete
<1> QED
  BY <1>4, <1>7, <1>8, <1>12, <1>13, <1>14 DEF Tracked

-----------------------------------------------------------------------------
(*****************************************************************************)
(* A step that resolves lookups.                                            *)
(*****************************************************************************)
\* Ids are numbers from one.
LEMMA NoZero == Sound => 0 \notin Ids /\ Ids \subseteq Nat /\ Root \in Ids
<1> SUFFICES ASSUME Sound
             PROVE  0 \notin Ids /\ Ids \subseteq Nat /\ Root \in Ids
  OBVIOUS
<1>1. Len(ent) \in Nat /\ Root \in Ids
  BY Basics
<1> QED
  BY <1>1 DEF Ids

\* Parameters keep waiting for a type that was not found.
LEMMA WaitingGoesOn ==
  ASSUME Sound, NEW typesOnly \in BOOLEAN, Resolves(typesOnly), NEW f \in Ids, Waits(f)
  PROVE  Waits(f)'
<1>0. Shaped(ent, Root) /\ DOMAIN ent = Ids /\ Ids = 1 .. Len(ent) /\ Len(ent) \in Nat
  BY Basics DEF Sound, Ids
<1>1. PICK k \in Range(ent[f].kids) : k > Root /\ <<k, "type", 1>> \in Unresolved
  BY DEF Waits
<1> DEFINE s == <<k, "type", 1>>
<1>2. k \in Ids
  BY <1>0, <1>1 DEF Shaped, Range
<1>3. path[s] \in Seq(STRING) \ {<<>>}
  BY <1>1, Basics DEF Unresolved
<1>4. Resolve(ent, k, path[s], TRUE) = 0
  <2> DEFINE p == path[s]
  <2> HIDE DEF p
  <2>1. Resolve(ent, k, p, TRUE) = 0
    BY <1>0, <1>1, <1>2, <1>3, BehindSeesNothing DEF p
  <2> QED
    BY <2>1 DEF p
<1>5. s[1] = k /\ s[2] = "type"
  OBVIOUS
<1> HIDE DEF s
<1>6. s \in DOMAIN bind' \ DOMAIN bind => bind'[s] = 0 /\ bind'[s] \in Ids
  BY <1>4, <1>5 DEF Resolves, Strict
<1>7. s \in Unresolved
  BY <1>1 DEF s
<1>8. s \in Unresolved' /\ Root' = Root /\ ent' = ent
  BY <1>0, <1>6, <1>7 DEF Unresolved, Resolves
<1> QED
  BY <1>1, <1>8 DEF Waits, s

\* A call that is looked up late is not of a modifier.
LEMMA ModifiersKnown ==
  ASSUME Sound, Tracked, Resolves(FALSE)
  PROVE  \A t : Modifier(t)' <=> Modifier(t)
<1>1. /\ ent' = ent /\ DOMAIN bind \subseteq DOMAIN bind' /\ \A s \in DOMAIN bind : bind'[s] = bind[s]
      /\ \A s \in DOMAIN bind' \ DOMAIN bind :
           /\ s \in Unresolved /\ bind'[s] \in Ids
           /\ bind'[s] = Resolve(ent, s[1], path[s], Strict(s[2]))
      /\ phase = "full"
  BY DEF Resolves
<1>2. ASSUME NEW t, <<t, "call", 1>> \in DOMAIN bind' \ DOMAIN bind
      PROVE  ~ent[bind'[<<t, "call", 1>>]].modifier
  <2> DEFINE s == <<t, "call", 1>>
  <2>1. s[2] = "call" /\ s \in DOMAIN bind' \ DOMAIN bind
    BY <1>2
  <2> HIDE DEF s
  <2>2. s \in Unresolved /\ bind'[s] \in Ids /\ bind'[s] = Resolve(ent, s[1], path[s], Strict(s[2]))
    BY <1>1, <2>1
  <2>3. bind'[s] = 0 \/ bind'[s] > Root
    BY <1>1, <2>1, <2>2 DEF Tracked, Late, Seeks
  <2>4. bind'[s] > Root
    BY <2>2, <2>3, NoZero
  <2>5. ~ent[bind'[s]].modifier
    BY <2>2, <2>4 DEF Tracked, Plain
  <2> QED
    BY <2>5 DEF s
<1>3. ASSUME NEW t
      PROVE  Modifier(t)' <=> Modifier(t)
  <2>1. CASE <<t, "call", 1>> \in DOMAIN bind
    BY <1>1, <2>1 DEF Modifier
  <2>2. CASE <<t, "call", 1>> \notin DOMAIN bind
    BY <1>1, <1>2, <2>2 DEF Modifier
  <2> QED
    BY <2>1, <2>2
<1> QED
  BY <1>3

\* What the search for types finds to be a modifier was one when it was looked at.
LEMMA ModifiersSeen ==
  ASSUME Sound, NEW typesOnly \in BOOLEAN, Resolves(typesOnly), NEW e \in Ids, Modifier(e)'
  PROVE  /\ e # Head(todo) => Modifier(e)
         /\ CallsModifier(e)
<1> DEFINE c == <<e, "call", 1>>
<1>1. c[1] = e /\ c[2] = "call" /\ c \in DOMAIN bind' /\ ent[bind'[c]].modifier
  BY DEF Modifier, Resolves
<1> HIDE DEF c
<1>2. /\ \A s \in DOMAIN bind : bind'[s] = bind[s]
      /\ \A s \in DOMAIN bind' \ DOMAIN bind :
           /\ s \in Unresolved /\ s[1] = Head(todo) /\ bind'[s] \in Ids
           /\ bind'[s] = Resolve(ent, s[1], path[s], Strict(s[2]))
  BY DEF Resolves
<1>3. CASE c \in DOMAIN bind
  <2>1. Target(c) = bind'[c] /\ bind[c] = bind'[c] /\ bind'[c] \in Ids
    BY <1>2, <1>3, Basics DEF Target
  <2>2. Modifier(e)
    BY <1>1, <1>3, <2>1 DEF Modifier, c
  <2>3. Target(c) # 0
    BY <2>1, NoZero
  <2>4. CallsModifier(e)
    BY <1>1, <1>3, <2>1, <2>3 DEF CallsModifier, c
  <2> QED
    BY <2>2, <2>4
<1>4. CASE c \notin DOMAIN bind
  <2>1. /\ c \in Unresolved /\ e = Head(todo) /\ bind'[c] \in Ids /\ bind'[c] # 0
        /\ bind'[c] = Resolve(ent, c[1], path[c], Strict(c[2]))
    BY <1>1, <1>2, <1>4, NoZero
  <2>2. Target(c) = bind'[c]
    BY <1>4, <2>1 DEF Target
  <2>3. CallsModifier(e)
    BY <1>1, <2>1, <2>2 DEF CallsModifier, c, Unresolved
  <2> QED
    BY <2>1, <2>3
<1> QED
  BY <1>3, <1>4

\* What a walk has visited and not bound is not found, and binding does not change that.
LEMMA ResolvingLate ==
  ASSUME Invariant, Tracked, NEW typesOnly \in BOOLEAN, Resolves(typesOnly)
  PROVE  Late'
<1> DEFINE t(s) == Resolve(ent, s[1], path[s], Strict(s[2]))
<1>0. Sound /\ Phased /\ Late /\ todo \in Seq(Ids)
  BY DEF Invariant, Tracked, Phased
<1>1. /\ phase = (IF typesOnly THEN "types" ELSE "full") /\ phase' = phase
      /\ todo # <<>> /\ todo' = Tail(todo) /\ ent' = ent /\ path' = path /\ Root' = Root
      /\ Unresolved' \subseteq Unresolved
      /\ \A s \in Unresolved' : s[1] = Head(todo) /\ LooksAt(s, typesOnly) => t(s) = 0
  BY DEF Resolves
<1>2. \A s \in Unresolved : Seeks(s) => /\ phase = "types" => s[1] \in Range(todo) \/ t(s) = 0
                                        /\ phase \in {"materialize", "full"} => t(s) = 0 \/ t(s) > Root
  BY <1>0 DEF Late
<1>3. \A s \in Unresolved : s[1] \in Ids
  BY <1>0, Slotted DEF Unresolved
<1> HIDE DEF t
<1>4. ASSUME typesOnly, NEW s \in Unresolved', Seeks(s)'
      PROVE  s[1] \in Range(Tail(todo)) \/ t(s) = 0
  <2>1. s \in Unresolved /\ s[1] \in Ids /\ typesOnly = TRUE
    BY <1>1, <1>3, <1>4
  <2>2. s[2] \in {"type", "call"} \/ (s[2] = "input" /\ (ent[s[1]].tdef \/ Modifier(s[1])'))
    BY <1>1, <1>4 DEF Seeks
  <2>3. CASE s[1] = Head(todo)
    <3>1. LooksAt(s, TRUE)
      BY <1>0, <1>4, <2>1, <2>2, ModifiersSeen DEF LooksAt
    <3> QED
      BY <1>1, <2>1, <2>3, <3>1
  <2>4. CASE s[1] # Head(todo)
    <3>1. Seeks(s)
      BY <1>0, <2>1, <2>2, <2>4, ModifiersSeen DEF Seeks
    <3> QED
      BY <1>0, <1>1, <1>2, <2>1, <2>4, <3>1, TailIs
  <2> QED
    BY <2>3, <2>4
<1>5. ASSUME ~typesOnly, NEW s \in Unresolved', Seeks(s)'
      PROVE  t(s) = 0 \/ t(s) > Root
  <2>1. s \in Unresolved /\ typesOnly = FALSE
    BY <1>1, <1>5
  <2>2. Modifier(s[1])' <=> Modifier(s[1])
    BY <1>0, <2>1, ModifiersKnown
  <2>3. Seeks(s)
    BY <1>1, <1>5, <2>2 DEF Seeks
  <2> QED
    BY <1>1, <1>2, <1>5, <2>1, <2>3
<1>6. ASSUME NEW s \in Unresolved', Seeks(s)'
      PROVE  /\ phase' = "types" => s[1] \in Range(todo') \/ t(s) = 0
             /\ phase' \in {"materialize", "full"} => t(s) = 0 \/ t(s) > Root'
  BY <1>1, <1>4, <1>5, <1>6
<1> QED
  BY <1>1, <1>6 DEF Late, t

\* A function written with its type has a type that is no modifier, and its parameters.
LEMMA LitIs ==
  Sound /\ Formed /\ Kept => \A f \in Ids : Lit(f) =>
    LET t == bind[<<f, "type", 1>>]
    IN /\ t \in Ids /\ ~Modifier(t) /\ ~Modifies(t) /\ ~Open(t) /\ FunctionType(f) = t
       /\ Typed(f) /\ ent[t].tdef /\ ent[t].fn /\ ent[f].fn /\ Given(f)
       /\ Literal(ent, path, bind, f)
<1> SUFFICES ASSUME Sound, Formed, Kept, NEW f \in Ids, Lit(f)
             PROVE  LET t == bind[<<f, "type", 1>>]
                    IN /\ t \in Ids /\ ~Modifier(t) /\ ~Modifies(t) /\ ~Open(t) /\ FunctionType(f) = t
                       /\ Typed(f) /\ ent[t].tdef /\ ent[t].fn /\ ent[f].fn /\ Given(f)
                       /\ Literal(ent, path, bind, f)
  OBVIOUS
<1> DEFINE t == bind[<<f, "type", 1>>]
<1>1. Typed(f) /\ t \in Ids
  BY Basics DEF Lit, Typed
<1>2. ent[f].fn /\ Literal(ent, path, bind, f)
  BY DEF Kept
<1>3. ent[t].tdef /\ ent[t].fn /\ Declares(ent, f, t, Cardinality(InputsAmong(Slots, t)))
  BY <1>2 DEF Literal, Slots
<1>4. <<t, "call", 1>> \notin Slots
  BY <1>1, <1>3 DEF Formed
<1>5. ~Modifier(t)
  BY <1>4 DEF Modifier, Slots
<1>6. ~Modifies(t) /\ ~Open(t)
  BY <1>5 DEF Modifies, Open
<1>7. FunctionType(f) = t
  BY <1>1, <1>6, TypeAtOnce
<1>8. Given(f)
  BY <1>3, <1>7 DEF Given, Inputs, Slots
<1> QED
  BY <1>1, <1>2, <1>3, <1>5, <1>6, <1>7, <1>8

\* The literal functions are what they were.
LEMMA ResolvingKept ==
  ASSUME Sound, Tracked, NEW typesOnly \in BOOLEAN, Resolves(typesOnly)
  PROVE  Kept' /\ Formed' /\ Plain' /\ Complete' /\ \A t : Inputs(t)' = Inputs(t)
<1>0. Formed /\ Plain /\ Kept /\ Complete
  BY DEF Tracked
<1>1. /\ phase = (IF typesOnly THEN "types" ELSE "full") /\ phase' = phase
      /\ ent' = ent /\ path' = path /\ Ids' = Ids /\ Root' = Root /\ Slots' = Slots
      /\ DOMAIN bind \subseteq DOMAIN bind' /\ \A s \in DOMAIN bind : bind'[s] = bind[s]
      /\ \A s \in DOMAIN bind' \ DOMAIN bind : s \in DOMAIN path
  BY DEF Resolves, Unresolved
<1>2. \A t : Inputs(t)' = Inputs(t)
  BY <1>1 DEF Inputs, Slots
<1>3. Formed'
  BY <1>0, <1>1, <1>2 DEF Formed
<1>4. Plain'
  BY <1>0, <1>1 DEF Plain
<1>5. Complete'
  BY <1>1 DEF Complete
<1>6. \A f : <<f, "type", 1>> \in DOMAIN bind' \ DOMAIN path <=> <<f, "type", 1>> \in DOMAIN bind \ DOMAIN path
  BY <1>1
<1>7. \A f : Lit(f)' <=> Lit(f)
  BY <1>1, <1>6 DEF Lit
<1>8. ASSUME NEW f \in Ids, Lit(f)
      PROVE  Literal(ent, path, bind', f)
  <2>1. Literal(ent, path, bind, f) /\ <<f, "type", 1>> \in DOMAIN bind
    BY <1>0, <1>8 DEF Kept, Lit
  <2> DEFINE t == bind[<<f, "type", 1>>]
  <2>2. bind'[<<f, "type", 1>>] = t /\ DOMAIN path \cup DOMAIN bind' = DOMAIN path \cup DOMAIN bind
    BY <1>1, <2>1 DEF Slots
  <2>3. <<f, "type", 1>> \in DOMAIN bind' \ DOMAIN path
    BY <1>6, <1>8 DEF Lit
  <2> QED
    BY <2>1, <2>2, <2>3 DEF Literal
<1>9. Kept'
  BY <1>0, <1>1, <1>7, <1>8 DEF Kept
<1> QED
  BY <1>2, <1>3, <1>4, <1>5, <1>9

\* After the step, too.
LEMMA LitIsNext ==
  Sound' /\ Formed' /\ Kept' => (\A f \in Ids : Lit(f) =>
    LET t == bind[<<f, "type", 1>>]
    IN /\ t \in Ids /\ ~Modifier(t) /\ ~Modifies(t) /\ ~Open(t) /\ FunctionType(f) = t
       /\ Typed(f) /\ ent[t].tdef /\ ent[t].fn /\ ent[f].fn /\ Given(f)
       /\ Literal(ent, path, bind, f))'
BY LitIs, PTL

\* A type that modifies has an input that is known, and is an entity of the module.
LEMMA FullTurns ==
  ASSUME Invariant, Invariant', Tracked, Resolves(FALSE)
  PROVE  OpenTurn(Root)
<1>0. Sound /\ Sound' /\ Plain /\ Late
  BY DEF Invariant, Tracked
<1>1. /\ phase = "full" /\ phase' = phase
      /\ ent' = ent /\ path' = path /\ Ids' = Ids /\ Root' = Root /\ Slots' = Slots
      /\ DOMAIN bind \subseteq DOMAIN bind' /\ \A s \in DOMAIN bind : bind'[s] = bind[s]
      /\ \A s \in DOMAIN bind' \ DOMAIN bind :
           /\ s \in Unresolved /\ bind'[s] \in Ids
           /\ bind'[s] = Resolve(ent, s[1], path[s], Strict(s[2]))
  BY DEF Resolves
<1>2. \A t : Modifier(t)' <=> Modifier(t)
  BY <1>0, ModifiersKnown
<1>3. \A u \in Ids : u > Root => ~Modifies(u)'
  <2> TAKE u \in Ids
  <2> HAVE u > Root
  <2> DEFINE s == <<u, "call", 1>>
  <2>1. s[1] = u /\ s[2] = "call"
    OBVIOUS
  <2> HIDE DEF s
  <2>2. s \notin Slots
    BY <1>0, <2>1 DEF Plain
  <2> QED
    BY <1>1, <1>2, <2>2 DEF Modifies, Modifier, Slots, s
<1>4. ASSUME NEW t \in Ids
      PROVE  /\ Modifies(t) => /\ Modifies(t)'
                               /\ bind'[<<t, "input", 1>>] = bind[<<t, "input", 1>>]
             /\ Modifies(t)' /\ ~Modifies(t)
                => /\ Open(t) /\ bind'[<<t, "input", 1>>] > Root
                   /\ \A u \in Ids : u = bind'[<<t, "input", 1>>] => ~Modifies(u)'
  <2> DEFINE s == <<t, "input", 1>>
  <2>1. s[1] = t /\ s[2] = "input"
    OBVIOUS
  <2>2. /\ Modifies(t) <=> Modifier(t) /\ s \in DOMAIN bind
        /\ Modifies(t)' <=> Modifier(t) /\ s \in DOMAIN bind'
        /\ Open(t) <=> Modifier(t) /\ s \notin DOMAIN bind
    BY <1>2 DEF Modifies, Open
  <2> HIDE DEF s
  <2>3. ASSUME Modifies(t)', ~Modifies(t)
        PROVE  bind'[s] > Root
    <3>1. s \in DOMAIN bind' \ DOMAIN bind /\ Modifier(t)
      BY <2>2, <2>3
    <3>2. s \in Unresolved /\ bind'[s] \in Ids /\ bind'[s] = Resolve(ent, s[1], path[s], Strict(s[2]))
      BY <1>1, <3>1
    <3>3. Seeks(s)
      BY <2>1, <3>1 DEF Seeks
    <3>4. bind'[s] = 0 \/ bind'[s] > Root
      BY <1>0, <1>1, <3>2, <3>3 DEF Late
    <3> QED
      BY <1>0, <3>2, <3>4, NoZero
  <2>4. Modifies(t) => Modifies(t)' /\ bind'[s] = bind[s]
    BY <1>1, <2>2
  <2>5. Modifies(t)' /\ ~Modifies(t) => Open(t)
    BY <2>2
  <2>6. \A u \in Ids : u = bind'[s] => (bind'[s] > Root => ~Modifies(u)')
    BY <1>3
  <2> QED
    BY <2>3, <2>4, <2>5, <2>6 DEF s
<1> QED
  BY <1>4 DEF OpenTurn

\* Functions keep the parameters they have, unless their type has become a parameter.
LEMMA ResolvingProvided ==
  ASSUME Invariant, Invariant', Tracked, NEW typesOnly \in BOOLEAN, Resolves(typesOnly)
  PROVE  Provided'
<1>0. Sound /\ Sound' /\ Formed /\ Plain /\ Kept /\ Provided
  BY DEF Invariant, Tracked
<1>1. /\ phase = (IF typesOnly THEN "types" ELSE "full") /\ phase' = phase
      /\ ent' = ent /\ path' = path /\ Ids' = Ids /\ Root' = Root /\ Slots' = Slots
      /\ DOMAIN bind \subseteq DOMAIN bind' /\ \A s \in DOMAIN bind : bind'[s] = bind[s]
  BY DEF Resolves
<1>2. Kept' /\ Formed' /\ \A t : Inputs(t)' = Inputs(t)
  BY <1>0, ResolvingKept
<1>3. ASSUME NEW f \in Ids, ent[f].blk, ent[f].fn
      PROVE  Typed(f)' /\ (Ready(f)' \/ Turned(f)')
  <2>1. Typed(f) /\ (Ready(f) \/ Turned(f))
    BY <1>0, <1>3 DEF Provided
  <2>2. Typed(f)' /\ bind'[<<f, "type", 1>>] = bind[<<f, "type", 1>>]
    BY <1>1, <2>1 DEF Typed
  <2>3. Waits(f) => Waits(f)'
    BY <1>0, WaitingGoesOn
  <2>4. CASE typesOnly
    <3>1. phase = "types"
      BY <1>1, <2>4
    <3>2. Lit(f)
      BY <1>0, <1>3, <3>1 DEF Kept
    <3>3. Lit(f)'
      BY <1>0, <1>1, <1>2, <1>3, <3>1 DEF Kept
    <3>4. Given(f)' /\ ~Open(FunctionType(f))' /\ ~Modifies(FunctionType(f))'
      BY <1>0, <1>1, <1>2, <3>3, LitIsNext
    <3>5. Ready(f)'
      BY <3>4 DEF Ready
    <3> QED
      BY <2>2, <3>5
  <2>5. CASE ~typesOnly
    <3>1. typesOnly = FALSE /\ phase = "full" /\ phase' = "full"
      BY <1>1, <2>5
    <3>2. OpenTurn(Root) /\ \A t : Modifier(t)' <=> Modifier(t)
      BY <1>0, <3>1, FullTurns, ModifiersKnown
    <3>3. \/ FunctionType(f)' = FunctionType(f)
          \/ FunctionType(f)' > Root /\ Open(FunctionType(f))
      BY <1>0, <1>1, <2>1, <2>2, <3>2, TypeTurns
    <3>4. phase' \notin Early
      BY <3>1 DEF Early
    <3>5. FunctionType(f) \in Ids
      BY <1>0, <2>1, TypeKnown
    <3>6. CASE FunctionType(f)' > Root /\ Open(FunctionType(f))
      <4>1. Ready(f)
        <5>1. FunctionType(f) > Root => ~Open(FunctionType(f))
          <6> DEFINE s == <<FunctionType(f), "call", 1>>
          <6>1. s[1] = FunctionType(f) /\ s[2] = "call"
            OBVIOUS
          <6> HIDE DEF s
          <6>2. FunctionType(f) > Root => s \notin Slots
            BY <1>0, <6>1 DEF Plain
          <6> QED
            BY <6>2 DEF s, Open, Modifier, Slots
        <5> QED
          BY <2>1, <3>6, <5>1 DEF Turned
      <4>2. Waits(f)'
        BY <2>3, <3>6, <4>1 DEF Ready
      <4>3. Turned(f)'
        BY <1>1, <3>4, <3>6, <4>2 DEF Turned
      <4> QED
        BY <2>2, <4>3
    <3>7. CASE FunctionType(f)' = FunctionType(f)
      <4>1. CASE Turned(f)
        <5>1. Turned(f)'
          BY <1>1, <2>3, <3>4, <3>7, <4>1 DEF Turned
        <5> QED
          BY <2>2, <5>1
      <4>2. CASE Ready(f)
        <5> DEFINE t == FunctionType(f)
        <5>1. Given(f) /\ (Open(t) => Waits(f))
          BY <4>2 DEF Ready
        <5>2. Inputs(t)' = Inputs(t)
          BY <1>2, <3>7 DEF Inputs
        <5>3. Given(f)'
          BY <1>1, <3>7, <5>1, <5>2 DEF Given
        <5>4. Open(t)' => Open(t)
          <6>1. Modifier(t)' <=> Modifier(t)
            BY <1>1, <3>7, <3>2 DEF Modifier
          <6> QED
            BY <1>1, <3>7, <6>1 DEF Open
        <5>5. Ready(f)'
          BY <2>3, <3>4, <5>1, <5>3, <5>4 DEF Ready
        <5> QED
          BY <2>2, <5>5
      <4> QED
        BY <2>1, <4>1, <4>2
    <3> QED
      BY <3>3, <3>6, <3>7
  <2> QED
    BY <2>4, <2>5
<1> QED
  BY <1>1, <1>3 DEF Provided

\* So resolving keeps all that is tracked.
LEMMA ResolvingTracked ==
  ASSUME Invariant, Invariant', Tracked, NEW typesOnly \in BOOLEAN, Resolves(typesOnly)
  PROVE  Tracked'
<1>1. Kept' /\ Formed' /\ Plain' /\ Complete'
  BY ResolvingKept DEF Invariant
<1> QED
  BY <1>1, ResolvingLate, ResolvingProvided DEF Tracked

-----------------------------------------------------------------------------
(*****************************************************************************)
(* A step that gives an entity parameters.                                  *)
(*****************************************************************************)
\* Who gets no new parameters keeps those there were.
LEMMA KidsStay ==
  ASSUME NEW e, NEW ft, NEW n, Grew(e, ft, n), NEW f \in Ids, f # e \/ n = 0
  PROVE  ent'[f].kids = ent[f].kids
<1>1. Widened(ent, ent', e, n) /\ Shaped(ent, Root) /\ Shaped(ent', Root) /\ f \in DOMAIN ent
  BY DEF Grew
<1>2. CASE f # e
  BY <1>1, <1>2 DEF Widened
<1>3. CASE f = e /\ n = 0
  <2> DEFINE ks == ent[f].kids
             ls == ent'[f].kids
  <2>1. f \in DOMAIN ent'
    BY <1>1 DEF Widened
  <2>2. ent[f] \in Entity /\ ent'[f] \in Entity
    BY <1>1, <2>1, Parents
  <2>3. ks \in Seq(Nat) /\ ls \in Seq(Nat)
    BY <2>2 DEF Entity
  <2>4. Len(ls) = 0 + Len(ks) /\ \A i \in 1 .. Len(ks) : ls[0 + i] = ks[i]
    BY <1>1, <1>3 DEF Widened
  <2> HIDE DEF ks, ls
  <2>5. Len(ls) = Len(ks) /\ \A i \in 1 .. Len(ks) : ls[i] = ks[i]
    BY <2>3, <2>4
  <2>6. ls = ks
    <3>1. /\ ls = [i \in 1 .. Len(ls) |-> ls[i]] /\ ks = [i \in 1 .. Len(ks) |-> ks[i]]
          /\ Len(ls) = Len(ks)
      BY <2>3, <2>5
    <3> DEFINE l == Len(ks)
    <3>2. /\ ls = [i \in 1 .. l |-> ls[i]] /\ ks = [i \in 1 .. l |-> ks[i]]
          /\ \A i \in 1 .. l : ls[i] = ks[i]
      BY <2>5, <3>1
    <3> HIDE DEF l
    <3> QED
      BY <3>2
  <2> QED
    BY <2>6 DEF ks, ls
<1> QED
  BY <1>2, <1>3

\* So is what blocks declare.
LEMMA DeclaresStays ==
  ASSUME NEW e, NEW ft, NEW n, Grew(e, ft, n), NEW f \in Ids, f # e \/ n = 0,
         NEW t \in Ids, NEW k \in Nat
  PROVE  Declares(ent', f, t, k) <=> Declares(ent, f, t, k)
<1>1. ent'[f].kids = ent[f].kids
  BY KidsStay
<1>2. \A i \in DOMAIN ent[f].kids : ent[f].kids[i] \in Ids
  BY KidsAre DEF Grew
<1>3. \A x \in Ids : ent'[x].param = ent[x].param /\ ent'[x].name = ent[x].name /\ ent'[x].names = ent[x].names
  BY DEF Grew, Extends, Adds
<1>4. \A i : NameOf(ent', t, i) = NameOf(ent, t, i)
  BY <1>3 DEF NameOf
<1>5. Len(ent[f].kids) \in Nat /\ DOMAIN ent[f].kids = 1 .. Len(ent[f].kids)
  <2>1. f \in DOMAIN ent /\ Shaped(ent, Root)
    BY DEF Grew
  <2>2. ent[f].kids \in Seq(Nat)
    BY <2>1, Parents DEF Entity
  <2> QED
    BY <2>2
<1> DEFINE ks == ent[f].kids
           l == Len(ks)
           G(m, i) == m[ks[i]].name = NameOf(m, t, i)
           P(m, i) == m[ks[i]].param = IF i <= k THEN i ELSE 0
<1>6. \A i \in 1 .. l : (G(ent', i) <=> G(ent, i)) /\ (P(ent', i) <=> P(ent, i))
  BY <1>2, <1>3, <1>4, <1>5
<1>7. Declares(ent, f, t, k) <=>
        /\ k <= l /\ (\A i \in 1 .. l : P(ent, i)) /\ \A i \in 1 .. k : G(ent, i)
  BY <1>5 DEF Declares
<1>8. Declares(ent', f, t, k) <=>
        /\ k <= l /\ (\A i \in 1 .. l : P(ent', i)) /\ \A i \in 1 .. k : G(ent', i)
  BY <1>1, <1>5 DEF Declares
<1>9. ASSUME k <= l, NEW i \in 1 .. k
      PROVE  i \in 1 .. l
  BY <1>5, <1>9
<1> HIDE DEF G, P, l
<1> QED
  BY <1>6, <1>7, <1>8, <1>9

\* A function that has its parameters is not given any.
LEMMA NoneTwice ==
  ASSUME Sound, Formed, NEW e \in Ids, NEW ft \in Ids, NEW n \in Nat, Grows(e, ft, n), Given(e)
  PROVE  n = 0
<1> DEFINE c == Cardinality(Inputs(ft))
<1>1. Inputs(ft) = 1 .. c /\ c \in Nat
  BY InputsAre
<1>2. n = (IF WantsParams(e, ft) THEN c ELSE 0) /\ Declares(ent, e, ft, c)
  BY DEF Grows, Given
<1>3. ent[e].kids \in Seq(Nat)
  BY Basics, Parents DEF Sound, Entity
<1> HIDE DEF c
<1>4. CASE c # 0
  <2>1. 1 \in 1 .. c /\ 1 \in DOMAIN ent[e].kids /\ 1 <= c
    BY <1>1, <1>2, <1>3, <1>4 DEF Declares
  <2>2. ent[ent[e].kids[1]].param = 1
    BY <1>2, <2>1 DEF Declares
  <2>3. HasParams(e, ft)
    BY <1>1, <2>1, <2>2 DEF HasParams, Range
  <2> QED
    BY <1>2, <2>3 DEF WantsParams
<1> QED
  BY <1>2, <1>4

\* New parameters have the form of all entities.
LEMMA GrowingFormed ==
  ASSUME Invariant, Tracked, NEW e \in Ids, NEW ft \in Ids, NEW n \in Nat, Grows(e, ft, n)
  PROVE  Formed'
<1>0. Sound /\ Formed /\ Grew(e, ft, n)
  BY GrowingWidens DEF Invariant, Tracked
<1>1. /\ DOMAIN ent = Ids /\ Ids \subseteq Ids'
      /\ \A x \in Ids' \ Ids : /\ ent'[x].up = e /\ ent'[x].param # 0
                               /\ ent'[x].names = <<>> /\ ~ent'[x].tdef
  BY <1>0 DEF Grew
<1>2. /\ \A x \in Ids : /\ ent'[x].tdef = ent[x].tdef /\ ent'[x].names = ent[x].names
                        /\ ent'[x].up = ent[x].up /\ ent'[x].param = ent[x].param
                        /\ x # e => ent'[x].fn = ent[x].fn
      /\ ent'[e].fn = TRUE
  BY <1>0 DEF Grew, Adds, Extends
<1>3. /\ \A t \in Ids : Inputs(t)' = Inputs(t)
      /\ \A s : s # <<e, "ret", 1>> /\ s[1] \in Ids => (s \in Slots' <=> s \in Slots)
      /\ \A s \in Slots' : s[1] \notin Ids => s[1] \in Ids' \ Ids /\ s[2] = "type" /\ s[3] = 1
  BY <1>0, GrowingKeeps
<1>4. ASSUME NEW s \in Slots', s[2] = "input"
      PROVE  /\ s[3] \in DOMAIN DefaultNames
             /\ \A i \in 1 .. s[3] : <<s[1], "input", i>> \in Slots'
  <2>1. s[1] \in Ids /\ s # <<e, "ret", 1>>
    BY <1>3, <1>4
  <2>2. s \in Slots
    BY <1>3, <2>1
  <2>3. s[3] \in DOMAIN DefaultNames /\ \A i \in 1 .. s[3] : <<s[1], "input", i>> \in Slots
    BY <1>0, <1>4, <2>2 DEF Formed
  <2>4. ASSUME NEW i \in 1 .. s[3]
        PROVE  <<s[1], "input", i>> \in Slots'
    <3> DEFINE z == <<s[1], "input", i>>
    <3>1. z \in Slots /\ z[1] \in Ids /\ z # <<e, "ret", 1>>
      BY <2>1, <2>3
    <3> HIDE DEF z
    <3>2. z \in Slots'
      BY <1>3, <3>1
    <3> QED
      BY <3>2 DEF z
  <2> QED
    BY <2>3, <2>4
<1>5. ASSUME NEW s \in Slots', s[2] # "input"
      PROVE  s[3] = 1
  <2>1. CASE s[1] \notin Ids
    BY <1>3, <2>1
  <2>2. CASE s = <<e, "ret", 1>>
    BY <2>2
  <2>3. CASE s[1] \in Ids /\ s # <<e, "ret", 1>>
    <3>1. s \in Slots
      BY <1>3, <2>3
    <3> QED
      BY <1>0, <1>5, <3>1 DEF Formed
  <2> QED
    BY <2>1, <2>2, <2>3
<1>6. ASSUME NEW x \in Ids', ent'[x].tdef, NEW kind \in {"type", "call", "alias"}
      PROVE  <<x, kind, 1>> \notin Slots'
  <2> DEFINE s == <<x, kind, 1>>
  <2>1. x \in Ids /\ ent[x].tdef
    BY <1>1, <1>2, <1>6
  <2>2. s \notin Slots
    BY <1>0, <2>1 DEF Formed
  <2>3. s[1] \in Ids /\ s # <<e, "ret", 1>>
    BY <2>1
  <2> HIDE DEF s
  <2>4. s \notin Slots'
    BY <1>3, <2>2, <2>3
  <2> QED
    BY <2>4 DEF s
<1>7. ASSUME NEW x \in Ids', ent'[x].names # <<>>
      PROVE  DOMAIN ent'[x].names = Inputs(x)'
  <2>1. x \in Ids /\ ent[x].names # <<>>
    BY <1>1, <1>2, <1>7
  <2>2. DOMAIN ent[x].names = Inputs(x)
    BY <1>0, <2>1 DEF Formed
  <2> QED
    BY <1>2, <1>3, <2>1, <2>2
<1>8. ASSUME NEW x \in Ids', ent'[x].param # 0
      PROVE  ent'[x].up # 0 /\ ent'[ent'[x].up].fn
  <2>1. CASE x \notin Ids
    <3>1. ent'[x].up = e /\ ent'[e].fn = TRUE
      BY <1>1, <1>2, <2>1
    <3>2. e # 0
      BY <1>0, NoZero
    <3> QED
      BY <3>1, <3>2
  <2>2. CASE x \in Ids
    <3>1. ent[x].up # 0 /\ ent[ent[x].up].fn /\ ent'[x].up = ent[x].up
      BY <1>0, <1>2, <1>8, <2>2 DEF Formed
    <3>2. ent[x].up \in Ids
      BY <1>0, <1>1, <2>2, <3>1, Parents DEF Sound
    <3> QED
      BY <1>2, <3>1, <3>2
  <2> QED
    BY <2>1, <2>2
<1> QED
  BY <1>4, <1>5, <1>6, <1>7, <1>8 DEF Formed

\* The step of the pass that gives e parameters.
Growing(e, ft, n) ==
  /\ e \in Ids /\ ft \in Ids /\ n \in Nat /\ e \in Range(todo) /\ Grows(e, ft, n)
  /\ phase = "materialize" /\ phase' = phase /\ todo # <<>> /\ todo' = Tail(todo) /\ e = Head(todo)
  /\ \A x \in Range(todo') : x \in Range(todo)

\* They are behind the root, with a type and nothing else.
LEMMA GrowingPlain ==
  ASSUME Invariant, Tracked, NEW e, NEW ft, NEW n, Growing(e, ft, n)
  PROVE  Plain'
<1>0. Sound /\ Plain /\ e \in Ids /\ ft \in Ids /\ n \in Nat /\ Grows(e, ft, n)
  BY DEF Invariant, Tracked, Growing
<1>1. Grew(e, ft, n)
  BY <1>0, GrowingWidens
<1>2. /\ Root' = Root /\ \A x \in Ids' \ Ids : /\ ~ent'[x].tdef /\ ~ent'[x].fn /\ ~ent'[x].modifier
                                               /\ ent'[x].names = <<>>
      /\ Ids \subseteq Ids'
  BY <1>1 DEF Grew
<1>3. /\ \A x \in Ids : /\ ent'[x].tdef = ent[x].tdef /\ ent'[x].names = ent[x].names
                        /\ ent'[x].modifier = ent[x].modifier
                        /\ x # e => ent'[x].fn = ent[x].fn
                        /\ ent'[x].up = ent[x].up
  BY <1>1 DEF Grew, Adds, Widened
<1>4. /\ \A s : s # <<e, "ret", 1>> /\ s[1] \in Ids => (s \in Slots' <=> s \in Slots)
      /\ \A s \in Slots' : s[1] \notin Ids => s[1] \in Ids' \ Ids /\ s[2] = "type" /\ s[3] = 1
  BY <1>0, GrowingKeeps
<1>5. e <= Root /\ phase' = "materialize" /\ \A x \in Range(todo') : ent'[x].up # 0 => x <= Root
  <2>1. \A x \in Range(todo) : x \in Ids
    BY DEF Invariant, Phased, Range
  <2>2. ent[e].up # 0
    BY <1>0, TypedStands DEF Grows
  <2> QED
    BY <1>0, <1>3, <2>1, <2>2 DEF Plain, Growing
<1>6. \A x \in Ids' : x > Root => ~ent'[x].tdef /\ ~ent'[x].fn /\ ~ent'[x].modifier /\ ent'[x].names = <<>>
  <2> TAKE x \in Ids'
  <2>1. CASE x \in Ids
    <3>1. x > Root => x # e
      BY <1>0, <1>5, NoZero
    <3> QED
      BY <1>0, <1>3, <2>1, <3>1 DEF Plain
  <2>2. CASE x \notin Ids
    BY <1>2, <2>2
  <2> QED
    BY <2>1, <2>2
<1>7. ASSUME NEW s \in Slots', s[1] > Root
      PROVE  s[2] = "type"
  <2>1. CASE s[1] \notin Ids
    BY <1>4, <2>1
  <2>2. CASE s[1] \in Ids
    <3>1. s # <<e, "ret", 1>>
      BY <1>0, <1>5, <1>7, NoZero
    <3> QED
      BY <1>0, <1>4, <1>7, <2>2, <3>1 DEF Plain
  <2> QED
    BY <2>1, <2>2
<1> QED
  BY <1>2, <1>5, <1>6, <1>7 DEF Plain

\* Dotted names have parts.
LEMMA Paths == Sound => \A x \in DOMAIN path : path[x] \in Seq(STRING) \ {<<>>}
BY Basics

\* After the step, too.
LEMMA PathsNext == Sound' => (\A x \in DOMAIN path : path[x] \in Seq(STRING) \ {<<>>})'
BY Paths, PTL

\* What was not found may be found now, but only among the new parameters.
LEMMA GrowingLate ==
  ASSUME Invariant, Invariant', Tracked, NEW e, NEW ft, NEW n, Growing(e, ft, n)
  PROVE  Late'
<1>0. Sound /\ Sound' /\ Late /\ e \in Ids /\ ft \in Ids /\ n \in Nat /\ Grows(e, ft, n)
  BY DEF Invariant, Tracked, Growing
<1>1. Grew(e, ft, n) /\ Carried(e, ft, n)
  BY <1>0, GrowingWidens, GrowingCarries
<1>2. /\ Shaped(ent, Root) /\ Shaped(ent', Root) /\ Widened(ent, ent', e, n)
      /\ Root' = Root /\ DOMAIN ent = Ids /\ DOMAIN ent' = Ids' /\ Ids \subseteq Ids'
      /\ \A x \in Ids' \ Ids : x > Root
  BY <1>1 DEF Grew
<1>3. /\ \A s : s # <<e, "ret", 1>> /\ s[1] \in Ids =>
           (s \in Slots' <=> s \in Slots) /\ (s \in Unresolved' <=> s \in Unresolved)
      /\ \A s \in Slots' : s[1] \notin Ids => s[1] \in Ids' \ Ids /\ s[2] = "type" /\ s[3] = 1
      /\ \A t \in Ids : Modifier(t)' <=> Modifier(t)
  BY <1>0, GrowingKeeps
<1>4. phase = "materialize" /\ phase' = "materialize"
  BY DEF Growing
<1>5. ASSUME NEW s \in Unresolved', Seeks(s)'
      PROVE  LET t == Resolve(ent', s[1], path'[s], Strict(s[2])) IN t = 0 \/ t > Root
  <2> DEFINE p == path'[s]
  <2>1. s \in Slots' /\ p \in Seq(STRING) \ {<<>>}
    <3>1. s \in DOMAIN path'
      BY DEF Unresolved
    <3> QED
      BY <1>0, <3>1, PathsNext DEF Slots
  <2>2. CASE s[1] \notin Ids
    <3>1. s[1] \in DOMAIN ent' /\ s[1] > Root /\ Strict(s[2]) = TRUE
      BY <1>2, <1>3, <2>1, <2>2 DEF Strict
    <3> HIDE DEF p
    <3>2. Resolve(ent', s[1], p, TRUE) = 0
      BY <1>2, <2>1, <3>1, BehindSeesNothing
    <3> QED
      BY <3>1, <3>2 DEF p
  <2>3. CASE s[1] \in Ids
    <3>1. s # <<e, "ret", 1>>
      BY <1>5 DEF Seeks
    <3>2. s \in Unresolved /\ path'[s] = path[s]
      BY <1>1, <1>3, <2>3, <3>1 DEF Carried, Unresolved
    <3>3. Seeks(s)
      <4>1. ent'[s[1]].tdef = ent[s[1]].tdef
        BY <1>1, <2>3 DEF Grew, Adds
      <4>2. Modifier(s[1])' <=> Modifier(s[1])
        BY <1>3, <2>3
      <4> QED
        BY <1>5, <4>1, <4>2 DEF Seeks
    <3>4. LET t == Resolve(ent, s[1], path[s], Strict(s[2])) IN t = 0 \/ t > Root
      BY <1>0, <1>4, <3>2, <3>3 DEF Late
    <3>5. Resolve(ent', s[1], p, Strict(s[2])) \in {Resolve(ent, s[1], p, Strict(s[2]))} \cup (DOMAIN ent' \ DOMAIN ent)
      <4> HIDE DEF p
      <4>1. s[1] \in DOMAIN ent
        BY <1>2, <2>3
      <4> QED
        BY <1>2, <2>1, <4>1, ResolveWidened
    <3> QED
      BY <1>2, <3>2, <3>4, <3>5
  <2> QED
    BY <2>2, <2>3
<1> QED
  BY <1>2, <1>4, <1>5 DEF Late

\* A parameter that is new is where its number says.
LEMMA NewParameters ==
  ASSUME Sound, Formed, NEW e \in Ids, NEW ft \in Ids, NEW n \in Nat, Grows(e, ft, n),
         ent[e].blk, ~ent[e].fn
  PROVE  n = Cardinality(Inputs(ft)) /\ Declares(ent', e, ft, n)
<1> DEFINE ks == ent[e].kids
           ls == ent'[e].kids
           l == Len(ks)
           N == Len(ent)
<1>1. Grew(e, ft, n)
  BY GrowingWidens
<1>2. /\ Shaped(ent, Root) /\ Shaped(ent', Root) /\ Extends(ent', e, n, N) /\ Adds(ent', e, ft, n, N)
      /\ DOMAIN ent = Ids /\ DOMAIN ent' = Ids' /\ Ids \subseteq Ids' /\ N \in Nat
  BY <1>1 DEF Grew
<1>3. ks \in Seq(Nat) /\ ls \in Seq(Nat)
  BY <1>2, Parents DEF Entity
<1>4. \A i \in DOMAIN ks : ks[i] \in Ids /\ ent[ks[i]].up = e
  <2>1. e <= Root
    BY BlocksStand, TypedStands DEF Grows
  <2> QED
    BY <1>2, <2>1, KidsAre
<1>5. \A i \in DOMAIN ks : ent[ks[i]].param = 0
  <2> TAKE i \in DOMAIN ks
  <2>1. ent[ks[i]].param # 0 => ent[ent[ks[i]].up].fn
    BY <1>4 DEF Formed
  <2> QED
    BY <1>4, <2>1
<1>6. Inputs(ft) = 1 .. Cardinality(Inputs(ft)) /\ Cardinality(Inputs(ft)) \in Nat
  BY InputsAre
<1>7. n = Cardinality(Inputs(ft))
  <2>1. ~HasParams(e, ft)
    <3> SUFFICES ASSUME NEW k \in Range(ks)
                 PROVE  ent[k].param \notin Inputs(ft)
      BY DEF HasParams
    <3>1. ent[k].param = 0
      BY <1>5 DEF Range
    <3> QED
      BY <1>6, <3>1
  <2> QED
    BY <2>1 DEF Grows, WantsParams
<1>8. /\ Len(ls) = n + l
      /\ \A i \in 1 .. n : ls[i] = Fresh(i, n)
      /\ \A i \in 1 .. l : ls[n + i] = ks[i]
      /\ \A j \in 1 .. n : ent'[N + j].param = n + 1 - j
      /\ \A x \in Ids : ent'[x].param = ent[x].param
  BY <1>2 DEF Extends
<1>9. /\ \A j \in 1 .. n : ent'[N + j].name = NameOf(ent, ft, n + 1 - j)
      /\ \A x \in Ids : ent'[x].names = ent[x].names
  BY <1>2 DEF Adds
<1>10. \A i : NameOf(ent', ft, i) = NameOf(ent, ft, i)
  BY <1>9 DEF NameOf
<1>11. l \in Nat /\ DOMAIN ks = 1 .. l /\ DOMAIN ls = 1 .. n + l
  BY <1>3, <1>8
<1>12. \A i \in 1 .. n : /\ n + 1 - i \in 1 .. n /\ n + 1 - (n + 1 - i) = i
                         /\ ls[i] = N + (n + 1 - i)
  <2> TAKE i \in 1 .. n
  <2>1. n + 1 - i \in 1 .. n /\ n + 1 - (n + 1 - i) = i
    OBVIOUS
  <2>2. ls[i] = Fresh(i, n)
    BY <1>8
  <2>3. Fresh(i, n) = N + (n + 1 - i)
    BY <1>2 DEF Fresh
  <2> QED
    BY <2>1, <2>2, <2>3
<1> HIDE DEF ks, ls, l, N
<1>13. ASSUME NEW i \in 1 .. n
       PROVE  ent'[ls[i]].param = i /\ ent'[ls[i]].name = NameOf(ent', ft, i)
  <2> DEFINE j == n + 1 - i
  <2>1. j \in 1 .. n /\ n + 1 - j = i /\ ls[i] = N + j
    BY <1>12
  <2> HIDE DEF j
  <2>2. ent'[N + j].param = n + 1 - j /\ ent'[N + j].name = NameOf(ent, ft, n + 1 - j)
    BY <1>8, <1>9, <2>1
  <2> QED
    BY <1>10, <2>1, <2>2
<1>14. ASSUME NEW i \in 1 .. n + l, ~(i <= n)
       PROVE  ent'[ls[i]].param = 0
  <2>1. i - n \in 1 .. l /\ n + (i - n) = i
    BY <1>11, <1>14
  <2>2. ls[i] = ks[i - n] /\ ks[i - n] \in Ids /\ ent[ks[i - n]].param = 0
    BY <1>4, <1>5, <1>8, <1>11, <2>1
  <2> QED
    BY <1>8, <2>2
<1>15. \A i \in 1 .. n + l : ent'[ls[i]].param = IF i <= n THEN i ELSE 0
  <2> TAKE i \in 1 .. n + l
  <2>1. i <= n => i \in 1 .. n
    BY <1>11
  <2> QED
    BY <1>13, <1>14, <2>1
<1>16. n <= Len(ls)
  BY <1>8, <1>11
<1>17. Declares(ent', e, ft, n)
  BY <1>11, <1>13, <1>15, <1>16 DEF Declares, ls
<1> QED
  BY <1>7, <1>17

\* A literal function has its parameters and is given none.
LEMMA GrowingKept ==
  ASSUME Invariant, Tracked, NEW e, NEW ft, NEW n, Growing(e, ft, n)
  PROVE  Kept'
<1>0. /\ Sound /\ Formed /\ Kept /\ e \in Ids /\ ft \in Ids /\ n \in Nat /\ Grows(e, ft, n)
      /\ Shaped(ent, Root)
  BY DEF Invariant, Tracked, Growing, Sound
<1>1. Grew(e, ft, n) /\ Carried(e, ft, n)
  BY <1>0, GrowingWidens, GrowingCarries
<1>2. /\ Shaped(ent', Root) /\ Widened(ent, ent', e, n) /\ DOMAIN ent = Ids /\ Ids \subseteq Ids'
      /\ Ids = 1 .. Len(ent) /\ Len(ent) \in Nat
      /\ \A x \in Ids' \ Ids : ~ent'[x].blk
  BY <1>1 DEF Grew, Ids
<1>3. /\ \A x \in Ids : /\ ent'[x].tdef = ent[x].tdef /\ ent'[x].blk = ent[x].blk
                        /\ x # e => ent'[x].fn = ent[x].fn
      /\ ent'[e].fn = TRUE
  BY <1>1 DEF Grew, Adds, Extends
<1>4. \A s : s # <<e, "ret", 1>> /\ s[1] \in Ids =>
        /\ s \in DOMAIN path' <=> s \in DOMAIN path
        /\ s \in DOMAIN bind' <=> s \in DOMAIN bind
        /\ s \in DOMAIN bind => bind'[s] = bind[s]
  BY <1>1 DEF Carried
<1>5. \A t \in Ids : Inputs(t)' = Inputs(t)
  BY <1>0, GrowingKeeps
<1>7. ASSUME NEW f \in Ids', Lit(f)'
      PROVE  ent'[f].fn /\ Literal(ent', path', bind', f)
  <2> DEFINE s == <<f, "type", 1>>
             t == bind[s]
             c == Cardinality(Inputs(t))
  <2>1. f \in Ids /\ ent[f].blk
    BY <1>2, <1>3, <1>7 DEF Lit
  <2>2. s \in DOMAIN bind' \ DOMAIN path' /\ s \in DOMAIN bind \ DOMAIN path /\ bind'[s] = t
    <3>1. s[1] \in Ids /\ s # <<e, "ret", 1>>
      BY <2>1
    <3>2. s \in DOMAIN bind' \ DOMAIN path'
      BY <1>7 DEF Lit
    <3> HIDE DEF s
    <3>3. s \in DOMAIN bind \ DOMAIN path /\ bind'[s] = bind[s]
      BY <1>4, <3>1, <3>2
    <3> QED
      BY <3>2, <3>3
  <2>3. Lit(f)
    BY <2>1, <2>2 DEF Lit
  <2>4. /\ t \in Ids /\ FunctionType(f) = t /\ ent[t].tdef /\ ent[t].fn /\ ent[f].fn /\ Given(f)
        /\ Literal(ent, path, bind, f)
    BY <1>0, <2>1, <2>3, LitIs
  <2>5. ~ent[t].blk /\ t < f
    BY <2>4 DEF Literal
  <2>6. f # e \/ n = 0
    BY <1>0, <2>4, NoneTwice
  <2>7. c \in Nat
    BY <1>0, InputsAre
  <2>8. Declares(ent', f, t, c)
    <3>1. Declares(ent, f, t, c)
      BY <2>4 DEF Given
    <3> HIDE DEF t, c
    <3> QED
      BY <1>1, <2>1, <2>4, <2>6, <2>7, <3>1, DeclaresStays
  <2>10. ent'[t].tdef /\ ent'[t].fn /\ ~ent'[t].blk /\ ent'[f].fn
    BY <1>3, <2>1, <2>4, <2>5
  <2>11. Cardinality(InputsAmong(DOMAIN path' \cup DOMAIN bind', t)) = c
    BY <1>5, <2>4 DEF Inputs
  <2> HIDE DEF c
  <2>12. Literal(ent', path', bind', f)
    BY <2>2, <2>5, <2>8, <2>10, <2>11 DEF Literal
  <2> QED
    BY <2>10, <2>12
<1>8. phase' = "materialize"
  BY DEF Growing
<1> QED
  BY <1>7, <1>8 DEF Kept

\* What a function has, and its type comes to, stays when others get parameters.
LEMMA GrowingReady ==
  ASSUME Invariant, Invariant', Tracked, NEW e, NEW ft, NEW n, Growing(e, ft, n),
         NEW f \in Ids, f # e \/ n = 0, Typed(f), Ready(f)
  PROVE  Typed(f)' /\ Ready(f)' /\ FunctionType(f)' = FunctionType(f)
<1>0. /\ Sound /\ Sound' /\ Formed /\ e \in Ids /\ ft \in Ids /\ n \in Nat /\ Grows(e, ft, n)
      /\ phase = "materialize" /\ phase' = "materialize"
  BY DEF Invariant, Tracked, Growing
<1>1. Grew(e, ft, n) /\ Carried(e, ft, n)
  BY <1>0, GrowingWidens, GrowingCarries
<1>2. /\ Root' = Root /\ DOMAIN ent = Ids /\ Ids \subseteq Ids' /\ Shaped(ent, Root)
      /\ Len(ent) <= Len(ent')
  <2>1. Len(ent') = Len(ent) + n /\ Len(ent) \in Nat
    BY <1>0, <1>1, Basics DEF Grew, Extends
  <2> QED
    BY <1>0, <1>1, <2>1 DEF Grew
<1>3. /\ \A t \in Ids : /\ Modifies(t)' <=> Modifies(t)
                        /\ Open(t)' <=> Open(t)
                        /\ Inputs(t)' = Inputs(t)
                        /\ Typed(t)' <=> Typed(t)
      /\ ModifiersStay
      /\ \A s : s # <<e, "ret", 1>> /\ s[1] \in Ids => (s \in Unresolved' <=> s \in Unresolved)
  BY <1>0, GrowingKeeps
<1> DEFINE s == <<f, "type", 1>>
           t == FunctionType(f)
<1>4. bind'[s] = bind[s]
  <2>1. s \in DOMAIN bind /\ s # <<e, "ret", 1>> /\ s[1] \in Ids
    BY DEF Typed
  <2> HIDE DEF s
  <2> QED
    BY <1>1, <2>1 DEF Carried
<1>5. Given(f) /\ (Open(t) => Waits(f)) /\ ~Modifies(t)
  BY <1>0 DEF Ready, Early
<1>6. t \in Ids
  BY <1>0, TypeKnown
<1>7. FunctionType(f)' = t
  BY <1>0, <1>2, <1>3, <1>4, <1>5, TypeStays
<1>8. Waits(f) => Waits(f)'
  <2> SUFFICES ASSUME NEW k \in Range(ent[f].kids), k > Root, <<k, "type", 1>> \in Unresolved
               PROVE  Waits(f)'
    BY DEF Waits
  <2>1. k \in Ids /\ ent'[f].kids = ent[f].kids
    BY <1>1, <1>2, KidsStay DEF Shaped, Range
  <2> DEFINE z == <<k, "type", 1>>
  <2>2. z # <<e, "ret", 1>> /\ z[1] \in Ids
    BY <2>1
  <2> HIDE DEF z
  <2>3. z \in Unresolved' <=> z \in Unresolved
    BY <1>3, <2>2
  <2>4. z \in Unresolved'
    BY <2>3 DEF z
  <2> QED
    BY <1>2, <2>1, <2>4 DEF Waits, z
<1> DEFINE c == Cardinality(Inputs(t))
<1>9. c \in Nat /\ Cardinality(Inputs(FunctionType(f)))' = c
  <2>1. c \in Nat
    BY <1>0, InputsAre
  <2>2. Inputs(t)' = Inputs(t) /\ Inputs(FunctionType(f))' = Inputs(t)
    <3>1. \A x \in Ids : x = t => Inputs(x)' = Inputs(t)
      BY <1>3
    <3>2. PICK x \in Ids : x = t
      BY <1>6
    <3>3. Inputs(x)' = Inputs(t)
      BY <3>1, <3>2
    <3> QED
      BY <1>7, <3>2, <3>3 DEF Inputs
  <2> QED
    BY <2>1, <2>2
<1>10. Given(f)'
  <2>1. Declares(ent, f, t, c)
    BY <1>5 DEF Given
  <2> HIDE DEF t, c
  <2>2. Declares(ent', f, t, c)
    BY <1>1, <1>6, <1>9, <2>1, DeclaresStays
  <2> QED
    BY <1>7, <1>9, <2>2 DEF Given
<1>11. (Open(FunctionType(f))' => Open(t)) /\ ~Modifies(FunctionType(f))'
  <2>1. PICK x \in Ids : x = t
    BY <1>6
  <2>2. (Open(x)' <=> Open(x)) /\ (Modifies(x)' <=> Modifies(x))
    BY <1>3
  <2>3. (Open(FunctionType(f))' <=> Open(x)') /\ (Modifies(FunctionType(f))' <=> Modifies(x)')
    BY <1>7, <2>1 DEF Open, Modifies, Modifier
  <2> QED
    BY <1>5, <2>1, <2>2, <2>3
<1> QED
  BY <1>0, <1>3, <1>5, <1>7, <1>8, <1>10, <1>11 DEF Ready

\* A block that becomes a function is given what its type says.
LEMMA GrowingNew ==
  ASSUME Invariant, Invariant', Tracked, NEW e, NEW ft, NEW n, Growing(e, ft, n)
  PROVE  /\ FunctionType(e)' = ft /\ ~Modifies(ft) /\ ~Modifies(FunctionType(e))' /\ Typed(e)'
         /\ ent[e].blk /\ ~ent[e].fn => Given(e)' /\ (Open(FunctionType(e))' => Waits(e)')
<1>0. /\ Sound /\ Sound' /\ Formed /\ e \in Ids /\ ft \in Ids /\ n \in Nat /\ Grows(e, ft, n)
      /\ phase = "materialize" /\ phase' = "materialize"
  BY DEF Invariant, Tracked, Growing
<1>1. Grew(e, ft, n) /\ Carried(e, ft, n)
  BY <1>0, GrowingWidens, GrowingCarries
<1>2. /\ Root' = Root /\ DOMAIN ent = Ids /\ DOMAIN ent' = Ids' /\ Ids \subseteq Ids'
      /\ Shaped(ent, Root) /\ Shaped(ent', Root)
      /\ Len(ent) <= Len(ent') /\ Len(ent) \in Nat /\ Extends(ent', e, n, Len(ent))
      /\ \A x \in Ids' \ Ids : x > Root
  <2>1. Len(ent') = Len(ent) + n /\ Len(ent) \in Nat
    BY <1>0, <1>1, Basics DEF Grew, Extends
  <2> QED
    BY <1>0, <1>1, <2>1 DEF Grew
<1>3. /\ \A t \in Ids : /\ Modifies(t)' <=> Modifies(t)
                        /\ Open(t)' <=> Open(t)
                        /\ Inputs(t)' = Inputs(t)
                        /\ Typed(t)' <=> Typed(t)
      /\ ModifiersStay
  BY <1>0, GrowingKeeps
<1>4. Typed(e) /\ ft = FunctionType(e) /\ ComesTo(ft) = phase
  BY <1>0 DEF Grows
<1>5. ~Modifies(ft) /\ ~(Modifier(ft) /\ Inputs(ft) = {})
  BY <1>0, <1>4 DEF ComesTo
<1> DEFINE s == <<e, "type", 1>>
<1>6. bind'[s] = bind[s]
  <2>1. s \in DOMAIN bind /\ s # <<e, "ret", 1>> /\ s[1] \in Ids
    BY <1>0, <1>4 DEF Typed
  <2> HIDE DEF s
  <2> QED
    BY <1>1, <2>1 DEF Carried
<1>7. FunctionType(e)' = ft
  BY <1>0, <1>2, <1>3, <1>4, <1>5, <1>6, TypeStays
<1>8. /\ Open(FunctionType(e))' <=> Open(ft)' 
      /\ Modifies(FunctionType(e))' <=> Modifies(ft)'
      /\ Inputs(FunctionType(e))' = Inputs(ft)'
  BY <1>7 DEF Open, Modifies, Modifier, Inputs
<1>9. ASSUME ent[e].blk, ~ent[e].fn
      PROVE  Given(e)' /\ (Open(FunctionType(e))' => Waits(e)')
  <2>1. n = Cardinality(Inputs(ft)) /\ Declares(ent', e, ft, n)
    BY <1>0, <1>9, NewParameters
  <2>2. Cardinality(Inputs(FunctionType(e)))' = n
    BY <1>0, <1>3, <1>8, <2>1
  <2>3. Given(e)'
    BY <1>7, <2>1, <2>2 DEF Given
  <2>4. ASSUME Open(ft)
        PROVE  Waits(e)'
    <3>1. Inputs(ft) = 1 .. n
      BY <1>0, <2>1, InputsAre
    <3>2. 1 \in 1 .. n
      BY <1>0, <1>5, <2>4, <3>1 DEF Open
    <3>3. <<ft, "input", 1>> \in Unresolved
      BY <2>4, <3>1, <3>2 DEF Open, Inputs, InputsAmong, Unresolved
    <3> DEFINE k == Fresh(1, n)
    <3>4. <<k, "type", 1>> \in Unresolved'
      BY <1>1, <3>2, <3>3 DEF Carried, Unresolved
    <3>5. k \in Ids' \ Ids
      <4>1. Len(ent) + n \in Ids' \ Ids
        <5>1. n \in 1 .. n
          BY <1>0, <3>2
        <5>2. \A j \in 1 .. n : Len(ent) + j \in Ids' \ Ids
          BY <1>1 DEF Grew
        <5> QED
          BY <5>1, <5>2
      <4>2. Fresh(1, n) = Len(ent) + n
        BY <1>0, <1>2 DEF Fresh
      <4> QED
        BY <4>1, <4>2
    <3>6. k \in Range(ent'[e].kids)
      <4>1. ent'[e].kids \in Seq(Nat) /\ Len(ent'[e].kids) = n + Len(ent[e].kids) /\ ent'[e].kids[1] = k
        BY <1>2, <3>2 DEF Extends
      <4>2. ent[e].kids \in Seq(Nat)
        BY <1>0, <1>2, Parents DEF Entity
      <4>3. 1 \in DOMAIN ent'[e].kids
        <5> DEFINE l == Len(ent[e].kids)
                   ls == ent'[e].kids
        <5>1. l \in Nat /\ ls \in Seq(Nat) /\ Len(ls) = n + l
          BY <4>1, <4>2
        <5> HIDE DEF l, ls
        <5>2. 1 \in DOMAIN ls
          BY <1>0, <3>2, <5>1
        <5> QED
          BY <5>2 DEF ls
      <4> QED
        BY <4>1, <4>3 DEF Range
    <3> HIDE DEF k
    <3> QED
      BY <1>2, <3>4, <3>5, <3>6 DEF Waits
  <2>5. Open(FunctionType(e))' => Open(ft)
    BY <1>0, <1>3, <1>8
  <2> QED
    BY <2>3, <2>4, <2>5
<1> QED
  BY <1>0, <1>3, <1>4, <1>5, <1>7, <1>8, <1>9

\* Functions keep the parameters they have, and e gets those of its type.
LEMMA GrowingProvided ==
  ASSUME Invariant, Invariant', Tracked, NEW e, NEW ft, NEW n, Growing(e, ft, n)
  PROVE  Provided'
<1>0. /\ Sound /\ Formed /\ Provided /\ e \in Ids /\ ft \in Ids /\ n \in Nat /\ Grows(e, ft, n)
      /\ phase \in Early
  BY DEF Invariant, Tracked, Growing, Early
<1>1. Grew(e, ft, n)
  BY <1>0, GrowingWidens
<1>2. /\ \A x \in Ids' \ Ids : ~ent'[x].blk
      /\ \A x \in Ids : ent'[x].blk = ent[x].blk /\ (x # e => ent'[x].fn = ent[x].fn)
  BY <1>1 DEF Grew, Adds, Extends
<1>3. ASSUME NEW f \in Ids', ent'[f].blk, ent'[f].fn
      PROVE  Typed(f)' /\ Ready(f)'
  <2>1. f \in Ids /\ ent[f].blk
    BY <1>2, <1>3
  <2>2. ent[f].fn => Typed(f) /\ Ready(f)
    BY <1>0, <2>1 DEF Provided, Turned
  <2>3. CASE ent[f].fn
    <3>1. f # e \/ n = 0
      BY <1>0, <2>1, <2>2, <2>3, NoneTwice DEF Ready
    <3> QED
      BY <2>1, <2>2, <2>3, <3>1, GrowingReady
  <2>4. CASE ~ent[f].fn
    <3>1. f = e
      BY <1>2, <1>3, <2>1, <2>4
    <3>2. /\ Typed(e)' /\ Given(e)' /\ (Open(FunctionType(e))' => Waits(e)')
          /\ ~Modifies(FunctionType(e))'
      BY <2>1, <2>4, <3>1, GrowingNew
    <3>3. Ready(e)'
      BY <3>2 DEF Ready
    <3> QED
      BY <3>1, <3>2, <3>3
  <2> QED
    BY <2>3, <2>4
<1> QED
  BY <1>3 DEF Provided

\* So giving parameters keeps all that is tracked.
LEMMA GrowingTracked ==
  ASSUME Invariant, Invariant', Tracked, NEW e, NEW ft, NEW n, Growing(e, ft, n)
  PROVE  Tracked'
<1>1. Formed'
  BY GrowingFormed DEF Growing
<1>2. Complete'
  BY DEF Complete, Growing
<1> QED
  BY <1>1, <1>2, GrowingPlain, GrowingLate, GrowingKept, GrowingProvided DEF Tracked

-----------------------------------------------------------------------------
(*****************************************************************************)
(* So it is known of every reachable state.                                 *)
(*****************************************************************************)
\* A program that has been sorted is such a module.
LEMMA InitTracked ==
  ASSUME Init
  PROVE  Tracked
<1>1. PICK p \in Programs : ent = p.ent /\ path = p.path /\ bind = p.bind
  BY DEF Init
<1>2. /\ \E r \in DOMAIN ent : /\ Shaped(ent, r)
                              /\ \A e \in DOMAIN ent : e > r => Detached(ent, r, e)
      /\ DOMAIN path \cap DOMAIN bind = {}
      /\ Built(ent, Slots) /\ Written(ent, path, bind)
  BY <1>1, SortedPrograms DEF Slots
<1>3. Invariant /\ Sound /\ phase = "names"
  BY InitSound DEF Init, Invariant
<1>4. /\ DOMAIN ent = Ids /\ Len(ent) \in Nat
      /\ \A e \in Ids : e > Root => Detached(ent, Root, e)
  BY <1>2, <1>3, RootIs, Basics
<1>5. \A s \in Slots : s[1] \in Ids
  BY <1>3, Slotted DEF Slots
<1>6. Formed
  <2>1. \A e \in Ids : ent[e].param # 0 => ent[e].up # 0 /\ ent[ent[e].up].fn
    BY <1>2, <1>4 DEF Written
  <2>2. \A s \in Slots : IF s[2] = "input"
                         THEN /\ s[3] \in DOMAIN DefaultNames
                              /\ \A i \in 1 .. s[3] : <<s[1], "input", i>> \in Slots
                         ELSE s[3] = 1
    BY <1>2 DEF Built
  <2>3. \A e \in Ids :
          /\ ent[e].tdef => \A kind \in {"type", "call", "alias"} : <<e, kind, 1>> \notin Slots
          /\ ent[e].names # <<>> => DOMAIN ent[e].names = InputsAmong(Slots, e)
    BY <1>2, <1>4 DEF Built
  <2> QED
    BY <2>1, <2>2, <2>3 DEF Formed, Inputs, Slots
<1>7. Plain
  <2>1. ASSUME NEW e \in Ids, e > Root
        PROVE  /\ ent[e].up = 0 /\ ~ent[e].tdef /\ ~ent[e].fn /\ ~ent[e].modifier
               /\ ent[e].names = <<>>
    BY <1>4, <2>1, DetachedIs
  <2>2. \A e \in Ids : e <= Root \/ e > Root
    BY <1>3, NoZero
  <2>3. \A s \in Slots : ~(s[1] > Root)
    BY <1>3, <2>1, Slotted DEF Slots
  <2> QED
    BY <1>3, <2>1, <2>2, <2>3 DEF Plain
<1>8. Late /\ Complete
  BY <1>3 DEF Late, Complete
<1>9. Kept
  <2>1. \A f \in Ids : ent[f].blk /\ (ent[f].fn \/ <<f, "type", 1>> \in DOMAIN bind \ DOMAIN path)
                       => ent[f].fn /\ Literal(ent, path, bind, f)
    BY <1>2, <1>4 DEF Written
  <2>2. \A f \in Ids : Literal(ent, path, bind, f) => <<f, "type", 1>> \in DOMAIN bind \ DOMAIN path
    BY DEF Literal
  <2> QED
    BY <2>1, <2>2 DEF Kept, Lit
<1>10. Provided
  <2>1. ASSUME NEW f \in Ids, ent[f].blk, ent[f].fn
        PROVE  Typed(f) /\ Ready(f)
    <3>1. Lit(f)
      BY <1>3, <1>9, <2>1 DEF Kept
    <3>2. PICK t \in Ids : t = bind[<<f, "type", 1>>] /\ ~Modifies(t) /\ ~Open(t)
                           /\ FunctionType(f) = t /\ Typed(f) /\ Given(f)
      BY <1>3, <1>6, <1>9, <3>1, LitIs
    <3> QED
      BY <3>2 DEF Ready
  <2> QED
    BY <2>1 DEF Provided
<1> QED
  BY <1>6, <1>7, <1>8, <1>9, <1>10 DEF Tracked

\* A step only looks, resolves the lookups of an entity or gives it parameters.
Does ==
  \/ Moves
  \/ \E typesOnly \in BOOLEAN : Resolves(typesOnly)
  \/ \E e, ft, n : Growing(e, ft, n)

\* That is all there is.
LEMMA StepsAre ==
  ASSUME Invariant, [Next]_vars
  PROVE  Does
<1>0. Sound /\ Phased /\ todo \in Seq(Ids)
  BY DEF Invariant, Phased
<1>1. CASE NameReuse \/ LookupsResolved \/ FunctionArity \/ NextWalk \/ UNCHANGED vars
  BY <1>1, LooksMove DEF Does
<1>2. ASSUME NEW typesOnly \in BOOLEAN, ResolveLookups(typesOnly)
      PROVE  Does
  BY <1>0, <1>2, ResolvingIs DEF Does
<1>3. CASE Materialize
  <2> DEFINE e == Head(todo)
  <2>1. todo # <<>> /\ todo' = Tail(todo) /\ phase = "materialize"
    BY <1>3 DEF Materialize
  <2>2. e \in Ids /\ e \in Range(todo) /\ \A x \in Range(todo') : x \in Range(todo)
    BY <1>0, <2>1, TailWithin, TailIs DEF Range
  <2>3. \/ UNCHANGED <<ent, path, bind>>
        \/ phase' = phase /\ \E ft \in Ids, n \in Nat : Grows(e, ft, n)
    BY <1>0, <1>3, MaterializeIs
  <2>4. CASE UNCHANGED <<ent, path, bind>>
    BY <1>3, <2>4, LooksMove DEF Does
  <2>5. CASE phase' = phase /\ \E ft \in Ids, n \in Nat : Grows(e, ft, n)
    BY <2>1, <2>2, <2>5 DEF Does, Growing
  <2> QED
    BY <2>3, <2>4, <2>5
<1> QED
  BY <1>1, <1>2, <1>3 DEF Next

\* The invariant and what is tracked hold of every reachable state.
LEMMA Tracking == Spec => [](Invariant /\ Tracked)
<1>1. Init => Invariant /\ Tracked
  BY InitSound, InitTracked
<1>2. ASSUME Invariant, Tracked, [Next]_vars
      PROVE  Invariant' /\ Tracked'
  <2>1. Invariant'
    BY <1>2, InvariantStep
  <2>2. Does
    BY <1>2, StepsAre
  <2>3. CASE Moves
    BY <1>2, <2>1, <2>3, LookingTracked
  <2>4. ASSUME NEW typesOnly \in BOOLEAN, Resolves(typesOnly)
        PROVE  Tracked'
    BY <1>2, <2>1, <2>4, ResolvingTracked
  <2>5. ASSUME NEW e, NEW ft, NEW n, Growing(e, ft, n)
        PROVE  Tracked'
    BY <1>2, <2>1, <2>5, GrowingTracked
  <2> QED
    BY <2>1, <2>2, <2>3, <2>4, <2>5 DEF Does
<1> QED
  BY <1>1, <1>2, PTL DEF Spec

\* Parameters follow from it.
LEMMA InvariantProvides ==
  ASSUME Invariant, Tracked
  PROVE  ParametersOnce
<1>0. Sound /\ Plain /\ Provided /\ Complete
  BY DEF Invariant, Tracked
<1>1. SUFFICES ASSUME phase \in {"full", "validate", "arity", "accepted"},
                      NEW f \in Ids, ent[f].blk, ent[f].fn
               PROVE  \/ Given(f)
                      \/ phase \in {"full", "validate"} /\ Pushed(FunctionType(f))
  BY DEF ParametersOnce, Given
<1>2. Typed(f) /\ (Ready(f) \/ Turned(f))
  BY <1>0, <1>1 DEF Provided
<1>3. CASE Ready(f)
  BY <1>3 DEF Ready
<1>4. CASE Turned(f)
  <2>1. FunctionType(f) \in Ids /\ FunctionType(f) > Root
    BY <1>0, <1>2, <1>4, TypeKnown DEF Turned
  <2>2. Pushed(FunctionType(f))
    <3> DEFINE t == FunctionType(f)
    <3>1. t \in Held(ent) /\ Shaped(ent, Root) /\ DOMAIN ent = Ids /\ Ids \subseteq Nat /\ Root \in Ids
      BY <1>0, <1>2, TypeStands, Basics, NoZero DEF Sound
    <3>2. t \in Ids /\ t > Root
      BY <2>1
    <3> HIDE DEF t
    <3>3. t \in DOMAIN ent \ {Root} /\ ~(t < Root)
      BY <3>1, <3>2
    <3>4. ~Detached(ent, Root, t)
      BY <3>1, DetachedIs DEF Held
    <3>5. ent[t].param # 0
      BY <3>1, <3>3, <3>4 DEF Shaped
    <3> QED
      BY <3>2, <3>5 DEF Pushed, t
  <2>3. Unresolved # {}
    BY <1>4 DEF Turned, Waits
  <2> QED
    BY <1>0, <1>1, <2>2, <2>3 DEF Complete
<1> QED
  BY <1>2, <1>3, <1>4

-----------------------------------------------------------------------------
(*****************************************************************************)
(* Names in a block, and the parameters a function type means.              *)
(*****************************************************************************)
\* Behind the parameters that were pushed a block has what the source gave it, and
\* once name_reuse has been there none of that has another's name.
Twice(b, i, j) == phase = "redefined" \/ (phase = "names" /\ b \in Range(todo)) \/ ~Reuses(b, i, j)

Distinct ==
  \A b \in 1 .. Root : \A i, j \in DOMAIN ent[b].kids :
    i < j /\ ent[b].kids[i] <= Root => ent[b].kids[j] <= Root /\ Twice(b, i, j)

\* Before name_reuse nothing is said of names.
LEMMA InitDistinct ==
  ASSUME Init
  PROVE  Distinct
<1>1. Invariant /\ Sound /\ phase = "names" /\ Covers(todo)
  BY InitSound, WalkCovers DEF Init, Invariant
<1>2. \A e \in Ids : ent[e].up # 0 => e <= Root
  BY <1>1, InitTracked DEF Tracked, Plain
<1>3. ASSUME NEW b \in 1 .. Root
      PROVE  /\ b \in Range(todo)
             /\ \A j \in DOMAIN ent[b].kids : ent[b].kids[j] <= Root
  <2>1. b \in Ids /\ (b = Root \/ ent[b].up # 0)
    BY <1>1, BelowTheRoot
  <2>2. \A j \in DOMAIN ent[b].kids : ent[b].kids[j] \in Ids /\ ent[ent[b].kids[j]].up = b
    BY <1>1, BelowTheRoot
  <2>3. b # 0
    BY <1>1, NoZero
  <2> QED
    BY <1>1, <1>2, <2>1, <2>2, <2>3 DEF Covers
<1> QED
  BY <1>1, <1>3 DEF Distinct, Twice

\* New parameters stand in front of what the source gave.
LEMMA GrowingDistinct ==
  ASSUME Sound, NEW e \in Ids, NEW ft \in Ids, NEW n \in Nat, Grows(e, ft, n), Distinct,
         phase = "materialize", phase' = phase
  PROVE  Distinct'
<1>0. Grew(e, ft, n)
  BY GrowingWidens
<1> DEFINE N == Len(ent)
<1>1. /\ Widened(ent, ent', e, n) /\ Adds(ent', e, ft, n, N) /\ Extends(ent', e, n, N)
      /\ DOMAIN ent = Ids /\ Ids \subseteq Ids' /\ Root' = Root /\ Root \in Ids
      /\ \A x \in Ids' \ Ids : x > Root /\ ent'[x].kids = <<>>
  BY <1>0 DEF Grew
<1>2. \A x \in Ids : ent'[x].name = ent[x].name /\ (x # e => ent'[x].kids = ent[x].kids)
  BY <1>1 DEF Widened
<1> SUFFICES ASSUME NEW b \in 1 .. Root, NEW i \in DOMAIN ent'[b].kids, NEW j \in DOMAIN ent'[b].kids,
                    i < j, ent'[b].kids[i] <= Root
             PROVE  /\ ent'[b].kids[j] <= Root
                    /\ ~(ent'[ent'[b].kids[i]].name \in {ent'[ent'[b].kids[j]].name} \ {""})
  BY <1>1 DEF Distinct, Twice, Reuses
<1>3. ASSUME NEW c \in 1 .. Root, NEW k \in DOMAIN ent[c].kids, NEW l \in DOMAIN ent[c].kids,
             k < l, ent[c].kids[k] <= Root
      PROVE  /\ ent[c].kids[l] <= Root
             /\ ~(ent'[ent[c].kids[k]].name \in {ent'[ent[c].kids[l]].name} \ {""})
  <2>1. ent[c].kids[l] <= Root /\ ~Reuses(c, k, l)
    BY <1>3 DEF Distinct, Twice
  <2>2. ent[c].kids[k] \in Ids /\ ent[c].kids[l] \in Ids
    BY BelowTheRoot
  <2> QED
    BY <1>2, <1>3, <2>1, <2>2 DEF Reuses
<1>4. b \in Ids
  BY BelowTheRoot
<1>5. CASE b # e
  BY <1>2, <1>3, <1>4, <1>5
<1>6. CASE b = e
  <2> DEFINE L == Len(ent[e].kids)
  <2>1. /\ ent[e].kids \in Seq(Nat) /\ ent'[e].kids \in Seq(Nat) /\ L \in Nat
        /\ DOMAIN ent[e].kids = 1 .. L /\ DOMAIN ent'[e].kids = 1 .. n + L
        /\ \A k \in 1 .. n : ent'[e].kids[k] \in Ids' \ Ids
        /\ \A k \in 1 .. L : ent'[e].kids[n + k] = ent[e].kids[k]
    <3>1. ent[e].kids \in Seq(Nat) /\ ent'[e].kids \in Seq(Nat)
      BY <1>1, Parents DEF Extends, Sound, Entity
    <3>2. /\ Len(ent'[e].kids) = n + L /\ \A k \in 1 .. L : ent'[e].kids[n + k] = ent[e].kids[k]
          /\ \A k \in 1 .. n : ent'[e].kids[k] \in Ids' \ Ids
      BY <1>0, <1>1 DEF Widened, Grew
    <3> QED
      BY <3>1, <3>2
  <2> HIDE DEF L
  <2>2. i \in 1 .. n + L /\ j \in 1 .. n + L
    BY <1>6, <2>1
  <2>3. ~(i \in 1 .. n)
    <3> DEFINE x == ent'[e].kids[i]
    <3>1. x \in Nat
      BY <2>1, <2>2
    <3>2. Root \in Nat
      <4>1. Root \in Ids /\ Len(ent) \in Nat
        BY Basics
      <4> QED
        BY <4>1 DEF Ids
    <3>3. x <= Root
      BY <1>6
    <3>4. ASSUME i \in 1 .. n
          PROVE  x > Root
      BY <1>1, <2>1, <3>4
    <3> QED
      BY <3>1, <3>2, <3>3, <3>4
  <2>4. PICK k \in 1 .. L : i = n + k
    <3>1. i - n \in 1 .. L /\ i = n + (i - n)
      BY <2>1, <2>2, <2>3
    <3> QED
      BY <3>1
  <2>5. PICK l \in 1 .. L : j = n + l
    <3>1. j - n \in 1 .. L /\ j = n + (j - n)
      BY <2>1, <2>2, <2>3
    <3> QED
      BY <3>1
  <2>6. k < l
    BY <2>1, <2>4, <2>5
  <2>7. ent'[b].kids[i] = ent[e].kids[k] /\ ent'[b].kids[j] = ent[e].kids[l]
    BY <1>6, <2>1, <2>4, <2>5
  <2>8. k \in DOMAIN ent[e].kids /\ l \in DOMAIN ent[e].kids
    BY <2>1
  <2> QED
    BY <1>3, <1>6, <2>6, <2>7, <2>8
<1> QED
  BY <1>5, <1>6

\* name_reuse visits every block, and no step adds a name behind the parameters.
LEMMA DistinctStep ==
  ASSUME Invariant, [Next]_vars, Distinct
  PROVE  Distinct'
<1>0. Sound /\ Phased /\ todo \in Seq(Ids) /\ DOMAIN ent = Ids
  BY Basics DEF Invariant, Phased
<1>1. ASSUME UNCHANGED ent, NEW b \in Ids, NEW i, NEW j
      PROVE  Reuses(b, i, j)' <=> Reuses(b, i, j)
  BY <1>1 DEF Reuses
<1>2. ASSUME UNCHANGED ent,
             \A b \in Ids : \A i, j \in DOMAIN ent[b].kids : i < j /\ Twice(b, i, j) => Twice(b, i, j)'
      PROVE  Distinct'
  <2>1. Root' = Root /\ \A b \in 1 .. Root : b \in Ids
    BY <1>0, <1>2, BelowTheRoot DEF Ids, Root
  <2>2. \A b \in 1 .. Root : \A i, j \in DOMAIN ent[b].kids :
          i < j /\ ent[b].kids[i] <= Root => ent[b].kids[j] <= Root /\ Twice(b, i, j)
    BY DEF Distinct
  <2> QED
    BY <1>2, <2>1, <2>2 DEF Distinct
<1>3. CASE NameReuse
  <2> DEFINE h == Head(todo)
  <2>1. /\ phase = "names" /\ todo # <<>> /\ todo' = Tail(todo) /\ UNCHANGED ent
        /\ phase' = IF \E i, j \in DOMAIN ent[h].kids : Reuses(h, i, j) THEN "redefined" ELSE phase
    BY <1>3 DEF NameReuse
  <2>2. \A x \in Range(todo) : x = h \/ x \in Range(todo')
    BY <1>0, <2>1, TailIs
  <2>3. ASSUME NEW b \in Ids, NEW i \in DOMAIN ent[b].kids, NEW j \in DOMAIN ent[b].kids,
               Twice(b, i, j)
        PROVE  Twice(b, i, j)'
    <3>1. CASE b = h
      BY <1>1, <2>1, <3>1 DEF Twice
    <3>2. CASE b # h
      BY <1>1, <2>1, <2>2, <2>3, <3>2 DEF Twice
    <3> QED
      BY <3>1, <3>2
  <2> QED
    BY <1>2, <2>1, <2>3
<1>4. CASE UNCHANGED vars
  BY <1>1, <1>2, <1>4 DEF vars, Twice
<1>5. CASE NextWalk
  <2>1. todo = <<>> /\ phase \in DOMAIN Then /\ UNCHANGED ent
    BY <1>5 DEF NextWalk
  <2>2. Range(todo) = {} /\ phase # "redefined"
    BY <2>1 DEF Range, Then
  <2> QED
    BY <1>1, <1>2, <2>1, <2>2 DEF Twice
<1>6. CASE \/ \E typesOnly \in BOOLEAN : ResolveLookups(typesOnly)
           \/ LookupsResolved \/ FunctionArity
  <2>1. phase \notin {"names", "redefined"} /\ UNCHANGED ent
    BY <1>6 DEF ResolveLookups, LookupsResolved, FunctionArity
  <2> QED
    BY <1>1, <1>2, <2>1 DEF Twice
<1>7. CASE Materialize
  <2> DEFINE e == Head(todo)
  <2>1. phase = "materialize" /\ todo # <<>>
    BY <1>7 DEF Materialize
  <2>2. e \in Ids
    BY <1>0, <2>1, TailIs
  <2>3. CASE UNCHANGED ent
    BY <1>1, <1>2, <2>1, <2>3 DEF Twice
  <2>4. CASE phase' = phase /\ \E ft \in Ids, n \in Nat : Grows(e, ft, n)
    BY <1>0, <2>1, <2>2, <2>4, GrowingDistinct
  <2> QED
    BY <1>0, <1>7, <2>3, <2>4, MaterializeIs
<1> QED
  BY <1>3, <1>4, <1>5, <1>6, <1>7 DEF Next

\* The input s of the type of the literal function f means the parameter p.
Neighbor(f, s, p) ==
  /\ Lit(f) /\ s[1] = bind[<<f, "type", 1>>] /\ ent[s[1]].up = ent[f].up
  /\ \A x \in s[1] + 1 .. f - 1 : f \in Around(ent, x)
  /\ s[2] = "input" /\ s \in DOMAIN path /\ path[s] = <<ent[p].name>>
  /\ p \in Range(ent[f].kids) /\ ent[p].param # 0
  /\ \A e \in Ids : e <= Root /\ f \in Around(ent, e) /\ ent[e].up # f => ent[e].name # ent[p].name

\* From the first walk on, once its type has been visited, it is bound to it.
Met ==
  \A f, p \in Ids : \A s \in DOMAIN path : Neighbor(f, s, p) =>
    /\ s \in DOMAIN bind => bind[s] = p
    /\ s \in DOMAIN bind \/ phase \in {"names"} \cup Verdicts
       \/ (phase = "types" /\ s[1] \in Range(todo))

\* The search from the type climbs to the function and finds the parameter first.
LEMMA NeighborSeen ==
  ASSUME Sound, Tracked, Distinct, phase = "types", NEW f \in Ids, NEW p \in Ids, NEW s,
         Neighbor(f, s, p)
  PROVE  Resolve(ent, s[1], path[s], Strict(s[2])) = p
<1> DEFINE t == s[1]
           nm == ent[p].name
           found == [b \in DOMAIN ent |-> Named(ent, b, nm)]
           start == BlockFrom(ent, t)
           S == { e \in DOMAIN ent : ent[e].name = nm }
<1>0. /\ Shaped(ent, Root) /\ DOMAIN ent = Ids /\ Formed /\ Plain /\ Kept
      /\ Ids \subseteq Nat /\ 0 \notin Ids /\ \A e \in Ids : ent[e].up # 0 => e \in 1 .. Root
  <2>1. Len(ent) \in Nat /\ DOMAIN ent = Ids /\ Root \in Ids
    BY Basics
  <2>2. \A e \in Ids : ent[e].up # 0 => e <= Root
    BY DEF Tracked, Plain
  <2> QED
    BY <2>1, <2>2 DEF Sound, Tracked, Ids
<1>1. /\ Lit(f) /\ t = bind[<<f, "type", 1>>] /\ s[2] = "input" /\ s \in DOMAIN path
      /\ path[s] = <<nm>> /\ p \in Range(ent[f].kids) /\ ent[f].blk
      /\ \A e \in Ids : f \in Around(ent, e) /\ ent[e].up # f => ent[e].name # nm
      /\ \A x \in t + 1 .. f - 1 : f \in Around(ent, x)
  <2>1. \A e \in Ids : f \in Around(ent, e) => ent[e].up # 0
    BY <1>0, AroundIs
  <2>2. \A e \in Ids : ent[e].up # 0 => e <= Root
    BY DEF Tracked, Plain
  <2> QED
    BY <1>0, <2>1, <2>2 DEF Neighbor, Lit
<1>2. nm # ""
  <2> DEFINE T == STRING \ {""}
  <2>1. path[s] \in Seq(T) /\ path[s] = <<nm>>
    BY <1>1, Basics
  <2>2. nm \in T
    <3> HIDE DEF T, nm
    <3>1. <<nm>> \in Seq(T) /\ Len(<<nm>>) = 1
      BY <2>1
    <3> QED
      BY <3>1
  <2> QED
    BY <2>2
<1>3. t \in Ids /\ t < f /\ ~ent[t].blk /\ f \in 1 .. Root
  <2>1. t \in Ids /\ t < f /\ ~ent[t].blk /\ Typed(f)
    BY <1>0, <1>1, LitIs DEF Literal
  <2>2. f \in 1 .. Root
    BY <1>0, <2>1, TypedStands
  <2> QED
    BY <2>1, <2>2
<1>4. /\ \A b \in Ids : ent[b].kids \in Seq(Nat)
      /\ \A b \in 1 .. Root : \A i \in DOMAIN ent[b].kids : /\ ent[b].kids[i] \in Ids
                                                            /\ ent[ent[b].kids[i]].up = b
  BY <1>0, KidsAre, BelowTheRoot
<1>5. found[f] = p
  <2>1. PICK k \in DOMAIN ent[f].kids : ent[f].kids[k] = p
    BY <1>1 DEF Range
  <2>2. p \in S
    BY <1>0
  <2>3. \/ FirstKid(ent, f, S) = 0 /\ \A i \in DOMAIN ent[f].kids : ent[f].kids[i] \notin S
        \/ \E i \in DOMAIN ent[f].kids :
             /\ FirstKid(ent, f, S) = ent[f].kids[i] /\ ent[f].kids[i] \in S
             /\ \A j \in DOMAIN ent[f].kids : ent[f].kids[j] \in S => i <= j
    <3> HIDE DEF S
    <3> QED
      BY <1>4, FirstKidIs
  <2>4. PICK i \in DOMAIN ent[f].kids :
             /\ FirstKid(ent, f, S) = ent[f].kids[i] /\ ent[f].kids[i] \in S
             /\ \A j \in DOMAIN ent[f].kids : ent[f].kids[j] \in S => i <= j
    BY <2>1, <2>2, <2>3
  <2>5. i = k
    <3>1. i \in Nat /\ k \in Nat /\ i <= k
      BY <1>4, <2>1, <2>2, <2>4
    <3>2. ent[f].kids[i] <= Root
      <4>1. ent[f].kids[i] \in Ids /\ ent[ent[f].kids[i]].up # 0
        BY <1>0, <1>3, <1>4
      <4>2. ent[f].kids[i] \in 1 .. Root /\ Root \in Nat
        BY <1>0, <4>1, NoZero
      <4> QED
        BY <4>2
    <3>3. i < k => ~Reuses(f, i, k)
      BY <1>3, <2>1, <3>2 DEF Distinct, Twice
    <3>4. i < k => Reuses(f, i, k)
      BY <1>2, <2>1, <2>4 DEF Reuses
    <3> QED
      BY <3>1, <3>3, <3>4
  <2> QED
    BY <1>0, <2>1, <2>4, <2>5 DEF Named
<1>6. ASSUME NEW e \in Ids, f \in Around(ent, e)
      PROVE  found[e] = 0
  <2>0. e \in 1 .. Root
    BY <1>0, <1>6, AroundIs
  <2>1. e < f
    BY <1>0, <1>6, <2>0, AroundHigher
  <2>2. ASSUME NEW i \in DOMAIN ent[e].kids
        PROVE  ent[e].kids[i] \notin S
    <3>1. ent[e].kids[i] \in Ids /\ ent[ent[e].kids[i]].up = e /\ e # 0
      BY <1>4, <1>0, <2>0 DEF Ids
    <3>2. f \in Around(ent, ent[e].kids[i])
      BY <1>0, <1>6, <3>1, AroundIs
    <3>3. e # f
      BY <1>0, <2>1
    <3> QED
      BY <1>1, <3>1, <3>2, <3>3
  <2>3. FirstKid(ent, e, S) = 0
    <3> HIDE DEF S
    <3> QED
      BY <1>4, <2>2, FirstKidIs
  <2> QED
    BY <1>0, <2>3 DEF Named
<1>7. start \in Ids /\ (start = f \/ f \in Around(ent, start))
  <2> DEFINE B == { b \in DOMAIN ent : b >= t /\ ent[b].blk }
  <2>1. B \in SUBSET Nat /\ f \in B
    <3> HIDE DEF t
    <3>1. t \in Nat /\ f \in Nat /\ t < f
      BY <1>0, <1>3
    <3>2. f >= t
      BY <3>1
    <3> QED
      BY <1>0, <1>1, <3>2
  <2>2. start = LeastOr0(B)
    BY DEF BlockFrom
  <2>3. start \in B /\ start <= f
    <3> HIDE DEF B
    <3> QED
      BY <2>1, <2>2, LeastIs
  <2>4. start \in Ids /\ start >= t /\ start # t
    BY <1>0, <1>3, <2>3
  <2>5. start # f => start \in t + 1 .. f - 1
    <3> HIDE DEF start, t
    <3>1. start \in Nat /\ t \in Nat /\ f \in Nat
      BY <1>0, <1>3, <2>4
    <3> QED
      BY <2>3, <2>4, <3>1
  <2> QED
    BY <1>1, <2>4, <2>5
<1>8. Outward(ent, start, found) = p
  <2> HIDE DEF found, start
  <2>1. p # 0
    BY <1>0 DEF Ids
  <2>2. CASE start = f
    BY <1>0, <1>5, <2>1, <2>2, OutwardStep
  <2>3. CASE f \in Around(ent, start)
    BY <1>0, <1>5, <1>6, <1>7, <2>1, <2>3, ClimbsTo
  <2> QED
    BY <1>7, <2>2, <2>3
<1>9. Len(path[s]) = 1 /\ path[s][1] = nm /\ ~Strict(s[2])
  BY <1>1 DEF Strict
<1> QED
  BY <1>8, <1>9 DEF Resolve

\* To begin with, what has a name to look for is not bound.
LEMMA InitMet ==
  ASSUME Init
  PROVE  Met
<1>1. PICK q \in Programs : ent = q.ent /\ path = q.path /\ bind = q.bind
  BY DEF Init
<1>2. DOMAIN path \cap DOMAIN bind = {}
  BY <1>1, SortedPrograms
<1> QED
  BY <1>2 DEF Met, Init

\* A neighbor was one before the step.
LEMMA NeighborWas ==
  ASSUME Invariant, Invariant', Tracked, Tracked', Does,
         NEW f \in Ids', NEW p \in Ids', NEW s \in DOMAIN path', Neighbor(f, s, p)'
  PROVE  /\ f \in Ids /\ p \in Ids /\ s \in DOMAIN path /\ Neighbor(f, s, p)
         /\ s[1] \in Ids /\ ent[s[1]].tdef
<1> DEFINE ts == <<f, "type", 1>>
<1>0. /\ Sound /\ Sound' /\ Formed /\ Kept /\ Plain /\ Root' = Root /\ Ids \subseteq Ids'
      /\ DOMAIN ent = Ids
  <2>1. Sound /\ Sound' /\ Formed /\ Kept /\ Plain /\ DOMAIN ent = Ids
    BY Basics DEF Invariant, Tracked
  <2>2. CASE Moves
    BY <2>1, <2>2, LookingKeeps DEF Moves
  <2>3. ASSUME NEW typesOnly \in BOOLEAN, Resolves(typesOnly)
        PROVE  Root' = Root /\ Ids \subseteq Ids'
    BY <2>3 DEF Resolves
  <2>4. ASSUME NEW e, NEW ft, NEW n, Growing(e, ft, n)
        PROVE  Root' = Root /\ Ids \subseteq Ids'
    BY <2>1, <2>4, GrowingSound DEF Growing
  <2> QED
    BY <2>1, <2>2, <2>3, <2>4 DEF Does
<1>1. /\ ent'[f].blk /\ ts \in DOMAIN bind' /\ ts \notin DOMAIN path' /\ s[1] = bind'[ts]
      /\ ent'[s[1]].up = ent'[f].up /\ s[2] = "input" /\ path'[s] = <<ent'[p].name>>
      /\ p \in Range(ent'[f].kids) /\ ent'[p].param # 0
      /\ \A e \in Ids' : e <= Root /\ f \in Around(ent', e) /\ ent'[e].up # f
                         => ent'[e].name # ent'[p].name
      /\ \A x \in s[1] + 1 .. f - 1 : f \in Around(ent', x)
  BY <1>0 DEF Neighbor, Lit
<1>2. CASE UNCHANGED <<ent, path>> /\ (ts \notin DOMAIN path => ts \in DOMAIN bind /\ bind'[ts] = bind[ts])
  <2>1. Ids' = Ids
    BY <1>2 DEF Ids
  <2>2. Lit(f) /\ bind'[ts] = bind[ts]
    BY <1>1, <1>2 DEF Lit
  <2>3. Neighbor(f, s, p)
    BY <1>0, <1>1, <1>2, <2>1, <2>2 DEF Neighbor
  <2> QED
    BY <1>0, <1>1, <1>2, <2>1, <2>2, <2>3, LitIs
<1>3. CASE Moves
  BY <1>1, <1>2, <1>3 DEF Moves
<1>4. ASSUME NEW typesOnly \in BOOLEAN, Resolves(typesOnly)
      PROVE  UNCHANGED <<ent, path>> /\ (ts \notin DOMAIN path => ts \in DOMAIN bind /\ bind'[ts] = bind[ts])
  <2> HIDE DEF ts
  <2> QED
    BY <1>1, <1>4 DEF Resolves, Unresolved
<1>5. ASSUME NEW e, NEW ft, NEW n, Growing(e, ft, n)
      PROVE  /\ f \in Ids /\ p \in Ids /\ s \in DOMAIN path /\ Neighbor(f, s, p)
             /\ s[1] \in Ids /\ ent[s[1]].tdef
  <2>0. e \in Ids /\ ft \in Ids /\ n \in Nat /\ Grows(e, ft, n) /\ Grew(e, ft, n) /\ Carried(e, ft, n)
    BY <1>0, <1>5, GrowingWidens, GrowingCarries DEF Growing
  <2>1. /\ Widened(ent, ent', e, n) /\ Shaped(ent, Root) /\ Shaped(ent', Root)
        /\ Adds(ent', e, ft, n, Len(ent)) /\ Extends(ent', e, n, Len(ent))
        /\ \A x \in Ids' \ Ids : ~ent'[x].blk
    BY <2>0 DEF Grew
  <2>2. \A x \in Ids : /\ ent'[x].up = ent[x].up /\ ent'[x].blk = ent[x].blk
                       /\ ent'[x].name = ent[x].name /\ ent'[x].param = ent[x].param
    BY <1>0, <2>1 DEF Widened, Extends
  <2>3. f \in Ids /\ ent[f].blk
    BY <1>1, <2>1, <2>2
  <2>4. ts \in DOMAIN bind /\ ts \notin DOMAIN path /\ bind'[ts] = bind[ts]
    <3>1. ts[1] = f /\ ts[2] # "ret" /\ ts # <<e, "ret", 1>>
      OBVIOUS
    <3> HIDE DEF ts
    <3> QED
      BY <1>1, <2>0, <2>3, <3>1 DEF Carried
  <2>5. Lit(f) /\ s[1] = bind[ts]
    BY <1>1, <2>3, <2>4 DEF Lit
  <2>6. s[1] \in Ids /\ ent[s[1]].tdef /\ Given(f)
    BY <1>0, <2>3, <2>5, LitIs
  <2>7. s # <<e, "ret", 1>>
    BY <1>1
  <2>8. s \in DOMAIN path /\ path'[s] = path[s]
    BY <2>0, <2>6, <2>7 DEF Carried
  <2>9. ent'[f].kids = ent[f].kids
    <3>1. f = e => n = 0
      BY <1>0, <2>0, <2>3, <2>6, NoneTwice
    <3> QED
      BY <2>0, <2>3, <3>1, KidsStay
  <2>10. p \in Ids
    BY <1>0, <1>1, <2>1, <2>3, <2>9, KidsAre DEF Range
  <2>11. \A x \in Ids : Around(ent', x) = Around(ent, x)
    BY <1>0, <2>1, AroundWidened
  <2>12. \A x \in Ids : x <= Root /\ f \in Around(ent, x) /\ ent[x].up # f
                        => ent[x].name # ent[p].name
    BY <1>0, <1>1, <2>2, <2>10, <2>11
  <2>14. \A x \in s[1] + 1 .. f - 1 : f \in Around(ent, x)
    <3> TAKE x \in s[1] + 1 .. f - 1
    <3>1. Ids = 1 .. Len(ent) /\ Len(ent) \in Nat
      BY <1>0, Basics DEF Ids
    <3>2. x \in Ids
      BY <2>3, <2>6, <3>1
    <3> QED
      BY <1>1, <2>11, <3>2
  <2>13. Neighbor(f, s, p)
    BY <1>1, <2>2, <2>3, <2>5, <2>6, <2>8, <2>9, <2>10, <2>12, <2>14 DEF Neighbor
  <2> QED
    BY <2>3, <2>6, <2>8, <2>10, <2>13
<1> QED
  BY <1>2, <1>3, <1>4, <1>5 DEF Does

\* The first walk finds it, and no later step binds it anew.
LEMMA MetStep ==
  ASSUME Invariant, Invariant', Tracked, Tracked', Does, Distinct, Met
  PROVE  Met'
<1>0. Sound /\ Phased /\ todo \in Seq(Ids)
  BY DEF Invariant, Phased
<1> SUFFICES ASSUME NEW f \in Ids', NEW p \in Ids', NEW s \in DOMAIN path', Neighbor(f, s, p)'
             PROVE  /\ s \in DOMAIN bind' => bind'[s] = p
                    /\ s \in DOMAIN bind' \/ phase' \in {"names"} \cup Verdicts
                       \/ (phase' = "types" /\ s[1] \in Range(todo'))
  BY DEF Met
<1>1. /\ f \in Ids /\ p \in Ids /\ s \in DOMAIN path /\ Neighbor(f, s, p)
      /\ s[1] \in Ids /\ ent[s[1]].tdef /\ s[2] = "input"
  BY NeighborWas DEF Neighbor
<1>2. /\ s \in DOMAIN bind => bind[s] = p
      /\ s \in DOMAIN bind \/ phase \in {"names"} \cup Verdicts
         \/ (phase = "types" /\ s[1] \in Range(todo))
  BY <1>1 DEF Met
<1>3. CASE Moves
  <2>1. CASE phase' = phase /\ (phase # "types" \/ todo' = todo)
    BY <1>2, <1>3, <2>1 DEF Moves
  <2>2. CASE phase' \in Verdicts
    BY <1>2, <1>3, <2>2 DEF Moves
  <2>3. CASE NextWalk
    <3>1. todo = <<>> /\ phase \in DOMAIN Then /\ phase' = Then[phase]
      BY <2>3 DEF NextWalk
    <3>2. Range(todo) = {}
      BY <3>1 DEF Range
    <3>3. phase \notin Verdicts
      BY <3>1 DEF Then, Verdicts
    <3>4. CASE phase = "names"
      <4>1. phase' = "types"
        BY <3>1, <3>4 DEF Then
      <4>2. todo' = Walk
        BY <2>3, <4>1 DEF NextWalk
      <4>3. s[1] \in Range(todo')
        BY <1>0, <1>1, <4>2, WalkCovers, Slotted DEF Covers
      <4> QED
        BY <1>2, <1>3, <4>1, <4>3 DEF Moves
    <3>5. CASE phase # "names"
      BY <1>2, <1>3, <3>2, <3>3, <3>5 DEF Moves
    <3> QED
      BY <3>4, <3>5
  <2> QED
    BY <1>3, <2>1, <2>2, <2>3 DEF Moves
<1>4. ASSUME NEW typesOnly \in BOOLEAN, Resolves(typesOnly)
      PROVE  /\ s \in DOMAIN bind' => bind'[s] = p
             /\ s \in DOMAIN bind' \/ phase' \in {"names"} \cup Verdicts
                \/ (phase' = "types" /\ s[1] \in Range(todo'))
  <2>1. /\ phase = (IF typesOnly THEN "types" ELSE "full") /\ phase' = phase /\ todo # <<>>
        /\ todo' = Tail(todo)
        /\ DOMAIN bind \subseteq DOMAIN bind' /\ \A u \in DOMAIN bind : bind'[u] = bind[u]
        /\ \A u \in DOMAIN bind' \ DOMAIN bind :
             u[1] = Head(todo) /\ bind'[u] = Resolve(ent, u[1], path[u], Strict(u[2]))
        /\ \A u \in Unresolved : u[1] = Head(todo) /\ LooksAt(u, typesOnly)
                                 /\ Resolve(ent, u[1], path[u], Strict(u[2])) # 0 => u \in DOMAIN bind'
    BY <1>4 DEF Resolves
  <2>2. CASE s \in DOMAIN bind
    BY <1>2, <2>1, <2>2
  <2>3. CASE s \notin DOMAIN bind
    <3>1. phase = "types" /\ s[1] \in Range(todo)
      BY <1>2, <2>1, <2>3 DEF Verdicts
    <3>2. Resolve(ent, s[1], path[s], Strict(s[2])) = p /\ p # 0
      BY <1>0, <1>1, <3>1, NeighborSeen DEF Ids
    <3>3. LooksAt(s, typesOnly) /\ s \in Unresolved
      BY <1>1, <2>3 DEF LooksAt, Unresolved
    <3>4. CASE s[1] = Head(todo)
      BY <2>1, <2>3, <3>2, <3>3, <3>4
    <3>5. CASE s[1] # Head(todo)
      <4>1. s[1] \in Range(todo')
        BY <1>0, <2>1, <3>1, <3>5, TailIs
      <4> QED
        BY <2>1, <2>3, <3>1, <3>5, <4>1
    <3> QED
      BY <3>4, <3>5
  <2> QED
    BY <2>2, <2>3
<1>5. ASSUME NEW e, NEW ft, NEW n, Growing(e, ft, n)
      PROVE  s \in DOMAIN bind' /\ bind'[s] = p
  <2>1. e \in Ids /\ ft \in Ids /\ n \in Nat /\ Grows(e, ft, n) /\ phase = "materialize"
    BY <1>5 DEF Growing
  <2>2. Carried(e, ft, n) /\ s \in DOMAIN bind /\ bind[s] = p
    BY <1>0, <1>2, <2>1, GrowingCarries DEF Verdicts
  <2>3. s # <<e, "ret", 1>>
    BY <1>1
  <2> QED
    BY <1>1, <2>2, <2>3 DEF Carried
<1> QED
  BY <1>3, <1>4, <1>5 DEF Does

\* That holds of every reachable state.
LEMMA Meeting == Spec => [](Invariant /\ Tracked /\ Distinct /\ Met)
<1>1. Init => Invariant /\ Tracked /\ Distinct /\ Met
  BY InitSound, InitTracked, InitDistinct, InitMet
<1>2. ASSUME Invariant, Invariant', Tracked, Tracked', Distinct, Met, [Next]_vars
      PROVE  Distinct' /\ Met'
  BY <1>2, DistinctStep, StepsAre, MetStep
<1> QED
  BY <1>1, <1>2, Tracking, PTL DEF Spec

\* Neighbors are found.
LEMMA InvariantMeets ==
  ASSUME Invariant, Tracked, Distinct, Met
  PROVE  NeighborsFound
<1>0. Sound /\ DOMAIN ent = Ids
  BY Basics DEF Invariant
<1> SUFFICES ASSUME phase \in {"validate", "arity", "accepted"}, NEW f \in Ids, NEW ft \in Ids,
                    ent[f].blk, ent[ft].tdef, ent[ft].up = ent[f].up,
                    \A x \in ft + 1 .. f - 1 : f \in Around(ent, x),
                    <<f, "type", 1>> \in DOMAIN bind \ DOMAIN path, bind[<<f, "type", 1>>] = ft,
                    NEW i \in Inputs(ft), NEW p \in Range(ent[f].kids), NEW s,
                    s = <<ft, "input", i>>, ent[p].param # 0, s \in DOMAIN path,
                    path[s] = <<ent[p].name>>,
                    \A e \in Ids : f \in Around(ent, e) /\ ent[e].up # f
                                   => ent[e].name # ent[p].name
             PROVE  bind[s] = p
  BY DEF NeighborsFound
<1>1. s[1] = ft /\ s[2] = "input"
  OBVIOUS
<1>2. p \in Ids
  BY <1>0, KidsAre DEF Sound, Range
<1>3. Neighbor(f, s, p)
  BY <1>1, <1>2 DEF Neighbor, Lit
<1> QED
  BY <1>2, <1>3 DEF Met, Verdicts

-----------------------------------------------------------------------------
(*****************************************************************************)
(* What calls rely on.                                                      *)
(*****************************************************************************)
\* What FunctionType comes to is looked through only if it is an alias.
LEMMA AliasFirst ==
  ASSUME Sound, NEW e, Typed(e), FinalType(e) # FunctionType(e)
  PROVE  <<FunctionType(e), "alias", 1>> \in DOMAIN bind
<1> DEFINE F == CHOOSE F : Unaliased(F)
           N == Len(ent)
           t == FunctionType(e)
<1>0. N \in Nat /\ t \in Ids
  BY Basics, TypeKnown
<1>1. Unaliased(F)
  BY <1>0, UnaliasedExists
<1>2. FinalType(e) = F[N][t]
  BY DEF FinalType, Unaliased, AliasOf
<1> HIDE DEF F
<1>3. F[N] = AliasOf(N, F[N - 1])
  <2>1. \A n \in 0 .. N : F[n] = AliasOf(n, F[n - 1])
    BY <1>1, Zenon DEF Unaliased
  <2>2. N \in 0 .. N
    BY <1>0
  <2> QED
    BY <2>1, <2>2
<1>4. <<t, "alias", 1>> \notin DOMAIN bind => F[N][t] = t
  BY <1>0, <1>3 DEF AliasOf
<1> QED
  BY <1>2, <1>4

\* The parameters of a function are as many as its type has inputs.
LEMMA ParametersCounted ==
  ASSUME Sound, NEW f \in Ids, NEW t, NEW n \in Nat, Declares(ent, f, t, n)
  PROVE  Cardinality({ k \in Range(ent[f].kids) : ent[k].param # 0 }) = n
<1> DEFINE ks == ent[f].kids
           L == Len(ks)
           P == { k \in Range(ks) : ent[k].param # 0 }
           g == [i \in 1 .. n |-> ks[i]]
<1>0. ks \in Seq(Nat) /\ L \in Nat /\ DOMAIN ks = 1 .. L
  <2>1. ks \in Seq(Nat)
    BY Basics, Parents DEF Sound, Entity
  <2> HIDE DEF ks
  <2> QED
    BY <2>1
<1>1. n <= L /\ \A i \in 1 .. L : ent[ks[i]].param = IF i <= n THEN i ELSE 0
  BY <1>0 DEF Declares
<1> HIDE DEF ks, L
<1>2. \A i \in 1 .. n : i \in 1 .. L /\ ent[ks[i]].param = i
  BY <1>0, <1>1
<1>3. \A i \in 1 .. n : g[i] \in P
  BY <1>0, <1>2 DEF Range
<1>4. \A k \in P : \E i \in 1 .. n : g[i] = k
  <2> SUFFICES ASSUME NEW k \in P
               PROVE  \E i \in 1 .. n : g[i] = k
    OBVIOUS
  <2>1. PICK i \in 1 .. L : ks[i] = k
    BY <1>0 DEF Range
  <2>2. i \in 1 .. n
    BY <1>0, <1>1, <2>1
  <2> QED
    BY <2>1, <2>2
<1>5. g \in Bijection(1 .. n, P)
  <2> HIDE DEF P
  <2>1. g \in [1 .. n -> P]
    BY <1>3
  <2>2. \A i, j \in 1 .. n : g[i] = g[j] => i = j
    BY <1>2
  <2> HIDE DEF g
  <2> QED
    BY <1>4, <2>1, <2>2, Zenon DEF Bijection, Injection, Surjection, IsInjective
<1>6. Cardinality(P) = Cardinality(1 .. n)
  <2> HIDE DEF P, g
  <2>1. ExistsBijection(1 .. n, P)
    BY <1>5 DEF ExistsBijection
  <2> QED
    BY <2>1, UpTo, FS_Bijection
<1>7. Cardinality(P) = n
  <2> HIDE DEF P
  <2> QED
    BY <1>6, UpTo
<1> QED
  BY <1>7 DEF ks

\* What has been visited by the pass and has a function type has become a function.
Done(f) ==
  /\ phase = "materialize" => ~Modifies(FunctionType(f))
  /\ ent[FunctionType(f)].tdef /\ ent[FunctionType(f)].fn => ent[f].fn

Made ==
  phase \in {"materialize", "full", "validate", "arity", "accepted"} =>
    \A f \in Ids : f <= Root /\ Typed(f) /\ ~(phase = "materialize" /\ f \in Range(todo)) => Done(f)

\* The pass has not begun.
LEMMA InitMade == Init => Made
BY DEF Init, Made

\* What is done stays done when nothing changes.
LEMMA DoneStays ==
  ASSUME UNCHANGED <<ent, path, bind>>, NEW f
  PROVE  /\ Typed(f)' <=> Typed(f)
         /\ Done(f) /\ (phase' = "materialize" => phase = "materialize") => Done(f)'
<1>1. FunctionType(f)' = FunctionType(f) /\ Typed(f)' = Typed(f)
  BY LookingKeeps
<1>2. Modifies(FunctionType(f))' <=> Modifies(FunctionType(f))
  BY <1>1 DEF Modifies, Modifier
<1> QED
  BY <1>1, <1>2 DEF Done

\* The other walks leave what the pass has made.
LEMMA LookingMade ==
  ASSUME Invariant, Made, Moves, phase # "materialize" \/ phase' # phase \/ todo' = todo
  PROVE  Made'
<1>0. Sound /\ UNCHANGED <<ent, path, bind>>
  BY DEF Invariant, Moves
<1>1. Ids' = Ids /\ Root' = Root
  BY <1>0, LookingKeeps
<1>2. ASSUME phase' = phase, phase # "materialize" \/ todo' = todo
      PROVE  Made'
  BY <1>0, <1>1, <1>2, DoneStays DEF Made
<1>3. ASSUME phase' \in Verdicts
      PROVE  Made'
  BY <1>3 DEF Made, Verdicts
<1>4. ASSUME NextWalk
      PROVE  Made'
  <2>1. /\ todo = <<>> /\ phase \in DOMAIN Then /\ phase' = Then[phase]
        /\ todo' = IF phase' = "accepted" THEN <<>> ELSE Walk
    BY <1>4 DEF NextWalk
  <2>2. Range(todo) = {} /\ Covers(Walk)
    BY <1>0, <2>1, WalkCovers DEF Range
  <2>3. CASE phase' = "materialize"
    <3>1. todo' = Walk
      BY <2>1, <2>3
    <3>2. \A f : Typed(f)' => f \in Range(Walk)
      BY <1>0, <2>2, TypedStands, LookingKeeps DEF Covers
    <3> QED
      BY <2>3, <3>1, <3>2 DEF Made
  <2>4. CASE phase' \in {"full", "validate", "arity", "accepted"}
    <3>1. phase \in {"materialize", "full", "validate", "arity", "accepted"}
      BY <2>1, <2>4 DEF Then
    <3>2. \A f \in Ids : f <= Root /\ Typed(f) => Done(f)
      BY <2>2, <3>1 DEF Made
    <3> QED
      BY <1>0, <1>1, <2>4, <3>2, DoneStays DEF Made
  <2>5. CASE phase' \notin {"materialize", "full", "validate", "arity", "accepted"}
    BY <2>5 DEF Made
  <2> QED
    BY <2>3, <2>4, <2>5
<1>5. (phase' = phase /\ (phase # "materialize" \/ todo' = todo)) \/ phase' \in Verdicts \/ NextWalk
  BY DEF Moves
<1> QED
  BY <1>2, <1>3, <1>4, <1>5

\* After the step, too.
LEMMA TypeKnownNext == Sound' => (\A e : Typed(e) => FunctionType(e) \in Ids)'
BY TypeKnown, PTL

\* After the step, too.
LEMMA TypeAtOnceNext ==
  Sound' => (\A e : Typed(e) /\ ~Modifies(bind[<<e, "type", 1>>])
                    => FunctionType(e) = bind[<<e, "type", 1>>])'
BY TypeAtOnce, PTL

\* Where the pass has nothing to give there is nothing to make.
LEMMA PassingMade ==
  ASSUME Invariant, Tracked, Made, Materialize, NEW e, e = Head(todo),
         UNCHANGED <<ent, path, bind>>,
         \/ phase' = phase /\ ~(Typed(e) /\ ent[FunctionType(e)].fn)
         \/ phase' \in {"undefined", "hung"}
  PROVE  Made'
<1>0. Sound /\ Phased /\ todo \in Seq(Ids) /\ Ids' = Ids /\ Root' = Root
  BY LookingKeeps DEF Invariant, Phased
<1>1. /\ phase = "materialize" /\ todo # <<>> /\ todo' = Tail(todo)
      /\ phase' = IF ~Typed(e) THEN phase
                  ELSE IF ReadsNoInputs(e) THEN "undefined" ELSE ComesTo(FunctionType(e))
  BY DEF Materialize
<1>2. CASE phase' \in {"undefined", "hung"}
  BY <1>2 DEF Made
<1>3. CASE phase' = phase /\ ~(Typed(e) /\ ent[FunctionType(e)].fn)
  <2>1. Typed(e) => ComesTo(FunctionType(e)) = "materialize"
    BY <1>1, <1>3
  <2>2. Typed(e) => ~Modifies(FunctionType(e))
    BY <2>1 DEF ComesTo
  <2>3. Typed(e) => Done(e)
    BY <1>3, <2>2 DEF Done
  <2>4. \A x \in Range(todo) : x = e \/ x \in Range(todo')
    BY <1>0, <1>1, TailIs
  <2>5. ASSUME NEW f \in Ids, f <= Root, Typed(f), f \notin Range(todo')
        PROVE  Done(f)
    BY <1>1, <2>3, <2>4, <2>5 DEF Made
  <2> QED
    BY <1>0, <1>1, <1>3, <2>5, DoneStays DEF Made
<1> QED
  BY <1>2, <1>3

\* What is found late to be of a function type is of none.
LEMMA ResolvingMade ==
  ASSUME Invariant, Invariant', Tracked, Made, NEW typesOnly \in BOOLEAN, Resolves(typesOnly)
  PROVE  Made'
<1>0. Sound /\ Sound' /\ Formed /\ Plain /\ Late
  BY DEF Invariant, Tracked
<1>1. /\ phase = (IF typesOnly THEN "types" ELSE "full") /\ phase' = phase
      /\ ent' = ent /\ Ids' = Ids /\ Root' = Root /\ Slots' = Slots
      /\ DOMAIN bind \subseteq DOMAIN bind' /\ \A s \in DOMAIN bind : bind'[s] = bind[s]
      /\ \A s \in DOMAIN bind' \ DOMAIN bind :
           /\ s \in Unresolved /\ bind'[s] \in Ids
           /\ bind'[s] = Resolve(ent, s[1], path[s], Strict(s[2]))
  BY DEF Resolves
<1>2. CASE typesOnly
  BY <1>1, <1>2 DEF Made
<1>3. CASE ~typesOnly
  <2>1. typesOnly = FALSE /\ phase = "full" /\ phase' = "full"
    BY <1>1, <1>3
  <2>2. OpenTurn(Root) /\ \A t : Modifier(t)' <=> Modifier(t)
    BY <1>0, <2>1, FullTurns, ModifiersKnown
  <2>3. \A u \in Ids : u > Root => ~ent[u].tdef
    BY <1>0 DEF Plain
  <2>4. ASSUME NEW u \in Ids, u > Root
        PROVE  ~Modifies(u)'
    <3> DEFINE s == <<u, "call", 1>>
    <3>1. s[1] = u /\ s[2] = "call"
      OBVIOUS
    <3> HIDE DEF s
    <3>2. s \notin Slots
      BY <1>0, <2>4, <3>1 DEF Plain
    <3> QED
      BY <2>2, <3>2 DEF Modifies, Modifier, Slots, s
  <2>5. ASSUME NEW f \in Ids, f <= Root, Typed(f)'
        PROVE  ent[FunctionType(f)'].tdef /\ ent[FunctionType(f)'].fn => ent[f].fn
    <3> DEFINE s == <<f, "type", 1>>
    <3>1. FunctionType(f)' \in Ids
      BY <1>0, <1>1, <2>5, TypeKnownNext
    <3>2. CASE Typed(f)
      <4>1. bind'[s] = bind[s]
        BY <1>1, <3>2 DEF Typed
      <4>2. \/ FunctionType(f)' = FunctionType(f)
            \/ FunctionType(f)' > Root /\ Open(FunctionType(f))
        BY <1>0, <1>1, <2>2, <3>2, <4>1, TypeTurns
      <4>3. Done(f)
        BY <2>1, <2>5, <3>2 DEF Made
      <4> QED
        BY <2>3, <3>1, <4>2, <4>3 DEF Done
    <3>3. CASE ~Typed(f)
      <4>1. s \in DOMAIN bind' \ DOMAIN bind
        BY <2>5, <3>3 DEF Typed
      <4>2. s[2] = "type"
        OBVIOUS
      <4>3. bind'[s] > Root /\ bind'[s] \in Ids
        <5> HIDE DEF s
        <5>1. s \in Unresolved /\ bind'[s] \in Ids /\ bind'[s] = Resolve(ent, s[1], path[s], Strict(s[2]))
          BY <1>1, <4>1
        <5>2. Seeks(s)
          BY <4>2 DEF Seeks
        <5>3. bind'[s] = 0 \/ bind'[s] > Root
          BY <1>0, <2>1, <5>1, <5>2 DEF Late
        <5> QED
          BY <1>0, <5>1, <5>3, NoZero
      <4>4. PICK u \in Ids : u = bind'[s]
        BY <4>3
      <4>5. ~Modifies(u)'
        BY <2>4, <4>3, <4>4
      <4>6. ~Modifies(bind[s])'
        BY <4>4, <4>5 DEF Modifies, Modifier
      <4>7. FunctionType(f)' = bind'[s]
        BY <1>0, <2>5, <4>6, TypeAtOnceNext
      <4> QED
        BY <2>3, <4>3, <4>7
    <3> QED
      BY <3>2, <3>3
  <2> QED
    BY <1>1, <2>1, <2>5 DEF Made, Done
<1> QED
  BY <1>2, <1>3

\* What gets parameters becomes a function, and the types of others stay.
LEMMA GrowingMade ==
  ASSUME Invariant, Invariant', Tracked, Made, NEW e, NEW ft, NEW n, Growing(e, ft, n)
  PROVE  Made'
<1>0. /\ Sound /\ Sound' /\ Formed /\ e \in Ids /\ ft \in Ids /\ n \in Nat /\ Grows(e, ft, n)
      /\ phase = "materialize" /\ phase' = "materialize" /\ todo \in Seq(Ids) /\ todo # <<>>
      /\ todo' = Tail(todo) /\ e = Head(todo)
  BY DEF Invariant, Tracked, Growing, Phased
<1>1. Grew(e, ft, n) /\ Carried(e, ft, n)
  BY <1>0, GrowingWidens, GrowingCarries
<1>2. /\ Root' = Root /\ Root \in Nat /\ DOMAIN ent = Ids /\ Ids \subseteq Ids' /\ Ids \subseteq Nat
      /\ Len(ent) <= Len(ent') /\ Adds(ent', e, ft, n, Len(ent))
      /\ \A x \in Ids' \ Ids : x > Root
  <2>1. Len(ent') = Len(ent) + n /\ Len(ent) \in Nat /\ Root \in Ids
    BY <1>0, <1>1, Basics DEF Grew, Extends
  <2>2. Ids \subseteq Nat /\ Root \in Nat
    BY <1>0, <2>1, NoZero
  <2> QED
    BY <1>0, <1>1, <2>1, <2>2 DEF Grew
<1>3. /\ \A t \in Ids : /\ Modifies(t)' <=> Modifies(t)
                        /\ Typed(t)' <=> Typed(t)
      /\ ModifiersStay
  BY <1>0, GrowingKeeps
<1>4. Typed(e)
  BY <1>0 DEF Grows
<1>5. ~ent[e].tdef
  BY <1>0, <1>4 DEF Formed, Typed, Slots
<1>6. /\ \A x \in Ids : ent'[x].tdef = ent[x].tdef /\ (x # e => ent'[x].fn = ent[x].fn)
      /\ ent'[e].fn = TRUE
  BY <1>2 DEF Adds
<1>7. \A x \in Range(todo) : x = e \/ x \in Range(todo')
  BY <1>0, TailIs
<1>8. ASSUME NEW f \in Ids', f <= Root, Typed(f)', f \notin Range(todo')
      PROVE  Done(f)'
  <2>1. f \in Ids
    <3>1. f \in Nat
      BY BoundedNext, <1>0 DEF Ids
    <3> QED
      BY <1>2, <1>8, <3>1
  <2>2. CASE f = e
    BY <1>6, <2>2, GrowingNew DEF Done
  <2>3. CASE f # e
    <3> DEFINE t == FunctionType(f)
    <3>1. Typed(f) /\ f \notin Range(todo)
      BY <1>3, <1>7, <1>8, <2>1, <2>3
    <3>2. Done(f)
      BY <1>0, <1>8, <2>1, <3>1 DEF Made
    <3>3. ~Modifies(t) /\ (ent[t].tdef /\ ent[t].fn => ent[f].fn) /\ t \in Ids
      BY <1>0, <3>1, <3>2, TypeKnown DEF Done
    <3>4. bind'[<<f, "type", 1>>] = bind[<<f, "type", 1>>]
      <4> DEFINE s == <<f, "type", 1>>
      <4>1. s \in DOMAIN bind /\ s # <<e, "ret", 1>> /\ s[1] \in Ids
        BY <2>1, <3>1 DEF Typed
      <4> HIDE DEF s
      <4>2. bind'[s] = bind[s]
        BY <1>1, <4>1 DEF Carried
      <4> QED
        BY <4>2 DEF s
    <3>5. FunctionType(f)' = t
      BY <1>0, <1>2, <1>3, <3>1, <3>3, <3>4, TypeStays
    <3>6. ~Modifies(FunctionType(f))'
      <4>1. PICK x \in Ids : x = t
        BY <3>3
      <4>2. ~Modifies(x)'
        BY <1>3, <3>3, <4>1
      <4> QED
        BY <3>5, <4>1, <4>2 DEF Modifies, Modifier
    <3>7. ent'[t].tdef /\ ent'[t].fn => ent'[f].fn
      BY <1>5, <1>6, <2>1, <2>3, <3>3
    <3> QED
      BY <3>5, <3>6, <3>7 DEF Done
  <2> QED
    BY <2>2, <2>3
<1> QED
  BY <1>0, <1>2, <1>8 DEF Made

\* So every step keeps what the pass has made.
LEMMA MadeStep ==
  ASSUME Invariant, Invariant', Tracked, Made, [Next]_vars
  PROVE  Made'
<1>0. Sound /\ Phased /\ todo \in Seq(Ids)
  BY DEF Invariant, Phased
<1>1. CASE NameReuse \/ LookupsResolved \/ FunctionArity \/ NextWalk \/ UNCHANGED vars
  <2>1. Moves
    BY <1>1, LooksMove
  <2>2. phase # "materialize" \/ phase' # phase \/ todo' = todo
    <3>1. CASE NameReuse \/ LookupsResolved \/ FunctionArity
      BY <3>1 DEF NameReuse, LookupsResolved, FunctionArity
    <3>2. CASE NextWalk
      BY <3>2 DEF NextWalk, Then
    <3>3. CASE UNCHANGED vars
      BY <3>3 DEF vars
    <3> QED
      BY <1>1, <3>1, <3>2, <3>3
  <2> QED
    BY <2>1, <2>2, LookingMade
<1>2. ASSUME NEW typesOnly \in BOOLEAN, ResolveLookups(typesOnly)
      PROVE  Made'
  <2>1. Resolves(typesOnly)
    BY <1>0, <1>2, ResolvingIs
  <2> QED
    BY <2>1, ResolvingMade
<1>3. CASE Materialize
  <2> DEFINE e == Head(todo)
  <2>1. todo # <<>> /\ todo' = Tail(todo) /\ phase = "materialize"
    BY <1>3 DEF Materialize
  <2>2. e \in Ids /\ e \in Range(todo) /\ \A x \in Range(todo') : x \in Range(todo)
    BY <1>0, <2>1, TailWithin, TailIs DEF Range
  <2>3. CASE /\ UNCHANGED <<ent, path, bind>>
             /\ \/ phase' = phase /\ ~(Typed(e) /\ ent[FunctionType(e)].fn)
                \/ phase' \in {"undefined", "hung"}
    BY <1>3, <2>3, PassingMade
  <2>4. CASE phase' = phase /\ \E ft \in Ids, n \in Nat : Grows(e, ft, n)
    <3>1. PICK ft \in Ids, n \in Nat : Growing(e, ft, n)
      BY <2>1, <2>2, <2>4 DEF Growing
    <3> QED
      BY <3>1, GrowingMade
  <2> QED
    BY <1>0, <1>3, <2>3, <2>4, MaterializeIs
<1> QED
  BY <1>1, <1>2, <1>3 DEF Next

\* What function_arity has found of a call it has visited.
Fit(s) ==
  /\ Typed(bind[s]) /\ HasInputs(FinalType(bind[s]))
  /\ Cardinality(Inputs(s[1])) = Cardinality(Declared(bind[s]))

Fits ==
  phase \in {"arity", "accepted"} =>
    \A s \in DOMAIN bind : s[2] = "call" /\ ~(phase = "arity" /\ s[1] \in Range(todo)) => Fit(s)

\* Something is called that has no function type, or the type of a block is a value.
Absent ==
  \/ \E call \in { s \in DOMAIN bind : s[2] = "call" } :
       Typed(bind[call]) => LET ft == FunctionType(bind[call])
                            IN ~ent[ft].tdef \/ ~ent[ft].fn
  \/ \E f \in Ids : /\ Typed(f) /\ ~ent[FunctionType(f)].tdef
                    /\ ent[f].blk \/ Modifier(FunctionType(f))

Explained == phase = "undefined" => Absent

\* No call has been visited.
LEMMA InitFits == Init => Fits /\ Explained
BY DEF Init, Fits, Explained

\* Calls fit as before when nothing changes.
LEMMA FitStays ==
  ASSUME UNCHANGED <<ent, path, bind>>
  PROVE  (\A s : Fit(s)' <=> Fit(s)) /\ (Absent' <=> Absent)
<1>1. /\ Ids' = Ids
      /\ \A e : /\ FunctionType(e)' = FunctionType(e) /\ Typed(e)' = Typed(e)
                /\ FinalType(e)' = FinalType(e) /\ Modifier(e)' = Modifier(e)
                /\ Inputs(e)' = Inputs(e) /\ HasInputs(e)' = HasInputs(e)
  BY LookingKeeps
<1>2. ASSUME NEW s
      PROVE  Fit(s)' <=> Fit(s)
  <2> DEFINE f == bind[s]
  <2>1. Typed(bind[s])' = Typed(f) /\ FinalType(bind[s])' = FinalType(f)
    BY <1>1 DEF Typed
  <2>2. HasInputs(FinalType(bind[s]))' = HasInputs(FinalType(f))
    BY <1>1, <2>1 DEF HasInputs
  <2>3. Declared(bind[s])' = Declared(f)
    BY <1>1, <2>1 DEF Declared, Inputs
  <2> QED
    BY <1>1, <2>1, <2>2, <2>3 DEF Fit
<1>3. \A e : /\ Modifier(FunctionType(e))' <=> Modifier(FunctionType(e))
             /\ ent'[FunctionType(e)'] = ent[FunctionType(e)]
  BY <1>1 DEF Modifier
<1>4. \A s : /\ Typed(bind[s])' <=> Typed(bind[s])
             /\ FunctionType(bind[s])' = FunctionType(bind[s])
  BY <1>1 DEF Typed
<1>5. Absent' <=> Absent
  BY <1>1, <1>3, <1>4 DEF Absent
<1> QED
  BY <1>2, <1>5

\* What function_arity makes of a call.
LEMMA ArityFits ==
  ASSUME Sound, Formed, phase = "arity", NEW h, NEW c, c = <<h, "call", 1>>, c \in DOMAIN bind
  PROVE  /\ Arity(h, bind[c]) = phase => Fit(c)
         /\ Arity(h, bind[c]) = "undefined" => Absent
<1> DEFINE f == bind[c]
           ft == FunctionType(f)
           last == FinalType(f)
<1>0. c[1] = h /\ c[2] = "call" /\ f \in Ids
  BY Basics
<1>1. CASE ~Typed(f)
  BY <1>0, <1>1 DEF Arity, Absent
<1>2. CASE Typed(f)
  <2>1. ft \in Ids /\ (ent[ft].tdef => \A kind \in {"type", "call", "alias"} : <<ft, kind, 1>> \notin Slots)
    BY <1>2, TypeKnown DEF Formed
  <2>2. ent[ft].tdef => /\ <<ft, "call", 1>> \notin DOMAIN bind /\ <<ft, "alias", 1>> \notin DOMAIN bind
    BY <2>1 DEF Slots
  <2>3. ~ent[ft].tdef \/ ~ent[ft].fn => Absent
    BY <1>0 DEF Absent
  <2> HIDE DEF ft, last, f
  <2>4. Arity(h, f) = IF ComesTo(ft) # phase THEN ComesTo(ft)
                      ELSE IF <<last, "alias", 1>> \in DOMAIN bind THEN "hung"
                      ELSE IF ~HasInputs(last) THEN "undefined"
                      ELSE IF Cardinality(Inputs(h)) # Cardinality(Declared(f)) THEN "misfit" ELSE phase
    BY <1>2 DEF Arity, ft, last
  <2>5. CASE ComesTo(ft) # phase
    <3>1. ComesTo(ft) = "undefined" => Modifier(ft)
      BY DEF ComesTo
    <3> QED
      BY <2>2, <2>3, <2>4, <2>5, <3>1 DEF Modifier, f
  <2>6. CASE ComesTo(ft) = phase
    <3>1. Arity(h, f) = phase => HasInputs(last) /\ Cardinality(Inputs(h)) = Cardinality(Declared(f))
      BY <2>4, <2>6
    <3>2. ASSUME Arity(h, f) = "undefined"
          PROVE  Absent
      <4>1. ~HasInputs(last)
        BY <2>4, <2>6, <3>2
      <4>2. CASE last = ft
        BY <2>3, <4>1, <4>2 DEF HasInputs
      <4>3. CASE last # ft
        <5>1. <<ft, "alias", 1>> \in DOMAIN bind
          BY <1>2, <4>3, AliasFirst DEF ft, last
        <5> QED
          BY <2>2, <2>3, <5>1
      <4> QED
        BY <4>2, <4>3
    <3> QED
      BY <1>0, <1>2, <3>1, <3>2 DEF Fit, f, last
  <2> QED
    BY <2>5, <2>6 DEF f
<1> QED
  BY <1>1, <1>2

\* An entity has one callee.
LEMMA CallSlot ==
  ASSUME Sound, Formed, NEW s \in DOMAIN bind, s[2] = "call"
  PROVE  s = <<s[1], "call", 1>>
<1>1. s \in SlotsOf(ent)
  BY Slotted
<1>2. s = <<s[1], s[2], s[3]>>
  BY <1>1 DEF SlotsOf
<1>3. s[3] = 1
  BY DEF Formed, Slots
<1> QED
  BY <1>2, <1>3

\* Every call is visited, and an undefined read has its cause.
LEMMA FitsStep ==
  ASSUME Invariant, Tracked, Fits, Explained, [Next]_vars
  PROVE  Fits' /\ Explained'
<1>0. Sound /\ Phased /\ todo \in Seq(Ids) /\ Formed
  BY DEF Invariant, Phased, Tracked
<1>1. CASE UNCHANGED vars
  BY <1>1, FitStays DEF vars, Fits, Explained
<1>2. CASE NameReuse \/ LookupsResolved \/ \E typesOnly \in BOOLEAN : ResolveLookups(typesOnly)
  <2>1. phase' \notin {"arity", "accepted", "undefined"}
    BY <1>2 DEF NameReuse, LookupsResolved, ResolveLookups
  <2> QED
    BY <2>1 DEF Fits, Explained
<1>3. CASE NextWalk
  <2>1. /\ todo = <<>> /\ phase \in DOMAIN Then /\ phase' = Then[phase] /\ UNCHANGED <<ent, path, bind>>
        /\ todo' = IF phase' = "accepted" THEN <<>> ELSE Walk
    BY <1>3 DEF NextWalk
  <2>2. Range(todo) = {} /\ Covers(Walk)
    BY <1>0, <2>1, WalkCovers DEF Range
  <2>3. /\ phase' # "undefined" /\ (phase' = "accepted" => phase = "arity")
    BY <2>1 DEF Then
  <2>4. CASE phase' = "arity"
    <3>1. \A s \in DOMAIN bind : s[1] \in Range(todo')
      BY <1>0, <2>1, <2>2, <2>4, Slotted DEF Covers
    <3> QED
      BY <2>1, <2>3, <2>4, <3>1 DEF Fits, Explained
  <2>5. CASE phase' = "accepted"
    BY <2>1, <2>2, <2>3, <2>5, FitStays DEF Fits, Explained
  <2>6. CASE phase' \notin {"arity", "accepted"}
    BY <2>3, <2>6 DEF Fits, Explained
  <2> QED
    BY <2>4, <2>5, <2>6
<1>4. CASE Materialize
  <2> DEFINE e == Head(todo)
             ft == FunctionType(e)
  <2>1. /\ phase = "materialize" /\ todo # <<>>
        /\ phase' = IF ~Typed(e) THEN phase ELSE IF ReadsNoInputs(e) THEN "undefined" ELSE ComesTo(ft)
        /\ phase' # phase => UNCHANGED <<ent, path, bind>>
    BY <1>4 DEF Materialize
  <2>2. phase' \notin {"arity", "accepted"}
    BY <2>1 DEF ComesTo
  <2>3. ASSUME phase' = "undefined"
        PROVE  Absent
    <3>1. Typed(e) /\ e \in Ids /\ ft \in Ids
      BY <1>0, <2>1, <2>3, TypeKnown, TailIs
    <3>2. ent[ft].tdef => <<ft, "call", 1>> \notin Slots
      BY <1>0, <3>1 DEF Formed
    <3>3. CASE ReadsNoInputs(e)
      <4>1. ent[ft].fn /\ ent[e].blk /\ ~HasInputs(ft)
        BY <3>3 DEF ReadsNoInputs
      <4>2. ~ent[ft].tdef
        BY <4>1 DEF HasInputs
      <4> HIDE DEF e
      <4> QED
        BY <3>1, <4>1, <4>2 DEF Absent
    <3>4. CASE ~ReadsNoInputs(e)
      <4>1. Modifier(ft)
        BY <2>1, <2>3, <3>1, <3>4 DEF ComesTo
      <4>2. ~ent[ft].tdef
        BY <3>2, <4>1 DEF Modifier, Slots
      <4> HIDE DEF e
      <4> QED
        BY <3>1, <4>1, <4>2 DEF Absent
    <3> QED
      BY <3>3, <3>4
  <2> QED
    BY <2>1, <2>2, <2>3, FitStays DEF Fits, Explained
<1>5. CASE FunctionArity
  <2> DEFINE h == Head(todo)
             c == <<h, "call", 1>>
  <2>1. /\ phase = "arity" /\ todo # <<>> /\ todo' = Tail(todo) /\ UNCHANGED <<ent, path, bind>>
        /\ phase' = IF c \in DOMAIN bind THEN Arity(h, bind[c]) ELSE phase
    BY <1>5 DEF FunctionArity
  <2>2. phase' = "arity" /\ c \in DOMAIN bind => Fit(c)
    BY <1>0, <2>1, ArityFits
  <2>3. phase' = "undefined" => Absent
    BY <1>0, <2>1, ArityFits
  <2>4. phase' # "accepted"
    BY <1>5, ArityEnds DEF Verdicts
  <2>5. \A x \in Range(todo) : x = h \/ x \in Range(todo')
    BY <1>0, <2>1, TailIs
  <2>6. ASSUME phase' = "arity", NEW s \in DOMAIN bind, s[2] = "call", s[1] \notin Range(todo')
        PROVE  Fit(s)
    <3>1. CASE s[1] = h
      <4>1. s = c
        BY <1>0, <2>6, <3>1, CallSlot
      <4> QED
        BY <2>2, <2>6, <4>1
    <3>2. CASE s[1] # h
      BY <2>1, <2>5, <2>6, <3>2 DEF Fits
    <3> QED
      BY <3>1, <3>2
  <2> QED
    BY <2>1, <2>3, <2>4, <2>6, FitStays DEF Fits, Explained
<1> QED
  BY <1>1, <1>2, <1>3, <1>4, <1>5 DEF Next

\* Of an accepted module, what has parameters has those of its type.
LEMMA AcceptedGiven ==
  ASSUME Invariant, Tracked, phase = "accepted", NEW f \in Ids, ent[f].blk, ent[f].fn
  PROVE  Given(f)
<1>1. Unresolved = {}
  BY DEF Tracked, Complete
<1>2. ~Waits(f)
  BY <1>1 DEF Waits
<1> QED
  BY <1>2 DEF Tracked, Provided, Ready, Turned

\* Two of its parameters have one name only if its type names them so.
LEMMA NamesApart ==
  ASSUME Sound, Formed, NEW f \in Ids, NEW t \in Ids, NEW n \in Nat, Declares(ent, f, t, n),
         n = Cardinality(Inputs(t)), IsInjective(ent[t].names),
         NEW i \in DOMAIN ent[f].kids, NEW j \in DOMAIN ent[f].kids, i < j,
         ent[ent[f].kids[i]].param # 0, ent[ent[f].kids[j]].param # 0
  PROVE  ~Reuses(f, i, j)
<1> DEFINE ks == ent[f].kids
           L == Len(ks)
           names == ent[t].names
<1>0. ks \in Seq(Nat) /\ L \in Nat /\ DOMAIN ks = 1 .. L
  <2>1. ks \in Seq(Nat)
    BY Basics, Parents DEF Sound, Entity
  <2> HIDE DEF ks
  <2> QED
    BY <2>1
<1>1. /\ \A k \in 1 .. L : ent[ks[k]].param = IF k <= n THEN k ELSE 0
      /\ \A k \in 1 .. n : ent[ks[k]].name = NameOf(ent, t, k)
  BY <1>0 DEF Declares
<1>2. i \in 1 .. n /\ j \in 1 .. n /\ i # j
  BY <1>0, <1>1
<1>3. Inputs(t) = 1 .. n
  BY InputsAre
<1>4. ent[ks[i]].name = NameOf(ent, t, i) /\ ent[ks[j]].name = NameOf(ent, t, j)
  BY <1>1, <1>2
<1>5. NameOf(ent, t, i) # NameOf(ent, t, j)
  <2>1. CASE DOMAIN names = 1 .. n
    <3>1. names[i] # names[j]
      BY <1>2, <2>1 DEF IsInjective
    <3> QED
      BY <1>2, <2>1, <3>1 DEF NameOf
  <2>2. CASE names = <<>>
    <3>1. DOMAIN names = {}
      BY <2>2
    <3>2. i \in DOMAIN DefaultNames /\ j \in DOMAIN DefaultNames
      BY <1>2, <1>3 DEF Inputs, InputsAmong
    <3>3. DefaultNames[i] # DefaultNames[j]
      BY <1>2, <3>2, NamesByDefault DEF IsInjective
    <3> QED
      BY <3>1, <3>3 DEF NameOf
  <2>3. names # <<>> => DOMAIN names = 1 .. n
    BY <1>3 DEF Formed
  <2> QED
    BY <2>1, <2>2, <2>3
<1> QED
  BY <1>4, <1>5 DEF Reuses

\* What stands in the tree behind the root is a parameter.
LEMMA BehindTheRoot ==
  ASSUME Sound, NEW k \in Ids, ent[k].up # 0, ~(k <= Root)
  PROVE  Pushed(k)
<1>1. Shaped(ent, Root) /\ DOMAIN ent = Ids /\ Ids \subseteq Nat /\ Root \in Nat
  BY Basics, NoZero DEF Sound
<1>2. k > Root /\ ~(k < Root) /\ k # Root
  BY <1>1
<1>3. ~Detached(ent, Root, k)
  BY DetachedIs
<1> QED
  BY <1>1, <1>2, <1>3 DEF Shaped, Pushed

\* Calls fit.
LEMMA InvariantFits ==
  ASSUME Invariant, Tracked, Distinct, Made, Fits, Explained
  PROVE  CallsFit
<1>0. /\ Sound /\ Formed /\ Shaped(ent, Root) /\ DOMAIN ent = Ids /\ Ids \subseteq Nat /\ Root \in Nat
      /\ \A b \in Ids : ent[b].kids # <<>> => ent[b].blk
  <2>1. Sound /\ Formed
    BY DEF Invariant, Tracked
  <2> QED
    BY <2>1, Basics, NoZero DEF Sound, Shaped
<1>1. ASSUME phase = "accepted", NEW b \in 1 .. Root, NEW i \in DOMAIN ent[b].kids,
             NEW j \in DOMAIN ent[b].kids, Reuses(b, i, j)
      PROVE  /\ Pushed(ent[b].kids[i])
             /\ Pushed(ent[b].kids[j]) => ~IsInjective(ent[FunctionType(b)].names)
  <2>0. /\ b \in Ids /\ b # 0
        /\ \A k \in DOMAIN ent[b].kids : ent[b].kids[k] \in Ids /\ ent[ent[b].kids[k]].up = b
    BY <1>0, BelowTheRoot
  <2>1. i < j
    BY <1>1 DEF Reuses
  <2>2. ~(ent[b].kids[i] <= Root)
    BY <1>1, <2>1 DEF Distinct, Twice
  <2>3. ent[b].kids[i] \in Ids /\ ent[ent[b].kids[i]].up # 0
    BY <2>0
  <2>4. Pushed(ent[b].kids[i])
    BY <1>0, <2>2, <2>3, BehindTheRoot
  <2>5. ASSUME Pushed(ent[b].kids[j]), IsInjective(ent[FunctionType(b)].names)
        PROVE  FALSE
    <3>1. ent[ent[b].kids[i]].param # 0 /\ ent[ent[b].kids[j]].param # 0
      BY <2>4, <2>5 DEF Pushed
    <3>2. ent[b].fn
      BY <1>0, <2>0, <3>1 DEF Formed
    <3>3. ent[b].blk
      BY <1>0, <2>0
    <3>4. Given(b) /\ Typed(b)
      BY <1>1, <2>0, <3>2, <3>3, AcceptedGiven DEF Tracked, Provided
    <3>5. FunctionType(b) \in Ids /\ Cardinality(Inputs(FunctionType(b))) \in Nat
      BY <1>0, <3>4, TypeKnown, InputsAre
    <3> DEFINE n == Cardinality(Inputs(FunctionType(b)))
               t == FunctionType(b)
    <3>6. Declares(ent, b, t, n)
      BY <3>4 DEF Given
    <3> QED
      BY <1>0, <1>1, <2>0, <2>1, <2>5, <3>1, <3>5, <3>6, NamesApart
  <2> QED
    BY <2>4, <2>5
<1>2. ASSUME phase = "accepted", NEW call \in DOMAIN bind, call[2] = "call", NEW f, f = bind[call],
             FinalType(f) = FunctionType(f), ~Pushed(f),
             ~(~ent[f].fn /\ <<FinalType(f), "call", 1>> \in DOMAIN bind)
      PROVE  /\ ent[f].fn
             /\ ent[f].blk => Cardinality(Inputs(call[1])) =
                                Cardinality({ k \in Range(ent[f].kids) : ent[k].param # 0 })
  <2> DEFINE ft == FunctionType(f)
             n == Cardinality(Inputs(ft))
  <2>1. Typed(f) /\ HasInputs(ft) /\ Cardinality(Inputs(call[1])) = n /\ f \in Ids
    BY <1>0, <1>2, Basics DEF Fits, Fit, Declared
  <2>2. f <= Root
    <3>1. ent[f].up # 0
      BY <1>0, <1>2, Basics DEF Held
    <3> QED
      BY <1>0, <1>2, <2>1, <3>1, BehindTheRoot
  <2>3. Slots = DOMAIN bind
    <3>1. Unresolved = {}
      BY <1>2 DEF Tracked, Complete
    <3> QED
      BY <3>1 DEF Slots, Unresolved
  <2>4. ent[f].fn
    <3>1. CASE ent[ft].tdef /\ ent[ft].fn
      BY <1>2, <2>1, <2>2, <3>1 DEF Made, Done
    <3>2. CASE <<ft, "call", 1>> \in Slots
      BY <1>2, <2>3, <3>2
    <3> QED
      BY <2>1, <3>1, <3>2 DEF HasInputs, Slots
  <2>5. ASSUME ent[f].blk
        PROVE  Cardinality(Inputs(call[1])) =
                 Cardinality({ k \in Range(ent[f].kids) : ent[k].param # 0 })
    <3>1. Declares(ent, f, ft, n) /\ n \in Nat
      BY <1>0, <1>2, <2>1, <2>4, <2>5, AcceptedGiven, InputsAre DEF Given
    <3>2. Cardinality({ k \in Range(ent[f].kids) : ent[k].param # 0 }) = n
      <4> HIDE DEF n, ft
      <4> QED
        BY <1>0, <2>1, <3>1, ParametersCounted
    <3> QED
      BY <2>1, <3>2
  <2> QED
    BY <2>4, <2>5
<1>3. phase = "undefined" => Absent
  BY DEF Explained
<1>4. phase = "accepted" =>
        \A b \in 1 .. Root : \A i, j \in DOMAIN ent[b].kids :
          Reuses(b, i, j) => /\ Pushed(ent[b].kids[i])
                             /\ Pushed(ent[b].kids[j]) => ~IsInjective(ent[FunctionType(b)].names)
  BY <1>1
<1>5. phase = "accepted" =>
        \A call \in { s \in DOMAIN bind : s[2] = "call" } :
          LET f == bind[call] IN
          \/ FinalType(f) # FunctionType(f) \/ Pushed(f)
          \/ ~ent[f].fn /\ <<FinalType(f), "call", 1>> \in DOMAIN bind
          \/ /\ ent[f].fn
             /\ ent[f].blk => Cardinality(Inputs(call[1])) =
                                Cardinality({ k \in Range(ent[f].kids) : ent[k].param # 0 })
  BY <1>2
<1> QED
  BY <1>3, <1>4, <1>5 DEF CallsFit, Absent

\* All that holds of every reachable state.
LEMMA Fitting == Spec => [](Invariant /\ Tracked /\ Distinct /\ Made /\ Fits /\ Explained)
<1>1. Init => Invariant /\ Tracked /\ Distinct /\ Made /\ Fits /\ Explained
  BY InitSound, InitTracked, InitDistinct, InitMade, InitFits
<1>2. ASSUME Invariant, Invariant', Tracked, Distinct, Made, Fits, Explained, [Next]_vars
      PROVE  Distinct' /\ Made' /\ Fits' /\ Explained'
  BY <1>2, DistinctStep, MadeStep, FitsStep
<1> QED
  BY <1>1, <1>2, Tracking, PTL DEF Spec

-----------------------------------------------------------------------------
(***************************************************************************)
(* What is proved of every sorted program.                                 *)
(***************************************************************************)

\* Lookups are held and bound by entities of the module only, those
\* push_parameters has just created included.
THEOREM TypeCorrect == Spec => []TypeOK
<1>1. Invariant => TypeOK
  <2> SUFFICES ASSUME Invariant
               PROVE  TypeOK
    OBVIOUS
  <2>0. Sound /\ Phased
    BY DEF Invariant
  <2>1. ASSUME NEW e \in Ids
        PROVE  ent[e].up \in 0 .. Len(ent) /\ Range(ent[e].kids) \subseteq Ids
    <3>1. DOMAIN ent = Ids /\ Shaped(ent, Root)
      BY <2>0, Basics DEF Sound
    <3> QED
      BY <3>1, Parents DEF Shaped, Range
  <2>2. DOMAIN path \cup DOMAIN bind \subseteq SlotsOf(ent)
    BY <2>0 DEF Sound, Linked
  <2>3. Range(bind) \subseteq Ids
    BY <2>0, Basics DEF Range
  <2>4. Range(todo) \subseteq Ids
    BY <2>0 DEF Phased, Range
  <2>5. phase \in DOMAIN Then \cup {"accepted"} \cup Verdicts
    BY <2>0 DEF Phased
  <2> QED
    BY <2>1, <2>2, <2>3, <2>4, <2>5 DEF TypeOK
<1> QED
  BY <1>1, Holds, PTL

\* One full walk of resolve_lookups is enough: what lookups_resolved then finds
\* unresolved, no further search would have found.
THEOREM OneWalkSuffices == Spec => []NothingMissed
<1>1. Invariant => NothingMissed
  BY DEF Invariant, Searched, NothingMissed
<1> QED
  BY <1>1, Holds, PTL

\* A type, a called function or an alias is bound to what lexical scoping says
\* at that moment; or, when nothing in scope has the name, to what the first block
\* behind the root has under it; or left alone.
THEOREM LexicalBinding == Spec => BindsLexically
<1> DEFINE Binds ==
      \A s \in DOMAIN path \ DOMAIN bind :
        /\ Strict(s[2]) /\ todo # <<>> /\ s[1] = Head(todo)
        /\ phase \in {"types", "full"} /\ LooksAt(s, phase = "types")
        /\ ent[s[1]].param = 0
        => LET t == IF InScope(ent, s[1], path[s]) THEN Lexical(ent, s[1], path[s])
                    ELSE OutOfScope(ent, path[s])
           IN IF t = 0 THEN s \notin DOMAIN bind' ELSE s \in DOMAIN bind' /\ bind'[s] = t
<1>1. Invariant /\ [Next]_vars => [Binds]_vars
  <2> SUFFICES ASSUME Invariant, Next
               PROVE  Binds
    <3> HIDE DEF Binds
    <3> QED
      BY Zenon
  <2> DEFINE Bound(s, t) == IF t = 0 THEN s \notin DOMAIN bind'
                                     ELSE s \in DOMAIN bind' /\ bind'[s] = t
  <2> SUFFICES ASSUME NEW s \in DOMAIN path \ DOMAIN bind,
                      Strict(s[2]), todo # <<>>, s[1] = Head(todo),
                      phase \in {"types", "full"}, LooksAt(s, phase = "types"),
                      ent[s[1]].param = 0
               PROVE  Bound(s, IF InScope(ent, s[1], path[s]) THEN Lexical(ent, s[1], path[s])
                               ELSE OutOfScope(ent, path[s]))
    OBVIOUS
  <2> DEFINE t == IF InScope(ent, s[1], path[s]) THEN Lexical(ent, s[1], path[s])
                  ELSE OutOfScope(ent, path[s])
  <2> DEFINE typesOnly == phase = "types"
             here == { x \in DOMAIN path \ DOMAIN bind :
                         x[1] = Head(todo) /\ LooksAt(x, typesOnly) /\ Target(x) # 0 }
  <2>1. bind' = [x \in here \cup DOMAIN bind |-> Target(x)]
    <3>1. ResolveLookups(typesOnly)
      <4>1. ~(NameReuse \/ Materialize \/ LookupsResolved \/ FunctionArity \/ NextWalk)
        BY DEF NameReuse, Materialize, LookupsResolved, FunctionArity, NextWalk
      <4>2. ResolveLookups(TRUE) \/ ResolveLookups(FALSE)
        BY <4>1 DEF Next
      <4> QED
        BY <4>2 DEF ResolveLookups
    <3> QED
      BY <3>1 DEF ResolveLookups
  <2>2. Target(s) = t
    <3>1. Sound /\ Shaped(ent, Root) /\ s[1] \in DOMAIN ent /\ s[1] \in Ids /\ ent[s[1]].up # 0
      BY Slotted DEF Invariant, Sound
    <3>2. s[1] <= Root
      BY <3>1, BehindTheRoot DEF Pushed
    <3>3. Resolve(ent, s[1], path[s], TRUE) = t
      BY <3>1, <3>2, StrictIsLexical
    <3> QED
      BY <3>3 DEF Target, Strict
  <2>3. s \in here <=> t # 0
    BY <2>2
  <2> HIDE DEF here, t
  <2>4. Bound(s, t)
    BY <2>1, <2>2, <2>3
  <2> QED
    BY <2>4 DEF t
<1>2. Spec => [][Binds]_vars
  BY <1>1, Holds, PTL DEF Spec
<1> QED
  BY <1>2 DEF BindsLexically

\* A function has the parameters of its type in front of its body exactly once, as
\* far as materialize_function_types_and_parameters knew the type: one that a later
\* walk turns into a pushed parameter was a modifier of a name not found, and then
\* a parameter of that function keeps waiting for it until the module is rejected.
THEOREM ParametersOfTypes == Spec => []ParametersOnce
<1>1. Invariant /\ Tracked => ParametersOnce
  BY InvariantProvides
<1> QED
  BY <1>1, Tracking, PTL

\* The inputs of the type of a function written with it are found among the
\* parameters of that very function, as resolve_lookups means with its search that
\* is not strict, whatever other blocks and names the module has.
THEOREM NeighborsMeet == Spec => []NeighborsFound
<1>1. Invariant /\ Tracked /\ Distinct /\ Met => NeighborsFound
  BY InvariantMeets
<1> QED
  BY <1>1, Meeting, PTL

\* In an accepted module names are unique up to pushed parameters and calls have as
\* many inputs as the body of what they call has parameters, with the exceptions
\* CallsFit names; and a component that is missing is read only for its causes.
THEOREM AcceptedCallsFit == Spec => []CallsFit
<1>1. Invariant /\ Tracked /\ Distinct /\ Made /\ Fits /\ Explained => CallsFit
  BY InvariantFits
<1> QED
  BY <1>1, Fitting, PTL
===============================================================================
