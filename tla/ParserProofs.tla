---------------------------- MODULE ParserProofs ----------------------------
(***************************************************************************)
(* Proofs about Parser: every action keeps Structure, for every file,      *)
(* arities, modifiers and bounds, and Structure says that the parser       *)
(* builds a tree whose blocks list their statements in the order of the    *)
(* file, and that the verifier has nothing against.                        *)
(***************************************************************************)
EXTENDS ParserLemmas, TreeProofs

(***************************************************************************)
(* The entities the actions push.                                          *)
(***************************************************************************)
IsMade(x, has, flags, arity, type, index) ==
  /\ x \in Entity
  /\ x.has = has /\ x.flags = flags /\ x.arity = arity /\ x.type = type /\ x.index = index
  /\ x.at = 0 /\ x.kids = <<>>

\* A blank entity given components and flags.
LEMMA BlankMade ==
  ASSUME NEW has \in SUBSET Components, NEW flags \in SUBSET (1 .. 11)
  PROVE  IsMade([Blank EXCEPT !.has = has, !.flags = flags], has, flags, 0, 0, 0)
<1>1. Blank \in Entity
  BY DEF Blank, Entity
<1>2. /\ Blank.arity = 0 /\ Blank.type = 0 /\ Blank.index = 0 /\ Blank.at = 0
      /\ Blank.kids = <<>>
  BY DEF Blank
<1> QED
  BY <1>1, <1>2 DEF IsMade, Entity

\* A blank entity given components.
LEMMA PlainMade ==
  ASSUME NEW has \in SUBSET Components
  PROVE  IsMade([Blank EXCEPT !.has = has], has, {}, 0, 0, 0)
<1>1. Blank \in Entity
  BY DEF Blank, Entity
<1>2. /\ Blank.arity = 0 /\ Blank.type = 0 /\ Blank.index = 0 /\ Blank.at = 0
      /\ Blank.kids = <<>> /\ Blank.flags = {}
  BY DEF Blank
<1> QED
  BY <1>1, <1>2 DEF IsMade, Entity

\* A value has a type besides its components.
LEMMA ValueMade ==
  ASSUME NEW cs \in SUBSET Components, NEW fs \in SUBSET (1 .. 11)
  PROVE  IsMade(Value(cs, fs), {"type"} \cup cs, fs, 0, 0, 0)
<1>1. {"type"} \cup cs \in SUBSET Components
  BY DEF Components
<1> QED
  BY <1>1, BlankMade, Zenon DEF Value

\* Giving an entity a type changes nothing else of it.
LEMMA WithType ==
  ASSUME NEW x, NEW has, NEW flags, NEW arity, NEW type, NEW index, NEW k \in Nat,
         IsMade(x, has, flags, arity, type, index)
  PROVE  IsMade([x EXCEPT !.type = k], has, flags, arity, k, index)
BY DEF IsMade, Entity

\* Giving an entity inputs changes nothing else of it.
LEMMA WithArity ==
  ASSUME NEW x, NEW has, NEW flags, NEW arity, NEW type, NEW index, NEW k \in Nat,
         IsMade(x, has, flags, arity, type, index)
  PROVE  IsMade([x EXCEPT !.arity = k], has, flags, k, type, index)
BY DEF IsMade, Entity

\* Giving a parameter its number changes nothing else of it.
LEMMA WithIndex ==
  ASSUME NEW x, NEW has, NEW flags, NEW arity, NEW type, NEW index, NEW k \in Nat,
         IsMade(x, has, flags, arity, type, index)
  PROVE  IsMade([x EXCEPT !.index = k], has, flags, arity, type, k)
BY DEF IsMade, Entity

\* What the builder of a function type makes.
LEMMA FunctionTypeMade ==
  ASSUME NEW n \in Nat
  PROVE  IsMade(FunctionType(n), {"typedef", "inputs", "fn"}, {}, n, 0, 0)
<1> DEFINE has == {"typedef", "inputs", "fn"}
           x == [Blank EXCEPT !.has = has]
<1>1. has \in SUBSET Components
  BY DEF Components
<1>2. FunctionType(n) = [x EXCEPT !.arity = n]
  BY DEF FunctionType, Blank
<1> HIDE DEF has
<1>3. IsMade(x, has, {}, 0, 0, 0)
  BY <1>1, PlainMade
<1> HIDE DEF x
<1>4. IsMade([x EXCEPT !.arity = n], has, {}, n, 0, 0)
  BY <1>3, WithArity
<1> QED
  BY <1>2, <1>4 DEF has

\* What the builder of a call makes, with any modifier it can be written with.
LEMMA CallMade ==
  ASSUME NEW modifier \in Modifiers
  PROVE  IsMade(Call(modifier), {"type"} \cup {"call", "inputs"}, modifier, 1, 0, 0)
<1>1. modifier \in SUBSET (1 .. 11)
  BY ParserBounds DEF Flatten, Inline, TailCall
<1>3. {"call", "inputs"} \in SUBSET Components
  BY DEF Components
<1>2. IsMade(Value({"call", "inputs"}, modifier), {"type"} \cup {"call", "inputs"}, modifier, 0, 0, 0)
  BY <1>1, <1>3, ValueMade
<1> QED
  BY <1>2, WithArity DEF Call

\* What an assignment without a block may push.
Plain(x, l) ==
  /\ x \in Entity /\ Form(x) /\ Export \notin x.flags
  /\ x.kids = <<>> /\ x.at = 0 /\ x.index = 0 /\ x.type <= l
  /\ x.has # {"type", "fn", "block"} /\ x.has # {"block"} /\ "param" \notin x.has

\* What an assignment without a block pushes is plain when its form is one of the
\* grammar and it is no block and no parameter.
LEMMA MadePlain ==
  ASSUME NEW x, NEW has, NEW flags, NEW arity, NEW type, NEW l, type <= l,
         IsMade(x, has, flags, arity, type, 0), Form(x), Export \notin flags,
         "block" \notin has, "param" \notin has
  PROVE  Plain(x, l)
BY DEF IsMade, Plain

\* The value-less, number and string values and the aliases are plain.
LEMMA PlainValues ==
  ASSUME NEW l \in Nat
  PROVE  /\ Plain(Value({}, {Valueless}), l)
         /\ Plain(Value({"number"}, {Comptime}), l)
         /\ Plain(Value({"string"}, {Comptime}), l)
         /\ Plain([Blank EXCEPT !.has = {"alias"}], l)
<1>0. {Valueless} \in SUBSET (1 .. 11) /\ {Comptime} \in SUBSET (1 .. 11)
  BY DEF Valueless, Comptime
<1>1. /\ Export \notin {Valueless} /\ Export \notin {Comptime}
      /\ 0 <= l
  BY DEF Valueless, Comptime, Export
<1>2. Plain(Value({}, {Valueless}), l)
  <2> DEFINE x == Value({}, {Valueless})
  <2>0. {} \in SUBSET Components
    BY DEF Components
  <2>1. IsMade(x, {"type"} \cup {}, {Valueless}, 0, 0, 0)
    BY <1>0, <2>0, ValueMade
  <2> HIDE DEF x
  <2>2. x.has = {"type"} /\ x.flags = {Valueless}
    BY <2>1 DEF IsMade
  <2>3. Form(x)
    BY <2>2 DEF Form
  <2>4. "block" \notin {"type"} \cup {} /\ "param" \notin {"type"} \cup {} /\ Export \notin {Valueless}
    BY <1>1
  <2>5. Plain(x, l)
    BY <1>1, <2>1, <2>3, <2>4, MadePlain
  <2> QED
    BY <2>5 DEF x
<1>3. Plain(Value({"number"}, {Comptime}), l)
  <2> DEFINE x == Value({"number"}, {Comptime})
  <2>0. {"number"} \in SUBSET Components
    BY DEF Components
  <2>1. IsMade(x, {"type"} \cup {"number"}, {Comptime}, 0, 0, 0)
    BY <1>0, <2>0, ValueMade
  <2> HIDE DEF x
  <2>2. x.has = {"type", "number"} /\ x.flags = {Comptime}
    BY <2>1 DEF IsMade
  <2>3. Form(x)
    BY <2>2 DEF Form
  <2>4. "block" \notin {"type"} \cup {"number"} /\ "param" \notin {"type"} \cup {"number"} /\ Export \notin {Comptime}
    BY <1>1
  <2>5. Plain(x, l)
    BY <1>1, <2>1, <2>3, <2>4, MadePlain
  <2> QED
    BY <2>5 DEF x
<1>4. Plain(Value({"string"}, {Comptime}), l)
  <2> DEFINE x == Value({"string"}, {Comptime})
  <2>0. {"string"} \in SUBSET Components
    BY DEF Components
  <2>1. IsMade(x, {"type"} \cup {"string"}, {Comptime}, 0, 0, 0)
    BY <1>0, <2>0, ValueMade
  <2> HIDE DEF x
  <2>2. x.has = {"type", "string"} /\ x.flags = {Comptime}
    BY <2>1 DEF IsMade
  <2>3. Form(x)
    BY <2>2 DEF Form
  <2>4. "block" \notin {"type"} \cup {"string"} /\ "param" \notin {"type"} \cup {"string"} /\ Export \notin {Comptime}
    BY <1>1
  <2>5. Plain(x, l)
    BY <1>1, <2>1, <2>3, <2>4, MadePlain
  <2> QED
    BY <2>5 DEF x
<1>5. Plain([Blank EXCEPT !.has = {"alias"}], l)
  <2> DEFINE x == [Blank EXCEPT !.has = {"alias"}]
  <2>0. {"alias"} \in SUBSET Components
    BY DEF Components
  <2>1. IsMade(x, {"alias"}, {}, 0, 0, 0)
    BY <1>0, <2>0, PlainMade
  <2> HIDE DEF x
  <2>2. x.has = {"alias"} /\ x.flags = {}
    BY <2>1 DEF IsMade
  <2>3. Form(x)
    BY <2>2 DEF Form
  <2>4. "block" \notin {"alias"} /\ "param" \notin {"alias"} /\ Export \notin {}
    BY <1>1
  <2>5. Plain(x, l)
    BY <1>1, <2>1, <2>3, <2>4, MadePlain
  <2> QED
    BY <2>5 DEF x
<1> QED
  BY <1>2, <1>3, <1>4, <1>5

\* Calls are plain, with and without a function type.
LEMMA PlainCalls ==
  ASSUME NEW l \in Nat, NEW k \in 0 .. l, NEW modifier \in Modifiers
  PROVE  /\ Plain(Call(modifier), l)
         /\ Plain([Call(modifier) EXCEPT !.type = k], l)
<1>1. IsMade(Call(modifier), {"type"} \cup {"call", "inputs"}, modifier, 1, 0, 0)
  BY CallMade
<1>2. IsMade([Call(modifier) EXCEPT !.type = k], {"type"} \cup {"call", "inputs"}, modifier, 1, k, 0)
  BY <1>1, WithType
<1>3. /\ modifier \in {{}, {Flatten}, {Inline}, {TailCall}, {Export}}
      /\ Export \notin modifier
  BY ParserBounds DEF Flatten, Inline, TailCall, Export
<1>4. "block" \notin {"type"} \cup {"call", "inputs"} /\ "param" \notin {"type"} \cup {"call", "inputs"}
  OBVIOUS
<1>5. ASSUME NEW x, NEW t \in 0 .. l, IsMade(x, {"type"} \cup {"call", "inputs"}, modifier, 1, t, 0)
      PROVE  Plain(x, l)
  <2>1. x.has = {"type", "call", "inputs"} /\ x.flags = modifier
    BY <1>5 DEF IsMade
  <2>2. Form(x)
    BY <1>3, <2>1 DEF Form
  <2>3. t <= l
    OBVIOUS
  <2> QED
    BY <1>3, <1>4, <1>5, <2>2, <2>3, MadePlain
<1> QED
  BY <1>1, <1>2, <1>5

\* Function types and declarations are plain.
LEMMA PlainFunctions ==
  ASSUME NEW l \in Nat, NEW n \in Nat, NEW k \in 1 .. l
  PROVE  /\ Plain(FunctionType(n), l)
         /\ Plain([Value({"fn"}, {}) EXCEPT !.type = k], l)
<1>1. Plain(FunctionType(n), l)
  <2> DEFINE x == FunctionType(n)
             has == {"typedef", "inputs", "fn"}
  <2>1. IsMade(x, has, {}, n, 0, 0)
    BY FunctionTypeMade
  <2> HIDE DEF x
  <2>2. Form(x)
    BY <2>1 DEF IsMade, Form
  <2>3. "block" \notin has /\ "param" \notin has /\ Export \notin {} /\ 0 <= l
    OBVIOUS
  <2> HIDE DEF has
  <2>4. Plain(x, l)
    BY <2>1, <2>2, <2>3, MadePlain
  <2> QED
    BY <2>4 DEF x
<1>2. Plain([Value({"fn"}, {}) EXCEPT !.type = k], l)
  <2> DEFINE x == [Value({"fn"}, {}) EXCEPT !.type = k]
             has == {"type"} \cup {"fn"}
  <2>0. {"fn"} \in SUBSET Components /\ {} \in SUBSET (1 .. 11)
    BY DEF Components
  <2>1. IsMade(x, has, {}, 0, k, 0)
    <3>1. IsMade(Value({"fn"}, {}), {"type"} \cup {"fn"}, {}, 0, 0, 0)
      BY <2>0, ValueMade
    <3> QED
      BY <3>1, WithType
  <2> HIDE DEF x
  <2>2. x.has = {"type", "fn"} /\ x.flags = {} /\ x.type # 0
    BY <2>1 DEF IsMade
  <2>3. Form(x)
    BY <2>2 DEF Form
  <2>4. "block" \notin has /\ "param" \notin has /\ Export \notin {} /\ k <= l
    OBVIOUS
  <2> HIDE DEF has
  <2>5. Plain(x, l)
    BY <2>1, <2>3, <2>4, MadePlain
  <2> QED
    BY <2>5 DEF x
<1> QED
  BY <1>1, <1>2

(***************************************************************************)
(* The steps.                                                              *)
(***************************************************************************)
LEMMA TopOpen ==
  ASSUME Structure
  PROVE  /\ Top \in Open /\ Top \in 1 .. Len(mod) /\ Top # value
         /\ mod[Top].up = 0 /\ "block" \in mod[Top].has
<1>1. builders \in Seq(Nat) /\ builders # <<>> /\ value \notin Range(builders)
  BY DEF Structure, Stacked
<1>2. Top \in Range(builders)
  BY <1>1 DEF Top, Last, Range
<1>3. Hanging(mod, Open) /\ Formed(mod, asked)
  BY DEF Structure, Sane
<1>4. Top \in Open /\ Top # value
  BY <1>1, <1>2 DEF Open
<1>5. Top \in 1 .. Len(mod) /\ mod[Top].up = 0
  BY <1>3, <1>4 DEF Hanging
<1> QED
  BY <1>3, <1>4, <1>5 DEF Formed

\* The open blocks are those of the builder stack and the one that waits.
LEMMA OpenBlocks ==
  ASSUME Stacked
  PROVE  /\ value = 0 => Open = Range(builders)
         /\ value # 0 => value \in Open /\ Open \ {value} = Range(builders)
BY DEF Stacked, Open

\* The end of an assignment whose entity sits at the end of its block.
LEMMA AssignedSane ==
  ASSUME NEW m, NEW open, NEW e \in 1 .. Len(m), NEW export \in BOOLEAN, NEW wants, NEW last,
         count \in Nat, Sane(m, open, asked, count, {}), Assigned(m, e, export, wants),
         m[e].up # 0, "param" \notin m[e].has,
         last = Len(m[m[e].up].kids), last > 0, m[m[e].up].kids[last] = e,
         m[e].has = {"block"} => "namespace" \in wants
  PROVE  Sane(mod', open, asked', count', {})
<1>1. mod' = Stamped(m, e, count + 1, export)
  BY DEF Assigned, Stamped
<1>2. /\ asked \subseteq asked'
      /\ export => <<e, "exported">> \in asked'
      /\ export /\ m[e].has = {"block"} => <<e, "namespace">> \in asked'
  <2>1. asked' = asked \cup { <<e, w>> : w \in wants }
                       \cup (IF export THEN {<<e, "exported">>} ELSE {})
    BY DEF Assigned
  <2>2. "namespace" \in wants => <<e, "namespace">> \in { <<e, w>> : w \in wants }
    OBVIOUS
  <2> QED
    BY <2>1, <2>2, Zenon
<1>3. count' = count + 1
  BY DEF Assigned
<1>4. Sane(Stamped(m, e, count + 1, export), open, asked', count + 1, {})
  BY <1>2, StampedSane, Zenon
<1> QED
  BY <1>1, <1>3, <1>4

\* The entities one assignment without a block pushes behind l others.
Statements(xs, l) == xs # <<>> /\ \A i \in 1 .. Len(xs) : Plain(xs[i], l + i - 1)

\* Every assignment without a block keeps the invariant.
LEMMA SimpleStep ==
  ASSUME Structure, NEW xs \in Seq(Entity), NEW export \in BOOLEAN, Simple(xs, export),
         Statements(xs, Len(mod))
  PROVE  Sane(mod', Open', asked', count', {}) /\ Stacked'
<1> DEFINE M == Pushed(mod, Top, xs)
           e == Len(mod) + Len(xs)
           last == Len(mod[Top].kids) + Len(xs)
<1>0. /\ Sane(mod, Open, asked, count, {}) /\ Stacked /\ count \in Nat
      /\ mod \in Seq(Entity)
  BY DEF Structure, Scalars, Sane
<1>1. /\ Top \in Open /\ Top \in 1 .. Len(mod) /\ mod[Top].up = 0 /\ "block" \in mod[Top].has
  BY TopOpen
<1>2. /\ Assigning /\ value = 0 /\ value' = value
      /\ Assigned(M, e, export, {})
  BY DEF Simple
<1>3. /\ Len(mod) \in Nat /\ Len(xs) \in Nat /\ Len(xs) > 0
      /\ \A i \in 1 .. Len(xs) : Plain(xs[i], Len(mod) + i - 1)
  BY <1>0 DEF Statements
<1>4. Sane(M, Open, asked, count, {})
  <2>1. Leaves(xs, mod, count)
    <3>1. SUFFICES ASSUME NEW i \in 1 .. Len(xs)
                   PROVE  /\ xs[i].kids = <<>> /\ xs[i].type < Len(mod) + i /\ Form(xs[i])
                          /\ Export \notin xs[i].flags /\ xs[i].at = 0
      BY DEF Leaves
    <3>2. Plain(xs[i], Len(mod) + i - 1)
      BY <1>3
    <3>3. xs[i].type \in Nat /\ xs[i].type <= Len(mod) + i - 1
      BY <3>2, FieldTypes DEF Plain
    <3>4. xs[i].type < Len(mod) + i
      BY <1>3, <3>3
    <3> QED
      BY <3>2, <3>4 DEF Plain
  <2>2. \A i \in 1 .. Len(xs) : xs[i].has # {"type", "fn", "block"} /\ xs[i].index = 0
    BY <1>3 DEF Plain
  <2>3. \A i \in 1 .. Len(xs) : xs[i].at <= count
    BY <1>0, <1>3 DEF Plain
  <2>4. count <= count
    BY <1>0
  <2> QED
    BY <1>0, <1>1, <2>1, <2>2, <2>3, <2>4, PushedOpen
<1>5. IsPushed(M, mod, Top, xs)
  BY <1>0, <1>1, PushedIs
<1> HIDE DEF M
<1>6. /\ Len(M) = Len(mod) + Len(xs)
      /\ M[e].up = Top /\ SameKind(M[e], xs[Len(xs)])
  BY <1>3, <1>5 DEF IsPushed
<1>7. e \in 1 .. Len(M) /\ M[e].up # 0
  BY <1>1, <1>3, <1>6
<1>8. "param" \notin M[e].has /\ M[e].has # {"block"}
  BY <1>3, <1>6 DEF SameKind, Plain
<1>9. last = Len(M[M[e].up].kids) /\ last > 0 /\ M[M[e].up].kids[last] = e
  <2>1. Len(mod[Top].kids) \in Nat
    BY <1>0, <1>1, FieldTypes
  <2>2. Len(M[Top].kids) = last
    BY <1>5 DEF IsPushed
  <2>3. M[Top].kids[last] = e
    <3> DEFINE lx == Len(xs)
               lm == Len(mod)
               lk == Len(mod[Top].kids)
    <3>1. \A i \in 1 .. lx : M[Top].kids[lk + i] = lm + i
      BY <1>5 DEF IsPushed
    <3>2. lx \in 1 .. lx
      BY <1>3
    <3> HIDE DEF lx, lm, lk
    <3>3. M[Top].kids[lk + lx] = lm + lx
      BY <3>1, <3>2
    <3> QED
      BY <3>3 DEF lx, lm, lk
  <2> QED
    BY <1>3, <1>6, <2>1, <2>2, <2>3
<1> HIDE DEF last, e
<1>10. Sane(mod', Open, asked', count', {})
  BY <1>0, <1>2, <1>4, <1>7, <1>8, <1>9, AssignedSane
<1>11. builders' = builders /\ phase' = phase /\ count' = count + 1
  BY <1>2 DEF Assigned
<1>12. Open' = Open
  BY <1>2, <1>11 DEF Open
<1>13. Stacked'
  <2>1. count + Len(builders) - 1 < MaxAssignments /\ Len(builders) \in Nat /\ MaxAssignments \in Nat
    BY <1>0, <1>2, ParserBounds DEF Assigning, Stacked
  <2>2. count' + Len(builders') - 1 + 0 <= MaxAssignments
    BY <1>0, <1>11, <2>1
  <2> QED
    BY <1>0, <1>2, <1>11, <2>2 DEF Stacked
<1> QED
  BY <1>10, <1>12, <1>13

\* A block that is opened.
LEMMA AppendedSane ==
  ASSUME NEW m, NEW open, NEW A, NEW n \in Nat, NEW x, Sane(m, open, A, n, {}),
         IsMade(x, {"block"}, {}, 0, 0, 0), x.up = 0
  PROVE  Sane(Append(m, x), open \cup {Len(m) + 1}, A, n, {})
<1> DEFINE M == Append(m, x)
<1>0. /\ m \in Seq(Entity) /\ Linked(m) /\ Listed(m) /\ Aged(m, n) /\ Formed(m, A)
      /\ Equipped(m, {}) /\ Hanging(m, open) /\ Emptied(m, open, A)
  BY DEF Sane
<1>1. /\ x \in Entity /\ x.kids = <<>> /\ x.at = 0 /\ x.type = 0
      /\ x.has = {"block"} /\ x.flags = {}
  BY DEF IsMade
<1>2. /\ M \in Seq(Entity) /\ Len(M) = Len(m) + 1 /\ Len(m) \in Nat
      /\ \A e \in 1 .. Len(m) : M[e] = m[e]
      /\ M[Len(m) + 1] = x
  BY <1>0, <1>1
<1> HIDE DEF M
<1>3. \A e \in 1 .. Len(M) : e \in 1 .. Len(m) \/ (M[e] = x /\ e = Len(m) + 1)
  BY <1>2
<1>4. Linked(M)
  <2>1. ASSUME NEW b \in 1 .. Len(M), NEW i \in 1 .. Len(M[b].kids)
        PROVE  M[b].kids[i] \in 1 .. Len(M) /\ M[M[b].kids[i]].up = b
    <3>1. b \in 1 .. Len(m) /\ M[b] = m[b]
      BY <1>1, <1>2, <1>3
    <3>2. m[b].kids[i] \in 1 .. Len(m) /\ m[m[b].kids[i]].up = b
      BY <1>0, <3>1 DEF Linked
    <3> QED
      BY <1>2, <3>1, <3>2
  <2>2. ASSUME NEW e \in 1 .. Len(M), M[e].up # 0
        PROVE  /\ M[e].up \in 1 .. Len(M)
               /\ \E i \in 1 .. Len(M[M[e].up].kids) : M[M[e].up].kids[i] = e
    <3>1. e \in 1 .. Len(m) /\ M[e] = m[e]
      BY <1>2, <1>3, <2>2
    <3>2. m[e].up \in 1 .. Len(m) /\ \E i \in 1 .. Len(m[m[e].up].kids) : m[m[e].up].kids[i] = e
      BY <1>0, <2>2, <3>1 DEF Linked
    <3> QED
      BY <1>2, <3>1, <3>2
  <2> QED
    BY <2>1, <2>2 DEF Linked
<1>5. Listed(M)
  <2>1. SUFFICES ASSUME NEW b \in 1 .. Len(M), NEW i \in 1 .. Len(M[b].kids),
                        NEW j \in 1 .. Len(M[b].kids), i < j
                 PROVE  Before(M, M[b].kids[i], M[b].kids[j])
    BY DEF Listed
  <2>2. b \in 1 .. Len(m) /\ M[b] = m[b]
    BY <1>1, <1>2, <1>3
  <2>3. Before(m, m[b].kids[i], m[b].kids[j])
    BY <1>0, <2>1, <2>2 DEF Listed
  <2>4. m[b].kids[i] \in 1 .. Len(m) /\ m[b].kids[j] \in 1 .. Len(m)
    BY <1>0, <2>2 DEF Linked
  <2> QED
    BY <1>2, <2>2, <2>3, <2>4 DEF Before
<1>6. Aged(M, n)
  <2>1. SUFFICES ASSUME NEW e \in 1 .. Len(M)
                 PROVE  M[e].at <= n /\ M[e].type < e
    BY DEF Aged
  <2>2. CASE e \in 1 .. Len(m)
    BY <1>0, <1>2, <2>2 DEF Aged
  <2>3. CASE M[e] = x /\ e = Len(m) + 1
    BY <1>1, <1>2, <2>3
  <2> QED
    BY <1>3, <2>2, <2>3
<1>7. Formed(M, A)
  <2>1. SUFFICES ASSUME NEW e \in 1 .. Len(M)
                 PROVE  IF M[e].up = 0 THEN M[e].has = {"block"} /\ M[e].flags = {}
                        ELSE "block" \in M[M[e].up].has /\ Form(M[e]) /\ Recorded(M, e, A)
    BY DEF Formed
  <2>2. CASE e \in 1 .. Len(m) /\ m[e].up = 0
    BY <1>0, <1>2, <2>2 DEF Formed
  <2>3. CASE e \in 1 .. Len(m) /\ m[e].up # 0
    <3>1. "block" \in m[m[e].up].has /\ Form(m[e]) /\ Recorded(m, e, A) /\ m[e].up \in 1 .. Len(m)
      BY <1>0, <2>3 DEF Formed, Linked
    <3>2. M[e] = m[e] /\ M[m[e].up] = m[m[e].up]
      BY <1>2, <2>3, <3>1
    <3> QED
      BY <2>3, <3>1, <3>2 DEF Recorded
  <2>4. CASE M[e] = x
    BY <1>1, <2>4
  <2> QED
    BY <1>3, <2>2, <2>3, <2>4
<1>8. Equipped(M, {})
  <2>1. SUFFICES ASSUME NEW e \in 1 .. Len(M), M[e].up # 0
                 PROVE  Parametrised(M, e)
    BY DEF Equipped
  <2>2. e \in 1 .. Len(m) /\ M[e] = m[e]
    BY <1>2, <1>3, <2>1
  <2>3. Parametrised(m, e) /\ Form(m[e])
    BY <1>0, <2>1, <2>2 DEF Equipped, Formed
  <2>4. Len(m[e].kids) \in Nat
    BY <1>0, <2>2, FieldTypes
  <2>5. /\ Len(M[e].kids) \in Nat /\ Len(m[e].kids) <= Len(M[e].kids)
        /\ \A i \in 1 .. Len(m[e].kids) : M[e].kids[i] = m[e].kids[i]
    BY <2>2, <2>4
  <2>6. \A y \in 1 .. Len(m) : /\ M[y].has = m[y].has /\ M[y].arity = m[y].arity
                               /\ M[y].index = m[y].index /\ M[y].type = m[y].type
    BY <1>2
  <2> QED
    BY <1>0, <2>2, <2>3, <2>5, <2>6, StillParametrised
<1>9. Hanging(M, open \cup {Len(m) + 1})
  <2>1. SUFFICES ASSUME NEW b \in open \cup {Len(m) + 1}
                 PROVE  /\ b \in 1 .. Len(M) /\ M[b].up = 0
                        /\ \A i \in 1 .. Len(M[b].kids) : M[M[b].kids[i]].index = 0
    BY DEF Hanging
  <2>2. CASE b \in open
    <3>1. /\ b \in 1 .. Len(m) /\ m[b].up = 0
          /\ \A i \in 1 .. Len(m[b].kids) : m[m[b].kids[i]].index = 0
      BY <1>0, <2>2 DEF Hanging
    <3>2. \A i \in 1 .. Len(m[b].kids) : m[b].kids[i] \in 1 .. Len(m)
      BY <1>0, <3>1 DEF Linked
    <3>3. b \in 1 .. Len(M) /\ M[b] = m[b]
      BY <1>1, <1>2, <3>1
    <3>4. ASSUME NEW i \in 1 .. Len(M[b].kids)
          PROVE  M[M[b].kids[i]].index = 0
      <4> DEFINE k == m[b].kids[i]
      <4>1. k \in 1 .. Len(m) /\ m[k].index = 0 /\ k = M[b].kids[i]
        BY <3>1, <3>2, <3>3
      <4> HIDE DEF k
      <4>2. M[k] = m[k]
        BY <1>2, <4>1
      <4> QED
        BY <4>1, <4>2
    <3> QED
      BY <3>1, <3>3, <3>4
  <2>3. CASE b = Len(m) + 1
    BY <1>1, <1>2, <2>3
  <2> QED
    BY <2>2, <2>3
<1>10. Emptied(M, open \cup {Len(m) + 1}, A)
  BY <1>0, <1>2, <1>3 DEF Emptied
<1> QED
  BY <1>2, <1>4, <1>5, <1>6, <1>7, <1>8, <1>9, <1>10 DEF Sane, M

\* A closed block that is assigned: e is the entity at the end of the block on
\* top that receives its statements.
LEMMA BlockStep ==
  ASSUME Structure, NEW m, NEW e \in 1 .. Len(m), NEW export \in BOOLEAN, NEW wants, NEW last,
         BlockAssigned(m, e, export, wants), Sane(m, Open, asked, count, {}),
         m[e].up = Top, "block" \in m[e].has, "param" \notin m[e].has,
         m[e].has = {"block"} => "namespace" \in wants,
         last = Len(m[Top].kids), last > 0, m[Top].kids[last] = e,
         \A i \in 1 .. Len(m[e].kids) : m[m[e].kids[i]].at = 0 /\ m[m[e].kids[i]].type = 0
  PROVE  Sane(mod', Open', asked', count', {}) /\ Stacked'
<1> DEFINE M == Moved(m, value, e)
<1>0. Stacked /\ count \in Nat /\ value # 0 /\ value' = 0 /\ Assigned(M, e, export, wants)
  BY DEF Structure, Scalars, BlockAssigned
<1>1. Top \in Open /\ Top # value
  BY TopOpen
<1>2. value \in Open /\ Open \ {value} = Range(builders)
  BY <1>0, OpenBlocks
<1>3. /\ m \in Seq(Entity) /\ Hanging(m, Open)
  BY DEF Sane
<1>4. /\ value \in 1 .. Len(m) /\ Top \in 1 .. Len(m) /\ m[Top].up = 0
  BY <1>1, <1>2, <1>3 DEF Hanging
<1>5. m[e].up # 0 /\ m[e].up # value
  BY <1>1, <1>4
<1>6. e \notin Open
  BY <1>3, <1>5 DEF Hanging
<1>7. Sane(M, Open \ {value}, asked, count, {}) /\ IsMoved(M, m, value, e)
  BY <1>2, <1>4, <1>5, <1>6, MovedSane
<1> HIDE DEF M
<1>8. Len(M) = Len(m) /\ SameKind(M[e], m[e]) /\ M[e].up = Top
  BY <1>5, <1>7 DEF IsMoved
<1>9. M[Top].kids = m[Top].kids
  <2>1. Top \notin {value, e}
    BY <1>1, <1>6
  <2> QED
    BY <1>4, <1>7, <2>1 DEF IsMoved
<1>10. /\ e \in 1 .. Len(M) /\ M[e].up # 0 /\ "param" \notin M[e].has
       /\ M[e].has = {"block"} => "namespace" \in wants
       /\ last = Len(M[M[e].up].kids) /\ M[M[e].up].kids[last] = e
  BY <1>5, <1>8, <1>9 DEF SameKind
<1>11. Sane(mod', Open \ {value}, asked', count', {})
  BY <1>0, <1>7, <1>10, AssignedSane
<1>12. builders' = builders /\ phase' = phase /\ count' = count + 1
  BY <1>0 DEF Assigned
<1>13. Open' = Open \ {value}
  BY <1>0, <1>2, <1>12 DEF Open
<1>14. Stacked'
  <2>1. count + Len(builders) - 1 + 1 <= MaxAssignments /\ Len(builders) \in Nat /\ MaxAssignments \in Nat
    BY <1>0, ParserBounds DEF Stacked
  <2>2. count' + Len(builders') - 1 + 0 <= MaxAssignments
    BY <1>0, <1>12, <2>1
  <2>3. \A b \in Range(builders) : b # 0
    <3>1. \A b \in Range(builders) : b \in 1 .. Len(m)
      BY <1>2, <1>3 DEF Hanging
    <3> QED
      BY <3>1
  <2> QED
    BY <1>0, <1>12, <2>2, <2>3 DEF Stacked
<1> QED
  BY <1>11, <1>13, <1>14

\* What an assignment of a block pushes for it.
LEMMA BlockMade ==
  ASSUME NEW f \in BlockForms
  PROVE  /\ f[1] \in Entity /\ Form(f[1]) /\ Export \notin f[1].flags
         /\ f[1].kids = <<>> /\ f[1].at = 0 /\ f[1].index = 0 /\ f[1].type = 0
         /\ f[1].has # {"type", "fn", "block"} /\ "block" \in f[1].has /\ "param" \notin f[1].has
         /\ f[1].has = {"block"} => "namespace" \in f[2]
<1>0. /\ {"typedef", "block"} \in SUBSET Components /\ {"block"} \in SUBSET Components
      /\ {Namespace} \in SUBSET (1 .. 11) /\ {Comptime} \in SUBSET (1 .. 11)
      /\ {} \in SUBSET (1 .. 11)
  BY DEF Components, Namespace, Comptime
<1>1. /\ Export \notin {} /\ Export \notin {Namespace} /\ Export \notin {Comptime}
  BY DEF Export, Namespace, Comptime
<1>2. CASE f = <<[Blank EXCEPT !.has = {"typedef", "block"}], {}>>
  <2>1. IsMade(f[1], {"typedef", "block"}, {}, 0, 0, 0)
    BY <1>0, <1>2, PlainMade
  <2>2. Form(f[1])
    BY <2>1 DEF IsMade, Form
  <2>3. f[1].has = {"typedef", "block"} /\ f[1].flags = {}
    BY <2>1 DEF IsMade
  <2>4. f[1].has # {"type", "fn", "block"} /\ "block" \in f[1].has /\ "param" \notin f[1].has /\ f[1].has # {"block"}
    BY <2>3
  <2> QED
    BY <1>1, <2>1, <2>2, <2>3, <2>4 DEF IsMade
<1>3. CASE f = <<[Blank EXCEPT !.has = {"block"}, !.flags = {Namespace}], {"namespace"}>>
  <2>1. IsMade(f[1], {"block"}, {Namespace}, 0, 0, 0)
    BY <1>0, <1>3, BlankMade
  <2>2. Form(f[1])
    BY <2>1 DEF IsMade, Form
  <2>3. "namespace" \in f[2]
    BY <1>3
  <2> QED
    BY <1>1, <2>1, <2>2, <2>3 DEF IsMade
<1>4. ASSUME NEW flags \in {{}, {Comptime}}, f = <<Value({"block"}, flags), {}>>
      PROVE  /\ f[1] \in Entity /\ Form(f[1]) /\ Export \notin f[1].flags
             /\ f[1].kids = <<>> /\ f[1].at = 0 /\ f[1].index = 0 /\ f[1].type = 0
             /\ f[1].has # {"type", "fn", "block"} /\ "block" \in f[1].has /\ "param" \notin f[1].has
             /\ f[1].has = {"block"} => "namespace" \in f[2]
  <2>1. IsMade(f[1], {"type"} \cup {"block"}, flags, 0, 0, 0)
    BY <1>0, <1>4, ValueMade
  <2>2. f[1].has = {"type", "block"} /\ f[1].flags = flags
    BY <2>1 DEF IsMade
  <2>3. Form(f[1])
    BY <2>2 DEF Form
  <2>4. Export \notin flags
    BY <1>1
  <2>5. f[1].has # {"type", "fn", "block"} /\ "block" \in f[1].has /\ "param" \notin f[1].has /\ f[1].has # {"block"}
    BY <2>2
  <2> QED
    BY <2>1, <2>2, <2>3, <2>4, <2>5 DEF IsMade
<1>5. \/ f = <<[Blank EXCEPT !.has = {"typedef", "block"}], {}>>
      \/ f = <<[Blank EXCEPT !.has = {"block"}, !.flags = {Namespace}], {"namespace"}>>
      \/ \E flags \in {{}, {Comptime}} : f = <<Value({"block"}, flags), {}>>
  BY DEF BlockForms
<1> QED
  BY <1>2, <1>3, <1>4, <1>5

\* Assigning a block as a type, a namespace, a value or a compile-time block keeps
\* the invariant: its children move, and it is left empty and closed.
LEMMA AssignBlockStep ==
  ASSUME Structure, NEW export \in BOOLEAN, NEW f \in BlockForms,
         AssignBlock(export, f[1], f[2])
  PROVE  Sane(mod', Open', asked', count', {}) /\ Stacked'
<1> DEFINE x == f[1]
           wants == f[2]
           xs == <<x>>
           m == Pushed(mod, Top, xs)
           e == Len(mod) + 1
           last == Len(mod[Top].kids) + 1
<1>0. /\ Sane(mod, Open, asked, count, {}) /\ count \in Nat /\ mod \in Seq(Entity)
      /\ Len(mod) \in Nat
  BY DEF Structure, Scalars, Sane
<1>1. /\ Top \in Open /\ Top \in 1 .. Len(mod) /\ mod[Top].up = 0 /\ "block" \in mod[Top].has
  BY TopOpen
<1>2. /\ x \in Entity /\ Form(x) /\ Export \notin x.flags
      /\ x.kids = <<>> /\ x.at = 0 /\ x.index = 0 /\ x.type = 0
      /\ x.has # {"type", "fn", "block"} /\ "block" \in x.has /\ "param" \notin x.has
      /\ x.has = {"block"} => "namespace" \in wants
  BY BlockMade
<1>3. BlockAssigned(m, e, export, wants)
  BY DEF AssignBlock
<1> HIDE DEF x, wants
<1>4. /\ xs \in Seq(Entity) /\ Len(xs) = 1 /\ xs[1] = x
      /\ \A i \in 1 .. Len(xs) : i = 1 /\ xs[i] = x
  BY <1>2
<1> HIDE DEF xs
<1>5. Sane(m, Open, asked, count, {})
  <2>1. Leaves(xs, mod, count)
    BY <1>0, <1>2, <1>4 DEF Leaves
  <2>2. \A i \in 1 .. Len(xs) : xs[i].has # {"type", "fn", "block"} /\ xs[i].index = 0
    BY <1>2, <1>4
  <2>3. \A i \in 1 .. Len(xs) : xs[i].at <= count
    BY <1>0, <1>2, <1>4
  <2>4. count <= count
    BY <1>0
  <2> QED
    BY <1>0, <1>1, <1>4, <2>1, <2>2, <2>3, <2>4, PushedOpen
<1>6. IsPushed(m, mod, Top, xs)
  BY <1>0, <1>1, <1>4, PushedIs
<1> HIDE DEF m
<1>7. /\ Len(m) = Len(mod) + 1 /\ SameKind(m[e], x) /\ m[e].up = Top /\ m[e].kids = <<>>
  BY <1>2, <1>4, <1>6 DEF IsPushed
<1>8. Len(mod[Top].kids) \in Nat
  BY <1>0, <1>1, FieldTypes
<1>9. last = Len(m[Top].kids) /\ last > 0 /\ m[Top].kids[last] = e
  BY <1>4, <1>6, <1>8 DEF IsPushed
<1>10. e \in 1 .. Len(m)
  BY <1>0, <1>7
<1>11. /\ "block" \in m[e].has /\ "param" \notin m[e].has
       /\ m[e].has = {"block"} => "namespace" \in wants
  BY <1>2, <1>7 DEF SameKind
<1>12. \A i \in 1 .. Len(m[e].kids) : m[m[e].kids[i]].at = 0 /\ m[m[e].kids[i]].type = 0
  BY <1>7
<1> HIDE DEF e, last
<1> QED
  BY <1>3, <1>5, <1>7, <1>9, <1>10, <1>11, <1>12, BlockStep

\* A block given to the reserved namespace is dropped, children and all, and is on
\* record as ignored; an empty namespace is pushed in its stead.
LEMMA ReservedStep ==
  ASSUME Structure, AssignReserved
  PROVE  Sane(mod', Open', asked', count', {}) /\ Stacked'
<1> DEFINE x == [Blank EXCEPT !.has = {"block"}, !.flags = {Namespace}, !.at = count + 1]
           xs == <<x>>
           m == Pushed(mod, Top, xs)
<1>0. /\ Sane(mod, Open, asked, count, {}) /\ count \in Nat /\ mod \in Seq(Entity)
      /\ Len(mod) \in Nat /\ Stacked
  BY DEF Structure, Scalars, Sane
<1>1. /\ Top \in Open /\ Top \in 1 .. Len(mod) /\ mod[Top].up = 0 /\ "block" \in mod[Top].has
  BY TopOpen
<1>2. /\ value # 0 /\ value' = 0 /\ count' = count + 1 /\ builders' = builders
      /\ asked' = asked \cup {<<value, "ignored">>} /\ mod' = m
  BY DEF AssignReserved
<1>3. /\ x \in Entity /\ Form(x) /\ Export \notin x.flags
      /\ x.kids = <<>> /\ x.at = count + 1 /\ x.index = 0 /\ x.type = 0
      /\ x.has # {"type", "fn", "block"}
  <2>1. x \in Entity
    <3> DEFINE y == [Blank EXCEPT !.has = {"block"}, !.flags = {Namespace}]
    <3>1. {"block"} \in SUBSET Components /\ {Namespace} \in SUBSET (1 .. 11) /\ count + 1 \in Nat
      BY <1>0 DEF Components, Namespace
    <3>2. y \in Entity
      BY <3>1, BlankMade DEF IsMade
    <3>3. x = [y EXCEPT !.at = count + 1]
      BY DEF Blank
    <3> HIDE DEF x, y
    <3> QED
      BY <3>1, <3>2, <3>3, WithAt
  <2>2. /\ x.kids = <<>> /\ x.at = count + 1 /\ x.index = 0 /\ x.type = 0
        /\ x.has = {"block"} /\ x.flags = {Namespace}
    BY DEF Blank
  <2> HIDE DEF x
  <2>3. Form(x) /\ Export \notin x.flags
    BY <2>2 DEF Form, Export, Namespace
  <2> QED
    BY <2>1, <2>2, <2>3
<1> HIDE DEF x
<1>4. /\ xs \in Seq(Entity) /\ Len(xs) = 1
      /\ \A i \in 1 .. Len(xs) : i = 1 /\ xs[i] = x
  BY <1>3
<1> HIDE DEF xs
<1>5. Sane(m, Open, asked, count + 1, {})
  <2>1. Leaves(xs, mod, count)
    BY <1>0, <1>3, <1>4 DEF Leaves
  <2>2. \A i \in 1 .. Len(xs) : xs[i].has # {"type", "fn", "block"} /\ xs[i].index = 0
    BY <1>3, <1>4
  <2>3. \A i \in 1 .. Len(xs) : xs[i].at <= count + 1
    BY <1>0, <1>3, <1>4
  <2>4. count <= count + 1 /\ count + 1 \in Nat
    BY <1>0
  <2> QED
    BY <1>0, <1>1, <1>4, <2>1, <2>2, <2>3, <2>4, PushedOpen
<1> HIDE DEF m
<1>6. value \in Open /\ Open \ {value} = Range(builders)
  BY <1>0, <1>2, OpenBlocks
<1>7. Open' = Open \ {value}
  BY <1>2, <1>6 DEF Open
<1>8. Sane(m, Open \ {value}, asked', count + 1, {})
  <2>1. asked \subseteq asked' /\ Open \ {value} \subseteq Open
    BY <1>2
  <2>2. \A e \in Open \ (Open \ {value}) : m[e].kids = <<>> \/ <<e, "ignored">> \in asked'
    BY <1>2
  <2> QED
    BY <1>5, <2>1, <2>2, SaneWeaken
<1>9. Stacked'
  <2>1. count + Len(builders) - 1 + 1 <= MaxAssignments /\ Len(builders) \in Nat /\ MaxAssignments \in Nat
    BY <1>0, <1>2, ParserBounds DEF Stacked
  <2>2. count' + Len(builders') - 1 + 0 <= MaxAssignments
    BY <1>0, <1>2, <2>1
  <2>3. 0 \notin Range(builders)
    <3>1. \A b \in Range(builders) : b \in 1 .. Len(mod)
      BY <1>0, <1>6 DEF Sane, Hanging
    <3> QED
      BY <3>1
  <2> QED
    BY <1>0, <1>2, <2>2, <2>3 DEF Stacked
<1> QED
  BY <1>2, <1>7, <1>8, <1>9

\* A block that opens has no parent, no children and no number.
LEMMA BlockStartStep ==
  ASSUME Structure, BlockStart
  PROVE  Sane(mod', Open', asked', count', {}) /\ Stacked'
<1> DEFINE x == [Blank EXCEPT !.has = {"block"}]
           l == Len(mod) + 1
<1>0. /\ Sane(mod, Open, asked, count, {}) /\ count \in Nat /\ mod \in Seq(Entity)
      /\ Len(mod) \in Nat /\ Stacked
  BY DEF Structure, Scalars, Sane
<1>1. /\ value = 0 /\ value' = 0 /\ count' = count /\ builders' = Append(builders, l)
      /\ asked' = asked /\ mod' = Append(mod, x) /\ Assigning
  BY DEF BlockStart
<1>2. IsMade(x, {"block"}, {}, 0, 0, 0) /\ x.up = 0
  <2>1. {"block"} \in SUBSET Components
    BY DEF Components
  <2>2. x.up = 0
    BY DEF Blank
  <2> QED
    BY <2>1, <2>2, PlainMade
<1> HIDE DEF x
<1>3. Sane(mod', Open \cup {l}, asked', count', {})
  BY <1>0, <1>1, <1>2, AppendedSane
<1> HIDE DEF l
<1>4. Open = Range(builders)
  BY <1>0, <1>1, OpenBlocks
<1>5. /\ builders \in Seq(Nat) /\ l \in Nat /\ Len(builders) \in Nat
      /\ builders # <<>> /\ builders[1] = Root
      /\ \A i, j \in 1 .. Len(builders) : builders[i] = builders[j] => i = j
      /\ Len(builders) > 0
  BY <1>0 DEF Stacked, l
<1>6. /\ builders' \in Seq(Nat) /\ Len(builders') = Len(builders) + 1
      /\ \A i \in 1 .. Len(builders) : builders'[i] = builders[i]
      /\ builders'[Len(builders) + 1] = l
  BY <1>1, <1>5
<1>7. /\ Range(builders) = { builders[i] : i \in 1 .. Len(builders) }
      /\ Range(builders') = { builders'[i] : i \in 1 .. Len(builders') }
  BY <1>5, <1>6, RangeEquality
<1>8. Range(builders') = Range(builders) \cup {l}
  <2>1. \A i \in 1 .. Len(builders') : i \in 1 .. Len(builders) \/ i = Len(builders) + 1
    BY <1>5, <1>6
  <2>2. \A b \in Range(builders') : b \in Range(builders) \cup {l}
    BY <1>6, <1>7, <2>1
  <2>3. 1 .. Len(builders) \subseteq 1 .. Len(builders') /\ Len(builders) + 1 \in 1 .. Len(builders')
    BY <1>5, <1>6
  <2>4. \A i \in 1 .. Len(builders) : builders[i] \in Range(builders')
    BY <1>6, <1>7, <2>3
  <2>5. l \in Range(builders')
    BY <1>6, <1>7, <2>3
  <2> QED
    BY <1>7, <2>2, <2>4, <2>5
<1>9. Open' = Open \cup {l}
  BY <1>1, <1>4, <1>8 DEF Open
<1>10. \A b \in Range(builders) : b \in 1 .. Len(mod)
  BY <1>0, <1>4 DEF Sane, Hanging
<1>11. Stacked'
  <2>1. count + Len(builders) - 1 < MaxAssignments /\ MaxAssignments \in Nat
    BY <1>1, ParserBounds DEF Assigning
  <2>2. count' + Len(builders') - 1 + 0 <= MaxAssignments
    BY <1>0, <1>1, <1>5, <1>6, <2>1
  <2>3. 0 \notin Range(builders')
    BY <1>0, <1>8, <1>10 DEF l
  <2>4. l \notin Range(builders)
    BY <1>0, <1>10 DEF l
  <2>5. ASSUME NEW i \in 1 .. Len(builders'), NEW j \in 1 .. Len(builders'),
               builders'[i] = builders'[j]
        PROVE  i = j
    <3>1. \A k \in 1 .. Len(builders) : builders[k] # l
      BY <1>7, <2>4
    <3>2. \A k \in 1 .. Len(builders') : k \in 1 .. Len(builders) \/ k = Len(builders) + 1
      BY <1>5, <1>6
    <3> QED
      BY <1>5, <1>6, <2>5, <3>1, <3>2
  <2>6. builders' # <<>> /\ builders'[1] = Root
    BY <1>5, <1>6
  <2> QED
    BY <1>1, <1>6, <2>2, <2>3, <2>5, <2>6 DEF Stacked
<1> QED
  BY <1>3, <1>9, <1>11

\* A block that closes leaves the stack and waits: it stays open.
LEMMA BlockEndStep ==
  ASSUME Structure, BlockEnd
  PROVE  Sane(mod', Open', asked', count', {}) /\ Stacked'
<1> DEFINE l == Len(builders)
<1>0. /\ Sane(mod, Open, asked, count, {}) /\ count \in Nat /\ Stacked
  BY DEF Structure, Scalars
<1>1. /\ value = 0 /\ value' = Top /\ count' = count /\ builders' = Front(builders)
      /\ asked' = asked /\ mod' = mod /\ l > 1
  BY DEF BlockEnd
<1>2. Open = Range(builders)
  BY <1>0, <1>1, OpenBlocks
<1>3. /\ builders \in Seq(Nat) /\ l \in Nat /\ builders[1] = Root
      /\ \A i, j \in 1 .. l : builders[i] = builders[j] => i = j
      /\ \A i \in 1 .. l : builders[i] \in Nat
  BY <1>0 DEF Stacked
<1>4. /\ builders' \in Seq(Nat) /\ Len(builders') = l - 1
      /\ \A i \in 1 .. l - 1 : builders'[i] = builders[i]
  BY <1>1, <1>3 DEF Front
<1>5. Top = builders[l]
  BY DEF Top, Last
<1> HIDE DEF l
<1>6. /\ Range(builders) = { builders[i] : i \in 1 .. l }
      /\ Range(builders') = { builders'[i] : i \in 1 .. l - 1 }
  BY <1>3, <1>4, RangeEquality DEF l
<1>7. /\ 1 .. l - 1 \subseteq 1 .. l /\ l \in 1 .. l /\ l \notin 1 .. l - 1 /\ 1 \in 1 .. l - 1
      /\ \A i \in 1 .. l : i \in 1 .. l - 1 \/ i = l
  BY <1>1, <1>3
<1>8. Top \notin Range(builders')
  BY <1>3, <1>4, <1>5, <1>6, <1>7
<1>9. Range(builders) = Range(builders') \cup {Top}
  <2>1. \A b \in Range(builders) : b \in Range(builders') \cup {Top}
    BY <1>4, <1>5, <1>6, <1>7
  <2>2. \A i \in 1 .. l - 1 : builders'[i] \in Range(builders)
    BY <1>4, <1>6, <1>7
  <2>3. Top \in Range(builders)
    BY <1>5, <1>6, <1>7
  <2> QED
    BY <1>6, <2>1, <2>2, <2>3
<1>10. Top \in Nat /\ Top # 0
  <2>1. Top \in 1 .. Len(mod)
    BY TopOpen
  <2> QED
    BY <1>3, <1>5, <1>7, <2>1
<1>11. Open' = Open
  BY <1>1, <1>2, <1>9, <1>10 DEF Open
<1>12. Sane(mod', Open', asked', count', {})
  BY <1>0, <1>1, <1>11
<1>13. Stacked'
  <2>1. count + l - 1 + 0 <= MaxAssignments /\ MaxAssignments \in Nat
    BY <1>0, <1>1, ParserBounds DEF Stacked, l
  <2>2. count' + Len(builders') - 1 + 1 <= MaxAssignments
    BY <1>0, <1>1, <1>3, <1>4, <2>1
  <2>3. \A i, j \in 1 .. Len(builders') : builders'[i] = builders'[j] => i = j
    BY <1>3, <1>4, <1>7
  <2>4. builders' # <<>> /\ builders'[1] = Root
    BY <1>1, <1>3, <1>4, <1>7
  <2> QED
    BY <1>1, <1>4, <1>8, <1>10, <2>2, <2>3, <2>4 DEF Stacked
<1> QED
  BY <1>12, <1>13

(***************************************************************************)
(* A function with a body.                                                 *)
(***************************************************************************)
Param(i, n, default) ==
  IF i = n /\ default THEN Value({"param", "number"}, {Comptime})
  ELSE Value({"param"}, {Valueless})

Params(n, default) == [i \in 1 .. n |-> [Param(i, n, default) EXCEPT !.index = i]]

\* The function of AssignFunction, which follows its type.
Function == [Value({"fn", "block"}, {}) EXCEPT !.type = Len(mod) + 1]

\* P are the parameters of a function of n inputs, in order.
IsParams(P, n) ==
  /\ P \in Seq(Entity) /\ Len(P) = n
  /\ \A i \in 1 .. n :
       /\ Form(P[i]) /\ Export \notin P[i].flags /\ P[i].kids = <<>>
       /\ P[i].at = 0 /\ P[i].type = 0
       /\ P[i].index = i /\ P[i].has # {"type", "fn", "block"}

\* AssignFunction makes such parameters, with a default value or without.
LEMMA ParamsMade ==
  ASSUME NEW n \in Nat, NEW default \in BOOLEAN
  PROVE  IsParams(Params(n, default), n)
<1> DEFINE P == Params(n, default)
<1>0. /\ {"param"} \in SUBSET Components /\ {"param", "number"} \in SUBSET Components
      /\ {Valueless} \in SUBSET (1 .. 11) /\ {Comptime} \in SUBSET (1 .. 11)
      /\ Export \notin {Valueless} /\ Export \notin {Comptime}
  BY DEF Components, Valueless, Comptime, Export
<1>1. ASSUME NEW i \in 1 .. n
      PROVE  /\ P[i] \in Entity /\ Form(P[i]) /\ Export \notin P[i].flags
             /\ P[i].kids = <<>> /\ P[i].at = 0 /\ P[i].type = 0
             /\ P[i].index = i /\ P[i].has # {"type", "fn", "block"}
  <2>1. P[i] = [Param(i, n, default) EXCEPT !.index = i]
    BY DEF Params
  <2> HIDE DEF P
  <2>2. CASE i = n /\ default
    <3>1. Param(i, n, default) = Value({"param", "number"}, {Comptime})
      BY <2>2 DEF Param
    <3>2. IsMade(Value({"param", "number"}, {Comptime}), {"type"} \cup {"param", "number"}, {Comptime}, 0, 0, 0)
      BY <1>0, ValueMade
    <3>3. IsMade(P[i], {"type"} \cup {"param", "number"}, {Comptime}, 0, 0, i)
      BY <2>1, <3>1, <3>2, WithIndex
    <3>4. P[i].has = {"type", "param", "number"} /\ P[i].flags = {Comptime}
      BY <3>3 DEF IsMade
    <3>5. Form(P[i])
      BY <3>4 DEF Form
    <3>6. P[i].has # {"type", "fn", "block"}
      BY <3>4
    <3> QED
      BY <1>0, <3>3, <3>5, <3>6 DEF IsMade
  <2>3. CASE ~(i = n /\ default)
    <3>1. Param(i, n, default) = Value({"param"}, {Valueless})
      BY <2>3 DEF Param
    <3>2. IsMade(Value({"param"}, {Valueless}), {"type"} \cup {"param"}, {Valueless}, 0, 0, 0)
      BY <1>0, ValueMade
    <3>3. IsMade(P[i], {"type"} \cup {"param"}, {Valueless}, 0, 0, i)
      BY <2>1, <3>1, <3>2, WithIndex
    <3>4. P[i].has = {"type", "param"} /\ P[i].flags = {Valueless}
      BY <3>3 DEF IsMade
    <3>5. Form(P[i])
      BY <3>4 DEF Form
    <3>6. P[i].has # {"type", "fn", "block"}
      BY <3>4
    <3> QED
      BY <1>0, <3>3, <3>5, <3>6 DEF IsMade
  <2> QED
    BY <2>2, <2>3
<1>2. P = [i \in 1 .. n |-> P[i]]
  BY DEF Params
<1> HIDE DEF P
<1>3. P \in [1 .. n -> Entity]
  BY <1>1, <1>2
<1>4. P \in Seq(Entity) /\ Len(P) = n
  BY <1>3
<1> QED
  BY <1>1, <1>4 DEF P, IsParams

\* Assigning a function keeps the invariant: its type and the function are pushed,
\* then its parameters into its empty block, then the statements of the body.
LEMMA AssignFunctionStep ==
  ASSUME Structure, NEW export \in BOOLEAN, NEW n \in Arities, NEW default \in BOOLEAN,
         AssignFunction(export, n, default)
  PROVE  Sane(mod', Open', asked', count', {}) /\ Stacked'
<1> DEFINE t == FunctionType(n)
           f == Function
           xs == <<t, f>>
           l == Len(mod)
           m == Pushed(mod, Top, xs)
           e == l + 2
           P == Params(n, default)
           M == Pushed(m, e, P)
           last == Len(mod[Top].kids) + 2
           here == {e}
<1>0. /\ Sane(mod, Open, asked, count, {}) /\ count \in Nat /\ mod \in Seq(Entity)
      /\ l \in Nat /\ n \in Nat
  BY ParserBounds DEF Structure, Scalars, Sane
<1>1. /\ Top \in Open /\ Top \in 1 .. l /\ mod[Top].up = 0 /\ "block" \in mod[Top].has
  BY TopOpen
<1>2. BlockAssigned(M, e, export, {})
  BY DEF AssignFunction, Params, Param, Function
<1>3. IsMade(t, {"typedef", "inputs", "fn"}, {}, n, 0, 0)
  BY <1>0, FunctionTypeMade
<1>4. IsMade(f, {"type"} \cup {"fn", "block"}, {}, 0, l + 1, 0)
  <2>0. {"fn", "block"} \in SUBSET Components /\ {} \in SUBSET (1 .. 11) /\ l + 1 \in Nat
    BY <1>0 DEF Components
  <2>1. IsMade(Value({"fn", "block"}, {}), {"type"} \cup {"fn", "block"}, {}, 0, 0, 0)
    BY <2>0, ValueMade
  <2> QED
    BY <2>0, <2>1, WithType DEF Function
<1> HIDE DEF t, f
<1>5. f.has = {"type", "fn", "block"} /\ f.flags = {} /\ f.type # 0 /\ f.type = l + 1 /\ f.kids = <<>>
  BY <1>0, <1>4 DEF IsMade
<1>6. Form(t) /\ Form(f)
  BY <1>3, <1>5 DEF IsMade, Form
<1>7. t.has # {"type", "fn", "block"}
  BY <1>3 DEF IsMade
<1>8. /\ xs \in Seq(Entity) /\ Len(xs) = 2 /\ xs[1] = t /\ xs[2] = f
      /\ \A i \in 1 .. Len(xs) : (i = 1 /\ xs[i] = t) \/ (i = 2 /\ xs[i] = f)
  BY <1>3, <1>4 DEF IsMade
<1> HIDE DEF xs, e, l
<1>9. Sane(m, Open, asked, count, here)
  <2> DEFINE none == {}
  <2>1. Leaves(xs, mod, count)
    <3>1. SUFFICES ASSUME NEW i \in 1 .. Len(xs)
                   PROVE  /\ xs[i].kids = <<>> /\ xs[i].type < Len(mod) + i /\ Form(xs[i])
                          /\ Export \notin xs[i].flags /\ xs[i].at = 0
      BY DEF Leaves
    <3>2. CASE i = 1 /\ xs[i] = t
      BY <1>0, <1>3, <1>6, <3>2 DEF IsMade, l
    <3>3. CASE i = 2 /\ xs[i] = f
      BY <1>0, <1>4, <1>6, <3>3 DEF IsMade, l
    <3> QED
      BY <1>8, <3>2, <3>3
  <2>2. \A i \in 1 .. Len(xs) : xs[i].has = {"type", "fn", "block"} => Len(mod) + i \in here
    BY <1>7, <1>8 DEF e, l
  <2>3. \A i \in 1 .. Len(xs) : xs[i].at <= count
    <3>1. t.at = 0 /\ f.at = 0
      BY <1>3, <1>4 DEF IsMade
    <3> QED
      BY <1>0, <1>8, <3>1
  <2>4. \A i \in 1 .. Len(xs) : xs[i].index = 0
    BY <1>3, <1>4, <1>8 DEF IsMade
  <2>5. none \subseteq here /\ count <= count /\ Sane(mod, Open, asked, count, none)
    BY <1>0
  <2>6. Top \in Open \/ mod[Top].up # 0
    BY <1>1
  <2>7. Top \in 1 .. Len(mod) /\ "block" \in mod[Top].has /\ count \in Nat /\ xs \in Seq(Entity)
    BY <1>0, <1>1, <1>8 DEF l
  <2> HIDE DEF none, here
  <2>8. \/ \A i \in 1 .. Len(xs) : xs[i].index = 0
        \/ /\ Top \notin Open /\ mod[Top].kids = <<>>
           /\ \A i \in 1 .. Len(xs) : xs[i].index = i
    BY <2>4
  <2> QED
    BY <2>1, <2>2, <2>3, <2>5, <2>6, <2>7, <2>8, PushedSane
<1>10. IsPushed(m, mod, Top, xs)
  BY <1>0, <1>1, <1>8, PushedIs DEF l
<1> HIDE DEF m
<1>11. /\ Len(m) = l + 2 /\ e \in 1 .. Len(m) /\ l + 1 \in 1 .. Len(m)
       /\ SameKind(m[l + 1], t) /\ SameKind(m[e], f) /\ m[e].up = Top /\ m[e].kids = <<>>
  <2>1. Len(m) = l + 2
    BY <1>8, <1>10 DEF IsPushed, l
  <2>2. SameKind(m[l + 1], xs[1])
    BY <1>8, <1>10 DEF IsPushed, l
  <2>3. SameKind(m[l + 2], xs[2]) /\ m[l + 2].up = Top /\ m[l + 2].kids = xs[2].kids
    BY <1>8, <1>10 DEF IsPushed, l
  <2> QED
    BY <1>0, <1>5, <1>8, <2>1, <2>2, <2>3 DEF e
<1>12. Len(mod[Top].kids) \in Nat
  BY <1>0, <1>1, FieldTypes DEF l
<1>13. last = Len(m[Top].kids) /\ last > 0 /\ m[Top].kids[last] = e
  <2>1. Len(m[Top].kids) = last
    BY <1>8, <1>10 DEF IsPushed
  <2>2. m[Top].kids[last] = l + 2
    BY <1>8, <1>10 DEF IsPushed, l
  <2> QED
    BY <1>12, <2>1, <2>2 DEF e
<1>14. /\ P \in Seq(Entity) /\ Len(P) = n
       /\ \A i \in 1 .. n :
            /\ Form(P[i]) /\ Export \notin P[i].flags /\ P[i].kids = <<>>
            /\ P[i].at = 0 /\ P[i].type = 0
            /\ P[i].index = i /\ P[i].has # {"type", "fn", "block"}
  <2>1. IsParams(P, n)
    BY <1>0, ParamsMade, Zenon
  <2> HIDE DEF P
  <2> QED
    BY <2>1 DEF IsParams
<1> HIDE DEF P
<1>15. m \in Seq(Entity) /\ Hanging(m, Open) /\ m[Top].up = 0
  <2>1. m \in Seq(Entity) /\ Hanging(m, Open)
    BY <1>9 DEF Sane
  <2> QED
    BY <1>1, <2>1 DEF Hanging
<1>16. e \notin Open /\ e # Top /\ m[e].up # 0
  <2>1. m[e].up # 0
    BY <1>0, <1>1, <1>11
  <2> QED
    BY <1>15, <2>1 DEF Hanging
<1>17. Sane(M, Open, asked, count, here)
  <2>1. Leaves(P, m, count)
    <3>1. Len(m) \in Nat
      BY <1>0, <1>11
    <3> QED
      BY <1>14, <3>1 DEF Leaves
  <2>2. \A i \in 1 .. Len(P) : P[i].has = {"type", "fn", "block"} => Len(m) + i \in here
    BY <1>14
  <2>3. \A i \in 1 .. Len(P) : P[i].at <= count
    BY <1>0, <1>14
  <2>4. \A i \in 1 .. Len(P) : P[i].index = i
    BY <1>14
  <2>5. here \subseteq here /\ count <= count
    BY <1>0
  <2>6. "block" \in m[e].has
    BY <1>5, <1>11 DEF SameKind
  <2> HIDE DEF here
  <2>7. e \in Open \/ m[e].up # 0
    BY <1>16
  <2>8. \/ \A i \in 1 .. Len(P) : P[i].index = 0
        \/ e \notin Open /\ m[e].kids = <<>> /\ \A i \in 1 .. Len(P) : P[i].index = i
    BY <1>11, <1>16, <2>4
  <2> QED
    BY <1>0, <1>9, <1>11, <1>14, <2>1, <2>2, <2>3, <2>5, <2>6, <2>7, <2>8, PushedSane
<1>18. IsPushed(M, m, e, P)
  BY <1>11, <1>14, <1>15, PushedIs
<1> HIDE DEF M
<1>19. /\ Len(M) = l + 2 + n
       /\ SameKind(M[l + 1], m[l + 1]) /\ SameKind(M[e], m[e]) /\ M[e].up = m[e].up
  BY <1>11, <1>14, <1>18 DEF IsPushed
<1>20. M[Top].kids = m[Top].kids
  <2>1. Top \in 1 .. Len(m)
    BY <1>0, <1>1, <1>11 DEF l
  <2>2. \A x \in 1 .. Len(m) : x # e => M[x].kids = m[x].kids
    BY <1>18 DEF IsPushed
  <2> HIDE DEF e
  <2> QED
    BY <1>16, <2>1, <2>2
<1>21. /\ Len(M[e].kids) = n
       /\ \A i \in 1 .. n : M[e].kids[i] = Len(m) + i
  <2>1. Len(m[e].kids) = 0
    BY <1>11
  <2>2. Len(M[e].kids) = Len(m[e].kids) + Len(P)
    BY <1>18 DEF IsPushed
  <2>3. \A i \in 1 .. Len(P) : M[e].kids[Len(m[e].kids) + i] = Len(m) + i
    BY <1>18 DEF IsPushed
  <2>4. n \in Nat /\ Len(P) = n
    BY <1>0, <1>14
  <2> HIDE DEF e
  <2> QED
    BY <2>1, <2>2, <2>3, <2>4
<1>22. \A i \in 1 .. n : SameKind(M[Len(m) + i], P[i])
  BY <1>14, <1>18 DEF IsPushed
<1>23. \A i \in 1 .. n : M[M[e].kids[i]].index = i /\ M[M[e].kids[i]].at = 0 /\ M[M[e].kids[i]].type = 0
  <2> SUFFICES ASSUME NEW i \in 1 .. n
               PROVE  /\ M[M[e].kids[i]].index = i /\ M[M[e].kids[i]].at = 0
                      /\ M[M[e].kids[i]].type = 0
    OBVIOUS
  <2> DEFINE k == Len(m) + i
  <2>1. M[e].kids[i] = k
    BY <1>21
  <2>2. SameKind(M[k], P[i])
    BY <1>22
  <2>3. P[i].index = i /\ P[i].at = 0 /\ P[i].type = 0
    BY <1>14
  <2> HIDE DEF k
  <2>4. M[k].index = i /\ M[k].at = 0 /\ M[k].type = 0
    BY <2>2, <2>3 DEF SameKind
  <2> QED
    BY <2>1, <2>4
<1>24. M[e].type = l + 1 /\ M[M[e].type].arity = n /\ M[e].has = {"type", "fn", "block"}
  <2>1. M[e].type = l + 1 /\ M[e].has = {"type", "fn", "block"}
    BY <1>5, <1>11, <1>19 DEF SameKind
  <2>2. M[l + 1].arity = n
    BY <1>3, <1>11, <1>19 DEF SameKind, IsMade
  <2> QED
    BY <2>1, <2>2
<1>25. Equipped(M, {})
  <2>1. Parametrised(M, e)
    <3>1. \A i \in 1 .. n : M[M[e].kids[i]].index = i
      BY <1>23
    <3> QED
      BY <1>21, <1>24, <3>1 DEF Parametrised
  <2>2. Equipped(M, here)
    BY <1>17 DEF Sane
  <2> QED
    BY <2>1, <2>2 DEF Equipped
<1>26. Sane(M, Open, asked, count, {})
  BY <1>17, <1>25 DEF Sane
<1>27. /\ M[e].up = Top /\ "block" \in M[e].has /\ "param" \notin M[e].has /\ M[e].has # {"block"}
       /\ e \in 1 .. Len(M)
  <2>1. "block" \in M[e].has /\ "param" \notin M[e].has /\ M[e].has # {"block"}
    BY <1>24
  <2>2. e \in 1 .. Len(M)
    BY <1>0, <1>11, <1>19
  <2> QED
    BY <1>11, <1>19, <2>1, <2>2
<1>28. last = Len(M[Top].kids) /\ last > 0 /\ M[Top].kids[last] = e
  BY <1>13, <1>20
<1>29. \A i \in 1 .. Len(M[e].kids) : M[M[e].kids[i]].at = 0 /\ M[M[e].kids[i]].type = 0
  BY <1>21, <1>23
<1> HIDE DEF last, here
<1> QED
  BY <1>2, <1>26, <1>27, <1>28, <1>29, BlockStep

\* One plain entity is the statement of an assignment.
LEMMA OneStatement ==
  ASSUME NEW x, NEW l \in Nat, Plain(x, l)
  PROVE  <<x>> \in Seq(Entity) /\ Statements(<<x>>, l)
<1> DEFINE xs == <<x>>
<1>1. xs \in Seq(Entity) /\ xs # <<>> /\ \A i \in 1 .. Len(xs) : i = 1 /\ xs[i] = x
  BY DEF Plain
<1> HIDE DEF xs
<1>2. \A i \in 1 .. Len(xs) : Plain(xs[i], l + i - 1)
  <2>1. l + 1 - 1 = l
    OBVIOUS
  <2> QED
    BY <1>1, <2>1
<1> QED
  BY <1>1, <1>2 DEF Statements, xs

\* Two plain entities are, the second counted behind the first.
LEMMA TwoStatements ==
  ASSUME NEW x, NEW y, NEW l \in Nat, Plain(x, l), Plain(y, l + 1)
  PROVE  <<x, y>> \in Seq(Entity) /\ Statements(<<x, y>>, l)
<1> DEFINE xs == <<x, y>>
<1>1. /\ xs \in Seq(Entity) /\ xs # <<>>
      /\ \A i \in 1 .. Len(xs) : (i = 1 /\ xs[i] = x) \/ (i = 2 /\ xs[i] = y)
  BY DEF Plain
<1> HIDE DEF xs
<1>2. \A i \in 1 .. Len(xs) : Plain(xs[i], l + i - 1)
  <2>1. l + 1 - 1 = l /\ l + 2 - 1 = l + 1
    OBVIOUS
  <2> QED
    BY <1>1, <2>1
<1> QED
  BY <1>1, <1>2 DEF Statements, xs

\* The module and the stack, after any step of the parser.
LEMMA NextSane ==
  ASSUME Structure, Next
  PROVE  Sane(mod', Open', asked', count', {}) /\ Stacked'
<1> DEFINE l == Len(mod)
           Goal == Sane(mod', Open', asked', count', {}) /\ Stacked'
<1>0. /\ l \in Nat /\ Sane(mod, Open, asked, count, {}) /\ Stacked
      /\ l \in 0 .. l /\ l + 1 \in 0 .. l + 1 /\ l + 1 \in 1 .. l + 1 /\ l + 1 \in Nat
  BY DEF Structure, Sane
<1>1. ASSUME NEW export \in BOOLEAN, NEW x, Plain(x, l), Simple(<<x>>, export)
      PROVE  Goal
  <2>1. <<x>> \in Seq(Entity) /\ Statements(<<x>>, l)
    BY <1>0, <1>1, OneStatement
  <2> QED
    BY <1>1, <2>1, SimpleStep
<1>2. ASSUME NEW export \in BOOLEAN, NEW x, NEW y, Plain(x, l), Plain(y, l + 1),
             Simple(<<x, y>>, export)
      PROVE  Goal
  <2>1. <<x, y>> \in Seq(Entity) /\ Statements(<<x, y>>, l)
    BY <1>0, <1>2, TwoStatements
  <2> QED
    BY <1>2, <2>1, SimpleStep
<1>3. \A n \in Arities : n \in Nat
  BY ParserBounds
<1>4. /\ Plain(Value({}, {Valueless}), l) /\ Plain(Value({"number"}, {Comptime}), l)
      /\ Plain(Value({"string"}, {Comptime}), l) /\ Plain([Blank EXCEPT !.has = {"alias"}], l)
  BY <1>0, PlainValues
<1>5. \A modifier \in Modifiers : Plain(Call(modifier), l)
  BY <1>0, PlainCalls
<1>6. \A modifier \in Modifiers : Plain([Call(modifier) EXCEPT !.type = Len(mod) + 1], l + 1)
  BY <1>0, PlainCalls
<1>7. \A n \in Arities : Plain(FunctionType(n), l)
  <2>1. \A n \in Nat : Plain(FunctionType(n), l)
    <3> SUFFICES ASSUME NEW n \in Nat
                 PROVE  Plain(FunctionType(n), l)
      OBVIOUS
    <3>1. IsMade(FunctionType(n), {"typedef", "inputs", "fn"}, {}, n, 0, 0)
      BY FunctionTypeMade
    <3>2. Form(FunctionType(n))
      BY <3>1 DEF IsMade, Form
    <3>3. "block" \notin {"typedef", "inputs", "fn"} /\ "param" \notin {"typedef", "inputs", "fn"} /\ 0 <= l
      BY <1>0
    <3> QED
      BY <3>1, <3>2, <3>3, MadePlain
  <2> QED
    BY <1>3, <2>1
<1>8. Plain([Value({"fn"}, {}) EXCEPT !.type = Len(mod) + 1], l + 1)
  <2>1. 0 \in Nat
    OBVIOUS
  <2> QED
    BY <1>0, <2>1, PlainFunctions
<1> HIDE DEF l, Goal
<1>9. ASSUME NEW export \in BOOLEAN, AssignNothing(export)
      PROVE  Goal
  BY <1>1, <1>4, <1>9 DEF AssignNothing
<1>10. ASSUME NEW export \in BOOLEAN, AssignNumber(export)
       PROVE  Goal
  BY <1>1, <1>4, <1>10 DEF AssignNumber
<1>11. ASSUME NEW export \in BOOLEAN, AssignString(export)
       PROVE  Goal
  BY <1>1, <1>4, <1>11 DEF AssignString
<1>12. ASSUME NEW export \in BOOLEAN, AssignAlias(export)
       PROVE  Goal
  BY <1>1, <1>4, <1>12 DEF AssignAlias
<1>13. ASSUME NEW export \in BOOLEAN, NEW modifier \in Modifiers, AssignCall(export, modifier)
       PROVE  Goal
  BY <1>1, <1>5, <1>13 DEF AssignCall
<1>14. ASSUME NEW export \in BOOLEAN, NEW modifier \in Modifiers, NEW n \in Arities,
              AssignFunctionCall(export, modifier, n)
       PROVE  Goal
  BY <1>2, <1>6, <1>7, <1>14 DEF AssignFunctionCall
<1>15. ASSUME NEW export \in BOOLEAN, NEW n \in Arities, NEW typed \in BOOLEAN,
              AssignFunctionType(export, n, typed)
       PROVE  Goal
  BY <1>1, <1>7, <1>15 DEF AssignFunctionType
<1>16. ASSUME NEW export \in BOOLEAN, NEW n \in Arities, AssignDeclaration(export, n)
       PROVE  Goal
  BY <1>2, <1>7, <1>8, <1>16 DEF AssignDeclaration
<1>17. ASSUME NEW export \in BOOLEAN, NEW f \in BlockForms, AssignBlock(export, f[1], f[2])
       PROVE  Goal
  BY <1>17, AssignBlockStep DEF Goal
<1>18. ASSUME NEW export \in BOOLEAN, NEW n \in Arities, NEW default \in BOOLEAN,
              AssignFunction(export, n, default)
       PROVE  Goal
  BY <1>18, AssignFunctionStep DEF Goal
<1>19. CASE AssignReserved
  BY <1>19, ReservedStep DEF Goal
<1>20. CASE AssignRejected
  <2>1. /\ Assigning /\ count' = count + 1 /\ mod' = mod /\ builders' = builders
        /\ value' = value /\ asked' = asked /\ value = 0
    BY <1>20 DEF AssignRejected
  <2>2. count \in Nat
    BY DEF Structure, Scalars
  <2>3. Sane(mod, Open, asked, count + 1, {})
    <3>1. Aged(mod, count) /\ \A e \in 1 .. Len(mod) : mod[e].at \in Nat
      BY <1>0, FieldTypes DEF Sane
    <3>2. Aged(mod, count + 1)
      BY <2>2, <3>1 DEF Aged
    <3> QED
      BY <1>0, <3>2 DEF Sane
  <2>4. Open' = Open
    BY <2>1 DEF Open
  <2>5. Stacked'
    <3>1. count + Len(builders) - 1 < MaxAssignments /\ Len(builders) \in Nat /\ MaxAssignments \in Nat
      BY <1>0, <2>1, ParserBounds DEF Assigning, Stacked
    <3>2. count' + Len(builders') - 1 + 0 <= MaxAssignments
      BY <2>1, <2>2, <3>1
    <3> QED
      BY <1>0, <2>1, <3>2 DEF Stacked
  <2> QED
    BY <2>1, <2>3, <2>4, <2>5 DEF Goal
<1>21. CASE BlockStart
  BY <1>21, BlockStartStep DEF Goal
<1>22. CASE BlockEnd
  BY <1>22, BlockEndStep DEF Goal
<1>23. CASE EndOfFile
  <2>1. /\ count' = count /\ mod' = mod /\ builders' = builders
        /\ value' = value /\ asked' = asked
    BY <1>23 DEF EndOfFile
  <2>2. Open' = Open
    BY <2>1 DEF Open
  <2>3. Stacked'
    BY <1>0, <2>1 DEF Stacked
  <2> QED
    BY <1>0, <2>1, <2>2, <2>3 DEF Goal
<1>24. ASSUME NEW export \in BOOLEAN,
              \/ AssignNothing(export)
              \/ AssignNumber(export)
              \/ AssignString(export)
              \/ AssignAlias(export)
              \/ \E modifier \in Modifiers : AssignCall(export, modifier)
              \/ \E modifier \in Modifiers, n \in Arities : AssignFunctionCall(export, modifier, n)
              \/ \E n \in Arities, typed \in BOOLEAN : AssignFunctionType(export, n, typed)
              \/ \E n \in Arities : AssignDeclaration(export, n)
              \/ \E f \in BlockForms : AssignBlock(export, f[1], f[2])
              \/ \E n \in Arities, default \in BOOLEAN : AssignFunction(export, n, default)
       PROVE  Goal
  <2>1. CASE \/ AssignNothing(export) \/ AssignNumber(export)
             \/ AssignString(export) \/ AssignAlias(export)
    BY <1>9, <1>10, <1>11, <1>12, <2>1
  <2>2. CASE \E modifier \in Modifiers : AssignCall(export, modifier)
    BY <1>13, <2>2
  <2>3. CASE \E modifier \in Modifiers, n \in Arities : AssignFunctionCall(export, modifier, n)
    BY <1>14, <2>3
  <2>4. CASE \E n \in Arities, typed \in BOOLEAN : AssignFunctionType(export, n, typed)
    BY <1>15, <2>4, Zenon
  <2>5. CASE \E n \in Arities : AssignDeclaration(export, n)
    BY <1>16, <2>5
  <2>6. CASE \E f \in BlockForms : AssignBlock(export, f[1], f[2])
    BY <1>17, <2>6, Zenon
  <2>7. CASE \E n \in Arities, default \in BOOLEAN : AssignFunction(export, n, default)
    BY <1>18, <2>7, Zenon
  <2> QED
    BY <1>24, <2>1, <2>2, <2>3, <2>4, <2>5, <2>6, <2>7, Zenon
<1> QED
  BY <1>19, <1>20, <1>21, <1>22, <1>23, <1>24, Zenon DEF Next, Goal

\* No step leaves the scalars their ranges.
LEMMA NextScalars ==
  ASSUME Structure, Next
  PROVE  Scalars'
<1>0. /\ errors \in BOOLEAN /\ count \in Nat /\ count + 1 \in Nat
      /\ phase \in {"parsing", "rejected", "verified", "threw"}
  BY DEF Structure, Scalars
<1>1. ASSUME NEW xs, NEW export, Simple(xs, export), errors' \in BOOLEAN
      PROVE  Scalars'
  BY <1>0, <1>1 DEF Simple, Assigned, Scalars
<1>2. ASSUME NEW m, NEW e, NEW export, NEW wants, BlockAssigned(m, e, export, wants)
      PROVE  Scalars'
  BY <1>0, <1>2 DEF BlockAssigned, Assigned, Scalars
<1>3. ASSUME NEW export \in BOOLEAN,
             \/ AssignNothing(export) \/ AssignNumber(export) \/ AssignString(export)
             \/ AssignAlias(export)
             \/ \E modifier \in Modifiers : AssignCall(export, modifier)
             \/ \E modifier \in Modifiers, n \in Arities : AssignFunctionCall(export, modifier, n)
             \/ \E n \in Arities : AssignDeclaration(export, n)
      PROVE  Scalars'
  BY <1>0, <1>1, <1>3 DEF AssignNothing, AssignNumber, AssignString, AssignAlias, AssignCall,
     AssignFunctionCall, AssignDeclaration
<1>4. ASSUME NEW export \in BOOLEAN, NEW n \in Arities, NEW typed \in BOOLEAN,
             AssignFunctionType(export, n, typed)
      PROVE  Scalars'
  <2>1. errors' \in BOOLEAN
    BY <1>0, <1>4, Zenon DEF AssignFunctionType
  <2> QED
    BY <1>1, <1>4, <2>1 DEF AssignFunctionType
<1>5. ASSUME NEW export \in BOOLEAN,
             \/ \E f \in BlockForms : AssignBlock(export, f[1], f[2])
             \/ \E n \in Arities, default \in BOOLEAN : AssignFunction(export, n, default)
      PROVE  Scalars'
  BY <1>2, <1>5, Zenon DEF AssignBlock, AssignFunction
<1>6. ASSUME AssignReserved \/ AssignRejected \/ BlockStart \/ BlockEnd
      PROVE  Scalars'
  BY <1>0, <1>6 DEF AssignReserved, AssignRejected, BlockStart, BlockEnd, Scalars
<1>7. ASSUME EndOfFile
      PROVE  Scalars'
  BY <1>0, <1>7 DEF EndOfFile, Scalars
<1> QED
  BY <1>3, <1>4, <1>5, <1>6, <1>7 DEF Next

\* The module of a file that was just opened: the root block, open and empty.
LEMMA InitStructure ==
  ASSUME Init
  PROVE  Structure
<1> DEFINE x == [Blank EXCEPT !.has = {"block"}]
<1>1. /\ mod = <<x>> /\ builders = <<Root>> /\ value = 0 /\ errors = FALSE
      /\ phase = "parsing" /\ count = 0 /\ asked = {}
  BY DEF Init
<1>2. IsMade(x, {"block"}, {}, 0, 0, 0) /\ x.up = 0
  <2>1. {"block"} \in SUBSET Components
    BY DEF Components
  <2>2. x.up = 0
    BY DEF Blank
  <2> QED
    BY <2>1, <2>2, PlainMade
<1> HIDE DEF x
<1>3. /\ x \in Entity /\ x.kids = <<>> /\ x.at = 0 /\ x.type = 0
      /\ x.has = {"block"} /\ x.flags = {}
  BY <1>2 DEF IsMade
<1>4. mod \in Seq(Entity) /\ Len(mod) = 1 /\ \A e \in 1 .. Len(mod) : e = 1 /\ mod[e] = x
  BY <1>1, <1>3
<1>5. Range(builders) = {Root} /\ Open = {Root}
  <2>1. Range(builders) = {Root}
    BY <1>1 DEF Range
  <2> QED
    BY <1>1, <2>1 DEF Open
<1>6. Linked(mod)
  BY <1>2, <1>3, <1>4 DEF Linked
<1>7. Listed(mod)
  BY <1>3, <1>4 DEF Listed
<1>8. Aged(mod, count)
  BY <1>1, <1>3, <1>4 DEF Aged
<1>9. Formed(mod, asked)
  BY <1>2, <1>3, <1>4 DEF Formed
<1>10. Equipped(mod, {})
  BY <1>2, <1>4 DEF Equipped
<1>11. Hanging(mod, Open)
  BY <1>2, <1>3, <1>4, <1>5 DEF Hanging, Root
<1>12. Emptied(mod, Open, asked)
  BY <1>3, <1>4 DEF Emptied
<1>13. Stacked
  BY <1>1, <1>5, ParserBounds DEF Stacked, Root
<1>14. Scalars
  BY <1>1 DEF Scalars
<1> QED
  BY <1>4, <1>6, <1>7, <1>8, <1>9, <1>10, <1>11, <1>12, <1>13, <1>14 DEF Structure, Sane

\* Structure holds in every reachable state, for every file, any arities, modifiers
\* and bounds.
LEMMA StructureInvariant == Spec => []Structure
<1>1. Structure /\ [Next]_vars => Structure'
  <2> SUFFICES ASSUME Structure, [Next]_vars
               PROVE  Structure'
    OBVIOUS
  <2>1. CASE Next
    <3>1. Sane(mod', Open', asked', count', {}) /\ Stacked' /\ Scalars'
      BY <2>1, NextSane, NextScalars
    <3> QED
      BY <3>1 DEF Structure
  <2>2. CASE UNCHANGED vars
    BY <2>2 DEF vars, Structure, Stacked, Scalars, Open
  <2> QED
    BY <2>1, <2>2
<1> QED
  BY <1>1, InitStructure, PTL DEF Spec

\* The parser never makes an entity that names one it has not made, and its stack
\* of builders never runs empty.
THEOREM TypeCorrect == Spec => []TypeOK
<1>1. Structure => TypeOK
  <2> SUFFICES ASSUME Structure
               PROVE  TypeOK
    OBVIOUS
  <2>1. /\ mod \in Seq(Entity) /\ Linked(mod) /\ Hanging(mod, Open) /\ Stacked /\ Scalars
        /\ DOMAIN mod = 1 .. Len(mod)
    BY DEF Structure, Sane
  <2>2. ASSUME NEW e \in 1 .. Len(mod)
        PROVE  /\ mod[e].up \in {0} \cup 1 .. Len(mod)
               /\ Range(mod[e].kids) \subseteq 1 .. Len(mod)
               /\ mod[e].flags \subseteq 1 .. 11
    <3>1. mod[e].kids \in Seq(Nat) /\ mod[e].flags \subseteq 1 .. 11
      BY <2>1, FieldTypes
    <3>2. Range(mod[e].kids) = { mod[e].kids[i] : i \in 1 .. Len(mod[e].kids) }
      BY <3>1, RangeEquality
    <3>3. Range(mod[e].kids) \subseteq 1 .. Len(mod)
      BY <2>1, <3>2 DEF Linked
    <3>4. mod[e].up \in {0} \cup 1 .. Len(mod)
      BY <2>1 DEF Linked
    <3> QED
      BY <3>1, <3>3, <3>4
  <2>3. /\ builders # <<>> /\ Range(builders) \subseteq 1 .. Len(mod)
        /\ value \in {0} \cup 1 .. Len(mod)
    BY <2>1 DEF Stacked, Hanging, Open
  <2>4. count \in 0 .. MaxAssignments
    <3>1. Len(builders) \in Nat /\ Len(builders) >= 1 /\ count \in Nat /\ MaxAssignments \in Nat
      BY <2>1, ParserBounds DEF Stacked, Scalars
    <3>2. count + Len(builders) - 1 <= MaxAssignments
      <4>1. CASE value = 0
        BY <2>1, <3>1, <4>1 DEF Stacked
      <4>2. CASE value # 0
        BY <2>1, <3>1, <4>2 DEF Stacked
      <4> QED
        BY <4>1, <4>2
    <3> QED
      BY <3>1, <3>2
  <2>5. errors \in BOOLEAN /\ phase \in {"parsing", "rejected", "verified", "threw"}
    BY <2>1 DEF Scalars
  <2> QED
    BY <2>1, <2>2, <2>3, <2>4, <2>5, Zenon DEF TypeOK, Entities
<1> QED
  BY <1>1, StructureInvariant, PTL

\* Whatever is pushed and moved, no entity is in two blocks or twice in one, its
\* parent is the block that lists it, and nothing parsed is lost: what has no
\* parent is the root, an open block, an emptied one, or one the file gave to the
\* reserved namespace (block_builder::push_common and move_existing).
THEOREM NothingTwice == Spec => []OnePlace
<1>1. Structure => OnePlace
  <2> SUFFICES ASSUME Structure
               PROVE  OnePlace
    OBVIOUS
  <2>1. /\ mod \in Seq(Entity) /\ Linked(mod) /\ Listed(mod) /\ Emptied(mod, Open, asked)
        /\ DOMAIN mod = 1 .. Len(mod)
    BY DEF Structure, Sane
  <2>2. \A b \in 1 .. Len(mod) : /\ mod[b].kids \in Seq(Nat)
                                  /\ DOMAIN mod[b].kids = 1 .. Len(mod[b].kids)
                                  /\ Len(mod[b].kids) \in Nat
    BY <2>1, FieldTypes
  <2>3. ASSUME NEW e \in 1 .. Len(mod), mod[e].up = 0
        PROVE  /\ \A b \in 1 .. Len(mod) : e \notin Range(mod[b].kids)
               /\ e # Root /\ e \notin Open /\ <<e, "ignored">> \notin asked => mod[e].kids = <<>>
    <3>1. ASSUME NEW b \in 1 .. Len(mod)
          PROVE  e \notin Range(mod[b].kids)
      <4>1. Range(mod[b].kids) = { mod[b].kids[i] : i \in 1 .. Len(mod[b].kids) }
        BY <2>2, RangeEquality
      <4> QED
        BY <2>1, <2>3, <4>1 DEF Linked
    <3> QED
      BY <2>1, <2>3, <3>1 DEF Emptied
  <2>4. ASSUME NEW e \in 1 .. Len(mod), mod[e].up # 0, NEW b \in 1 .. Len(mod)
        PROVE  Cardinality({ i \in DOMAIN mod[b].kids : mod[b].kids[i] = e })
                 = IF b = mod[e].up THEN 1 ELSE 0
    <3> DEFINE places == { i \in DOMAIN mod[b].kids : mod[b].kids[i] = e }
    <3>1. CASE b = mod[e].up
      <4>1. PICK i \in 1 .. Len(mod[b].kids) : mod[b].kids[i] = e
        BY <2>1, <2>4, <3>1 DEF Linked
      <4>2. ASSUME NEW j \in 1 .. Len(mod[b].kids), mod[b].kids[j] = e
            PROVE  j = i
        <5>1. ~(i < j)
          BY <2>1, <4>1, <4>2 DEF Listed, Before
        <5>2. ~(j < i)
          BY <2>1, <4>1, <4>2 DEF Listed, Before
        <5> QED
          BY <2>2, <5>1, <5>2
      <4>3. places = {i}
        BY <2>2, <4>1, <4>2
      <4> QED
        BY <3>1, <4>3, FS_Singleton
    <3>2. CASE b # mod[e].up
      <4>1. places = {}
        BY <2>1, <2>2, <3>2 DEF Linked
      <4> QED
        BY <3>2, <4>1, FS_EmptySet
    <3> QED
      BY <3>1, <3>2
  <2>5. Entities = 1 .. Len(mod)
    BY <2>1 DEF Entities
  <2>6. ASSUME NEW e \in Entities
        PROVE  IF mod[e].up = 0
               THEN /\ \A b \in Entities : e \notin Range(mod[b].kids)
                    /\ e # Root /\ e \notin Open /\ <<e, "ignored">> \notin asked
                         => mod[e].kids = <<>>
               ELSE \A b \in Entities :
                      Cardinality({ i \in DOMAIN mod[b].kids : mod[b].kids[i] = e })
                        = IF b = mod[e].up THEN 1 ELSE 0
    <3>1. CASE mod[e].up = 0
      BY <2>3, <2>5, <3>1
    <3>2. CASE mod[e].up # 0
      BY <2>4, <2>5, <3>2, Zenon
    <3> QED
      BY <3>1, <3>2
  <2> QED
    BY <2>6 DEF OnePlace
<1> QED
  BY <1>1, StructureInvariant, PTL

\* Every block lists its statements in the order of the file, functions behind their
\* types and parameters in front of everything, also when the block was built
\* before the entity that owns it (parser.cpp 200-223).
THEOREM InFileOrder == Spec => []FileOrder
<1>1. Structure => FileOrder
  <2> SUFFICES ASSUME Structure
               PROVE  FileOrder
    OBVIOUS
  <2>1. mod \in Seq(Entity) /\ Listed(mod) /\ DOMAIN mod = 1 .. Len(mod)
    BY DEF Structure, Sane
  <2>2. \A b \in 1 .. Len(mod) : DOMAIN mod[b].kids = 1 .. Len(mod[b].kids)
    BY <2>1, FieldTypes
  <2>3. ASSUME NEW b \in 1 .. Len(mod), NEW i \in 1 .. Len(mod[b].kids),
               NEW j \in 1 .. Len(mod[b].kids), i < j
        PROVE  /\ mod[mod[b].kids[i]].at # 0 /\ mod[mod[b].kids[j]].at # 0 =>
                    mod[mod[b].kids[i]].at < mod[mod[b].kids[j]].at
               /\ mod[mod[b].kids[j]].index # 0 =>
                    /\ mod[mod[b].kids[i]].index # 0
                    /\ mod[mod[b].kids[i]].index < mod[mod[b].kids[j]].index
               /\ mod[mod[b].kids[i]].type # mod[b].kids[j]
    BY <2>1, <2>3 DEF Listed, Before
  <2> QED
    BY <2>1, <2>2, <2>3 DEF FileOrder, Entities
<1> QED
  BY <1>1, StructureInvariant, PTL

(***************************************************************************)
(* verify::structure on the modules the parser builds: the rules Verify    *)
(* states are met by every form the semantic actions give an entity, but   *)
(* for what an export overwrote.  The walk below the root is a recursive   *)
(* function; that it exists, and what it reaches, is shown with the least- *)
(* number principle.                                                       *)
(***************************************************************************)

\* The walk of verify::structure to depth d, from the walk to the depth before.
Row(m, row, d) ==
  [e \in DOMAIN m |-> {e} \cup IF d = 0 THEN {} ELSE UNION { row[k] : k \in Range(m[e].kids) }]

\* F is the recursive function of Broken, up to depth n.
Walk(m, F, n) == F = [d \in 0 .. n |-> Row(m, F[d - 1], d)]

\* And the one Broken speaks of.
Below(m) == CHOOSE F : Walk(m, F, Len(m))

\* The entities verify::structure reaches below the root, with a broken rule.
LEMMA BrokenBelow ==
  ASSUME NEW m, NEW root
  PROVE  Broken(m, root) =
           { e \in Below(m)[Len(m)][root] : KindBroken(m, m[e], e = root) \/ LinksBroken(m, e) }
BY DEF Broken, Below, Walk, Row

\* The recursive function the walk is written with exists.
LEMMA FirstWalk ==
  ASSUME NEW m
  PROVE  \E F : Walk(m, F, 0)
<1> DEFINE F == [d \in 0 .. 0 |-> Row(m, <<>>, 0)]
<1>1. Row(m, F[0 - 1], 0) = Row(m, <<>>, 0)
  BY DEF Row
<1>2. F = [d \in 0 .. 0 |-> Row(m, F[d - 1], d)]
  <2> HIDE DEF F
  <2>1. F = [d \in 0 .. 0 |-> Row(m, F[d - 1], d)]
    BY <1>1 DEF F
  <2> QED
    BY <2>1
<1> QED
  BY <1>2 DEF Walk

\* A walk to depth n is continued to depth n + 1.
LEMMA NextWalk ==
  ASSUME NEW m, NEW n \in Nat, NEW F, Walk(m, F, n)
  PROVE  \E G : Walk(m, G, n + 1)
<1> DEFINE G == [d \in 0 .. n + 1 |-> IF d = n + 1 THEN Row(m, F[n], n + 1) ELSE F[d]]
<1>1. \A d \in 0 .. n : F[d] = Row(m, F[d - 1], d)
  BY DEF Walk
<1>2. ASSUME NEW d \in 0 .. n + 1
      PROVE  G[d] = Row(m, G[d - 1], d)
  <2>1. CASE d = 0
    BY <1>1, <2>1 DEF Row
  <2>2. CASE d # 0
    <3>1. d - 1 \in 0 .. n /\ d - 1 \in 0 .. n + 1 /\ d - 1 # n + 1
      BY <2>2
    <3>2. G[d - 1] = F[d - 1]
      BY <3>1
    <3> QED
      BY <1>1, <3>1, <3>2
  <2> QED
    BY <2>1, <2>2
<1>3. Walk(m, G, n + 1)
  <2>1. G = [d \in 0 .. n + 1 |-> G[d]]
    OBVIOUS
  <2> HIDE DEF G
  <2> QED
    BY <1>2, <2>1 DEF Walk
<1> QED
  BY <1>3

\* The function Broken chooses satisfies its own equation: the walk exists to every
\* depth, or there would be a least depth without one.
LEMMA BelowWalk ==
  ASSUME NEW m, Len(m) \in Nat
  PROVE  \A d \in 0 .. Len(m) : Below(m)[d] = Row(m, Below(m)[d - 1], d)
<1> DEFINE S == { n \in Nat : ~ \E F : Walk(m, F, n) }
<1>1. S = {}
  <2> SUFFICES ASSUME S # {}
               PROVE  FALSE
    OBVIOUS
  <2>1. PICK n \in S : \A k \in S : n <= k
    BY LeastNumber
  <2>2. n # 0
    BY FirstWalk
  <2>3. n - 1 \in Nat /\ n - 1 \notin S /\ (n - 1) + 1 = n
    BY <2>1, <2>2
  <2>4. PICK F : Walk(m, F, n - 1)
    BY <2>3
  <2>5. \E G : Walk(m, G, n)
    BY <2>3, <2>4, NextWalk
  <2> QED
    BY <2>5
<1>2. \E F : Walk(m, F, Len(m))
  BY <1>1
<1>3. Walk(m, Below(m), Len(m))
  BY <1>2 DEF Below
<1> QED
  BY <1>3 DEF Walk

\* The walk stays in the module, and below the root it only meets entities with
\* a parent.
LEMMA BelowLinked ==
  ASSUME NEW m \in Seq(Entity), Linked(m), NEW root \in 1 .. Len(m),
         NEW e \in Below(m)[Len(m)][root]
  PROVE  e \in 1 .. Len(m) /\ (e = root \/ m[e].up # 0)
<1> DEFINE l == Len(m)
           B == Below(m)
           S == { d \in 0 .. l : \E r \in 1 .. l : \E x \in B[d][r] :
                                    ~(x \in 1 .. l /\ (x = r \/ m[x].up # 0)) }
<1>0. l \in Nat /\ DOMAIN m = 1 .. l
  OBVIOUS
<1>1. \A d \in 0 .. l : B[d] = Row(m, B[d - 1], d)
  BY <1>0, BelowWalk
<1>2. \A r \in 1 .. l : /\ Range(m[r].kids) \subseteq 1 .. l
                        /\ \A k \in Range(m[r].kids) : m[k].up = r
  <2> SUFFICES ASSUME NEW r \in 1 .. l
               PROVE  /\ Range(m[r].kids) \subseteq 1 .. l
                      /\ \A k \in Range(m[r].kids) : m[k].up = r
    OBVIOUS
  <2>1. m[r].kids \in Seq(Nat)
    BY FieldTypes
  <2>2. Range(m[r].kids) = { m[r].kids[i] : i \in 1 .. Len(m[r].kids) }
    BY <2>1, RangeEquality
  <2> QED
    BY <2>2 DEF Linked
<1> HIDE DEF l, B
<1>3. S = {}
  <2> SUFFICES ASSUME S # {}
               PROVE  FALSE
    OBVIOUS
  <2>1. PICK d \in S : \A k \in S : d <= k
    <3>1. S \in SUBSET Nat
      BY <1>0
    <3> QED
      BY <3>1, LeastNumber
  <2>11. PICK r \in 1 .. l : \E x \in B[d][r] : ~(x \in 1 .. l /\ (x = r \/ m[x].up # 0))
    BY <2>1
  <2>2. PICK x \in B[d][r] : ~(x \in 1 .. l /\ (x = r \/ m[x].up # 0))
    BY <2>11
  <2>3. d \in 0 .. l
    BY <2>1
  <2>4. B[d][r] = {r} \cup IF d = 0 THEN {} ELSE UNION { B[d - 1][k] : k \in Range(m[r].kids) }
    <3>1. B[d] = Row(m, B[d - 1], d)
      BY <1>1, <2>3
    <3>2. DOMAIN m = 1 .. l
      BY <1>0
    <3> QED
      BY <3>1, <3>2 DEF Row
  <2>5. x # r
    BY <2>2
  <2>6. d # 0
    BY <2>2, <2>4, <2>5
  <2>7. PICK k \in Range(m[r].kids) : x \in B[d - 1][k]
    BY <2>2, <2>4, <2>5, <2>6
  <2>8. d - 1 \in 0 .. l /\ d - 1 \notin S
    BY <1>0, <2>1, <2>3, <2>6
  <2>9. k \in 1 .. l /\ m[k].up = r /\ r # 0
    BY <1>2, <2>2, <2>7
  <2>10. x \in 1 .. l /\ (x = k \/ m[x].up # 0)
    BY <2>7, <2>8, <2>9
  <2> QED
    BY <2>2, <2>9, <2>10
<1>4. l \in 0 .. l /\ l \notin S
  BY <1>0, <1>3
<1>5. e \in B[l][root] /\ root \in 1 .. l
  BY DEF B, l
<1> QED
  BY <1>4, <1>5 DEF l

\* Which rules look at an entity.
LEMMA ValueKind ==
  ASSUME NEW m, NEW x, NEW top, "type" \in x.has, KindBroken(m, x, top)
  PROVE  ValueBroken(m, x)
BY DEF KindBroken, Has

\* The rules of a type definition are those of verify::type.
LEMMA TypeKind ==
  ASSUME NEW m, NEW x, NEW top, "type" \notin x.has, "typedef" \in x.has, KindBroken(m, x, top)
  PROVE  TypeBroken(x)
BY DEF KindBroken, Has

\* The rules of a namespace are those of verify::namespace.
LEMMA NamespaceKind ==
  ASSUME NEW m, NEW x, NEW top, x.has \cap {"type", "typedef"} = {}, Namespace \in x.flags,
         KindBroken(m, x, top)
  PROVE  NamespaceBroken(x)
<1>1. "type" \notin x.has /\ "typedef" \notin x.has
  OBVIOUS
<1> QED
  BY <1>1 DEF KindBroken, Has

\* The rules of an alias are those of verify::alias.
LEMMA AliasKind ==
  ASSUME NEW m, NEW x, NEW top, x.has = {"alias"}, Namespace \notin x.flags, KindBroken(m, x, top)
  PROVE  AliasBroken(x)
<1>1. "type" \notin x.has /\ "typedef" \notin x.has /\ x.has \cap {"type", "typedef"} = {}
      /\ "alias" \in x.has
  OBVIOUS
<1>2. x.has \cap {"type", "typedef", "alias"} # {}
  OBVIOUS
<1> QED
  BY <1>1, <1>2 DEF KindBroken, Has

\* A block without any of these must be the top one.
LEMMA BlockKind ==
  ASSUME NEW m, NEW x, NEW top, x.has = {"block"}, Namespace \notin x.flags, KindBroken(m, x, top)
  PROVE  PlainBlockBroken(x, top)
<1>1. /\ "type" \notin x.has /\ "typedef" \notin x.has /\ "alias" \notin x.has /\ "block" \in x.has
      /\ x.has \cap {"type", "typedef", "alias"} = {}
  OBVIOUS
<1> QED
  BY <1>1 DEF KindBroken, Has

\* One value, or a function with its block.
LEMMA Valued ==
  ASSUME NEW x, NEW values, values = (x.has \cap Exclusive) \cup (x.flags \cap {Valueless}),
         values = {"fn", "block"} \/ \E v : values = {v}
  PROVE  OneValue(x)
<1>1. CASE \E v : values = {v}
  BY <1>1, FS_Singleton DEF OneValue
<1> QED
  BY <1>1 DEF OneValue

\* The flags the forms can have are not those some rule forbids.
LEMMA Unflagged ==
  ASSUME NEW flags \in {{}, {Comptime}, {Export}, {Valueless}}
  PROVE  Constant \notin flags /\ Flatten \notin flags /\ flags \cap {Inline, Pure, TailCall} = {}
BY DEF Constant, Flatten, Inline, Pure, TailCall, Comptime, Export, Valueless

\* A value without a call or a function.
LEMMA DataFits ==
  ASSUME NEW m, NEW x, NEW top, NEW v, "type" \in x.has,
         x.has \cap {"pointer", "typedef", "alias", "call", "fn"} = {},
         x.flags \in {{}, {Comptime}, {Export}, {Valueless}},
         (x.has \cap Exclusive) \cup (x.flags \cap {Valueless}) = {v}
  PROVE  ~KindBroken(m, x, top)
<1>1. OneValue(x)
  BY Valued
<1>2. Constant \notin x.flags /\ Flatten \notin x.flags /\ x.flags \cap {Inline, Pure, TailCall} = {}
  BY Unflagged
<1>3. x.has \cap {"pointer", "typedef", "alias"} = {} /\ "fn" \notin x.has
  OBVIOUS
<1>4. ~ValueBroken(m, x)
  BY <1>1, <1>2, <1>3 DEF ValueBroken, Has
<1> QED
  BY <1>4, ValueKind

\* A function has as many parameters as its type has inputs.
LEMMA AllAssociated ==
  ASSUME NEW m \in Seq(Entity), NEW e \in 1 .. Len(m), NEW n \in Nat,
         \A i \in 1 .. n : \E k \in 1 .. Len(m[e].kids) : m[m[e].kids[k]].index = i
  PROVE  Associated(m, m[e], n) = n
<1>1. m[e].kids \in Seq(Nat)
  BY FieldTypes
<1>2. Range(m[e].kids) = { m[e].kids[k] : k \in 1 .. Len(m[e].kids) }
  BY <1>1, RangeEquality
<1>3. \A i \in 1 .. n : \E k \in Range(m[e].kids) : m[k].index = i
  BY <1>2
<1>4. { i \in 1 .. n : \E k \in Range(m[e].kids) : m[k].index = i } = 1 .. n
  BY <1>3
<1>5. Cardinality(1 .. n) = n
  BY UpTo
<1> QED
  BY <1>4, <1>5 DEF Associated

\* The two forms of entities that verify::structure throws for: what an
\* export has taken Valueless or Namespace from.
LEMMA FormFits ==
  ASSUME NEW m \in Seq(Entity), NEW e \in 1 .. Len(m), NEW n, NEW top,
         Aged(m, n), Form(m[e]), Parametrised(m, e), KindBroken(m, m[e], top)
  PROVE  m[e].flags = {Export} /\ (m[e].has = {"type"} \/ m[e].has = {"block"})
<1> DEFINE x == m[e]
           Goal == x.flags = {Export} /\ (x.has = {"type"} \/ x.has = {"block"})
<1>0. x \in Entity
  OBVIOUS
<1>1. CASE x.has = {"type"} /\ x.flags \in {{Valueless}, {Export}}
  <2>1. CASE x.flags = {Valueless}
    <3>1. (x.has \cap Exclusive) \cup (x.flags \cap {Valueless}) = {Valueless}
      BY <1>1, <2>1 DEF Exclusive
    <3>2. /\ "type" \in x.has /\ x.has \cap {"pointer", "typedef", "alias", "call", "fn"} = {}
          /\ x.flags \in {{}, {Comptime}, {Export}, {Valueless}}
      BY <1>1, <2>1
    <3> QED
      BY <3>1, <3>2, DataFits
  <2> QED
    BY <1>1, <2>1
<1>2. ASSUME NEW v \in {"number", "string", "block"}, x.has = {"type", v},
             x.flags \in {{}, {Comptime}, {Export}}
      PROVE  Goal
  <2>1. (x.has \cap Exclusive) \cup (x.flags \cap {Valueless}) = {v}
    <3>1. Valueless \notin x.flags
      BY <1>2 DEF Valueless, Comptime, Export
    <3>2. v \in Exclusive /\ "type" \notin Exclusive
      BY DEF Exclusive
    <3> HIDE DEF x
    <3> QED
      BY <1>2, <3>1, <3>2
  <2>2. /\ "type" \in x.has /\ x.has \cap {"pointer", "typedef", "alias", "call", "fn"} = {}
        /\ x.flags \in {{}, {Comptime}, {Export}, {Valueless}}
    BY <1>2
  <2> HIDE DEF x
  <2> QED
    BY <2>1, <2>2, DataFits DEF x
<1>3. CASE x.has = {"alias"} /\ x.flags \in {{}, {Export}}
  <2>1. Namespace \notin x.flags
    BY <1>3 DEF Namespace, Export
  <2>2. AliasBroken(x)
    BY <1>3, <2>1, AliasKind
  <2>3. x.has \cap {"pointer", "fn", "inputs", "param", "block", "number", "string", "call"} = {}
    BY <1>3
  <2> QED
    BY <1>3, <2>2, <2>3 DEF AliasBroken
<1>4. CASE x.has = {"type", "call", "inputs"} /\ x.flags \in {{}, {Flatten}, {Inline}, {TailCall}, {Export}}
  <2>1. Valueless \notin x.flags /\ Constant \notin x.flags
    BY <1>4 DEF Valueless, Constant, Flatten, Inline, TailCall, Export
  <2>2. (x.has \cap Exclusive) \cup (x.flags \cap {Valueless}) = {"call"}
    BY <1>4, <2>1 DEF Exclusive
  <2>3. OneValue(x)
    BY <2>2, Valued
  <2>4. /\ "type" \in x.has /\ x.has \cap {"pointer", "typedef", "alias"} = {}
        /\ x.has \cap {"call", "fn"} # {} /\ "fn" \notin x.has
    BY <1>4
  <2>5. ValueBroken(m, x)
    BY <2>4, ValueKind
  <2> QED
    BY <2>1, <2>3, <2>4, <2>5 DEF ValueBroken, Has
<1>5. CASE x.has \in {{"typedef", "inputs", "fn"}, {"typedef", "block"}} /\ x.flags \in {{}, {Export}}
  <2>1. /\ "type" \notin x.has /\ "typedef" \in x.has
        /\ x.has \cap {"block", "fn", "pointer"} # {}
        /\ x.has \cap {"param", "alias", "number", "string", "call"} = {}
    BY <1>5
  <2>2. x.flags \cap {Valueless, Namespace} = {}
    BY <1>5 DEF Valueless, Namespace, Export
  <2>3. TypeBroken(x)
    BY <2>1, TypeKind
  <2> QED
    BY <2>1, <2>2, <2>3 DEF TypeBroken
<1>6. CASE x.has = {"block"} /\ x.flags \in {{Namespace}, {Export}}
  <2>1. CASE x.flags = {Namespace}
    <3>1. /\ x.has \cap {"type", "typedef"} = {} /\ Namespace \in x.flags /\ "block" \in x.has
          /\ x.has \cap {"pointer", "fn", "inputs", "param", "alias", "number", "string", "call"} = {}
          /\ x.flags \ {Namespace} = {}
      BY <1>6, <2>1
    <3>2. NamespaceBroken(x)
      BY <3>1, NamespaceKind
    <3> QED
      BY <3>1, <3>2 DEF NamespaceBroken, Has
  <2> QED
    BY <1>6, <2>1
<1>7. CASE /\ x.has \in {{"type", "fn"}, {"type", "fn", "block"}}
           /\ x.flags \in {{}, {Export}} /\ x.type # 0
  <2>1. Valueless \notin x.flags /\ Constant \notin x.flags
    BY <1>7 DEF Valueless, Constant, Export
  <2>2. (x.has \cap Exclusive) \cup (x.flags \cap {Valueless}) \in {{"fn"}, {"fn", "block"}}
    BY <1>7, <2>1 DEF Exclusive
  <2>3. OneValue(x)
    BY <2>2, Valued
  <2>4. /\ "type" \in x.has /\ x.has \cap {"pointer", "typedef", "alias"} = {}
        /\ x.has \cap {"call", "fn"} # {} /\ "call" \notin x.has
    BY <1>7
  <2>5. "block" \in x.has => Associated(m, x, m[x.type].arity) = m[x.type].arity
    <3>1. SUFFICES ASSUME "block" \in x.has
                   PROVE  Associated(m, x, m[x.type].arity) = m[x.type].arity
      OBVIOUS
    <3>2. x.has = {"type", "fn", "block"}
      BY <1>7, <3>1
    <3>3. x.type \in 1 .. Len(m)
      <4>1. x.type \in Nat /\ x.type < e /\ Len(m) \in Nat
        BY <1>0, FieldTypes DEF Aged
      <4> QED
        BY <1>7, <4>1
    <3>4. m[x.type].arity \in Nat
      BY <3>3, FieldTypes
    <3> QED
      BY <3>2, <3>4, AllAssociated DEF Parametrised
  <2>6. ValueBroken(m, x)
    BY <2>4, ValueKind
  <2> QED
    BY <1>7, <2>1, <2>3, <2>4, <2>5, <2>6 DEF ValueBroken, Has
<1>8. CASE x.has = {"type", "param"} /\ x.flags = {Valueless}
  <2>1. (x.has \cap Exclusive) \cup (x.flags \cap {Valueless}) = {Valueless}
    BY <1>8 DEF Exclusive
  <2>2. /\ "type" \in x.has /\ x.has \cap {"pointer", "typedef", "alias", "call", "fn"} = {}
        /\ x.flags \in {{}, {Comptime}, {Export}, {Valueless}}
    BY <1>8
  <2> QED
    BY <2>1, <2>2, DataFits
<1>9. CASE x.has = {"type", "param", "number"} /\ x.flags = {Comptime}
  <2>1. (x.has \cap Exclusive) \cup (x.flags \cap {Valueless}) = {"number"}
    BY <1>9 DEF Exclusive, Valueless, Comptime
  <2>2. /\ "type" \in x.has /\ x.has \cap {"pointer", "typedef", "alias", "call", "fn"} = {}
        /\ x.flags \in {{}, {Comptime}, {Export}, {Valueless}}
    BY <1>9
  <2> QED
    BY <2>1, <2>2, DataFits
<1>10. CASE x.has \in {{"type", "number"}, {"type", "string"}} /\ x.flags \in {{Comptime}, {Export}}
  BY <1>2, <1>10
<1>11. CASE x.has = {"type", "block"} /\ x.flags \in {{}, {Comptime}, {Export}}
  BY <1>2, <1>11
<1> QED
  BY <1>1, <1>3, <1>4, <1>5, <1>6, <1>7, <1>8, <1>9, <1>10, <1>11 DEF Form

\* Parents and children of a linked module name each other.
LEMMA LinksFit ==
  ASSUME NEW m \in Seq(Entity), Linked(m), Listed(m), NEW A, Formed(m, A), NEW e \in 1 .. Len(m)
  PROVE  ~LinksBroken(m, e)
<1> DEFINE ks == m[e].kids
<1>1. \A b \in 1 .. Len(m) : /\ m[b].kids \in Seq(Nat)
                              /\ Range(m[b].kids) = { m[b].kids[i] : i \in 1 .. Len(m[b].kids) }
  BY FieldTypes, RangeEquality
<1>2. ASSUME m[e].up # 0
      PROVE  "block" \in m[m[e].up].has /\ e \in Range(m[m[e].up].kids)
  <2> DEFINE b == m[e].up
  <2>1. b \in 1 .. Len(m) /\ \E i \in 1 .. Len(m[b].kids) : m[b].kids[i] = e
    BY <1>2 DEF Linked
  <2>2. Range(m[b].kids) = { m[b].kids[i] : i \in 1 .. Len(m[b].kids) }
    BY <1>1, <2>1
  <2>3. "block" \in m[b].has
    BY <1>2 DEF Formed
  <2> HIDE DEF b
  <2>4. e \in Range(m[b].kids)
    BY <2>1, <2>2
  <2> QED
    BY <2>3, <2>4 DEF b
<1>3. ASSUME NEW k \in Range(ks)
      PROVE  m[k].up = e
  <2>1. Range(ks) = { ks[i] : i \in 1 .. Len(ks) }
    BY <1>1
  <2>2. \A i \in 1 .. Len(ks) : m[ks[i]].up = e
    BY DEF Linked
  <2> HIDE DEF ks
  <2> QED
    BY <1>3, <2>1, <2>2
<1>4. Cardinality(Range(ks)) = Len(ks)
  <2>1. ks \in Seq(Nat) /\ Len(ks) \in Nat
    BY <1>1
  <2>2. \A i, j \in 1 .. Len(ks) : i < j => ks[i] # ks[j]
    BY DEF Listed, Before
  <2> HIDE DEF ks
  <2>3. ASSUME NEW i \in 1 .. Len(ks), NEW j \in 1 .. Len(ks), ks[i] = ks[j]
        PROVE  i = j
    BY <2>1, <2>2, <2>3
  <2>4. ks \in Bijection(1 .. Len(ks), Range(ks))
    <3>1. ks \in [1 .. Len(ks) -> Range(ks)]
      BY <2>1 DEF Range
    <3>2. \A x \in Range(ks) : \E i \in 1 .. Len(ks) : ks[i] = x
      BY <2>1 DEF Range
    <3> QED
      BY <2>3, <3>1, <3>2, Fun_IsBij
  <2>5. IsFiniteSet(1 .. Len(ks)) /\ Cardinality(1 .. Len(ks)) = Len(ks)
    BY <2>1, UpTo
  <2>6. ExistsBijection(1 .. Len(ks), Range(ks))
    BY <2>4 DEF ExistsBijection
  <2> QED
    BY <2>5, <2>6, FS_Bijection
<1> QED
  BY <1>2, <1>3, <1>4 DEF LinksBroken, Has

\* verify::structure throws on a parsed module only when the file exports a
\* value-less value or a namespace: the export took the flag the rules want
\* (parser.cpp 252).  Everything else the grammar can nest, at any depth and with
\* any number of parameters, satisfies every rule.
THEOREM ThrowsForExports == Spec => []ThrowsOnlyFor
<1>1. Init => ThrowsOnlyFor
  BY DEF Init, ThrowsOnlyFor
<1>2. ASSUME Structure, ThrowsOnlyFor, [Next]_vars
      PROVE  ThrowsOnlyFor'
  <2> SUFFICES ASSUME phase' = "threw"
               PROVE  \E e \in DOMAIN mod' : /\ <<e, "exported">> \in asked'
                                             /\ \/ <<e, "namespace">> \in asked'
                                                \/ mod'[e].has = {"type"}
    BY DEF ThrowsOnlyFor, Entities
  <2>2. CASE phase = "parsing"
    <3>1. EndOfFile
      BY <1>2, <2>2 DEF Next, vars, AssignNothing, AssignNumber, AssignString, AssignAlias,
         AssignCall, AssignFunctionCall, AssignFunctionType, AssignDeclaration, AssignBlock,
         AssignFunction, AssignReserved, AssignRejected, BlockStart, BlockEnd, Simple,
         BlockAssigned, Assigned
    <3>2. mod' = mod /\ asked' = asked /\ Broken(mod, Root) # {}
      BY <3>1 DEF EndOfFile
    <3>3. /\ mod \in Seq(Entity) /\ Linked(mod) /\ Listed(mod) /\ Aged(mod, count)
          /\ Formed(mod, asked) /\ Equipped(mod, {}) /\ Hanging(mod, Open) /\ Stacked
          /\ DOMAIN mod = 1 .. Len(mod)
      BY <1>2 DEF Structure, Sane
    <3>4. Root \in 1 .. Len(mod) /\ mod[Root].up = 0
      <4>1. Root \in Open
        BY <3>3 DEF Stacked, Open, Range
      <4> QED
        BY <3>3, <4>1 DEF Hanging
    <3>5. PICK e \in Below(mod)[Len(mod)][Root] :
            KindBroken(mod, mod[e], e = Root) \/ LinksBroken(mod, e)
      BY <3>2, BrokenBelow
    <3>6. e \in 1 .. Len(mod) /\ (e = Root \/ mod[e].up # 0)
      BY <3>3, <3>4, BelowLinked
    <3>7. KindBroken(mod, mod[e], e = Root)
      BY <3>3, <3>5, <3>6, LinksFit
    <3>8. mod[e].up # 0
      <4> SUFFICES ASSUME mod[e].up = 0
                   PROVE  FALSE
        OBVIOUS
      <4>1. e = Root /\ mod[e].has = {"block"} /\ mod[e].flags = {}
        BY <3>3, <3>6 DEF Formed
      <4>2. PlainBlockBroken(mod[e], e = Root)
        BY <3>7, <4>1, BlockKind
      <4> QED
        BY <4>1, <4>2 DEF PlainBlockBroken
    <3>9. Form(mod[e]) /\ Recorded(mod, e, asked) /\ Parametrised(mod, e)
      BY <3>3, <3>6, <3>8 DEF Formed, Equipped
    <3>10. mod[e].flags = {Export} /\ (mod[e].has = {"type"} \/ mod[e].has = {"block"})
      BY <3>3, <3>6, <3>7, <3>9, FormFits
    <3>11. /\ <<e, "exported">> \in asked
           /\ <<e, "namespace">> \in asked \/ mod[e].has = {"type"}
      BY <3>9, <3>10 DEF Recorded
    <3> QED
      BY <3>2, <3>3, <3>6, <3>11 DEF Entities
  <2>3. CASE phase # "parsing"
    <3>1. mod' = mod /\ asked' = asked /\ phase' = phase
      BY <1>2, <2>3 DEF Next, vars, AssignNothing, AssignNumber, AssignString, AssignAlias,
         AssignCall, AssignFunctionCall, AssignFunctionType, AssignDeclaration, AssignBlock,
         AssignFunction, AssignReserved, AssignRejected, BlockStart, BlockEnd, EndOfFile, Simple,
         Assigning, BlockAssigned
    <3> QED
      BY <1>2, <3>1 DEF ThrowsOnlyFor, Entities
  <2> QED
    BY <2>2, <2>3
<1> QED
  BY <1>1, <1>2, StructureInvariant, PTL DEF Spec
=============================================================================
