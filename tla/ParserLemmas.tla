---------------------------- MODULE ParserLemmas ----------------------------
(***************************************************************************)
(* What the operators of Parser do to a module: pushing entities at the    *)
(* end of a block, moving the children of one block to another, and        *)
(* numbering the entity of an assignment.  Each keeps the conjuncts of     *)
(* Sane, the invariant ParserProofs proves of every reachable state.       *)
(***************************************************************************)
EXTENDS Parser, FiniteSetTheorems, FunctionTheorems, SequenceTheorems, TLAPS

\* The components the semantic actions attach (component.hpp), and the records
\* they make of them.  Flags are the bits of flags.hpp.
Components ==
  {"type", "typedef", "number", "string", "call", "inputs", "fn", "block", "param", "alias"}

Entity == [has : SUBSET Components, flags : SUBSET (1 .. 11), up : Nat, kids : Seq(Nat),
           arity : Nat, index : Nat, type : Nat, at : Nat]

\* Two entities that differ in what links them only.
SameKind(x, y) ==
  /\ x.has = y.has /\ x.flags = y.flags /\ x.arity = y.arity
  /\ x.index = y.index /\ x.type = y.type /\ x.at = y.at

\* Every component of an entity is of its type.
LEMMA FieldTypes ==
  ASSUME NEW x \in Entity
  PROVE  /\ x.kids \in Seq(Nat) /\ x.up \in Nat /\ x.at \in Nat /\ x.type \in Nat
         /\ x.index \in Nat /\ x.arity \in Nat /\ x.flags \subseteq 1 .. 11
BY DEF Entity

\* Giving an entity a parent changes nothing else of it.
LEMMA WithUp ==
  ASSUME NEW x \in Entity, NEW b \in Nat
  PROVE  /\ [x EXCEPT !.up = b] \in Entity
         /\ SameKind([x EXCEPT !.up = b], x)
         /\ [x EXCEPT !.up = b].up = b
         /\ [x EXCEPT !.up = b].kids = x.kids
BY DEF Entity, SameKind

\* Giving an entity a list of children changes nothing else of it.
LEMMA WithKids ==
  ASSUME NEW x \in Entity, NEW ks \in Seq(Nat)
  PROVE  /\ [x EXCEPT !.kids = ks] \in Entity
         /\ SameKind([x EXCEPT !.kids = ks], x)
         /\ [x EXCEPT !.kids = ks].kids = ks
         /\ [x EXCEPT !.kids = ks].up = x.up
BY DEF Entity, SameKind

\* Numbering an entity changes nothing else of it.
LEMMA WithAt ==
  ASSUME NEW x \in Entity, NEW n \in Nat
  PROVE  LET y == [x EXCEPT !.at = n] IN
         /\ y \in Entity /\ y.at = n /\ y.flags = x.flags /\ y.has = x.has /\ y.arity = x.arity
         /\ y.index = x.index /\ y.type = x.type /\ y.up = x.up /\ y.kids = x.kids
BY DEF Entity

\* The export keyword overwrites the flags of an entity (parser.cpp 252) and
\* nothing else.
LEMMA WithExport ==
  ASSUME NEW x \in Entity
  PROVE  LET y == Exported(x) IN
         /\ y \in Entity /\ y.flags = {Export} /\ y.at = x.at /\ y.has = x.has
         /\ y.arity = x.arity /\ y.index = x.index /\ y.type = x.type
         /\ y.up = x.up /\ y.kids = x.kids
BY DEF Entity, Exported, Export

\* A concatenation, index by index.
LEMMA Concatenated ==
  ASSUME NEW s \in Seq(Entity), NEW t \in Seq(Entity)
  PROVE  /\ s \o t \in Seq(Entity)
         /\ Len(s \o t) = Len(s) + Len(t)
         /\ \A i \in 1 .. Len(s) : (s \o t)[i] = s[i]
         /\ \A i \in 1 .. Len(t) : (s \o t)[Len(s) + i] = t[i]
OBVIOUS

\* What pushing entities at the end of a block does to every component.
LEMMA PushedFields ==
  ASSUME NEW m \in Seq(Entity), NEW b \in 1 .. Len(m), NEW xs \in Seq(Entity)
  PROVE  /\ Pushed(m, b, xs) \in Seq(Entity)
         /\ Len(Pushed(m, b, xs)) = Len(m) + Len(xs)
         /\ \A e \in 1 .. Len(m) :
              /\ SameKind(Pushed(m, b, xs)[e], m[e])
              /\ Pushed(m, b, xs)[e].up = m[e].up
              /\ e # b => Pushed(m, b, xs)[e].kids = m[e].kids
         /\ Pushed(m, b, xs)[b].kids = m[b].kids \o [i \in 1 .. Len(xs) |-> Len(m) + i]
         /\ \A i \in 1 .. Len(xs) :
              /\ SameKind(Pushed(m, b, xs)[Len(m) + i], xs[i])
              /\ Pushed(m, b, xs)[Len(m) + i].up = b
              /\ Pushed(m, b, xs)[Len(m) + i].kids = xs[i].kids
<1> DEFINE new == [i \in 1 .. Len(xs) |-> Len(m) + i]
           ks == m[b].kids \o new
           block == [m[b] EXCEPT !.kids = ks]
           old == [m EXCEPT ![b] = block]
           add == [i \in 1 .. Len(xs) |-> [xs[i] EXCEPT !.up = b]]
<1>0. /\ Len(m) \in Nat /\ Len(xs) \in Nat
      /\ DOMAIN xs = 1 .. Len(xs)
      /\ \A i \in 1 .. Len(xs) : xs[i] \in Entity
      /\ \A e \in 1 .. Len(m) : m[e] \in Entity
  OBVIOUS
<1>1. new \in Seq(Nat)
  BY <1>0, IsASeq
<1>2. ks \in Seq(Nat)
  BY <1>0, <1>1, FieldTypes, ConcatProperties
<1>3. block \in Entity /\ SameKind(block, m[b]) /\ block.kids = ks /\ block.up = m[b].up
  BY <1>0, <1>2, WithKids
<1>4. /\ old \in Seq(Entity) /\ Len(old) = Len(m)
      /\ \A e \in 1 .. Len(m) : old[e] = IF e = b THEN block ELSE m[e]
  <2> HIDE DEF block
  <2> QED
    BY <1>3, ExceptSeq
<1>5. /\ add \in Seq(Entity) /\ Len(add) = Len(xs)
      /\ \A i \in 1 .. Len(xs) :
           SameKind(add[i], xs[i]) /\ add[i].up = b /\ add[i].kids = xs[i].kids
  <2>1. \A i \in 1 .. Len(xs) :
          /\ [xs[i] EXCEPT !.up = b] \in Entity
          /\ SameKind([xs[i] EXCEPT !.up = b], xs[i])
          /\ [xs[i] EXCEPT !.up = b].up = b
          /\ [xs[i] EXCEPT !.up = b].kids = xs[i].kids
    BY <1>0, WithUp
  <2>2. \A i \in 1 .. Len(xs) : add[i] = [xs[i] EXCEPT !.up = b]
    OBVIOUS
  <2>3. add \in [1 .. Len(xs) -> Entity]
    BY <2>1
  <2> HIDE DEF add
  <2>4. add \in Seq(Entity) /\ Len(add) = Len(xs)
    BY <2>3, <1>0
  <2> QED
    BY <2>1, <2>2, <2>4
<1>6. Pushed(m, b, xs) = old \o add
  BY <1>0 DEF Pushed
<1> HIDE DEF old, add, block, ks
<1>7. /\ old \o add \in Seq(Entity)
      /\ Len(old \o add) = Len(m) + Len(xs)
      /\ \A e \in 1 .. Len(m) : (old \o add)[e] = old[e]
      /\ \A i \in 1 .. Len(xs) : (old \o add)[Len(m) + i] = add[i]
  <2>1. old \in Seq(Entity) /\ Len(old) = Len(m)
    BY <1>4
  <2>2. add \in Seq(Entity) /\ Len(add) = Len(xs)
    BY <1>5
  <2>3. /\ old \o add \in Seq(Entity)
        /\ Len(old \o add) = Len(old) + Len(add)
        /\ \A e \in 1 .. Len(old) : (old \o add)[e] = old[e]
        /\ \A i \in 1 .. Len(add) : (old \o add)[Len(old) + i] = add[i]
    BY <2>1, <2>2, Concatenated
  <2> QED
    BY <2>1, <2>2, <2>3
<1>10. \A e \in 1 .. Len(m) :
         /\ SameKind(old[e], m[e]) /\ old[e].up = m[e].up
         /\ e # b => old[e].kids = m[e].kids
         /\ e = b => old[e].kids = ks
  BY <1>3, <1>4 DEF SameKind
<1>11. \A e \in 1 .. Len(m) :
         /\ SameKind((old \o add)[e], m[e])
         /\ (old \o add)[e].up = m[e].up
         /\ e # b => (old \o add)[e].kids = m[e].kids
         /\ e = b => (old \o add)[e].kids = ks
  BY <1>7, <1>10
<1>12. \A i \in 1 .. Len(xs) :
         /\ SameKind((old \o add)[Len(m) + i], xs[i])
         /\ (old \o add)[Len(m) + i].up = b
         /\ (old \o add)[Len(m) + i].kids = xs[i].kids
  BY <1>7, <1>5
<1> QED
  BY <1>6, <1>7, <1>11, <1>12 DEF ks

\* What moving the children of one block to another does to every component.
LEMMA MovedFields ==
  ASSUME NEW m \in Seq(Entity), NEW from \in 1 .. Len(m), NEW to \in 1 .. Len(m), from # to,
         from \notin Range(m[from].kids), to \notin Range(m[from].kids)
  PROVE  /\ Moved(m, from, to) \in Seq(Entity)
         /\ Len(Moved(m, from, to)) = Len(m)
         /\ \A e \in 1 .. Len(m) :
              /\ SameKind(Moved(m, from, to)[e], m[e])
              /\ Moved(m, from, to)[e].up =
                   IF e \in Range(m[from].kids) THEN to ELSE m[e].up
              /\ e \notin {from, to} => Moved(m, from, to)[e].kids = m[e].kids
         /\ Moved(m, from, to)[from].kids = <<>>
         /\ Moved(m, from, to)[to].kids = m[to].kids \o m[from].kids
<1> DEFINE ks == m[to].kids \o m[from].kids
           into == [m[to] EXCEPT !.kids = ks]
           out == [m[from] EXCEPT !.kids = <<>>]
           M == Moved(m, from, to)
<1>0. /\ Len(m) \in Nat /\ DOMAIN m = 1 .. Len(m)
      /\ \A e \in 1 .. Len(m) : m[e] \in Entity
  OBVIOUS
<1>1. ks \in Seq(Nat) /\ <<>> \in Seq(Nat)
  BY <1>0, FieldTypes, ConcatProperties
<1>2. into \in Entity /\ SameKind(into, m[to]) /\ into.kids = ks /\ into.up = m[to].up
  BY <1>0, <1>1, WithKids
<1>3. out \in Entity /\ SameKind(out, m[from]) /\ out.kids = <<>> /\ out.up = m[from].up
  BY <1>0, <1>1, WithKids
<1>4. \A e \in 1 .. Len(m) :
        /\ [m[e] EXCEPT !.up = to] \in Entity
        /\ SameKind([m[e] EXCEPT !.up = to], m[e])
        /\ [m[e] EXCEPT !.up = to].up = to
        /\ [m[e] EXCEPT !.up = to].kids = m[e].kids
  BY <1>0, WithUp
<1>5. /\ M = [e \in 1 .. Len(m) |-> M[e]]
      /\ M[to] = into /\ M[from] = out
      /\ \A e \in (1 .. Len(m)) \ {from, to} :
           M[e] = IF e \in Range(m[from].kids) THEN [m[e] EXCEPT !.up = to] ELSE m[e]
  BY <1>0 DEF Moved
<1> HIDE DEF into, out, M, ks
<1>7. \A e \in 1 .. Len(m) :
        /\ M[e] \in Entity
        /\ SameKind(M[e], m[e])
        /\ M[e].up = IF e \in Range(m[from].kids) THEN to ELSE m[e].up
        /\ e \notin {from, to} => M[e].kids = m[e].kids
  <2> SUFFICES ASSUME NEW e \in 1 .. Len(m)
               PROVE  /\ M[e] \in Entity
                      /\ SameKind(M[e], m[e])
                      /\ M[e].up = IF e \in Range(m[from].kids) THEN to ELSE m[e].up
                      /\ e \notin {from, to} => M[e].kids = m[e].kids
    OBVIOUS
  <2>1. CASE e \in {from, to}
    BY <2>1, <1>2, <1>3, <1>5
  <2>2. CASE e \notin {from, to} /\ e \in Range(m[from].kids)
    BY <2>2, <1>4, <1>5
  <2>3. CASE e \notin {from, to} /\ e \notin Range(m[from].kids)
    BY <2>3, <1>0, <1>5 DEF SameKind
  <2> QED
    BY <2>1, <2>2, <2>3
<1>8. M \in Seq(Entity) /\ Len(M) = Len(m)
  <2>1. M \in [1 .. Len(m) -> Entity]
    BY <1>5, <1>7
  <2> QED
    BY <2>1, <1>0
<1> QED
  BY <1>2, <1>3, <1>5, <1>7, <1>8 DEF M, ks

\* The module once the assignment of entity e, the n-th, has ended.
Stamped(m, e, n, export) ==
  [m EXCEPT ![e] = IF export THEN Exported([@ EXCEPT !.at = n]) ELSE [@ EXCEPT !.at = n]]

\* M is m with entity e stamped n and, when it is exported, with the flags that leaves.
IsStamped(M, m, e, n, export) ==
  /\ M \in Seq(Entity) /\ Len(M) = Len(m)
  /\ \A x \in 1 .. Len(m) :
       /\ M[x].has = m[x].has /\ M[x].arity = m[x].arity
       /\ M[x].index = m[x].index /\ M[x].type = m[x].type
       /\ M[x].up = m[x].up /\ M[x].kids = m[x].kids
       /\ x # e => M[x] = m[x]
  /\ M[e].at = n
  /\ M[e].flags = IF export THEN {Export} ELSE m[e].flags

\* The end of an assignment numbers its entity and, when it is exported, sets
\* its flags to Export alone.
LEMMA StampedIs ==
  ASSUME NEW m \in Seq(Entity), NEW e \in 1 .. Len(m), NEW n \in Nat, NEW export \in BOOLEAN
  PROVE  IsStamped(Stamped(m, e, n, export), m, e, n, export)
<1> DEFINE x == IF export THEN Exported([m[e] EXCEPT !.at = n]) ELSE [m[e] EXCEPT !.at = n]
<1>0. m[e] \in Entity
  OBVIOUS
<1>1. /\ x \in Entity /\ x.at = n
      /\ x.has = m[e].has /\ x.arity = m[e].arity
      /\ x.index = m[e].index /\ x.type = m[e].type
      /\ x.up = m[e].up /\ x.kids = m[e].kids
      /\ x.flags = IF export THEN {Export} ELSE m[e].flags
  <2> DEFINE y == [m[e] EXCEPT !.at = n]
  <2>1. /\ y \in Entity /\ y.at = n /\ y.flags = m[e].flags /\ y.has = m[e].has
        /\ y.arity = m[e].arity /\ y.index = m[e].index /\ y.type = m[e].type
        /\ y.up = m[e].up /\ y.kids = m[e].kids
    BY <1>0, WithAt
  <2>2. x = IF export THEN Exported(y) ELSE y
    OBVIOUS
  <2> HIDE DEF x, y
  <2>3. CASE export
    BY <2>1, <2>2, <2>3, WithExport
  <2>4. CASE ~export
    BY <2>1, <2>2, <2>4
  <2> QED
    BY <2>3, <2>4
<1>2. Stamped(m, e, n, export) = [m EXCEPT ![e] = x]
  BY DEF Stamped
<1> HIDE DEF x
<1>3. /\ [m EXCEPT ![e] = x] \in Seq(Entity)
      /\ Len([m EXCEPT ![e] = x]) = Len(m)
      /\ \A y \in 1 .. Len(m) : [m EXCEPT ![e] = x][y] = IF y = e THEN x ELSE m[y]
  BY <1>1, ExceptSeq
<1> QED
  BY <1>1, <1>2, <1>3 DEF IsStamped

(***************************************************************************)
(* Parents and children name each other.                                   *)
(***************************************************************************)
Linked(m) ==
  /\ \A b \in 1 .. Len(m) : \A i \in 1 .. Len(m[b].kids) :
       m[b].kids[i] \in 1 .. Len(m) /\ m[m[b].kids[i]].up = b
  /\ \A e \in 1 .. Len(m) : m[e].up # 0 =>
       /\ m[e].up \in 1 .. Len(m)
       /\ \E i \in 1 .. Len(m[m[e].up].kids) : m[m[e].up].kids[i] = e

\* What the k-th entity of the module may come in front of.
Before(m, k, l) ==
  /\ k # l
  /\ m[k].at # 0 /\ m[l].at # 0 => m[k].at < m[l].at
  /\ m[l].index # 0 => m[k].index # 0 /\ m[k].index < m[l].index
  /\ m[k].type # l

\* Every list of children is in the order of the file.
Listed(m) ==
  \A b \in 1 .. Len(m) : \A i, j \in 1 .. Len(m[b].kids) :
    i < j => Before(m, m[b].kids[i], m[b].kids[j])

\* The forms an entity with a parent can have been given.
Form(x) ==
  \/ x.has = {"type"} /\ x.flags \in {{Valueless}, {Export}}
  \/ x.has \in {{"type", "number"}, {"type", "string"}} /\ x.flags \in {{Comptime}, {Export}}
  \/ x.has = {"alias"} /\ x.flags \in {{}, {Export}}
  \/ x.has = {"type", "call", "inputs"}
     /\ x.flags \in {{}, {Flatten}, {Inline}, {TailCall}, {Export}}
  \/ x.has \in {{"typedef", "inputs", "fn"}, {"typedef", "block"}} /\ x.flags \in {{}, {Export}}
  \/ x.has = {"type", "block"} /\ x.flags \in {{}, {Comptime}, {Export}}
  \/ x.has = {"block"} /\ x.flags \in {{Namespace}, {Export}}
  \/ x.has \in {{"type", "fn"}, {"type", "fn", "block"}} /\ x.flags \in {{}, {Export}} /\ x.type # 0
  \/ x.has = {"type", "param"} /\ x.flags = {Valueless}
  \/ x.has = {"type", "param", "number"} /\ x.flags = {Comptime}

\* A function has a parameter for every input of its type.
Parametrised(m, e) ==
  m[e].has = {"type", "fn", "block"} =>
    \A i \in 1 .. m[m[e].type].arity :
      \E k \in 1 .. Len(m[e].kids) : m[m[e].kids[k]].index = i

\* What was exported, and with what in it.
Recorded(m, e, A) ==
  /\ m[e].has = {"type"} /\ m[e].flags = {Export} => <<e, "exported">> \in A
  /\ m[e].has = {"block"} /\ m[e].flags = {Export} =>
       <<e, "exported">> \in A /\ <<e, "namespace">> \in A

\* Only blocks made by a builder and not yet assigned have no parent; everything
\* else sits in a block, has a form of the grammar, and what was exported away
\* of it is on record.
Formed(m, A) ==
  \A e \in 1 .. Len(m) :
    IF m[e].up = 0 THEN m[e].has = {"block"} /\ m[e].flags = {}
    ELSE "block" \in m[m[e].up].has /\ Form(m[e]) /\ Recorded(m, e, A)

\* Every function has its parameters, except those of "but", which are being given
\* theirs.
Equipped(m, but) ==
  \A e \in (1 .. Len(m)) \ but : m[e].up # 0 => Parametrised(m, e)

\* Nothing is older than the assignments so far, nor than its type.
Aged(m, n) == \A e \in 1 .. Len(m) : m[e].at <= n /\ m[e].type < e

\* The open blocks hang nowhere and hold statements only.
Hanging(m, open) ==
  \A b \in open :
    /\ b \in 1 .. Len(m) /\ m[b].up = 0
    /\ \A i \in 1 .. Len(m[b].kids) : m[m[b].kids[i]].index = 0

\* What is left without a parent is empty.
Emptied(m, open, A) ==
  \A e \in 1 .. Len(m) :
    m[e].up = 0 /\ e # Root /\ e \notin open /\ <<e, "ignored">> \notin A => m[e].kids = <<>>

\* What every state of the builders satisfies: m is the module, open its open
\* blocks, A what the file asked for and n the number of assignments; the
\* functions of "but" are in the middle of their assignment.
Sane(m, open, A, n, but) ==
  /\ m \in Seq(Entity)
  /\ Linked(m) /\ Listed(m) /\ Aged(m, n) /\ Formed(m, A) /\ Equipped(m, but)
  /\ Hanging(m, open) /\ Emptied(m, open, A)

\* The stack of builders, with the block that waits for its assignment.
Stacked ==
  /\ builders \in Seq(Nat) /\ builders # <<>> /\ builders[1] = Root
  /\ \A i, j \in 1 .. Len(builders) : builders[i] = builders[j] => i = j
  /\ value \in Nat /\ value \notin Range(builders)
  /\ count + Len(builders) - 1 + (IF value = 0 THEN 0 ELSE 1) <= MaxAssignments

\* The error flag, the count and the phase are what they are declared to be.
Scalars ==
  /\ errors \in BOOLEAN
  /\ count \in Nat
  /\ phase \in {"parsing", "rejected", "verified", "threw"}

\* The inductive invariant.
Structure == Sane(mod, Open, asked, count, {}) /\ Stacked /\ Scalars

\* Entities that can be pushed behind those of m: without children, of a form of
\* the grammar, not exported yet, and numbered only if last.
Leaves(xs, m, n) ==
  \A i \in 1 .. Len(xs) :
    /\ xs[i].kids = <<>> /\ xs[i].type < Len(m) + i /\ Form(xs[i]) /\ Export \notin xs[i].flags
    /\ xs[i].at = 0 \/ (xs[i].at = n + 1 /\ i = Len(xs))

\* A concatenation of lists of children, index by index.
LEMMA KidsConcatenated ==
  ASSUME NEW s \in Seq(Nat), NEW t \in Seq(Nat)
  PROVE  /\ s \o t \in Seq(Nat)
         /\ Len(s \o t) = Len(s) + Len(t)
         /\ \A i \in 1 .. Len(s) : (s \o t)[i] = s[i]
         /\ \A i \in 1 .. Len(t) : (s \o t)[Len(s) + i] = t[i]
OBVIOUS

\* M is m with the entities of xs pushed at the end of block b.
IsPushed(M, m, b, xs) ==
  /\ M \in Seq(Entity) /\ Len(M) = Len(m) + Len(xs)
  /\ \A e \in 1 .. Len(m) :
       /\ SameKind(M[e], m[e])
       /\ M[e].up = m[e].up
       /\ e # b => M[e].kids = m[e].kids
  /\ \A i \in 1 .. Len(xs) :
       /\ SameKind(M[Len(m) + i], xs[i])
       /\ M[Len(m) + i].up = b
       /\ M[Len(m) + i].kids = xs[i].kids
  /\ Len(M[b].kids) = Len(m[b].kids) + Len(xs)
  /\ \A i \in 1 .. Len(m[b].kids) : M[b].kids[i] = m[b].kids[i]
  /\ \A i \in 1 .. Len(xs) : M[b].kids[Len(m[b].kids) + i] = Len(m) + i

\* Pushed is what IsPushed says of it.
LEMMA PushedIs ==
  ASSUME NEW m \in Seq(Entity), NEW b \in 1 .. Len(m), NEW xs \in Seq(Entity)
  PROVE  IsPushed(Pushed(m, b, xs), m, b, xs)
<1> DEFINE new == [i \in 1 .. Len(xs) |-> Len(m) + i]
           M == Pushed(m, b, xs)
<1>1. new \in Seq(Nat) /\ Len(new) = Len(xs) /\ \A i \in 1 .. Len(xs) : new[i] = Len(m) + i
  OBVIOUS
<1>2. m[b].kids \in Seq(Nat)
  BY FieldTypes
<1>3. M[b].kids = m[b].kids \o new
  BY PushedFields
<1> HIDE DEF new
<1>4. /\ Len(m[b].kids \o new) = Len(m[b].kids) + Len(new)
      /\ \A i \in 1 .. Len(m[b].kids) : (m[b].kids \o new)[i] = m[b].kids[i]
      /\ \A i \in 1 .. Len(new) : (m[b].kids \o new)[Len(m[b].kids) + i] = new[i]
  BY <1>1, <1>2, KidsConcatenated
<1>5. /\ Len(M[b].kids) = Len(m[b].kids) + Len(xs)
      /\ \A i \in 1 .. Len(m[b].kids) : M[b].kids[i] = m[b].kids[i]
      /\ \A i \in 1 .. Len(xs) : M[b].kids[Len(m[b].kids) + i] = Len(m) + i
  <2> HIDE DEF M
  <2> QED
    BY <1>1, <1>3, <1>4
<1>6. M \in Seq(Entity) /\ Len(M) = Len(m) + Len(xs)
  BY PushedFields
<1>7. \A e \in 1 .. Len(m) :
        SameKind(M[e], m[e]) /\ M[e].up = m[e].up /\ (e # b => M[e].kids = m[e].kids)
  BY PushedFields
<1>8. \A i \in 1 .. Len(xs) : /\ SameKind(M[Len(m) + i], xs[i])
                              /\ M[Len(m) + i].up = b
                              /\ M[Len(m) + i].kids = xs[i].kids
  BY PushedFields
<1> HIDE DEF M
<1>9. IsPushed(M, m, b, xs)
  BY <1>5, <1>6, <1>7, <1>8 DEF IsPushed
<1> QED
  BY <1>9 DEF M

\* Pushing leaves and hanging them under a block keeps the links.
LEMMA PushedLinked ==
  ASSUME NEW m \in Seq(Entity), NEW b \in 1 .. Len(m), NEW xs \in Seq(Entity),
         NEW M, IsPushed(M, m, b, xs),
         Linked(m), \A i \in 1 .. Len(xs) : xs[i].kids = <<>>
  PROVE  Linked(M)
<1> DEFINE l == Len(m[b].kids)
<1>1. Len(m) \in Nat /\ Len(xs) \in Nat /\ Len(M) = Len(m) + Len(xs)
  BY DEF IsPushed
<1>2. \A x \in 1 .. Len(m) : m[x].kids \in Seq(Nat) /\ Len(m[x].kids) \in Nat
  BY FieldTypes
<1>3. \A e \in 1 .. Len(m) : M[e].up = m[e].up /\ (e # b => M[e].kids = m[e].kids)
  BY DEF IsPushed
<1>4. \A i \in 1 .. Len(xs) : M[Len(m) + i].up = b /\ M[Len(m) + i].kids = <<>>
  BY DEF IsPushed
<1>5. Len(M[b].kids) = l + Len(xs) /\ l \in Nat
  BY <1>2 DEF IsPushed
<1>6. \A i \in 1 .. l : M[b].kids[i] = m[b].kids[i]
  BY DEF IsPushed
<1>7. \A i \in 1 .. Len(xs) : M[b].kids[l + i] = Len(m) + i
  BY DEF IsPushed
<1>8. \A e \in (1 .. Len(M)) \ (1 .. Len(m)) : e - Len(m) \in 1 .. Len(xs) /\ e = Len(m) + (e - Len(m))
  BY <1>1
<1>9. ASSUME NEW x \in 1 .. Len(M), NEW i \in 1 .. Len(M[x].kids)
      PROVE  M[x].kids[i] \in 1 .. Len(M) /\ M[M[x].kids[i]].up = x
  <2>1. CASE x \in (1 .. Len(m)) \ {b}
    <3>1. M[x].kids = m[x].kids
      BY <1>3, <2>1
    <3> DEFINE k == m[x].kids[i]
    <3>2. k \in 1 .. Len(m) /\ m[k].up = x /\ M[x].kids[i] = k
      BY <3>1, <2>1 DEF Linked
    <3> HIDE DEF k
    <3>3. k \in 1 .. Len(M) /\ M[k].up = x
      BY <1>1, <1>3, <3>2
    <3> QED
      BY <3>2, <3>3
  <2>2. CASE x = b /\ i \in 1 .. l
    <3> DEFINE k == m[x].kids[i]
    <3>1. k \in 1 .. Len(m) /\ m[k].up = x
      BY <2>2 DEF Linked
    <3>2. M[x].kids[i] = k
      BY <1>6, <2>2
    <3> HIDE DEF k
    <3>3. k \in 1 .. Len(M) /\ M[k].up = x
      BY <1>1, <1>3, <3>1
    <3> QED
      BY <3>2, <3>3
  <2>3. CASE x = b /\ i \notin 1 .. l
    <3> DEFINE j == i - l
    <3>1. j \in 1 .. Len(xs) /\ i = l + j
      BY <1>1, <1>5, <2>3
    <3> HIDE DEF j
    <3>2. M[x].kids[i] = Len(m) + j
      BY <1>7, <2>3, <3>1
    <3>3. Len(m) + j \in 1 .. Len(M) /\ M[Len(m) + j].up = x
      BY <1>1, <1>4, <2>3, <3>1
    <3> QED
      BY <3>2, <3>3
  <2>4. CASE x \notin 1 .. Len(m)
    <3>1. M[x].kids = <<>>
      BY <1>4, <1>8, <2>4
    <3> QED
      BY <3>1
  <2> QED
    BY <2>1, <2>2, <2>3, <2>4
<1>10. ASSUME NEW e \in 1 .. Len(M), M[e].up # 0
       PROVE  /\ M[e].up \in 1 .. Len(M)
              /\ \E i \in 1 .. Len(M[M[e].up].kids) : M[M[e].up].kids[i] = e
  <2>1. CASE e \in 1 .. Len(m)
    <3>1. M[e].up = m[e].up /\ m[e].up # 0
      BY <1>3, <1>10, <2>1
    <3>2. m[e].up \in 1 .. Len(m)
      BY <2>1, <3>1 DEF Linked
    <3>3. PICK i \in 1 .. Len(m[m[e].up].kids) : m[m[e].up].kids[i] = e
      BY <2>1, <3>1 DEF Linked
    <3>4. i \in 1 .. Len(M[m[e].up].kids) /\ M[m[e].up].kids[i] = e
      <4>1. CASE m[e].up = b
        <5>1. i \in 1 .. l /\ m[b].kids[i] = e
          BY <3>3, <4>1
        <5>2. M[b].kids[i] = e
          BY <1>6, <5>1
        <5> HIDE DEF l
        <5>3. i \in 1 .. l + Len(xs)
          BY <1>1, <1>5, <5>1
        <5> QED
          BY <1>5, <4>1, <5>2, <5>3
      <4>2. CASE m[e].up # b
        BY <1>3, <3>2, <3>3, <4>2
      <4> QED
        BY <4>1, <4>2
    <3> QED
      BY <1>1, <3>1, <3>2, <3>4
  <2>2. CASE e \notin 1 .. Len(m)
    <3> DEFINE i == e - Len(m)
    <3>1. i \in 1 .. Len(xs) /\ e = Len(m) + i
      BY <1>8, <2>2
    <3> HIDE DEF i
    <3>2. l + i \in 1 .. Len(M[b].kids) /\ M[b].kids[l + i] = e
      <4>1. M[b].kids[l + i] = e
        BY <1>7, <3>1
      <4> HIDE DEF l
      <4>2. l + i \in 1 .. l + Len(xs)
        BY <1>1, <1>5, <3>1
      <4> QED
        BY <1>5, <4>1, <4>2
    <3>3. b \in 1 .. Len(M) /\ M[e].up = b
      BY <1>1, <1>4, <3>1
    <3> QED
      BY <3>2, <3>3
  <2> QED
    BY <2>1, <2>2
<1> QED
  BY <1>9, <1>10 DEF Linked

\* Before only looks at the order of the entities and at what SameKind keeps.
LEMMA BeforeSame ==
  ASSUME NEW m, NEW M, NEW k, NEW l, SameKind(M[k], m[k]), SameKind(M[l], m[l]), Before(m, k, l)
  PROVE  Before(M, k, l)
BY DEF Before, SameKind

\* Leaves that are younger than the module keep the order of the lists.
LEMMA PushedListed ==
  ASSUME NEW m \in Seq(Entity), NEW b \in 1 .. Len(m), NEW xs \in Seq(Entity),
         NEW M, IsPushed(M, m, b, xs), NEW n \in Nat,
         Linked(m), Listed(m), Aged(m, n), Leaves(xs, m, n),
         \A i \in 1 .. Len(xs) : xs[i].index = 0 \/ (xs[i].index = i /\ m[b].kids = <<>>),
         \A i, j \in 1 .. Len(xs) : i < j /\ xs[j].index # 0 => xs[i].index # 0
  PROVE  Listed(M)
<1> DEFINE l == Len(m[b].kids)
<1>1. Len(m) \in Nat /\ Len(xs) \in Nat /\ Len(M) = Len(m) + Len(xs)
  BY DEF IsPushed
<1>2. \A x \in 1 .. Len(m) : m[x].kids \in Seq(Nat) /\ Len(m[x].kids) \in Nat
  BY FieldTypes
<1>3. \A e \in 1 .. Len(m) : SameKind(M[e], m[e]) /\ (e # b => M[e].kids = m[e].kids)
  BY DEF IsPushed
<1>0. \A i \in 1 .. Len(xs) : /\ xs[i].kids = <<>> /\ xs[i].type < Len(m) + i
                              /\ xs[i].at = 0 \/ (xs[i].at = n + 1 /\ i = Len(xs))
  BY DEF Leaves
<1>4. \A i \in 1 .. Len(xs) : SameKind(M[Len(m) + i], xs[i])
  BY DEF IsPushed
<1>15. \A i \in 1 .. Len(xs) : M[Len(m) + i].kids = <<>>
  <2>1. \A i \in 1 .. Len(xs) : M[Len(m) + i].kids = xs[i].kids
    BY DEF IsPushed
  <2> QED
    BY <2>1 DEF Leaves
<1>5. Len(M[b].kids) = l + Len(xs) /\ l \in Nat
  BY <1>2 DEF IsPushed
<1>6. \A i \in 1 .. l : M[b].kids[i] = m[b].kids[i] /\ m[b].kids[i] \in 1 .. Len(m)
  BY DEF IsPushed, Linked
<1>7. \A i \in 1 .. Len(xs) : M[b].kids[l + i] = Len(m) + i
  BY DEF IsPushed
<1>8. \A e \in (1 .. Len(M)) \ (1 .. Len(m)) : e - Len(m) \in 1 .. Len(xs) /\ e = Len(m) + (e - Len(m))
  BY <1>1
<1>9. /\ \A e \in 1 .. Len(m) : m[e].at <= n /\ m[e].type < e
      /\ \A i \in 1 .. Len(xs) : xs[i].index \in Nat /\ xs[i].type \in Nat
      /\ \A e \in 1 .. Len(m) : m[e].at \in Nat /\ m[e].type \in Nat
  BY FieldTypes DEF Aged
<1>10. SUFFICES ASSUME NEW x \in 1 .. Len(M), NEW i \in 1 .. Len(M[x].kids),
                       NEW j \in 1 .. Len(M[x].kids), i < j
                PROVE  Before(M, M[x].kids[i], M[x].kids[j])
  BY DEF Listed
<1>11. CASE x \in (1 .. Len(m)) \ {b}
  <2>1. M[x].kids = m[x].kids
    BY <1>3, <1>11
  <2>2. m[x].kids[i] \in 1 .. Len(m) /\ m[x].kids[j] \in 1 .. Len(m)
    BY <2>1, <1>11 DEF Linked
  <2>3. Before(m, m[x].kids[i], m[x].kids[j])
    BY <1>10, <2>1, <1>11 DEF Listed
  <2> QED
    BY <1>3, <2>1, <2>2, <2>3, BeforeSame
<1>12. CASE x = b /\ j \in 1 .. l
  <2>1. i \in 1 .. l
    BY <1>5, <1>10, <1>12
  <2>2. Before(m, m[b].kids[i], m[b].kids[j])
    BY <1>10, <1>12, <2>1 DEF Listed
  <2> QED
    BY <1>3, <1>6, <1>12, <2>1, <2>2, BeforeSame
<1>13. CASE x = b /\ j \notin 1 .. l
  <2> DEFINE q == j - l
             y == xs[q]
  <2>1. q \in 1 .. Len(xs) /\ j = l + q
    <3>1. j \in 1 .. l + Len(xs) /\ j \notin 1 .. l /\ l \in Nat /\ Len(xs) \in Nat
      BY <1>1, <1>5, <1>10, <1>13
    <3> HIDE DEF l
    <3> QED
      BY <3>1
  <2> HIDE DEF q
  <2>2. M[x].kids[j] = Len(m) + q /\ SameKind(M[Len(m) + q], y)
    BY <1>4, <1>7, <1>13, <2>1
  <2>3. CASE i \in 1 .. l
    <3> DEFINE k == m[b].kids[i]
    <3>1. k \in 1 .. Len(m) /\ M[x].kids[i] = k /\ SameKind(M[k], m[k])
      BY <1>3, <1>6, <1>13, <2>3
    <3> HIDE DEF k
    <3>2. k # Len(m) + q /\ m[k].type # Len(m) + q
      BY <1>0, <1>1, <1>9, <2>1, <3>1
    <3>3. y.at = 0 \/ m[k].at < y.at
      <4>1. m[k].at \in Nat /\ m[k].at <= n /\ m[k].at < n + 1
        BY <1>9, <3>1
      <4>2. y.at = 0 \/ y.at = n + 1
        BY <1>0, <2>1
      <4> QED
        BY <4>1, <4>2
    <3>4. y.index = 0
      BY <1>5, <2>1, <2>3
    <3> QED
      BY <2>2, <3>1, <3>2, <3>3, <3>4 DEF Before, SameKind
  <2>4. CASE i \notin 1 .. l
    <3> DEFINE p == i - l
    <3>1. p \in 1 .. Len(xs) /\ i = l + p /\ p < q
      <4>1. /\ i \in 1 .. l + Len(xs) /\ i \notin 1 .. l /\ l \in Nat /\ Len(xs) \in Nat
            /\ i < j
        BY <1>1, <1>5, <1>10, <1>13, <2>4
      <4> HIDE DEF l
      <4> QED
        BY <2>1, <4>1
    <3> HIDE DEF p
    <3>2. M[x].kids[i] = Len(m) + p /\ SameKind(M[Len(m) + p], xs[p])
      BY <1>4, <1>7, <1>13, <3>1
    <3>3. Len(m) + p # Len(m) + q /\ xs[p].type # Len(m) + q
      <4>1. xs[p].type \in Nat /\ xs[p].type < Len(m) + p
        BY <1>0, <1>9, <3>1
      <4> DEFINE t == xs[p].type
      <4> HIDE DEF t
      <4>2. t # Len(m) + q /\ Len(m) + p # Len(m) + q
        BY <1>1, <2>1, <3>1, <4>1 DEF t
      <4> QED
        BY <4>2 DEF t
    <3>4. xs[p].at = 0
      BY <1>0, <1>1, <2>1, <3>1
    <3>5. y.index # 0 => xs[p].index # 0 /\ xs[p].index < y.index
      BY <2>1, <3>1
    <3> QED
      BY <2>2, <3>2, <3>3, <3>4, <3>5 DEF Before, SameKind
  <2> QED
    BY <2>3, <2>4
<1>14. CASE x \notin 1 .. Len(m)
  <2> DEFINE q == x - Len(m)
  <2>1. q \in 1 .. Len(xs) /\ x = Len(m) + q
    BY <1>8, <1>14
  <2> HIDE DEF q
  <2>2. M[x].kids = <<>>
    BY <1>15, <2>1
  <2> QED
    BY <2>2
<1> QED
  BY <1>11, <1>12, <1>13, <1>14

\* M is m with the children of block from moved to the end of block to.
IsMoved(M, m, from, to) ==
  /\ M \in Seq(Entity) /\ Len(M) = Len(m)
  /\ \A e \in 1 .. Len(m) :
       /\ SameKind(M[e], m[e])
       /\ M[e].up = IF m[e].up = from THEN to ELSE m[e].up
       /\ e \notin {from, to} => M[e].kids = m[e].kids
  /\ M[from].kids = <<>>
  /\ Len(M[to].kids) = Len(m[to].kids) + Len(m[from].kids)
  /\ \A i \in 1 .. Len(m[to].kids) : M[to].kids[i] = m[to].kids[i]
  /\ \A i \in 1 .. Len(m[from].kids) :
       M[to].kids[Len(m[to].kids) + i] = m[from].kids[i]

\* Moved is what IsMoved says of it, when neither block is a child of the first.
LEMMA MovedIs ==
  ASSUME NEW m \in Seq(Entity), NEW from \in 1 .. Len(m), NEW to \in 1 .. Len(m), from # to,
         Linked(m), m[from].up # from, m[to].up # from
  PROVE  IsMoved(Moved(m, from, to), m, from, to)
<1> DEFINE M == Moved(m, from, to)
           s == m[to].kids
           t == m[from].kids
<1>1. s \in Seq(Nat) /\ t \in Seq(Nat)
  BY FieldTypes
<1>2. \A e \in 1 .. Len(m) : e \in Range(t) <=> m[e].up = from
  <2>1. Range(t) = { t[i] : i \in 1 .. Len(t) }
    BY <1>1, RangeEquality
  <2>2. ASSUME NEW e \in Range(t)
        PROVE  m[e].up = from
    BY <2>1, <2>2 DEF Linked
  <2>3. ASSUME NEW e \in 1 .. Len(m), m[e].up = from
        PROVE  e \in Range(t)
    <3>1. from # 0
      OBVIOUS
    <3>2. \E i \in 1 .. Len(m[m[e].up].kids) : m[m[e].up].kids[i] = e
      BY <2>3, <3>1 DEF Linked
    <3> QED
      BY <2>1, <2>3, <3>2
  <2> QED
    BY <2>2, <2>3
<1>3. from \notin Range(t) /\ to \notin Range(t)
  BY <1>2
<1>4. M \in Seq(Entity) /\ Len(M) = Len(m)
  BY <1>3, MovedFields
<1>8. \A e \in 1 .. Len(m) : /\ SameKind(M[e], m[e])
                             /\ M[e].up = IF e \in Range(t) THEN to ELSE m[e].up
                             /\ e \notin {from, to} => M[e].kids = m[e].kids
  BY <1>3, MovedFields
<1>9. M[from].kids = <<>>
  BY <1>3, MovedFields
<1>10. M[to].kids = s \o t
  BY <1>3, MovedFields
<1> HIDE DEF M
<1>5. /\ Len(s \o t) = Len(s) + Len(t)
      /\ \A i \in 1 .. Len(s) : (s \o t)[i] = s[i]
      /\ \A i \in 1 .. Len(t) : (s \o t)[Len(s) + i] = t[i]
  BY <1>1, KidsConcatenated
<1> QED
  BY <1>2, <1>4, <1>5, <1>8, <1>9, <1>10 DEF IsMoved, M

\* Moving the children of a block to another one keeps the links.
LEMMA MovedLinked ==
  ASSUME NEW m \in Seq(Entity), NEW from \in 1 .. Len(m), NEW to \in 1 .. Len(m), from # to,
         NEW M, IsMoved(M, m, from, to),
         Linked(m)
  PROVE  Linked(M)
<1> DEFINE s == m[to].kids
           t == m[from].kids
           ls == Len(s)
           lt == Len(t)
<1>1. Len(m) \in Nat /\ Len(M) = Len(m)
  BY DEF IsMoved
<1>2. ls \in Nat /\ lt \in Nat
  BY FieldTypes
<1>3. \A e \in 1 .. Len(m) :
        /\ M[e].up = IF m[e].up = from THEN to ELSE m[e].up
        /\ e \notin {from, to} => M[e].kids = m[e].kids
  BY DEF IsMoved
<1>4. M[from].kids = <<>> /\ Len(M[to].kids) = ls + lt
  BY DEF IsMoved
<1>5. \A i \in 1 .. ls : M[to].kids[i] = s[i]
  BY DEF IsMoved
<1>6. \A i \in 1 .. lt : M[to].kids[ls + i] = t[i]
  BY DEF IsMoved
<1> HIDE DEF ls, lt
<1>7. ASSUME NEW x \in 1 .. Len(M), NEW i \in 1 .. Len(M[x].kids)
      PROVE  M[x].kids[i] \in 1 .. Len(M) /\ M[M[x].kids[i]].up = x
  <2>1. CASE x \notin {from, to}
    <3>1. M[x].kids = m[x].kids
      BY <1>1, <1>3, <2>1
    <3>2. m[x].kids[i] \in 1 .. Len(m) /\ m[m[x].kids[i]].up = x
      BY <1>1, <3>1 DEF Linked
    <3> QED
      BY <1>1, <1>3, <2>1, <3>1, <3>2
  <2>2. CASE x = from
    BY <1>4, <2>2
  <2>3. CASE x = to /\ i \in 1 .. ls
    <3>1. s[i] \in 1 .. Len(m) /\ m[s[i]].up = to
      BY <2>3 DEF Linked, ls
    <3> QED
      BY <1>1, <1>3, <1>5, <2>3, <3>1
  <2>4. CASE x = to /\ i \notin 1 .. ls
    <3> DEFINE j == i - ls
    <3>1. j \in 1 .. lt /\ i = ls + j
      <4>1. i \in 1 .. ls + lt
        BY <1>4, <2>4
      <4> QED
        BY <1>2, <2>4, <4>1
    <3> HIDE DEF j
    <3>2. M[x].kids[i] = t[j]
      BY <1>6, <2>4, <3>1
    <3>3. t[j] \in 1 .. Len(m) /\ m[t[j]].up = from
      BY <3>1 DEF Linked, lt
    <3> QED
      BY <1>1, <1>3, <2>4, <3>2, <3>3
  <2> QED
    BY <2>1, <2>2, <2>3, <2>4
<1>8. ASSUME NEW e \in 1 .. Len(M), M[e].up # 0
      PROVE  /\ M[e].up \in 1 .. Len(M)
             /\ \E i \in 1 .. Len(M[M[e].up].kids) : M[M[e].up].kids[i] = e
  <2>1. m[e].up # 0 /\ m[e].up \in 1 .. Len(m)
    BY <1>1, <1>3, <1>8 DEF Linked
  <2>2. PICK i \in 1 .. Len(m[m[e].up].kids) : m[m[e].up].kids[i] = e
    BY <1>1, <2>1 DEF Linked
  <2>3. CASE m[e].up = from
    <3>1. M[e].up = to
      BY <1>1, <1>3, <2>3
    <3>2. i \in 1 .. lt /\ t[i] = e
      BY <2>2, <2>3 DEF lt
    <3>3. ls + i \in 1 .. Len(M[to].kids) /\ M[to].kids[ls + i] = e
      <4>1. ls + i \in 1 .. ls + lt
        BY <1>2, <3>2
      <4>2. M[to].kids[ls + i] = t[i]
        BY <1>6, <3>2
      <4> QED
        BY <1>4, <3>2, <4>1, <4>2
    <3> QED
      BY <1>1, <3>1, <3>3
  <2>4. CASE m[e].up = to
    <3>1. M[e].up = to
      BY <1>1, <1>3, <2>4
    <3>2. i \in 1 .. ls /\ s[i] = e
      BY <2>2, <2>4 DEF ls
    <3>3. i \in 1 .. Len(M[to].kids) /\ M[to].kids[i] = e
      <4>1. i \in 1 .. ls + lt
        BY <1>2, <3>2
      <4> QED
        BY <1>4, <1>5, <3>2, <4>1
    <3> QED
      BY <1>1, <3>1, <3>3
  <2>5. CASE m[e].up \notin {from, to}
    BY <1>1, <1>3, <2>1, <2>2, <2>5
  <2> QED
    BY <2>3, <2>4, <2>5
<1> QED
  BY <1>7, <1>8 DEF Linked

\* Statements moved behind parameters keep the order of the lists.
LEMMA MovedListed ==
  ASSUME NEW m \in Seq(Entity), NEW from \in 1 .. Len(m), NEW to \in 1 .. Len(m), from # to,
         NEW M, IsMoved(M, m, from, to),
         Linked(m), Listed(m),
         \A i \in 1 .. Len(m[to].kids) : m[m[to].kids[i]].at = 0 /\ m[m[to].kids[i]].type = 0,
         \A i \in 1 .. Len(m[from].kids) : m[m[from].kids[i]].index = 0
  PROVE  Listed(M)
<1> DEFINE s == m[to].kids
           t == m[from].kids
           ls == Len(s)
           lt == Len(t)
<1>1. Len(m) \in Nat /\ Len(M) = Len(m)
  BY DEF IsMoved
<1>2. ls \in Nat /\ lt \in Nat
  BY FieldTypes
<1>3. \A e \in 1 .. Len(m) : SameKind(M[e], m[e]) /\ (e \notin {from, to} => M[e].kids = m[e].kids)
  BY DEF IsMoved
<1>4. M[from].kids = <<>> /\ Len(M[to].kids) = ls + lt
  BY DEF IsMoved
<1>5. \A i \in 1 .. ls : M[to].kids[i] = s[i]
  BY DEF IsMoved
<1>6. \A i \in 1 .. lt : M[to].kids[ls + i] = t[i]
  BY DEF IsMoved
<1>7. /\ \A i \in 1 .. ls : s[i] \in 1 .. Len(m) /\ m[s[i]].up = to
      /\ \A i \in 1 .. lt : t[i] \in 1 .. Len(m) /\ m[t[i]].up = from
  BY DEF Linked
<1> HIDE DEF ls, lt
<1>8. SUFFICES ASSUME NEW x \in 1 .. Len(M), NEW i \in 1 .. Len(M[x].kids),
                      NEW j \in 1 .. Len(M[x].kids), i < j
               PROVE  Before(M, M[x].kids[i], M[x].kids[j])
  BY DEF Listed
<1>9. CASE x \notin {from, to}
  <2>1. M[x].kids = m[x].kids
    BY <1>1, <1>3, <1>9
  <2>2. m[x].kids[i] \in 1 .. Len(m) /\ m[x].kids[j] \in 1 .. Len(m)
    BY <1>1, <2>1 DEF Linked
  <2>3. Before(m, m[x].kids[i], m[x].kids[j])
    BY <1>1, <1>8, <2>1 DEF Listed
  <2> QED
    BY <1>3, <2>1, <2>2, <2>3, BeforeSame
<1>10. CASE x = from
  BY <1>4, <1>10
<1>11. CASE x = to /\ j \in 1 .. ls
  <2>1. i \in 1 .. ls
    BY <1>2, <1>8, <1>11
  <2>2. Before(m, s[i], s[j])
    BY <1>8, <1>11, <2>1 DEF Listed, ls
  <2> QED
    BY <1>3, <1>5, <1>7, <1>11, <2>1, <2>2, BeforeSame
<1>12. CASE x = to /\ j \notin 1 .. ls
  <2> DEFINE q == j - ls
             l == t[q]
  <2>0. j \in 1 .. ls + lt /\ i \in 1 .. ls + lt
    BY <1>4, <1>12
  <2>1. q \in 1 .. lt /\ j = ls + q
    BY <1>2, <1>12, <2>0
  <2> HIDE DEF q
  <2>2. /\ M[x].kids[j] = l /\ l \in 1 .. Len(m) /\ SameKind(M[l], m[l])
        /\ m[l].index = 0 /\ m[l].up = from
    BY <1>3, <1>6, <1>7, <1>12, <2>1 DEF lt
  <2>3. CASE i \in 1 .. ls
    <3> DEFINE k == s[i]
    <3>1. /\ M[x].kids[i] = k /\ k \in 1 .. Len(m) /\ SameKind(M[k], m[k])
          /\ m[k].at = 0 /\ m[k].type = 0 /\ m[k].up = to
      BY <1>3, <1>5, <1>7, <1>12, <2>3 DEF ls
    <3> HIDE DEF k, l
    <3>2. Before(m, k, l)
      BY <2>2, <3>1 DEF Before
    <3> QED
      BY <2>2, <3>1, <3>2, BeforeSame
  <2>4. CASE i \notin 1 .. ls
    <3> DEFINE p == i - ls
               k == t[p]
    <3>1. p \in 1 .. lt /\ i = ls + p /\ p < q
      <4>1. i \in 1 .. ls + lt /\ i \notin 1 .. ls /\ ls \in Nat /\ lt \in Nat /\ i < j
        BY <1>2, <1>8, <2>0, <2>4
      <4> HIDE DEF ls, lt
      <4>2. i - ls \in 1 .. lt /\ i = ls + (i - ls)
        BY <4>1
      <4>3. i - ls < q
        BY <2>1, <4>1
      <4> QED
        BY <4>2, <4>3
    <3> HIDE DEF p
    <3>2. M[x].kids[i] = k /\ k \in 1 .. Len(m) /\ SameKind(M[k], m[k])
      BY <1>3, <1>6, <1>7, <1>12, <3>1
    <3>3. Before(m, k, l)
      BY <2>1, <3>1 DEF Listed, lt
    <3> QED
      BY <2>2, <3>2, <3>3, BeforeSame
  <2> QED
    BY <2>3, <2>4
<1> QED
  BY <1>9, <1>10, <1>11, <1>12

\* Pushing leaves into a block keeps the forms.
LEMMA PushedFormed ==
  ASSUME NEW m \in Seq(Entity), NEW b \in 1 .. Len(m), NEW xs \in Seq(Entity),
         NEW M, IsPushed(M, m, b, xs), NEW A, NEW n,
         Linked(m), Formed(m, A), Leaves(xs, m, n), "block" \in m[b].has
  PROVE  Formed(M, A)
<1>1. Len(m) \in Nat /\ Len(xs) \in Nat /\ Len(M) = Len(m) + Len(xs)
  BY DEF IsPushed
<1>2. \A e \in 1 .. Len(m) : SameKind(M[e], m[e]) /\ M[e].up = m[e].up
  BY DEF IsPushed
<1>3. \A i \in 1 .. Len(xs) : SameKind(M[Len(m) + i], xs[i]) /\ M[Len(m) + i].up = b
  BY DEF IsPushed
<1>4. ASSUME NEW e \in 1 .. Len(M)
      PROVE  IF M[e].up = 0 THEN M[e].has = {"block"} /\ M[e].flags = {}
             ELSE "block" \in M[M[e].up].has /\ Form(M[e]) /\ Recorded(M, e, A)
  <2>1. CASE e \in 1 .. Len(m)
    <3>1. CASE m[e].up = 0
      BY <1>2, <2>1, <3>1 DEF Formed, SameKind
    <3>2. CASE m[e].up # 0
      <4>1. "block" \in m[m[e].up].has /\ Form(m[e]) /\ Recorded(m, e, A)
        BY <2>1, <3>2 DEF Formed
      <4>2. m[e].up \in 1 .. Len(m)
        BY <2>1, <3>2 DEF Linked
      <4> QED
        BY <1>2, <2>1, <3>2, <4>1, <4>2 DEF SameKind, Form, Recorded
    <3> QED
      BY <3>1, <3>2
  <2>2. CASE e \notin 1 .. Len(m)
    <3> DEFINE i == e - Len(m)
    <3>1. i \in 1 .. Len(xs) /\ e = Len(m) + i
      BY <1>1, <2>2
    <3> HIDE DEF i
    <3>2. SameKind(M[e], xs[i]) /\ M[e].up = b
      BY <1>3, <3>1
    <3>3. Form(xs[i]) /\ Export \notin xs[i].flags
      BY <3>1 DEF Leaves
    <3>4. Form(M[e]) /\ Recorded(M, e, A)
      BY <3>2, <3>3 DEF SameKind, Form, Recorded
    <3>5. "block" \in M[b].has /\ b # 0
      BY <1>2 DEF SameKind
    <3> QED
      BY <3>2, <3>4, <3>5
  <2> QED
    BY <2>1, <2>2
<1> QED
  BY <1>4 DEF Formed

\* The only forms that hold a type and a function hold it for their type.
LEMMA FunctionForm ==
  ASSUME NEW x, Form(x), x.has = {"type", "fn", "block"}
  PROVE  x.type # 0
<1>1. "fn" \in x.has /\ "type" \in x.has
  OBVIOUS
<1>2. CASE x.has = {"type"} \/ x.has \in {{"type", "number"}, {"type", "string"}} \/ x.has = {"alias"}
  BY <1>1, <1>2
<1>3. CASE x.has = {"type", "call", "inputs"} \/ x.has \in {{"typedef", "inputs", "fn"}, {"typedef", "block"}}
  BY <1>1, <1>3
<1>4. CASE x.has = {"type", "block"} \/ x.has = {"block"}
  BY <1>1, <1>4
<1>5. CASE x.has = {"type", "param"} \/ x.has = {"type", "param", "number"}
  BY <1>1, <1>5
<1> QED
  BY <1>2, <1>3, <1>4, <1>5 DEF Form

\* Pushing leaves takes no parameter from a function; a function pushed is not
\* equipped yet and joins those being assigned.
LEMMA PushedEquipped ==
  ASSUME NEW m \in Seq(Entity), NEW b \in 1 .. Len(m), NEW xs \in Seq(Entity),
         NEW M, IsPushed(M, m, b, xs), NEW n, NEW but, NEW more,
         Linked(m), Aged(m, n), Equipped(m, but), but \subseteq more,
         \A i \in 1 .. Len(xs) : xs[i].has = {"type", "fn", "block"} => Len(m) + i \in more,
         \A e \in 1 .. Len(m) : m[e].up # 0 => Form(m[e])
  PROVE  Equipped(M, more)
<1>1. Len(m) \in Nat /\ Len(xs) \in Nat /\ Len(M) = Len(m) + Len(xs)
  BY DEF IsPushed
<1>2. \A e \in 1 .. Len(m) : SameKind(M[e], m[e]) /\ M[e].up = m[e].up /\ (e # b => M[e].kids = m[e].kids)
  BY DEF IsPushed
<1>3. \A i \in 1 .. Len(xs) : SameKind(M[Len(m) + i], xs[i])
  BY DEF IsPushed
<1>4. /\ Len(M[b].kids) = Len(m[b].kids) + Len(xs)
      /\ \A i \in 1 .. Len(m[b].kids) : M[b].kids[i] = m[b].kids[i]
      /\ Len(m[b].kids) \in Nat
  BY FieldTypes DEF IsPushed
<1>5. SUFFICES ASSUME NEW e \in (1 .. Len(M)) \ more, M[e].up # 0,
                      M[e].has = {"type", "fn", "block"},
                      NEW i \in 1 .. M[M[e].type].arity
               PROVE  \E k \in 1 .. Len(M[e].kids) : M[M[e].kids[k]].index = i
  BY DEF Equipped, Parametrised
<1>6. e \in 1 .. Len(m)
  <2> SUFFICES ASSUME e \notin 1 .. Len(m)
               PROVE  FALSE
    OBVIOUS
  <2> DEFINE q == e - Len(m)
  <2>1. q \in 1 .. Len(xs) /\ e = Len(m) + q
    BY <1>1
  <2> HIDE DEF q
  <2> QED
    BY <1>3, <1>5, <2>1 DEF SameKind
<1>7. /\ m[e].up # 0 /\ m[e].has = {"type", "fn", "block"} /\ e \notin but
      /\ M[e].type = m[e].type
  BY <1>2, <1>5, <1>6 DEF SameKind
<1>8. m[e].type \in 1 .. Len(m)
  <2>1. m[e].type # 0
    BY <1>6, <1>7, FunctionForm
  <2> QED
    BY <1>1, <1>6, <2>1, FieldTypes DEF Aged
<1>9. i \in 1 .. m[m[e].type].arity
  BY <1>2, <1>7, <1>8 DEF SameKind
<1>10. PICK k \in 1 .. Len(m[e].kids) : m[m[e].kids[k]].index = i
  BY <1>6, <1>7, <1>9 DEF Equipped, Parametrised
<1>11. m[e].kids[k] \in 1 .. Len(m)
  BY <1>6, <1>10 DEF Linked
<1>12. k \in 1 .. Len(M[e].kids) /\ M[e].kids[k] = m[e].kids[k]
  <2>1. CASE e = b
    BY <1>1, <1>4, <1>10, <2>1
  <2>2. CASE e # b
    BY <1>2, <1>6, <1>10, <2>2
  <2> QED
    BY <2>1, <2>2
<1> QED
  BY <1>2, <1>10, <1>11, <1>12 DEF SameKind

\* Pushing statements keeps the open blocks free of parents and of parameters.
LEMMA PushedHanging ==
  ASSUME NEW m \in Seq(Entity), NEW b \in 1 .. Len(m), NEW xs \in Seq(Entity),
         NEW M, IsPushed(M, m, b, xs), NEW open,
         Linked(m), Hanging(m, open),
         b \in open => \A i \in 1 .. Len(xs) : xs[i].index = 0
  PROVE  Hanging(M, open)
<1>1. Len(m) \in Nat /\ Len(xs) \in Nat /\ Len(M) = Len(m) + Len(xs)
  BY DEF IsPushed
<1>2. \A e \in 1 .. Len(m) : M[e].index = m[e].index /\ M[e].up = m[e].up /\ (e # b => M[e].kids = m[e].kids)
  BY DEF IsPushed, SameKind
<1>3. \A i \in 1 .. Len(xs) : M[Len(m) + i].index = xs[i].index
  BY DEF IsPushed, SameKind
<1> DEFINE l == Len(m[b].kids)
<1>4. Len(M[b].kids) = l + Len(xs)
  BY DEF IsPushed
<1>9. \A i \in 1 .. l : M[b].kids[i] = m[b].kids[i]
  BY DEF IsPushed
<1>10. \A i \in 1 .. Len(xs) : M[b].kids[l + i] = Len(m) + i
  BY DEF IsPushed
<1>11. l \in Nat
  BY FieldTypes
<1>5. SUFFICES ASSUME NEW x \in open
               PROVE  /\ x \in 1 .. Len(M) /\ M[x].up = 0
                      /\ \A i \in 1 .. Len(M[x].kids) : M[M[x].kids[i]].index = 0
  BY DEF Hanging
<1>6. /\ x \in 1 .. Len(m) /\ m[x].up = 0
      /\ \A i \in 1 .. Len(m[x].kids) : m[m[x].kids[i]].index = 0
  BY DEF Hanging
<1>7. \A i \in 1 .. Len(m[x].kids) : m[x].kids[i] \in 1 .. Len(m)
  BY <1>6 DEF Linked
<1>8. ASSUME NEW i \in 1 .. Len(M[x].kids)
      PROVE  M[M[x].kids[i]].index = 0
  <2>1. CASE x # b
    <3> DEFINE k == m[x].kids[i]
    <3>1. M[x].kids = m[x].kids
      BY <1>2, <1>6, <2>1
    <3>2. M[x].kids[i] = k /\ k \in 1 .. Len(m) /\ m[k].index = 0
      BY <1>6, <1>7, <3>1
    <3> HIDE DEF k
    <3> QED
      BY <1>2, <3>2
  <2>2. CASE x = b /\ i \in 1 .. l
    <3> DEFINE k == m[x].kids[i]
    <3>1. M[x].kids[i] = k
      BY <1>9, <2>2
    <3>2. k \in 1 .. Len(m) /\ m[k].index = 0
      BY <1>6, <1>7, <2>2
    <3> HIDE DEF k
    <3> QED
      BY <1>2, <3>1, <3>2
  <2>3. CASE x = b /\ i \notin 1 .. l
    <3> DEFINE q == i - l
    <3>1. i \in 1 .. l + Len(xs)
      BY <1>4, <1>8, <2>3
    <3> HIDE DEF l
    <3>2. q \in 1 .. Len(xs) /\ i = l + q
      BY <1>1, <1>11, <2>3, <3>1
    <3> HIDE DEF q
    <3>3. M[x].kids[i] = Len(m) + q
      BY <1>10, <2>3, <3>2 DEF l
    <3> QED
      BY <1>3, <2>3, <3>2, <3>3
  <2> QED
    BY <2>1, <2>2, <2>3
<1> QED
  BY <1>1, <1>2, <1>6, <1>8

\* Pushing leaves into a block keeps the invariant, when it puts statements into a
\* block or the parameters of a function, in order, into its empty block.
LEMMA PushedSane ==
  ASSUME NEW m, NEW b \in 1 .. Len(m), NEW xs \in Seq(Entity),
         NEW open, NEW A, NEW n \in Nat, NEW top \in Nat, NEW but, NEW more,
         Sane(m, open, A, n, but), Leaves(xs, m, n), but \subseteq more,
         \A i \in 1 .. Len(xs) : xs[i].has = {"type", "fn", "block"} => Len(m) + i \in more,
         "block" \in m[b].has, b \in open \/ m[b].up # 0,
         \/ \A i \in 1 .. Len(xs) : xs[i].index = 0
         \/ b \notin open /\ m[b].kids = <<>> /\ \A i \in 1 .. Len(xs) : xs[i].index = i,
         n <= top, \A i \in 1 .. Len(xs) : xs[i].at <= top
  PROVE  Sane(Pushed(m, b, xs), open, A, top, more)
<1> DEFINE M == Pushed(m, b, xs)
<1>0. /\ m \in Seq(Entity) /\ Linked(m) /\ Listed(m) /\ Aged(m, n) /\ Formed(m, A)
      /\ Equipped(m, but) /\ Hanging(m, open) /\ Emptied(m, open, A)
  BY DEF Sane
<1>1. IsPushed(M, m, b, xs)
  BY <1>0, PushedIs
<1> HIDE DEF M
<1>2. M \in Seq(Entity)
  BY <1>1 DEF IsPushed
<1>3. Linked(M)
  <2>1. \A i \in 1 .. Len(xs) : xs[i].kids = <<>>
    BY DEF Leaves
  <2> QED
    BY <1>0, <1>1, <2>1, PushedLinked
<1>4. Listed(M)
  <2>1. \A i \in 1 .. Len(xs) : xs[i].index = 0 \/ (xs[i].index = i /\ m[b].kids = <<>>)
    OBVIOUS
  <2>2. \A i, j \in 1 .. Len(xs) : i < j /\ xs[j].index # 0 => xs[i].index # 0
    OBVIOUS
  <2> QED
    BY <1>0, <1>1, <2>1, <2>2, PushedListed
<1>5. Aged(M, top)
  <2>1. Len(m) \in Nat /\ Len(xs) \in Nat /\ Len(M) = Len(m) + Len(xs)
    BY <1>0, <1>1 DEF IsPushed
  <2>2. SUFFICES ASSUME NEW e \in 1 .. Len(M)
                 PROVE  M[e].at <= top /\ M[e].type < e
    BY DEF Aged
  <2>3. CASE e \in 1 .. Len(m)
    <3>1. M[e].at = m[e].at /\ M[e].type = m[e].type
      BY <1>1, <2>3 DEF IsPushed, SameKind
    <3>2. m[e].at \in Nat /\ m[e].at <= n /\ m[e].type < e
      BY <1>0, <2>3, FieldTypes DEF Aged
    <3> QED
      BY <3>1, <3>2
  <2>4. CASE e \notin 1 .. Len(m)
    <3> DEFINE i == e - Len(m)
    <3>1. i \in 1 .. Len(xs) /\ e = Len(m) + i
      BY <2>1, <2>4
    <3> HIDE DEF i
    <3>2. M[e].at = xs[i].at /\ M[e].type = xs[i].type
      BY <1>1, <3>1 DEF IsPushed, SameKind
    <3> QED
      BY <3>1, <3>2 DEF Leaves
  <2> QED
    BY <2>3, <2>4
<1>6. Formed(M, A)
  BY <1>0, <1>1, PushedFormed
<1>7. Equipped(M, more)
  <2>1. \A e \in 1 .. Len(m) : m[e].up # 0 => Form(m[e])
    BY <1>0 DEF Formed
  <2> QED
    BY <1>0, <1>1, <2>1, PushedEquipped
<1>8. Hanging(M, open)
  BY <1>0, <1>1, PushedHanging
<1>9. Emptied(M, open, A)
  <2>1. Len(m) \in Nat /\ Len(xs) \in Nat /\ Len(M) = Len(m) + Len(xs)
    BY <1>0, <1>1 DEF IsPushed
  <2>2. SUFFICES ASSUME NEW e \in 1 .. Len(M), M[e].up = 0, e # Root, e \notin open,
                        <<e, "ignored">> \notin A
                 PROVE  M[e].kids = <<>>
    BY DEF Emptied
  <2>3. CASE e \in 1 .. Len(m)
    <3>1. m[e].up = 0 /\ e # b
      BY <1>1, <2>2, <2>3 DEF IsPushed
    <3> QED
      BY <1>0, <1>1, <2>2, <2>3, <3>1 DEF IsPushed, Emptied
  <2>4. CASE e \notin 1 .. Len(m)
    <3> DEFINE i == e - Len(m)
    <3>1. i \in 1 .. Len(xs) /\ e = Len(m) + i
      BY <2>1, <2>4
    <3> HIDE DEF i
    <3>2. M[e].up = b
      BY <1>1, <3>1 DEF IsPushed
    <3> QED
      BY <2>2, <3>2
  <2> QED
    BY <2>3, <2>4
<1> QED
  BY <1>2, <1>3, <1>4, <1>5, <1>6, <1>7, <1>8, <1>9 DEF Sane, M

\* The same for statements at the end of an open block.
LEMMA PushedOpen ==
  ASSUME NEW m, NEW b \in 1 .. Len(m), NEW xs \in Seq(Entity),
         NEW open, NEW A, NEW n \in Nat, NEW top \in Nat,
         Sane(m, open, A, n, {}), Leaves(xs, m, n),
         \A i \in 1 .. Len(xs) : xs[i].has # {"type", "fn", "block"},
         "block" \in m[b].has, b \in open,
         \A i \in 1 .. Len(xs) : xs[i].index = 0,
         n <= top, \A i \in 1 .. Len(xs) : xs[i].at <= top
  PROVE  Sane(Pushed(m, b, xs), open, A, top, {})
<1> DEFINE none == {}
<1>1. \A i \in 1 .. Len(xs) : xs[i].has = {"type", "fn", "block"} => Len(m) + i \in none
  OBVIOUS
<1>2. none \subseteq none /\ Sane(m, open, A, n, none)
  OBVIOUS
<1>3. b \in open \/ m[b].up # 0
  OBVIOUS
<1>4. \/ \A i \in 1 .. Len(xs) : xs[i].index = 0
      \/ b \notin open /\ m[b].kids = <<>> /\ \A i \in 1 .. Len(xs) : xs[i].index = i
  OBVIOUS
<1> HIDE DEF none
<1>5. Sane(Pushed(m, b, xs), open, A, top, none)
  BY <1>1, <1>2, <1>3, <1>4, PushedSane
<1> QED
  BY <1>5 DEF none

\* What a larger record of the file, and fewer open blocks, still satisfy.
LEMMA SaneWeaken ==
  ASSUME NEW m, NEW open, NEW A, NEW n, NEW but, NEW less, NEW B,
         Sane(m, open, A, n, but), A \subseteq B, less \subseteq open,
         \A e \in open \ less : m[e].kids = <<>> \/ <<e, "ignored">> \in B
  PROVE  Sane(m, less, B, n, but)
<1>1. Formed(m, B)
  BY DEF Sane, Formed, Recorded
<1>2. Hanging(m, less)
  BY DEF Sane, Hanging
<1>3. Emptied(m, less, B)
  BY DEF Sane, Emptied
<1> QED
  BY <1>1, <1>2, <1>3 DEF Sane

\* A function keeps its parameters when its list only grows.
LEMMA StillParametrised ==
  ASSUME NEW m \in Seq(Entity), NEW M, NEW e \in 1 .. Len(m), NEW n,
         Linked(m), Aged(m, n), Form(m[e]), Parametrised(m, e),
         \A x \in 1 .. Len(m) : /\ M[x].has = m[x].has /\ M[x].arity = m[x].arity
                                /\ M[x].index = m[x].index /\ M[x].type = m[x].type,
         Len(M[e].kids) \in Nat, Len(m[e].kids) <= Len(M[e].kids),
         \A i \in 1 .. Len(m[e].kids) : M[e].kids[i] = m[e].kids[i]
  PROVE  Parametrised(M, e)
<1>0. Len(m) \in Nat /\ Len(m[e].kids) \in Nat
  BY FieldTypes
<1>1. SUFFICES ASSUME M[e].has = {"type", "fn", "block"},
                      NEW i \in 1 .. M[M[e].type].arity
               PROVE  \E k \in 1 .. Len(M[e].kids) : M[M[e].kids[k]].index = i
  BY DEF Parametrised
<1>2. m[e].has = {"type", "fn", "block"} /\ M[e].type = m[e].type
  BY <1>1
<1>3. m[e].type \in 1 .. Len(m)
  <2>1. m[e].type # 0
    BY <1>2, FunctionForm
  <2>2. m[e].type \in Nat /\ m[e].type < e
    BY FieldTypes DEF Aged
  <2> QED
    BY <1>0, <2>1, <2>2
<1>4. i \in 1 .. m[m[e].type].arity
  BY <1>2, <1>3
<1>5. PICK k \in 1 .. Len(m[e].kids) : m[m[e].kids[k]].index = i
  BY <1>2, <1>4 DEF Parametrised
<1>6. m[e].kids[k] \in 1 .. Len(m)
  BY <1>5 DEF Linked
<1>7. k \in 1 .. Len(M[e].kids) /\ M[e].kids[k] = m[e].kids[k]
  BY <1>0
<1> QED
  BY <1>5, <1>6, <1>7

\* Moving a closed block's statements to the block they are assigned to.
LEMMA MovedSane ==
  ASSUME NEW m, NEW open, NEW A, NEW n,
         NEW from \in 1 .. Len(m), NEW to \in 1 .. Len(m),
         Sane(m, open, A, n, {}), from \in open, to \notin open,
         m[to].up # 0, m[to].up # from, "block" \in m[to].has,
         \A i \in 1 .. Len(m[to].kids) : m[m[to].kids[i]].at = 0 /\ m[m[to].kids[i]].type = 0
  PROVE  /\ Sane(Moved(m, from, to), open \ {from}, A, n, {})
         /\ IsMoved(Moved(m, from, to), m, from, to)
<1> DEFINE M == Moved(m, from, to)
<1>0. /\ m \in Seq(Entity) /\ Linked(m) /\ Listed(m) /\ Aged(m, n) /\ Formed(m, A)
      /\ Equipped(m, {}) /\ Hanging(m, open) /\ Emptied(m, open, A)
  BY DEF Sane
<1>1. from # to /\ m[from].up = 0 /\ m[from].up # from
  BY <1>0 DEF Hanging
<1>2. IsMoved(M, m, from, to)
  BY <1>0, <1>1, MovedIs
<1> HIDE DEF M
<1>3. M \in Seq(Entity) /\ Len(M) = Len(m) /\ Len(m) \in Nat
  BY <1>0, <1>2 DEF IsMoved
<1>4. \A e \in 1 .. Len(m) : SameKind(M[e], m[e])
  BY <1>2 DEF IsMoved
<1>5. \A e \in 1 .. Len(m) :
        /\ M[e].up = IF m[e].up = from THEN to ELSE m[e].up
        /\ e \notin {from, to} => M[e].kids = m[e].kids
  BY <1>2 DEF IsMoved
<1>6. Linked(M)
  BY <1>0, <1>1, <1>2, MovedLinked
<1>7. Listed(M)
  <2>1. \A i \in 1 .. Len(m[from].kids) : m[m[from].kids[i]].index = 0
    BY <1>0 DEF Hanging
  <2> QED
    BY <1>0, <1>1, <1>2, <2>1, MovedListed
<1>8. Aged(M, n)
  BY <1>0, <1>3, <1>4 DEF Aged, SameKind
<1>9. Formed(M, A)
  <2>1. SUFFICES ASSUME NEW e \in 1 .. Len(m)
                 PROVE  IF M[e].up = 0 THEN M[e].has = {"block"} /\ M[e].flags = {}
                        ELSE "block" \in M[M[e].up].has /\ Form(M[e]) /\ Recorded(M, e, A)
    BY <1>3 DEF Formed
  <2>2. CASE m[e].up = 0
    <3>1. m[e].has = {"block"} /\ m[e].flags = {}
      BY <1>0, <2>2 DEF Formed
    <3> QED
      BY <1>4, <1>5, <2>2, <3>1 DEF SameKind
  <2>3. CASE m[e].up # 0
    <3>1. "block" \in m[m[e].up].has /\ Form(m[e]) /\ Recorded(m, e, A) /\ m[e].up \in 1 .. Len(m)
      BY <1>0, <2>3 DEF Formed, Linked
    <3>2. Form(M[e]) /\ Recorded(M, e, A)
      BY <1>4, <3>1 DEF SameKind, Form, Recorded
    <3>3. M[e].up # 0
      BY <1>5, <2>3
    <3>4. "block" \in M[M[e].up].has
      BY <1>4, <1>5, <3>1 DEF SameKind
    <3> QED
      BY <3>2, <3>3, <3>4
  <2> QED
    BY <2>2, <2>3
<1>10. Equipped(M, {})
  <2>1. SUFFICES ASSUME NEW e \in 1 .. Len(m), M[e].up # 0
                 PROVE  Parametrised(M, e)
    BY <1>3 DEF Equipped
  <2>2. m[e].up # 0 /\ e # from
    BY <1>1, <1>5, <2>1
  <2>3. Parametrised(m, e) /\ Form(m[e])
    BY <1>0, <2>2 DEF Equipped, Formed
  <2>4. Len(M[e].kids) \in Nat /\ Len(m[e].kids) \in Nat /\ Len(m[from].kids) \in Nat
    <3>1. M[e] \in Entity /\ m[e] \in Entity /\ m[from] \in Entity
      BY <1>0, <1>3
    <3>2. M[e].kids \in Seq(Nat) /\ m[e].kids \in Seq(Nat) /\ m[from].kids \in Seq(Nat)
      BY <3>1, FieldTypes
    <3> QED
      BY <3>2
  <2>5. Len(m[e].kids) <= Len(M[e].kids) /\ \A i \in 1 .. Len(m[e].kids) : M[e].kids[i] = m[e].kids[i]
    <3>1. CASE e = to
      <4>1. Len(M[to].kids) = Len(m[to].kids) + Len(m[from].kids)
        BY <1>2 DEF IsMoved
      <4>2. \A i \in 1 .. Len(m[to].kids) : M[to].kids[i] = m[to].kids[i]
        BY <1>2 DEF IsMoved
      <4>3. Len(m[to].kids) <= Len(M[to].kids)
        <5> DEFINE p == Len(m[to].kids)
                   q == Len(m[from].kids)
        <5>1. p \in Nat /\ q \in Nat /\ Len(M[to].kids) = p + q
          BY <2>4, <3>1, <4>1
        <5> HIDE DEF p, q
        <5>2. p <= Len(M[to].kids)
          BY <5>1
        <5> QED
          BY <5>2 DEF p
      <4> QED
        BY <3>1, <4>2, <4>3
    <3>2. CASE e # to
      <4>1. M[e].kids = m[e].kids
        BY <1>5, <2>2, <3>2
      <4> QED
        BY <2>4, <4>1
    <3> QED
      BY <3>1, <3>2
  <2>6. \A x \in 1 .. Len(m) : /\ M[x].has = m[x].has /\ M[x].arity = m[x].arity
                               /\ M[x].index = m[x].index /\ M[x].type = m[x].type
    BY <1>4 DEF SameKind
  <2> QED
    BY <1>0, <2>3, <2>4, <2>5, <2>6, StillParametrised
<1>11. Hanging(M, open \ {from})
  <2>1. SUFFICES ASSUME NEW x \in open \ {from}
                 PROVE  /\ x \in 1 .. Len(M) /\ M[x].up = 0
                        /\ \A i \in 1 .. Len(M[x].kids) : M[M[x].kids[i]].index = 0
    BY DEF Hanging
  <2>2. /\ x \in 1 .. Len(m) /\ m[x].up = 0
        /\ \A i \in 1 .. Len(m[x].kids) : m[m[x].kids[i]].index = 0
    BY <1>0 DEF Hanging
  <2>3. \A i \in 1 .. Len(m[x].kids) : m[x].kids[i] \in 1 .. Len(m)
    BY <1>0, <2>2 DEF Linked
  <2>4. M[x].kids = m[x].kids /\ M[x].up = 0
    BY <1>5, <2>2
  <2>5. ASSUME NEW i \in 1 .. Len(M[x].kids)
        PROVE  M[M[x].kids[i]].index = 0
    <3> DEFINE k == m[x].kids[i]
    <3>1. M[x].kids[i] = k /\ k \in 1 .. Len(m) /\ m[k].index = 0
      BY <2>2, <2>3, <2>4
    <3> HIDE DEF k
    <3>2. M[k].index = m[k].index
      BY <1>4, <3>1 DEF SameKind
    <3> QED
      BY <3>1, <3>2
  <2> QED
    BY <1>3, <2>2, <2>4, <2>5
<1>12. Emptied(M, open \ {from}, A)
  <2>1. SUFFICES ASSUME NEW e \in 1 .. Len(m), M[e].up = 0, e # Root, e \notin open \ {from},
                        <<e, "ignored">> \notin A
                 PROVE  M[e].kids = <<>>
    BY <1>3 DEF Emptied
  <2>2. CASE e = from
    BY <1>2, <2>2 DEF IsMoved
  <2>3. CASE e # from
    <3>1. m[e].up = 0 /\ e # to /\ e \notin open
      BY <1>5, <2>1, <2>3
    <3> QED
      BY <1>0, <1>5, <2>1, <2>3, <3>1 DEF Emptied
  <2> QED
    BY <2>2, <2>3
<1> QED
  BY <1>2, <1>3, <1>6, <1>7, <1>8, <1>9, <1>10, <1>11, <1>12 DEF Sane, M

\* What an exported entity may look like.
LEMMA ExportedForm ==
  ASSUME NEW x, NEW y, Form(x), "param" \notin x.has, y.has = x.has, y.type = x.type,
         y.flags = {Export}
  PROVE  Form(y)
<1>1. x.has # {"type", "param"} /\ x.has # {"type", "param", "number"}
  OBVIOUS
<1> QED
  BY <1>1 DEF Form

\* The end of an assignment, whose entity is the last one of its block.
LEMMA StampedSane ==
  ASSUME NEW m, NEW open, NEW A, NEW B, NEW n \in Nat, NEW e \in 1 .. Len(m),
         NEW export \in BOOLEAN, NEW last,
         Sane(m, open, A, n, {}), A \subseteq B,
         m[e].up # 0, "param" \notin m[e].has,
         last = Len(m[m[e].up].kids), last > 0, m[m[e].up].kids[last] = e,
         export => <<e, "exported">> \in B,
         export /\ m[e].has = {"block"} => <<e, "namespace">> \in B
  PROVE  Sane(Stamped(m, e, n + 1, export), open, B, n + 1, {})
<1> DEFINE M == Stamped(m, e, n + 1, export)
<1>0. /\ m \in Seq(Entity) /\ Linked(m) /\ Listed(m) /\ Aged(m, n) /\ Formed(m, A)
      /\ Equipped(m, {}) /\ Hanging(m, open) /\ Emptied(m, open, A)
  BY DEF Sane
<1>1. IsStamped(M, m, e, n + 1, export)
  <2>1. n + 1 \in Nat
    OBVIOUS
  <2> QED
    BY <1>0, <2>1, StampedIs, Zenon
<1> HIDE DEF M
<1>2. /\ M \in Seq(Entity) /\ Len(M) = Len(m) /\ Len(m) \in Nat
      /\ M[e].at = n + 1
  BY <1>0, <1>1 DEF IsStamped
<1>3. \A x \in 1 .. Len(m) :
        /\ M[x].has = m[x].has /\ M[x].arity = m[x].arity
        /\ M[x].index = m[x].index /\ M[x].type = m[x].type
  BY <1>1 DEF IsStamped
<1>4. \A x \in 1 .. Len(m) : M[x].up = m[x].up /\ M[x].kids = m[x].kids
  BY <1>1 DEF IsStamped
<1>5. \A x \in 1 .. Len(m) : x # e => M[x].at = m[x].at /\ M[x].flags = m[x].flags
  BY <1>1 DEF IsStamped
<1>6. M[e].flags = IF export THEN {Export} ELSE m[e].flags
  BY <1>1 DEF IsStamped
<1>7. Linked(M)
  <2>1. ASSUME NEW x \in 1 .. Len(M), NEW i \in 1 .. Len(M[x].kids)
        PROVE  M[x].kids[i] \in 1 .. Len(M) /\ M[M[x].kids[i]].up = x
    <3>1. M[x].kids = m[x].kids
      BY <1>2, <1>4
    <3>2. m[x].kids[i] \in 1 .. Len(m) /\ m[m[x].kids[i]].up = x
      BY <1>0, <1>2, <3>1 DEF Linked
    <3> QED
      BY <1>2, <1>4, <3>1, <3>2
  <2>2. ASSUME NEW x \in 1 .. Len(M), M[x].up # 0
        PROVE  /\ M[x].up \in 1 .. Len(M)
               /\ \E i \in 1 .. Len(M[M[x].up].kids) : M[M[x].up].kids[i] = x
    <3>1. M[x].up = m[x].up
      BY <1>2, <1>4
    <3>2. m[x].up \in 1 .. Len(m) /\ \E i \in 1 .. Len(m[m[x].up].kids) : m[m[x].up].kids[i] = x
      BY <1>0, <1>2, <2>2, <3>1 DEF Linked
    <3> QED
      BY <1>2, <1>4, <3>1, <3>2
  <2> QED
    BY <2>1, <2>2 DEF Linked
<1>8. Aged(M, n + 1)
  <2>1. SUFFICES ASSUME NEW x \in 1 .. Len(m)
                 PROVE  M[x].at <= n + 1 /\ M[x].type < x
    BY <1>2 DEF Aged
  <2>2. m[x].at \in Nat /\ m[x].at <= n /\ m[x].type < x
    BY <1>0, FieldTypes DEF Aged
  <2> QED
    BY <1>2, <1>3, <1>5, <2>2
<1>9. Listed(M)
  <2>1. SUFFICES ASSUME NEW b \in 1 .. Len(m), NEW i \in 1 .. Len(m[b].kids),
                        NEW j \in 1 .. Len(m[b].kids), i < j
                 PROVE  Before(M, m[b].kids[i], m[b].kids[j])
    BY <1>2, <1>4 DEF Listed
  <2> DEFINE k == m[b].kids[i]
             l == m[b].kids[j]
             ls == Len(m[b].kids)
  <2>2. k \in 1 .. Len(m) /\ l \in 1 .. Len(m) /\ m[k].up = b /\ ls \in Nat
    <3>1. k \in 1 .. Len(m) /\ m[k].up = b
      BY <1>0 DEF Linked
    <3>2. l \in 1 .. Len(m)
      BY <1>0 DEF Linked
    <3>3. ls \in Nat
      BY <1>0, FieldTypes
    <3> QED
      BY <3>1, <3>2, <3>3
  <2>3. Before(m, k, l)
    BY <1>0, <2>1 DEF Listed
  <2>4. k # e
    <3> SUFFICES ASSUME k = e
                 PROVE  FALSE
      OBVIOUS
    <3>1. last = ls /\ m[b].kids[last] = e
      BY <2>2
    <3>2. i < last /\ last \in 1 .. ls
      <4> HIDE DEF ls
      <4> QED
        BY <2>1, <2>2, <3>1 DEF ls
    <3>3. Before(m, m[b].kids[i], m[b].kids[last])
      BY <1>0, <3>2 DEF Listed
    <3> QED
      BY <3>1, <3>3 DEF Before
  <2>5. m[k].at \in Nat /\ m[k].at <= n
    <3>1. m[k] \in Entity
      BY <1>0, <2>2
    <3> HIDE DEF k
    <3>2. m[k].at <= n
      BY <1>0, <2>2 DEF Aged
    <3> QED
      BY <3>1, <3>2, FieldTypes
  <2> HIDE DEF k, l
  <2>6. M[k].at # 0 /\ M[l].at # 0 => M[k].at < M[l].at
    <3>1. CASE l = e
      BY <1>2, <1>5, <2>2, <2>4, <2>5, <3>1
    <3>2. CASE l # e
      BY <1>5, <2>2, <2>3, <2>4, <3>2 DEF Before
    <3> QED
      BY <3>1, <3>2
  <2>7. Before(M, k, l)
    BY <1>3, <2>2, <2>3, <2>6 DEF Before
  <2> QED
    BY <2>7 DEF k, l
<1>10. Formed(M, B)
  <2>1. SUFFICES ASSUME NEW x \in 1 .. Len(m)
                 PROVE  IF M[x].up = 0 THEN M[x].has = {"block"} /\ M[x].flags = {}
                        ELSE "block" \in M[M[x].up].has /\ Form(M[x]) /\ Recorded(M, x, B)
    BY <1>2 DEF Formed
  <2>2. CASE m[x].up = 0
    <3>1. m[x].has = {"block"} /\ m[x].flags = {} /\ x # e
      BY <1>0, <2>2 DEF Formed
    <3> QED
      BY <1>3, <1>4, <1>5, <2>2, <3>1
  <2>3. CASE m[x].up # 0
    <3>1. "block" \in m[m[x].up].has /\ Form(m[x]) /\ Recorded(m, x, A) /\ m[x].up \in 1 .. Len(m)
      BY <1>0, <2>3 DEF Formed, Linked
    <3>2. "block" \in M[M[x].up].has /\ M[x].up # 0
      BY <1>3, <1>4, <2>3, <3>1
    <3>3. M[x].has = m[x].has /\ M[x].type = m[x].type
      BY <1>3
    <3>4. CASE x = e /\ export
      <4>1. Form(M[x])
        BY <1>6, <3>1, <3>3, <3>4, ExportedForm
      <4>2. Recorded(M, x, B)
        BY <3>3, <3>4 DEF Recorded
      <4> QED
        BY <2>3, <3>2, <4>1, <4>2
    <3>5. CASE ~(x = e /\ export)
      <4>1. M[x].flags = m[x].flags
        BY <1>5, <1>6, <3>5
      <4>2. Form(M[x])
        BY <3>1, <3>3, <4>1 DEF Form
      <4>3. Recorded(M, x, B)
        BY <3>1, <3>3, <4>1 DEF Recorded
      <4> QED
        BY <2>3, <3>2, <4>2, <4>3
    <3> QED
      BY <3>4, <3>5
  <2> QED
    BY <2>2, <2>3
<1>11. Equipped(M, {})
  <2>1. SUFFICES ASSUME NEW x \in 1 .. Len(m), M[x].up # 0
                 PROVE  Parametrised(M, x)
    BY <1>2 DEF Equipped
  <2>2. m[x].up # 0 /\ M[x].kids = m[x].kids
    BY <1>4, <2>1
  <2>3. Parametrised(m, x) /\ Form(m[x])
    BY <1>0, <2>2 DEF Equipped, Formed
  <2>4. Len(m[x].kids) \in Nat
    BY <1>0, FieldTypes
  <2>5. /\ Len(M[x].kids) \in Nat /\ Len(m[x].kids) <= Len(M[x].kids)
        /\ \A i \in 1 .. Len(m[x].kids) : M[x].kids[i] = m[x].kids[i]
    BY <2>2, <2>4
  <2> QED
    BY <1>0, <1>3, <2>3, <2>5, StillParametrised
<1>12. Hanging(M, open)
  <2>1. SUFFICES ASSUME NEW x \in open
                 PROVE  /\ x \in 1 .. Len(M) /\ M[x].up = 0
                        /\ \A i \in 1 .. Len(M[x].kids) : M[M[x].kids[i]].index = 0
    BY DEF Hanging
  <2>2. /\ x \in 1 .. Len(m) /\ m[x].up = 0
        /\ \A i \in 1 .. Len(m[x].kids) : m[m[x].kids[i]].index = 0
    BY <1>0 DEF Hanging
  <2>3. \A i \in 1 .. Len(m[x].kids) : m[x].kids[i] \in 1 .. Len(m)
    BY <1>0, <2>2 DEF Linked
  <2>4. M[x].kids = m[x].kids /\ M[x].up = 0
    BY <1>4, <2>2
  <2>5. ASSUME NEW i \in 1 .. Len(M[x].kids)
        PROVE  M[M[x].kids[i]].index = 0
    <3> DEFINE k == m[x].kids[i]
    <3>1. M[x].kids[i] = k /\ k \in 1 .. Len(m) /\ m[k].index = 0
      BY <2>2, <2>3, <2>4
    <3> HIDE DEF k
    <3>2. M[k].index = m[k].index
      BY <1>3, <3>1
    <3> QED
      BY <3>1, <3>2
  <2> QED
    BY <1>2, <2>2, <2>4, <2>5
<1>13. Emptied(M, open, B)
  BY <1>0, <1>2, <1>4 DEF Emptied
<1> QED
  BY <1>2, <1>7, <1>8, <1>9, <1>10, <1>11, <1>12, <1>13 DEF Sane, M
=============================================================================
