----------------------------- MODULE Canonicalize -----------------------------
(***************************************************************************)
(* canonicalize::sort (sema/canonicalize/sort.cpp), the edits the compiler *)
(* makes to a module between two sorts, and the "sorted" walker            *)
(* (systems.hpp 84-127), whose callbacks make some of them while it walks. *)
(*                                                                         *)
(* Entity ids are positions in the store: sorting renumbers every entity   *)
(* and has to rewrite every reference.  Each entity also carries a tag, a  *)
(* history value the code does not have, so that a property can speak of   *)
(* "the same entity" before and after a sort.                              *)
(***************************************************************************)
EXTENDS Tree

CONSTANTS
  MaxEntities,  (* bound on the number of entities of the module           *)
  Arity         (* number of parameters of the one function type modelled  *)

ASSUME BoundsAssumption == MaxEntities \in Nat /\ Arity \in Nat

VARIABLES
  store,        (* the entities; an entity's id is its index               *)
  root,         (* canonicalize::new_root, or the builder's block at first *)
  fresh,        (* tags given so far (history)                             *)
  sorted,       (* the last thing that happened to the module was a sort   *)
  mark,         (* the value of fresh at the last sort (history)           *)
  pins,         (* tags of <<value, register number, pin call>> (history)  *)
  cache,        (* statics: <<tag, id, whether a sort came before>>        *)
  walk          (* the sorted walk that is going on, or NoWalk             *)

vars == <<store, root, fresh, sorted, mark, pins, cache, walk>>
history == <<mark, pins, cache>>

(***************************************************************************)
(* The components a sort reads or rewrites.                                *)
(*   up     doir::parent, 0 when absent                                    *)
(*   blk    has doir::block, kids its related entities in order            *)
(*   fn     has (lookup::)function_return_type                             *)
(*   param  doir::function_parameter index, from 1; 0 when absent          *)
(*   ref    one entity named by a type_of, call, input or alias; 0 if none *)
(***************************************************************************)
Leaf(t, up, r) ==
  [tag |-> t, up |-> up, blk |-> FALSE, kids |-> <<>>, fn |-> FALSE,
   param |-> 0, ref |-> r]

BlockOf(t, up, ks) == [Leaf(t, up, 0) EXCEPT !.blk = TRUE, !.kids = ks]

Ids == 1 .. Len(store)
IdOf(t) == CHOOSE e \in Ids : store[e].tag = t
ParamOf(t, up, i, r) == [Leaf(t, up, r) EXCEPT !.param = i]

\* A walk: the subtree it was started on, the ranges of ids the recursion of
\* the walker is in, each as <<last id, id it is at>>, whether a callback has
\* failed, and the ids visited so far (history).
NoWalk == [top |-> 0, ranges |-> <<>>, failed |-> FALSE, seen |-> <<>>]

\* build_builtin_block: the root is entity 1 and every builtin follows it, so
\* the builtins are not yet in post-order.  "type", "block" and a namespace
\* holding one builtin function stand for the builtins.
TypeTag == 2
BlockTag == 3
CompilerTag == 4
BuiltinTags == 2 .. 5

Init ==
  /\ store = << BlockOf(1, 0, <<2, 3, 4>>), Leaf(2, 1, 0), Leaf(3, 1, 0),
                BlockOf(4, 1, <<5>>), Leaf(5, 4, 2) >>
  /\ root = 1
  /\ fresh = 5
  /\ sorted = FALSE
  /\ mark = 0
  /\ pins = {}
  /\ cache = {}
  /\ walk = NoWalk

Room(k) == Len(store) + k <= MaxEntities

\* A user's builders only ever write into blocks that are not builtin.
UserBlocks == { b \in Ids : store[b].blk /\ store[b].tag \notin BuiltinTags }

Edited(s, k) ==
  /\ store' = s
  /\ fresh' = fresh + k
  /\ sorted' = FALSE

(***************************************************************************)
(* Edits.                                                                  *)
(***************************************************************************)
\* Mutant: the statement becomes the first of its block.
PushStatementFirst(b, r) ==
  /\ Room(1)
  /\ Edited(Append([store EXCEPT ![b].kids = <<Len(store) + 1>> \o @],
                   Leaf(fresh + 1, b, r)), 1)
  /\ UNCHANGED <<root, history>>

\* push_common and an attach_*: append a statement that names entity r.
PushStatement(b, r) ==
  /\ Room(1)
  /\ Edited(Append([store EXCEPT ![b].kids = Append(@, Len(store) + 1)],
                   Leaf(fresh + 1, b, r)), 1)
  /\ UNCHANGED <<root, history>>

\* push_subblock or push_namespace (f FALSE), push_function (f TRUE).
PushBlock(b, f) ==
  /\ Room(1)
  /\ Edited(Append([store EXCEPT ![b].kids = Append(@, Len(store) + 1)],
                   [BlockOf(fresh + 1, b, <<>>) EXCEPT !.fn = f]), 1)
  /\ UNCHANGED <<root, history>>

HasParams(f) ==
  \E i \in DOMAIN store[f].kids : store[store[f].kids[i]].param > 0

\* materialize_function_types_and_parameters: a function without parameters
\* gets them, the last one first, each inserted at the front of the body.
Materialize(f) ==
  /\ store[f].fn /\ ~HasParams(f) /\ pins = {} /\ Room(Arity)
  /\ LET n == Len(store)
         new == [i \in 1 .. Arity |-> ParamOf(fresh + i, f, Arity + 1 - i, IdOf(TypeTag))]
         front == [i \in 1 .. Arity |-> n + Arity + 1 - i]
     IN Edited([store EXCEPT ![f].kids = front \o @] \o new, Arity)
  /\ UNCHANGED <<root, history>>

\* Mutant: the id of the included entity is off by one.
EarlyIncludeOffByOne(e, r) ==
  /\ pins = {} /\ Room(2)
  /\ LET n == Len(store)
         b == store[e].up
         at == CHOOSE i \in DOMAIN store[b].kids : store[b].kids[i] = e
     IN Edited([store EXCEPT ![b].kids = InsertAt(@, at + 1, n + 3)]
               \o << BlockOf(fresh + 1, 0, <<n + 2>>), Leaf(fresh + 2, b, r) >>, 2)
  /\ UNCHANGED <<root, history>>

\* process_early_include: the file is parsed into a block of its own, whose
\* entities are inlined right after the call; the block itself stays behind,
\* listing them still.
EarlyInclude(e, r) ==
  /\ pins = {} /\ Room(2)
  /\ LET n == Len(store)
         b == store[e].up
         at == CHOOSE i \in DOMAIN store[b].kids : store[b].kids[i] = e
     IN Edited([store EXCEPT ![b].kids = InsertAt(@, at + 1, n + 2),
                             ![e].ref = IdOf(TypeTag)]
               \o << BlockOf(fresh + 1, 0, <<n + 2>>), Leaf(fresh + 2, b, r) >>, 2)
  /\ UNCHANGED <<root, history>>

\* An included file with errors: what has been parsed of it stays in a block
\* nothing refers to, and the callback fails.
FailInclude(e, r) ==
  /\ Room(2)
  /\ LET n == Len(store)
     IN Edited(store \o << BlockOf(fresh + 1, 0, <<n + 2>>), Leaf(fresh + 2, n + 1, r) >>, 2)
  /\ UNCHANGED <<root, history>>

\* allocate_registers: a register number and a pin_register call are pushed at
\* the end of the block and moved right behind the value they pin.
PinValue(e) ==
  /\ Room(2)
  /\ \A p \in pins : store[e].tag \notin {p[1], p[2], p[3]}
  /\ LET n == Len(store)
         b == store[e].up
         at == CHOOSE i \in DOMAIN store[b].kids : store[b].kids[i] = e
     IN /\ Edited([store EXCEPT ![b].kids = InsertAt(InsertAt(@, at + 1, n + 2), at + 1, n + 1)]
                  \o << Leaf(fresh + 1, b, IdOf(TypeTag)), Leaf(fresh + 2, b, e) >>, 2)
        /\ pins' = pins \cup {<<store[e].tag, fresh + 1, fresh + 2>>}
  /\ UNCHANGED <<root, mark, cache>>

\* Builtins are resolved into function-local statics, once and for all.
Cached(tags) ==
  /\ cache' = cache \cup { <<t, IdOf(t), mark > 0>> : t \in tags }
  /\ UNCHANGED <<store, root, fresh, sorted, mark, pins>>

\* The systems of the schedules resolve the builtins they compare with on their
\* first run: behind the first sort.
CacheBuiltins ==
  /\ mark > 0 /\ \A c \in cache : ~c[3]
  /\ Cached(BuiltinTags)

\* verify::structure resolves "type" at the first pointer it meets: before any
\* sort, as the driver verifies what it has parsed and byte_pointer is builtin.
VerifierCaches ==
  /\ mark = 0 /\ cache = {}
  /\ Cached({TypeTag})

(***************************************************************************)
(* sort.                                                                   *)
(***************************************************************************)
\* Mutant: parameters are not compared by index.
BodyBeforeNoIndex(s, a, b) ==
  IF s[a].param > 0 /\ s[b].param > 0 THEN a > b
  ELSE IF s[a].param > 0 \/ s[b].param > 0 THEN s[a].param > 0
  ELSE a < b

\* Mutant: the entity ids are compared the other way around.
BodyBeforeDescending(s, a, b) ==
  IF s[a].param > 0 /\ s[b].param > 0 THEN s[a].param < s[b].param
  ELSE IF s[a].param > 0 \/ s[b].param > 0 THEN s[a].param > 0
  ELSE a > b

\* The comparison of sort.cpp 28-40: parameters first, by index, then the
\* rest by entity id.
BodyBefore(s, a, b) ==
  IF s[a].param > 0 /\ s[b].param > 0 THEN s[a].param < s[b].param
  ELSE IF s[a].param > 0 \/ s[b].param > 0 THEN s[a].param > 0
  ELSE a < b

\* The elements of S, ordered by what comes before each of them.
InOrder(S, before) ==
  [i \in 1 .. Cardinality(S) |-> CHOOSE a \in S : Cardinality(before[a]) = i - 1]

BodyOrder(s, e) ==
  LET body == Range(s[e].kids)
  IN IF s[e].fn THEN InOrder(body, [a \in body |-> { b \in body : BodyBefore(s, b, a) }])
     ELSE s[e].kids

\* sort_tree_walk: children, in body order, before their parent.
WalkOrder(s, r) == PostOrder([e \in DOMAIN s |-> BodyOrder(s, e)], r)

\* Entities the walk does not reach keep their order, behind the root.
Missing(s, found) ==
  LET rest == 1 .. Len(s) \ found
  IN InOrder(rest, [a \in rest |-> { b \in rest : b < a }])

SortOrder(s, r) ==
  LET w == WalkOrder(s, r) IN w \o Missing(s, Range(w))

\* Mutant: a component with related entities is missing from the rewrite.
ReorderedKeepsRefs(s, r) ==
  LET order == SortOrder(s, r)
      reached == Range(WalkOrder(s, r))
      to == [e \in 0 .. Len(s) |->
               IF e = 0 THEN 0 ELSE CHOOSE i \in DOMAIN order : order[i] = e]
      body(e) == IF e \in reached THEN BodyOrder(s, e) ELSE s[e].kids
  IN [i \in DOMAIN order |->
        LET e == order[i]
        IN [s[e] EXCEPT !.up = to[@],
                        !.kids = [j \in DOMAIN body(e) |-> to[body(e)[j]]]]]

\* mod.reorder_entities: every component moves to the new id of its entity and
\* every related entity is rewritten to its own new id.
Reordered(s, r) ==
  LET order == SortOrder(s, r)
      reached == Range(WalkOrder(s, r))
      to == [e \in 0 .. Len(s) |->
               IF e = 0 THEN 0 ELSE CHOOSE i \in DOMAIN order : order[i] = e]
      body(e) == IF e \in reached THEN BodyOrder(s, e) ELSE s[e].kids
  IN [i \in DOMAIN order |->
        LET e == order[i]
        IN [s[e] EXCEPT !.up = to[@], !.ref = to[@],
                        !.kids = [j \in DOMAIN body(e) |-> to[body(e)[j]]]]]

Sort ==
  /\ store' = Reordered(store, root)
  /\ root' = Len(WalkOrder(store, root))
  /\ sorted' = TRUE
  /\ mark' = fresh
  /\ UNCHANGED <<fresh, pins, cache>>

InTree(e) == e \in Range(WalkOrder(store, root))

\* The statements an edit may target: in the tree, not blocks, not builtin.
Statements ==
  { e \in Ids : /\ ~store[e].blk /\ store[e].param = 0
                /\ store[e].up \in UserBlocks /\ store[e].tag \notin BuiltinTags
                /\ InTree(e) }

\* What a statement may name: "type", or anything a user wrote.
Nameable ==
  {IdOf(TypeTag)} \cup { e \in Ids : store[e].tag > 5 /\ InTree(e) }

(***************************************************************************)
(* The sorted walker.  It counts from the first child of a block to the    *)
(* block itself, and enters the first child, whose own descendants come    *)
(* before it, by a call of its own.                                        *)
(***************************************************************************)
\* The range of a call on e: an entity without children is all of it.
Entered(s, e) == <<e, IF s[e].kids = <<>> THEN e ELSE s[e].kids[1]>>

\* Mutant: a first child is visited like any other, without its descendants.
AheadFlat(s, ranges) ==
  LET ahead[rs \in Seq((DOMAIN s) \X Nat)] ==
        IF rs # <<>> /\ Last(rs)[2] > Last(rs)[1] THEN ahead[Front(rs)] ELSE rs
  IN ahead[ranges]

\* The loop of the n-th call goes on to the next id.
Bump(ranges, n) == [ranges EXCEPT ![n][2] = @ + 1]

\* Where the recursion stands when it calls the callback next.
Ahead(s, ranges) ==
  LET ahead[rs \in Seq((DOMAIN s) \X Nat)] ==
        LET up == Front(rs)
            last == Last(rs)[1]
            e == Last(rs)[2]
            first == s[last].kids # <<>> /\ e = s[last].kids[1]
        IN IF rs = <<>> \/ (e > last /\ up = <<>>) THEN <<>>
           ELSE IF e > last THEN ahead[Bump(up, Len(up))]
           ELSE IF first /\ s[e].kids # <<>> THEN ahead[Append(rs, Entered(s, e))]
           ELSE rs
  IN ahead[ranges]

\* The driver walks from the root, the schedules of compile-time evaluation
\* from a scratch block: any block will do.  Both have sorted before.
StartWalk(b) ==
  /\ walk = NoWalk /\ sorted
  /\ walk' = [NoWalk EXCEPT !.top = b, !.ranges = Ahead(store, <<Entered(store, b)>>)]
  /\ UNCHANGED <<store, root, fresh, sorted, history>>

Walking == walk.ranges # <<>>
At == Last(walk.ranges)[2]

\* The callback has made s of the module and returned whether to go on.
Visited(s, ok) ==
  walk' = [walk EXCEPT
             !.ranges = IF ok THEN Ahead(s, Bump(@, Len(@))) ELSE <<>>,
             !.failed = ~ok, !.seen = Append(@, At)]

VisitOther == UNCHANGED <<store, root, fresh, sorted, history>> /\ Visited(store, TRUE)
VisitFunction == Materialize(At) /\ Visited(store', TRUE)
VisitInclude(r) == EarlyInclude(At, r) /\ Visited(store', TRUE)
VisitBadInclude(r) == FailInclude(At, r) /\ Visited(store', FALSE)

\* sort_when_finished: also behind a callback that failed.
EndWalk ==
  /\ walk # NoWalk /\ ~Walking
  /\ walk' = NoWalk
  /\ IF walk.top = root THEN Sort ELSE UNCHANGED <<store, root, fresh, sorted, history>>

Idle == walk = NoWalk /\ UNCHANGED walk

Next ==
  \/ \E b \in UserBlocks :
       /\ InTree(b) /\ Idle
       /\ \/ \E r \in Nameable : PushStatement(b, r)
          \/ \E f \in BOOLEAN : PushBlock(b, f)
          \/ Materialize(b)
  \/ \E e \in Statements : PinValue(e) /\ Idle
  \/ CacheBuiltins /\ Idle
  \/ VerifierCaches /\ Idle
  \/ Sort /\ Idle
  \/ \E b \in UserBlocks : InTree(b) /\ StartWalk(b)
  \/ /\ Walking
     /\ \/ VisitOther
        \/ At \in UserBlocks /\ VisitFunction
        \/ /\ At \in Statements
           /\ \E r \in Nameable : VisitInclude(r) \/ VisitBadInclude(r)
  \/ EndWalk

Spec == Init /\ [][Next]_vars

-----------------------------------------------------------------------------
\* Type invariant: every parent, reference and child is an entity of the module
\* (no edit or sort leaves a dangling id), and each entity is there once.
TypeOK ==
  /\ \A e \in Ids :
       /\ store[e].up \in 0 .. Len(store) /\ store[e].ref \in 0 .. Len(store)
       /\ \A i \in DOMAIN store[e].kids : store[e].kids[i] \in Ids
  /\ root \in Ids
  /\ { store[e].tag : e \in Ids } = 1 .. Len(store) /\ fresh = Len(store)

\* The contract of the "sorted" walker (systems.hpp 84-115): in a canonical
\* module the tree is numbered 1..root, every block's descendants are the ids
\* just below its own, the parameters of a function come first, in order, and
\* sorting again, as the schedules do behind passes without work, moves nothing.
Canonical ==
  sorted =>
    /\ Reordered(store, root) = store
    /\ root = Len(WalkOrder(store, root))
    /\ \A e \in 1 .. root :
         LET below == WalkOrder(store, e)
         IN below = [i \in DOMAIN below |-> e - Len(below) + i]
    /\ \A f \in 1 .. root : store[f].fn =>
         \A i, j \in DOMAIN store[f].kids :
           /\ i < j /\ store[store[f].kids[j]].param > 0
           => store[store[f].kids[i]].param \in 1 .. store[store[f].kids[j]].param - 1

\* "sorted" visits what it was started on and everything below it, once each,
\* children before their parent, whatever its callbacks add on the way (the
\* comment at systems.hpp:108 is about the case this is not plain for).  And
\* what it visits stands in the block it has for a parent, a block of the tree
\* the walk has yet to leave: the offset_of of process_early_include, whose
\* result is used without a look at it, finds it there.
SortedSeesAll ==
  walk # NoWalk =>
    LET order == WalkOrder(store, walk.top)
        old == { e \in Range(order) : e <= mark }
        left == old \ Range(walk.seen)
        Follows(e, d) == \E i, j \in DOMAIN order : i < j /\ order[i] = d /\ order[j] = e
    IN /\ IsInjective(walk.seen) /\ Range(walk.seen) \subseteq old
       /\ \A i, j \in DOMAIN walk.seen : i < j => Follows(walk.seen[j], walk.seen[i])
       /\ \A d \in Range(walk.seen), e \in left : Follows(e, d)
       /\ ~Walking /\ ~walk.failed => left = {}
       /\ Walking /\ At # root =>
            store[At].up \in At + 1 .. root /\ At \in Range(store[store[At].up].kids)

\* Everything a reference can say, by tag instead of by id.
TagAt(s, e) == IF e = 0 THEN 0 ELSE s[e].tag
Meaning(s) ==
  { [tag |-> s[e].tag, up |-> TagAt(s, s[e].up), ref |-> TagAt(s, s[e].ref),
     fn |-> s[e].fn, param |-> s[e].param,
     kids |-> IF s[e].fn THEN { TagAt(s, k) : k \in Range(s[e].kids) }
              ELSE [i \in DOMAIN s[e].kids |-> TagAt(s, s[e].kids[i])]] :
    e \in DOMAIN s }

\* A sort renumbers and changes nothing else: every parent, reference and
\* block lists the same entities, detached ones included, and only a
\* function's body may be put in another order.
MeaningKept ==
  [][~sorted /\ sorted' =>
       Meaning(store') = Meaning(store) /\ TagAt(store', root') = TagAt(store, root)]_vars

Before(s, f, t, u) ==
  \E i, j \in DOMAIN s[f].kids :
    i < j /\ TagAt(s, s[f].kids[i]) = t /\ TagAt(s, s[f].kids[j]) = u

\* Two statements of a function body that have been through a sort never
\* change their order again, whatever is inserted between them.
OldOrderKept ==
  [][~sorted /\ sorted' =>
       \A f \in Ids : store[f].blk /\ InTree(f) =>
         \A t, u \in 1 .. mark :
           Before(store, f, t, u)
             => Before(store', CHOOSE g \in 1 .. Len(store) : store'[g].tag = store[f].tag, t, u)]_vars

\* The id a system kept in a static still denotes the builtin it resolved,
\* after any number of edits and sorts, as no pass ever inserts before the
\* builtins, when it was resolved behind a sort.  The static the verifier fills
\* denotes its builtin up to the first sort and never again.
StaticsStay ==
  \A c \in cache : store[c[2]].tag = c[1] <=> c[3] \/ mark = 0

\* "Move that pin from the end of the block to right after the value is
\* created" (allocate_registers.hpp 37): so the module is still laid out when
\* it has been sorted for the last time.
PinsFollowValues ==
  sorted => \A p \in pins :
    LET b == store[IdOf(p[1])].up
    IN \E i \in DOMAIN store[b].kids :
         /\ i + 2 \in DOMAIN store[b].kids
         /\ TagAt(store, store[b].kids[i]) = p[1]
         /\ TagAt(store, store[b].kids[i + 2]) = p[3]
=============================================================================
