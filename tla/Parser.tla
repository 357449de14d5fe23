--------------------------------- MODULE Parser ---------------------------------
(***************************************************************************)
(* The semantic actions of parser.cpp: a stack of block builders, a value  *)
(* waiting for the assignment it belongs to, and one action per form of    *)
(* assignment, each with the builder calls (interface.cpp) it makes.       *)
(* EndOfFile is the driver handing the module to verify::structure.        *)
(*                                                                         *)
(* Left out: the text cpp-peglib fails on, language changes, source        *)
(* locations, functions as parameters, and assigning a block to an alias,  *)
(* which dereferences a null builder.                                      *)
(***************************************************************************)
EXTENDS Verify, SequencesExt

CONSTANTS
  MaxAssignments, MaxDepth,   (* bounds on the file that is parsed          *)
  Arities,                    (* numbers of parameters of function types    *)
  Modifiers                   (* sets of flags a call can be written with   *)

ASSUME ParserBounds ==
  /\ MaxAssignments \in Nat /\ MaxDepth \in Nat
  /\ Arities \subseteq Nat
  /\ Modifiers \subseteq {{}, {Flatten}, {Inline}, {TailCall}}

VARIABLES
  mod,       (* the entities: Verify's records with a history field "at",   *)
             (* the number of the assignment that made them, 0 if none      *)
  builders,  (* the blocks of the builder stack, innermost last             *)
  value,     (* a block that has been closed and not been assigned, or 0    *)
  errors,    (* an error diagnostic has been pushed                         *)
  phase,     (* "parsing", "rejected", "verified" or "threw"                *)
  count,     (* how many assignments have been parsed                       *)
  asked      (* history: what the file asked of an entity, "namespace" or   *)
             (* "exported", and the blocks it gave to a reserved namespace, *)
             (* "ignored"                                                   *)

vars == <<mod, builders, value, errors, phase, count, asked>>

Root == 1
Top == Last(builders)

Blank == [has |-> {}, flags |-> {}, up |-> 0, kids |-> <<>>, arity |-> 0,
          index |-> 0, type |-> 0, at |-> 0]

Init ==
  /\ mod = << [Blank EXCEPT !.has = {"block"}] >>
  /\ builders = <<Root>>
  /\ value = 0
  /\ errors = FALSE
  /\ phase = "parsing"
  /\ count = 0
  /\ asked = {}

\* Mutant: the block lists the id behind the new entity's.
PushedOffByOne(m, b, xs) ==
  [m EXCEPT ![b].kids = @ \o [i \in DOMAIN xs |-> Len(m) + i + 1]]
  \o [i \in DOMAIN xs |-> [xs[i] EXCEPT !.up = b]]

(***************************************************************************)
(* Builders.  Pushed(m, b, xs) is push_common for each entity of xs in     *)
(* turn, at the end of block b.                                            *)
(***************************************************************************)
Pushed(m, b, xs) ==
  [m EXCEPT ![b].kids = @ \o [i \in DOMAIN xs |-> Len(m) + i]]
  \o [i \in DOMAIN xs |-> [xs[i] EXCEPT !.up = b]]

Value(cs, fs) == [Blank EXCEPT !.has = {"type"} \cup cs, !.flags = fs]

\* The grammar does not parse a function type without a return type.
FunctionType(n) == [Blank EXCEPT !.has = {"typedef", "inputs", "fn"}, !.arity = n]

\* Mutant: the children keep the parent they were parsed under.
MovedWithoutParents(m, from, to) ==
  [e \in DOMAIN m |->
     CASE e = to -> [m[e] EXCEPT !.kids = @ \o m[from].kids]
       [] e = from -> [m[e] EXCEPT !.kids = <<>>]
       [] OTHER -> m[e]]

\* Mutant: the parsed children are put in front of the parameters.
MovedToFront(m, from, to) ==
  [e \in DOMAIN m |->
     CASE e = to -> [m[e] EXCEPT !.kids = m[from].kids \o @]
       [] e = from -> [m[e] EXCEPT !.kids = <<>>]
       [] e \in Range(m[from].kids) -> [m[e] EXCEPT !.up = to]
       [] OTHER -> m[e]]

\* block_builder::move_existing.
Moved(m, from, to) ==
  [e \in DOMAIN m |->
     CASE e = to -> [m[e] EXCEPT !.kids = @ \o m[from].kids]
       [] e = from -> [m[e] EXCEPT !.kids = <<>>]
       [] e \in Range(m[from].kids) -> [m[e] EXCEPT !.up = to]
       [] OTHER -> m[e]]

(***************************************************************************)
(* The end of every assignment (parser.cpp 251-258), of entity e of the    *)
(* module m.                                                               *)
(***************************************************************************)
Exported(x) == [x EXCEPT !.flags = {Export}]

Assigned(m, e, export, wants) ==
  /\ mod' = [m EXCEPT ![e] = IF export THEN Exported([@ EXCEPT !.at = count + 1])
                             ELSE [@ EXCEPT !.at = count + 1]]
  /\ asked' = asked \cup { <<e, w>> : w \in wants }
                    \cup (IF export THEN {<<e, "exported">>} ELSE {})
  /\ count' = count + 1
  /\ UNCHANGED <<builders, phase>>

\* Every open block will be one more assignment.
Assigning == phase = "parsing" /\ count + Len(builders) - 1 < MaxAssignments

\* An assignment without a block: pushes the entities xs, the last one named.
Simple(xs, export) ==
  /\ Assigning /\ value = 0
  /\ Assigned(Pushed(mod, Top, xs), Len(mod) + Len(xs), export, {})
  /\ UNCHANGED value

\* name : T          (154)
AssignNothing(export) == Simple(<<Value({}, {Valueless})>>, export) /\ UNCHANGED errors

\* name : T = 5      (161) and   name : T = "..."   (171)
AssignNumber(export) == Simple(<<Value({"number"}, {Comptime})>>, export) /\ UNCHANGED errors
AssignString(export) == Simple(<<Value({"string"}, {Comptime})>>, export) /\ UNCHANGED errors

\* name : alias = other    (170, 181)
AssignAlias(export) ==
  Simple(<<[Blank EXCEPT !.has = {"alias"}]>>, export) /\ UNCHANGED errors

\* name : T = (flatten | inline | tail)? f(...)    (188-194)
Call(modifier) == [Value({"call", "inputs"}, modifier) EXCEPT !.arity = 1]

AssignCall(export, modifier) == Simple(<<Call(modifier)>>, export) /\ UNCHANGED errors

\* name : (a : T) -> T = f(...): the type is pushed in front of the call.
AssignFunctionCall(export, modifier, n) ==
  /\ Simple(<<FunctionType(n), [Call(modifier) EXCEPT !.type = Len(mod) + 1]>>, export)
  /\ UNCHANGED errors

\* name : type = (a : T) -> T    (248), reported but pushed all the same when
\* the register is not a type (239-245).
AssignFunctionType(export, n, typed) ==
  /\ Simple(<<FunctionType(n)>>, export)
  /\ errors' = (errors \/ ~typed)

\* name : (a : T) -> T      (157): the type is pushed in front of the function.
AssignDeclaration(export, n) ==
  /\ Simple(<<FunctionType(n), [Value({"fn"}, {}) EXCEPT !.type = Len(mod) + 1]>>, export)
  /\ UNCHANGED errors

\* A constant in a function register (163, 173), or a register copied without
\* a call (183): a diagnostic, and no entity.
AssignRejected ==
  /\ Assigning /\ value = 0
  /\ errors' = TRUE
  /\ count' = count + 1
  /\ UNCHANGED <<mod, builders, value, phase, asked>>

(***************************************************************************)
(* Blocks.                                                                 *)
(***************************************************************************)
\* block_start (320-324)
BlockStart ==
  /\ Assigning /\ value = 0 /\ Len(builders) <= MaxDepth
  /\ mod' = Append(mod, [Blank EXCEPT !.has = {"block"}])
  /\ builders' = Append(builders, Len(mod) + 1)
  /\ UNCHANGED <<value, errors, phase, count, asked>>

\* Block (314-318)
BlockEnd ==
  /\ phase = "parsing" /\ value = 0 /\ Len(builders) > 1
  /\ value' = Top
  /\ builders' = Front(builders)
  /\ UNCHANGED <<mod, errors, phase, count, asked>>

BlockAssigned(m, e, export, wants) ==
  /\ phase = "parsing" /\ value # 0
  /\ Assigned(Moved(m, value, e), e, export, wants)
  /\ value' = 0
  /\ UNCHANGED errors

\* name : type = { ... }, name : namespace = { ... }, name : T = { ... }
\* and name : block = { ... }    (200-218)
AssignBlock(export, x, wants) ==
  BlockAssigned(Pushed(mod, Top, <<x>>), Len(mod) + 1, export, wants)

\* compiler : namespace = { ... }    (203-211): a warning, an empty namespace
\* of another name, and the block is dropped.
AssignReserved ==
  /\ phase = "parsing" /\ value # 0
  /\ mod' = Pushed(mod, Top, <<[Blank EXCEPT !.has = {"block"}, !.flags = {Namespace},
                                             !.at = count + 1]>>)
  /\ asked' = asked \cup {<<value, "ignored">>}
  /\ count' = count + 1
  /\ value' = 0
  /\ UNCHANGED <<builders, errors, phase>>

BlockForms ==
  { <<[Blank EXCEPT !.has = {"typedef", "block"}], {}>>,
    <<[Blank EXCEPT !.has = {"block"}, !.flags = {Namespace}], {"namespace"}>>,
    <<Value({"block"}, {}), {}>>,
    <<Value({"block"}, {Comptime}), {}>> }

\* name : (a : T, b : T = 5) -> T = { ... }    (222-223): the function type,
\* the function and its parameters, the last one with or without a default
\* value, all of which exist before the body moves in.
AssignFunction(export, n, default) ==
  LET m == Pushed(mod, Top, << FunctionType(n),
                               [Value({"fn", "block"}, {}) EXCEPT !.type = Len(mod) + 1] >>)
      param(i) == IF i = n /\ default THEN Value({"param", "number"}, {Comptime})
                  ELSE Value({"param"}, {Valueless})
      params == [i \in 1 .. n |-> [param(i) EXCEPT !.index = i]]
  IN BlockAssigned(Pushed(m, Len(mod) + 2, params), Len(mod) + 2, export, {})

(***************************************************************************)
(* driver.cpp 51-58.                                                       *)
(***************************************************************************)
EndOfFile ==
  /\ phase = "parsing" /\ value = 0 /\ Len(builders) = 1
  /\ phase' = IF errors THEN "rejected"
              ELSE IF Broken(mod, Root) = {} THEN "verified" ELSE "threw"
  /\ UNCHANGED <<mod, builders, value, errors, count, asked>>

Next ==
  \/ \E export \in BOOLEAN :
       \/ AssignNothing(export)
       \/ AssignNumber(export)
       \/ AssignString(export)
       \/ AssignAlias(export)
       \/ \E modifier \in Modifiers : AssignCall(export, modifier)
       \/ \E modifier \in Modifiers, n \in Arities : AssignFunctionCall(export, modifier, n)
       \/ \E n \in Arities, typed \in BOOLEAN : AssignFunctionType(export, n, typed)
       \/ \E n \in Arities : AssignDeclaration(export, n)
       \/ \E f \in BlockForms : AssignBlock(export, f[1], f[2])
       \/ \E n \in Arities, default \in BOOLEAN : AssignFunction(export, n, default)
  \/ AssignReserved
  \/ AssignRejected
  \/ BlockStart
  \/ BlockEnd
  \/ EndOfFile

Spec == Init /\ [][Next]_vars

-----------------------------------------------------------------------------
Entities == DOMAIN mod
Open == Range(builders) \cup ({value} \ {0})

\* Type invariant: parents and children are entities of the module, and the
\* builder stack never runs empty.
TypeOK ==
  /\ \A e \in Entities : /\ mod[e].up \in {0} \cup Entities
                         /\ Range(mod[e].kids) \subseteq Entities
                         /\ mod[e].flags \subseteq 1 .. 11
  /\ builders # <<>> /\ Range(builders) \subseteq Entities
  /\ value \in {0} \cup Entities
  /\ errors \in BOOLEAN /\ count \in 0 .. MaxAssignments
  /\ phase \in {"parsing", "rejected", "verified", "threw"}

\* At every moment each entity but the anonymous blocks sits in exactly one
\* block, once, and that block is its parent, whatever has been moved where; and
\* nothing that was parsed is left behind: an entity without a parent is the
\* root, a block still being parsed or waiting, an emptied anonymous one, or
\* one the file gave to the reserved namespace.
OnePlace ==
  \A e \in Entities :
    IF mod[e].up = 0
    THEN /\ \A b \in Entities : e \notin Range(mod[b].kids)
         /\ e # Root /\ e \notin Open /\ <<e, "ignored">> \notin asked => mod[e].kids = <<>>
    ELSE \A b \in Entities :
           Cardinality({ i \in DOMAIN mod[b].kids : mod[b].kids[i] = e })
             = IF b = mod[e].up THEN 1 ELSE 0

\* A block lists its statements in the order of the file, a function behind
\* its own function type, and the parameters before everything else.
FileOrder ==
  \A b \in Entities : \A i, j \in DOMAIN mod[b].kids :
    i < j =>
      LET x == mod[mod[b].kids[i]]
          y == mod[mod[b].kids[j]]
      IN /\ x.at # 0 /\ y.at # 0 => x.at < y.at
         /\ y.index # 0 => x.index # 0 /\ x.index < y.index
         /\ x.type # mod[b].kids[j]

\* Whenever verify throws, the file exported something whose builder had set
\* Valueless or Namespace, which the export took away.  Every other combination
\* of nested assignments passes every rule of verify::structure.
ThrowsOnlyFor ==
  phase = "threw" =>
    \E e \in Entities :
      /\ <<e, "exported">> \in asked
      /\ <<e, "namespace">> \in asked \/ mod[e].has = {"type"}

\* "An entire namespace can be exported at once" (doir.spec 132).
NamespacesExportable ==
  \A e \in Entities : <<e, "namespace">> \in asked => Namespace \in mod[e].flags
=============================================================================
