-------------------------------- MODULE Backend --------------------------------
(***************************************************************************)
(* What the back-end schedule of the driver (driver.cpp 101-120) does to a *)
(* program once its names are resolved: compute_compiler_namespace folds   *)
(* calls of compiler functions, inline_functions replaces calls by copies  *)
(* of the functions they call, the first pass runs again over what was     *)
(* copied, verify::structure looks at the result, and the byte dumper      *)
(* writes what the emit calls say.  The passes run breadth first over the  *)
(* tree they change.                                                       *)
(*                                                                         *)
(* Registers are not modelled here: nothing is pinned, the register of a   *)
(* block is 0, and register_for is in the module Registers.  The sort in   *)
(* front of the verifier renumbers entities, which is Canonicalize; here   *)
(* they keep their ids.  Calls have as many inputs as function_arity       *)
(* demands, and debug_print, which prints, is a call like those to leave   *)
(* alone.  print_as_call, which only the printer reads, and                *)
(* compiler.current_entity, which no program here reads, are left out.     *)
(* Entities are those of Copy.                                             *)
(***************************************************************************)
EXTENDS Rewrites, Tree, Bitwise, Relation

CONSTANTS
  Programs,
  MaxEntities   \* a module that grows beyond counts as one that never stops growing

VARIABLES mod, queue, phase, out, source

vars == <<mod, queue, phase, out, source>>

\* What build_builtin_block declares, of what the programs use.  All its
\* functions have one type here, and no blocks; nothing inlines them.
Type == 1
BuiltinT == 2
BaseType == 3
Eight == 4
Byte == 5
Register == 6
Emit == 7
BitwiseAnd == 8
ShiftRight == 9
AlwaysInline == 10
ReturnRegister == 11
YieldRegister == 12
BytePointer == 13
EmitBytes == 14
Pointer == 15
AlwaysComptime == 16
ComptimeBaseType == 17
Compiler == 18

Declaration == [Blank EXCEPT !.up = Compiler, !.type = BuiltinT, !.fn = TRUE]

Builtins ==
  [e \in 1 .. Compiler |->
     CASE e = Type -> [Blank EXCEPT !.up = Compiler, !.def = TRUE, !.blk = TRUE]
       [] e = BuiltinT -> [Blank EXCEPT !.up = Compiler, !.def = TRUE, !.fn = TRUE, !.ins = <<Byte>>]
       [] e = Eight -> [Blank EXCEPT !.up = Compiler, !.type = Byte, !.num = 8]
       [] e \in {Byte, Register} ->
            [Blank EXCEPT !.up = Compiler, !.type = Type, !.callee = BaseType, !.ins = <<Eight, Eight>>]
       [] e = BytePointer ->
            [Blank EXCEPT !.up = Compiler, !.def = TRUE, !.ptr = Byte, !.flags = {Comptime}]
       [] e = Compiler ->
            [Blank EXCEPT !.blk = TRUE, !.kids = [i \in 1 .. Compiler - 1 |-> i], !.flags = {Namespace}]
       [] OTHER -> Declaration]

Root == Len(source)

------------------------------------------------------------------------------
\* An alias chain from e that comes back to where it was: after as many steps
\* as there are aliases it is at one still.
Endless(m, e) ==
  LET aliases == { x \in DOMAIN m : m[x].alias # 0 }
      to[n \in 0 .. Cardinality(aliases)] ==
        IF n = 0 THEN e ELSE LET x == to[n - 1] IN IF x \in aliases THEN m[x].alias ELSE x
  IN to[Cardinality(aliases)] \in aliases

Modifiers == {Pointer, AlwaysInline, AlwaysComptime}

\* resolve_type_modifications.
FunctionType(m, t) ==
  LET to[x \in DOMAIN m] ==
        IF m[x].callee \in Modifiers THEN to[m[x].ins[1]] ELSE Resolved(m, x)
  IN to[t]

Enclosing(m, e) == Ancestors([x \in DOMAIN m |-> m[x].up], e)

\* find_function_inside_of, whether it finds one.
InFunction(m, e) ==
  \E x \in {e} \cup Enclosing(m, e) :
    m[x].fn \/ (m[x].type # 0 /\ m[FunctionType(m, m[x].type)].fn)

Numeric(m, e) == \A i \in DOMAIN m[e].ins : m[Inputs(m, e)[i]].num # NoNumber

Computed(f, v, arg) == IF f = BitwiseAnd THEN v & arg ELSE v \div (2 ^ arg)

------------------------------------------------------------------------------
\* Emitted bytes as the language defines them: in program order, a call that
\* is to be inlined standing for the function's body with the parameters bound
\* to the values of the inputs.
WillWantInlining(m, e) ==
  \/ WantsInlining(m, e)
  \/ /\ m[e].callee # 0
     /\ \E c \in DOMAIN m :
          /\ m[c].callee = AlwaysInline
          /\ Inputs(m, c)[1] = m[Resolved(m, m[e].callee)].type

\* The functions whose bodies hold a call of themselves that is to be inlined,
\* or would once others are.
Recursive(m) ==
  LET functions == { f \in DOMAIN m : m[f].fn /\ m[f].blk }
      calls == [ f \in functions |->
                   { Resolved(m, m[e].callee) : e \in { x \in DOMAIN m :
                       f \in Enclosing(m, x) /\ WillWantInlining(m, x) } } ]
      reaches == TransitiveClosure([p \in functions \X functions |-> p[2] \in calls[p[1]]], functions)
  IN { f \in functions : reaches[f, f] }

Just(v) == [num |-> v, str |-> <<>>]

RECURSIVE Value(_, _, _)
Value(m, e, env) ==
  CASE e \in DOMAIN env -> env[e]
    [] e \notin DOMAIN env /\ (m[e].num # NoNumber \/ m[e].str # <<>>) ->
         [num |-> m[e].num, str |-> m[e].str]
    [] e \notin DOMAIN env /\ m[e].alias # 0 -> Value(m, m[e].alias, env)
    [] m[e].callee \in {BitwiseAnd, ShiftRight} ->
         LET v == [i \in 1 .. 2 |-> Value(m, m[e].ins[i], env).num]
         IN Just(IF NoNumber \in Range(v) THEN NoNumber ELSE Computed(m[e].callee, v[1], v[2]))
    [] m[e].callee \in {ReturnRegister, YieldRegister} -> Just(0)
    [] OTHER -> Just(NoNumber)

\* Mutant: a number is written as wide as it is.
AsByteWide(v) == v

\* The cast to std::byte.
AsByte(v) == IF v = NoNumber THEN v ELSE v % 256

Bytes(v) == IF v.str # <<>> THEN v.str ELSE <<AsByte(v.num)>>

RECURSIVE Emits(_, _, _)
Emits(m, e, env) ==
  LET bytes(s, scope) == FlattenSeq([i \in DOMAIN s |-> Emits(m, s[i], scope)])
      f == Resolved(m, m[e].callee)
  IN CASE m[e].callee = Emit -> <<Head(Bytes(Value(m, m[e].ins[1], env)))>>
       [] m[e].callee = EmitBytes -> Bytes(Value(m, m[e].ins[1], env))
       [] m[e].callee \notin {Emit, EmitBytes} /\ WillWantInlining(m, e) ->
            bytes(m[f].kids, [p \in { k \in Range(m[f].kids) : m[k].param # 0 } |->
                                Value(m, m[e].ins[m[p].param], env)])
       [] m[e].fn -> <<>>
       [] OTHER -> bytes(m[e].kids, env)

------------------------------------------------------------------------------
Init ==
  /\ source \in Programs
  /\ mod = source
  /\ queue = <<Len(source)>>
  /\ phase = "fold"
  /\ out = <<>>

Here == Head(queue)
Callee == mod[Here].callee

\* Mutant: the walk looks at the block before it visits the entity.
ContinueStale ==
  /\ queue' = Tail(queue) \o mod[Here].kids
  /\ UNCHANGED <<phase, out, source>>

\* breadth_first goes on with the children that the visited entity now has.
Continue ==
  /\ queue' = Tail(queue) \o mod'[Here].kids
  /\ UNCHANGED <<phase, out, source>>

\* The visit of e resolves the aliases of its inputs, and does not return.
Stuck(e) ==
  /\ \/ mod[e].callee \in Modifiers \cup {BaseType, ComptimeBaseType}
     \/ mod[e].callee \in {BitwiseAnd, ShiftRight} /\ ~InFunction(mod, e)
  /\ \E i \in DOMAIN mod[e].ins : Endless(mod, mod[e].ins[i])

Folding == phase \in {"fold", "refold"} /\ queue # <<>> /\ ~Stuck(Here)

\* The paths of compute_compiler_namespace that push a diagnostic.
Fails(e) ==
  LET f == mod[e].callee
  IN \/ f \in {BaseType, ComptimeBaseType} /\ ~Numeric(mod, e)
     \/ f \in {BitwiseAnd, ShiftRight} /\ ~InFunction(mod, e) /\ ~Numeric(mod, e)
     \/ f \in Modifiers /\ ~mod[Inputs(mod, e)[1]].def
     \/ f = ReturnRegister /\ ~InFunction(mod, e)
     \/ f = YieldRegister /\ mod[mod[e].up].fn

Reject ==
  /\ Folding /\ Fails(Here)
  /\ phase' = "rejected"
  /\ queue' = <<>>
  /\ UNCHANGED <<mod, out, source>>

ComputeBaseType ==
  /\ Folding /\ ~Fails(Here)
  /\ Callee \in {BaseType, ComptimeBaseType}
  /\ mod' = BaseTyped(mod, Here, IF Callee = BaseType THEN {} ELSE {ComptimeAlways})
  /\ Continue

\* Nothing says where the pointer came from.
ComputePointer ==
  /\ Folding /\ ~Fails(Here)
  /\ Callee = Pointer
  /\ mod' = [mod EXCEPT ![Here] = [@ EXCEPT
               !.type = 0, !.callee = 0, !.ins = <<>>,
               !.def = TRUE, !.ptr = Inputs(mod, Here)[1], !.flags = @ \cup {Comptime}]]
  /\ Continue

\* bitwise_and and shift_right: the call keeps its type and its inputs.
ComputeBits ==
  /\ Folding /\ ~Fails(Here)
  /\ Callee \in {BitwiseAnd, ShiftRight} /\ ~InFunction(mod, Here)
  /\ LET v == [i \in 1 .. 2 |-> mod[Inputs(mod, Here)[i]].num]
     IN mod' = [mod EXCEPT ![Here] = [@ EXCEPT !.callee = 0, !.num = Computed(Callee, v[1], v[2])]]
  /\ Continue

ComputeModifier ==
  /\ Folding /\ ~Fails(Here)
  /\ Callee \in {AlwaysInline, AlwaysComptime}
  /\ mod' = Modified(mod, Here, IF Callee = AlwaysInline THEN Inline ELSE ComptimeAlways)
  /\ Continue

\* yield_register, as the register of the parent, a block (and so never a
\* parameter) to which none is assigned.
ComputeYieldRegister ==
  /\ Folding /\ ~Fails(Here)
  /\ Callee = YieldRegister
  /\ mod' = AsRegister(mod, Here, Register, 0)
  /\ Continue

LeaveAlone ==
  /\ Folding /\ ~Fails(Here)
  /\ \/ Callee \notin Modifiers \cup {BaseType, ComptimeBaseType, BitwiseAnd, ShiftRight, YieldRegister}
     \/ Callee \in {BitwiseAnd, ShiftRight} /\ InFunction(mod, Here)
  /\ UNCHANGED mod
  /\ Continue

------------------------------------------------------------------------------
InlineCall ==
  /\ phase = "inline" /\ queue # <<>>
  /\ WantsInlining(mod, Here)
  /\ Len(mod) <= MaxEntities
  /\ mod' = Inlined(mod, Here, ReturnRegister :> YieldRegister)
  /\ Continue

InlineNothing ==
  /\ phase = "inline" /\ queue # <<>>
  /\ ~WantsInlining(mod, Here)
  /\ UNCHANGED mod
  /\ Continue

\* A pass does not return: it follows a circle of aliases, or inlining keeps
\* making the module grow.
Hang ==
  /\ queue # <<>>
  /\ \/ phase \in {"fold", "refold"} /\ Stuck(Here)
     \/ phase = "inline" /\ Len(mod) > MaxEntities /\ WantsInlining(mod, Here)
  /\ phase' = "hung"
  /\ queue' = <<>>
  /\ UNCHANGED <<mod, out, source>>

\* The walk is over; the next pass starts at the root again.
NextPass ==
  /\ queue = <<>>
  /\ \/ phase = "fold" /\ phase' = "inline" /\ queue' = <<Root>>
     \/ phase = "inline" /\ phase' = "refold" /\ queue' = <<Root>>
     \/ phase = "refold" /\ phase' = "verify" /\ queue' = <<>>
  /\ UNCHANGED <<mod, out, source>>

------------------------------------------------------------------------------
\* The module as verify::structure looks at it.
View(m) ==
  [e \in DOMAIN m |->
     [has |-> { c \in {"type", "typedef", "number", "string", "call", "fn", "block", "alias",
                        "inputs", "param", "pointer"} :
                  CASE c = "type" -> m[e].type # 0
                    [] c = "typedef" -> m[e].def
                    [] c = "number" -> m[e].num # NoNumber
                    [] c = "string" -> m[e].str # <<>>
                    [] c = "pointer" -> m[e].ptr # 0
                    [] c = "call" -> m[e].callee # 0
                    [] c = "fn" -> m[e].fn
                    [] c = "block" -> m[e].blk
                    [] c = "alias" -> m[e].alias # 0
                    [] c = "inputs" -> m[e].ins # <<>>
                    [] c = "param" -> m[e].param # 0 },
      flags |-> m[e].flags,
      up |-> m[e].up,
      kids |-> m[e].kids,
      arity |-> Len(m[e].ins),
      index |-> m[e].param,
      type |-> IF m[e].type = 0 THEN 0 ELSE FunctionType(m, m[e].type)]]

VerifyStructure ==
  /\ phase = "verify"
  /\ phase' = IF Broken(View(mod), Root) = {} THEN "dump" ELSE "threw"
  /\ UNCHANGED <<mod, queue, out, source>>

\* interpret_number_assign and interpret_call for one entity that is no block.
\* The table of values throws for an id it does not reach; where it does, a
\* value that was not met before is empty.
Interpreted(m, acc, e, reaches) ==
  LET v == m[e].ins[1]
  IN CASE m[e].num # NoNumber /\ m[e].type = Byte ->
            [acc EXCEPT !.values = (e :> <<AsByte(m[e].num)>>) @@ @]
       [] m[e].str # <<>> /\ m[e].type = BytePointer ->
            [acc EXCEPT !.values = (e :> m[e].str) @@ @]
       [] m[e].callee \in {Emit, EmitBytes} /\ ~InFunction(m, e) ->
            IF v \in DOMAIN acc.values
            THEN [acc EXCEPT !.out = @ \o IF m[e].callee = Emit THEN <<Head(acc.values[v])>>
                                          ELSE acc.values[v]]
            ELSE [acc EXCEPT !.ok = m[e].callee = EmitBytes /\ reaches]
       [] OTHER -> acc

\* byte_dumper::interpret.  Whether the table reaches the values that were not
\* met is a matter of the ids that the sort gave; one that it does not reach is
\* enough to throw.
Dump ==
  /\ phase = "dump"
  /\ \E reaches \in BOOLEAN :
     LET plain == SelectSeq(PreOrder(mod, Root), LAMBDA e : ~mod[e].blk)
         end == FoldLeft(LAMBDA acc, e : IF acc.ok THEN Interpreted(mod, acc, e, reaches) ELSE acc,
                         [values |-> <<>>, out |-> <<>>, ok |-> TRUE], plain)
     IN IF end.ok THEN phase' = "written" /\ out' = end.out
                  ELSE phase' = "threw" /\ UNCHANGED out
  /\ UNCHANGED <<mod, queue, source>>

Next ==
  \/ Reject \/ ComputeBaseType \/ ComputeBits \/ ComputePointer \/ ComputeModifier
  \/ ComputeYieldRegister \/ LeaveAlone
  \/ InlineCall \/ InlineNothing \/ NextPass \/ Hang
  \/ VerifyStructure \/ Dump

Spec == Init /\ [][Next]_vars

------------------------------------------------------------------------------
References(m, e) == ({m[e].type, m[e].callee, m[e].alias, m[e].ptr} \cup Range(m[e].ins)) \ {0}

\* Every id the entities carry is the id of an entity, and every queued visit
\* is one of an entity: copies are numbered as they are made.
TypeOK ==
  /\ phase \in {"fold", "inline", "refold", "verify", "dump", "written", "threw", "rejected", "hung"}
  /\ Range(queue) \subseteq DOMAIN mod
  /\ \A e \in DOMAIN mod :
       /\ References(mod, e) \cup Range(mod[e].kids) \subseteq DOMAIN mod
       /\ mod[e].up \in 0 .. Len(mod)
  /\ out \in Seq(0 .. 255)

\* Copies and substitutions stay hygienic: whatever an entity refers to stands
\* in front of it, in a block around it or in a namespace.  In particular no
\* copy refers to a parameter or to a statement of the function it was copied
\* from (copy_existing with deep_copy_build_structure, substitute_entities).
\* Only a function may stand behind what calls it, and inlining a function into
\* itself may make an alias of itself.
InScope ==
  Recursive(source) = {} =>
  LET order == PreOrder(mod, Root)
      at == [e \in Range(order) |-> CHOOSE i \in DOMAIN order : order[i] = e]
  IN \A e \in Range(order) :
       /\ \A t \in References(mod, e) :
            mod[t].up \in Enclosing(mod, e) \/ Namespace \in mod[mod[t].up].flags
       /\ \A t \in References(mod, e) \ ((1 .. Compiler) \cup {mod[e].callee}) : at[t] < at[e]

\* What the dumper does not look up the value of: a parameter, an alias or a
\* register.
NotAConstant(v) ==
  source[v].alias # 0 \/ source[v].param # 0 \/ source[v].callee \in {ReturnRegister, YieldRegister}

Unseen(f) == \E e \in DOMAIN source : source[e].callee = f /\ NotAConstant(source[e].ins[1])

\* No step of any pass changes what the program emits, in the middle of a walk
\* as little as at its end, and the byte dumper writes just that: however calls
\* are nested, and whether a function is inlined before or after the calls in
\* its own body were (inline_functions under breadth_first).  Where emit_bytes
\* names what is not looked up, its bytes may be missing.  A function that calls
\* itself says nothing that could be kept.
MeaningKept ==
  Recursive(source) = {} =>
    /\ Emits(mod, Root, <<>>) = Emits(source, Root, <<>>)
    /\ phase = "written" /\ ~Unseen(EmitBytes) => out = Emits(source, Root, <<>>)

\* One walk of inline_functions is enough: the breadth-first walker meets the
\* calls in what it has just copied, too.
NothingLeft ==
  phase \notin {"fold", "inline", "rejected", "hung"} =>
    \A e \in DOMAIN mod : ~WantsInlining(mod, e)

Depth(e) == Cardinality(Enclosing(source, e))

\* The calls by which functions that call themselves do so.
RecursiveCalls ==
  LET functions == Recursive(source)
  IN { e \in DOMAIN source :
         /\ WillWantInlining(source, e)
         /\ Resolved(source, source[e].callee) \in functions
         /\ Enclosing(source, e) \cap functions # {} }

\* No pass, the verifier or the dumper ends a compilation but for one of these
\* reasons.  compute_compiler_namespace rejects
\*  - bits of something that lies deeper and is folded later, or of no number,
\*  - a pointer to what is no type,
\*  - return_register outside of functions, or yield_register right in one,
\*  - return_register in an inner block of a function that is inlined, which
\*    keeps it (the substitution in inline_functions goes one level deep).
\* The verifier throws when a flattened call was inlined, whose bit it takes for
\* Tail, and when a call with the modifier inline was inlined into the function
\* it calls: the copy of the call itself is made while it still has its flags.
\* The dumper throws for an emit of what it does not look up.
FailsForCause ==
  /\ phase = "rejected" =>
       \E e \in DOMAIN source :
         LET f == source[e].callee
         IN \/ /\ f \in {BitwiseAnd, ShiftRight} /\ ~InFunction(source, e)
               /\ \E i \in 1 .. 2 : LET v == Inputs(source, e)[i]
                                    IN source[v].num = NoNumber /\ Depth(v) > Depth(e)
            \/ /\ f = Pointer
               /\ LET t == source[Inputs(source, e)[1]]
                  IN ~t.def /\ t.callee \notin {BaseType, ComptimeBaseType}
            \/ f = ReturnRegister /\ ~InFunction(source, e)
            \/ f = YieldRegister /\ source[source[e].up].fn
            \/ f = ReturnRegister /\ ~source[source[e].up].fn
  /\ phase = "threw" =>
       \/ \E e \in DOMAIN source : Flatten \in source[e].flags
       \/ \E e \in RecursiveCalls : Inline \in source[e].flags
       \/ Unseen(Emit) \/ Unseen(EmitBytes)

\* Every pass ends (inline_functions and compute_compiler_namespace under
\* breadth_first), except for functions that are to be inlined and
\*  - call themselves by more than one call: each visit copies calls that were
\*    not visited yet, or
\*  - hand a parameter on to themselves, which makes a circle of aliases.
HangsForCause ==
  phase = "hung" =>
    \/ Cardinality(RecursiveCalls) > 1
    \/ \E e \in RecursiveCalls : \E v \in Range(source[e].ins) : source[v].param # 0

\* A function whose type is the result of always_inline is inlined: "It can
\* also be applied to the function type" (doir.spec 57-61).
ForciblyInlined ==
  phase \in {"verify", "dump", "written"} =>
    \A e \in DOMAIN mod :
      mod[e].callee \in DOMAIN source =>
        LET t == source[mod[e].callee].type
        IN t # 0 => source[t].callee # AlwaysInline
=============================================================================
