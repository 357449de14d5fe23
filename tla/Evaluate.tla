-------------------------------- MODULE Evaluate --------------------------------
(***************************************************************************)
(* Compile-time evaluation (opt/mizu/comptime_evaluate.cpp) and the        *)
(* stripping of the blocks it leaves behind.  A depth first walk, repeated *)
(* until a round evaluates nothing (fixed_point, systems.hpp), runs every  *)
(* call that is flagged Comptime and has its inputs.  Two of the functions *)
(* such a call may run rewrite the tree under the walk: doir_execute turns *)
(* the call into a copy of a block, doir_execute_if does that or takes the *)
(* call out of its block (mizu_doir_instructions.hpp).                     *)
(*                                                                         *)
(* An evaluation is one step: it builds a scratch program that loads the   *)
(* call's entity and its arguments into registers and calls the function,  *)
(* compiles it and runs it on the Mizu machine.  The scratch program lists *)
(* the program's own compiler and mizu namespaces, so that compiling it    *)
(* compiles these, too, in the middle of the walk.  Kept of all that is    *)
(* what becomes of the namespaces, what the registers hold and what the    *)
(* function does with them; the scratch program's own entities, which no   *)
(* block of the program lists, are left out.  So are strings, which the    *)
(* pass treats as it treats numbers.  doir_execute keeps a reference to    *)
(* the copied block while it gives the call a block; here the reference    *)
(* stays good.  Entities are those of Copy.                                *)
(***************************************************************************)
EXTENDS Rewrites, Tree

CONSTANTS
  Programs,
  MaxEntities,     \* an evaluation that would make more stops the model
  Word             \* 2^32, as small as the ids of entities allow

ASSUME WordAssumption == Word \in Nat /\ MaxEntities < Word

VARIABLES
  mod,
  value,           \* doir::comptime_number of the entities that have one
  stack,           \* frames of depth_first: <<entity, index of the next child>>
  queue,           \* breadth_first
  changed,         \* fixed_point_changed
  phase,
  source           \* the module before the passes

evaluateVars == <<mod, value, stack, queue, changed, phase, source>>

\* What build_builtin_block and mizu.doir declare, of what the programs use.
\* canonicalize::sort gave the first four their ids.
Type == 1
BlockT == 2
Void == 3
EarlyInclude == 4
CurrentEntity == 5
Bits == 6
Emit == 7
BitwiseAnd == 8
BaseType == 9
ComptimeBaseType == 10
AlwaysInline == 11
RegisterT == 12
RegisterFor == 13
PinRegister == 14
BeginRegisterAllocation == 15
Assembler == 16
Compiler == 17
U64 == 18
ExecuteT == 19
EmitRegister == 23
LoadImmediate == 24
Execute == 28
ExecuteIf == 29
Halt == 30
Mizu == 31

Root == Len(source)

\* "Compiler functions have their own pass".
CompilersOwn(m, f) == m[f].up \in {Compiler, Assembler}

------------------------------------------------------------------------------
\* The order in which breadth_first visits a tree that stays as it is.
BreadthFirst(m, roots) ==
  LET below(s) == FlattenSeq([i \in DOMAIN s |-> m[s[i]].kids])
  IN FoldLeft(LAMBDA acc, d : [order |-> acc.order \o acc.level, level |-> below(acc.level)],
              [order |-> <<>>, level |-> roots], [d \in 1 .. Len(m) |-> d]).order

\* compute_compiler_namespace for one entity, of the calls that the namespaces
\* hold outside of functions: types, modifiers of types and registers.
Computed(m, e, register) ==
  LET f == m[e].callee
      target == Inputs(m, e)[2]
  IN CASE f = BaseType -> BaseTyped(m, e, {})
       [] f = ComptimeBaseType -> BaseTyped(m, e, {ComptimeAlways})
       [] f = AlwaysInline -> Modified(m, e, Inline)
       [] f = RegisterFor /\ m[target].param = 0 ->
            AsRegister(m, e, RegisterT, IF target \in DOMAIN register THEN register[target] ELSE 0)
       [] OTHER -> m

\* The pass below some entities.  compiler.current_entity is left at the last
\* call it met.
ComputedBelow(m, roots, register) ==
  LET order == BreadthFirst(m, roots)
      calls == SelectSeq(order, LAMBDA e : m[e].callee # 0)
  IN [FoldLeft(LAMBDA acc, e : Computed(acc, e, register), m, order) EXCEPT ![CurrentEntity].num = Last(calls)]

\* inline_functions.  Nothing the namespaces inline returns a register.
RECURSIVE InlinedFrom(_, _)
InlinedFrom(m, visits) ==
  IF visits = <<>> THEN m
  ELSE LET e == Head(visits)
           now == IF WantsInlining(m, e) THEN Inlined(m, e, <<>>) ELSE m
       IN InlinedFrom(now, Tail(visits) \o now[e].kids)

\* What mizu_schedule over a scratch program makes of the namespaces it lists:
\* nothing there is pinned, numbered or loaded, and no call stands deeper.
Compiled(m) ==
  LET shared == <<Compiler, Mizu>>
  IN ComputedBelow(InlinedFrom(ComputedBelow(m, shared, <<>>), shared), shared, <<>>)

------------------------------------------------------------------------------
\* Mutant: only numbers of the program have a value.
AvailableNumber(m, known, e) == m[e].num # NoNumber \/ m[e].type \in {Type, BlockT}

\* comptime_value_available.
Available(m, known, e) ==
  \/ m[e].num # NoNumber
  \/ e \in DOMAIN known
  \/ m[e].type \in {Type, BlockT}

\* The number an argument is passed as: that of a number, a comptime_number,
\* or the entity itself.
Argument(m, known, e) ==
  IF m[e].num # NoNumber THEN m[e].num
  ELSE IF e \in DOMAIN known THEN known[e]
  ELSE Resolved(m, e)

CurrentEntityReg == 2

\* The scratch program: the registers its constants are pinned to, and what is
\* loaded into them, in order.  The first is the address of the module.  Before
\* that, compiler.current_entity becomes the number of the call.
Loads(m, known, e) ==
  LET now == [m EXCEPT ![CurrentEntity].num = e]
  IN << <<1, 0>>, <<2, e>> >> \o [i \in DOMAIN m[e].ins |-> <<2 + i, Argument(now, known, m[e].ins[i])>>]

\* load_immediate, all that loads an argument, carries 32 bits.
RegistersAfter(loads) ==
  FoldLeft(LAMBDA regs, l : [regs EXCEPT ![l[1]] = l[2] % Word], [r \in 0 .. Len(loads) |-> 0], loads)

\* Mutant: a call is evaluated whatever its inputs.
EvaluatesEarly(m, known, e) ==
  /\ m[e].callee # 0
  /\ Comptime \in m[e].flags
  /\ ~Available(m, known, e)
  /\ ~CompilersOwn(m, m[e].callee)
  /\ m[e].callee # Halt

\* The guards of comptime_evaluate.
Evaluates(m, known, e) ==
  /\ m[e].callee # 0
  /\ Comptime \in m[e].flags
  /\ ~Available(m, known, e)
  /\ \A i \in DOMAIN m[e].ins : Available(m, known, m[e].ins[i])
  /\ ~CompilersOwn(m, m[e].callee)
  /\ m[e].callee # Halt

\* Mutant: what is spliced in goes on belonging to the block it was copied from.
SplicedStale(m, e, blk) ==
  LET copied == DeepCopied(m, blk)
  IN [copied EXCEPT ![e] = [@ EXCEPT !.callee = 0, !.ins = <<>>, !.blk = TRUE,
                                     !.kids = copied[Len(m) + 1].kids]]

\* strip_value on a call, attach_subblock and inline_into: e becomes a block of
\* its own type, with the children of a copy of blk.
Spliced(m, e, blk) ==
  LET copy == Len(m) + 1
      copied == DeepCopied(m, blk)
      kids == copied[copy].kids
  IN [x \in DOMAIN copied |->
        IF x = e THEN [m[e] EXCEPT !.callee = 0, !.ins = <<>>, !.blk = TRUE, !.kids = kids]
        ELSE IF x \in Range(kids) THEN [copied[x] EXCEPT !.up = e]
        ELSE copied[x]]

Erased(m, e) == [m EXCEPT ![m[e].up].kids = SelectSeq(@, LAMBDA k : k # e)]

------------------------------------------------------------------------------
EvaluateInit ==
  /\ source \in Programs
  /\ mod = source
  /\ value = <<>>
  /\ stack = << <<Len(source), 1>> >>
  /\ queue = <<>>
  /\ changed = FALSE
  /\ phase = "evaluate"

Top == stack[Len(stack)]
Below == SubSeq(stack, 1, Len(stack) - 1)
Walking == phase = "evaluate" /\ stack # <<>>

Descend ==
  /\ Walking
  /\ Top[2] <= Len(mod[Top[1]].kids)
  /\ stack' = Below \o << <<Top[1], Top[2] + 1>>, <<mod[Top[1]].kids[Top[2]], 1>> >>
  /\ UNCHANGED <<mod, value, queue, changed, phase, source>>

\* What follows happens when func is called: behind the last child.
Visiting == Walking /\ Top[2] > Len(mod[Top[1]].kids)

\* The call that is evaluated, and what its function finds in the registers.
Evaluating == Visiting /\ Evaluates(mod, value, Top[1])
Loaded == RegistersAfter(Loads(mod, value, Top[1]))
Here == Loaded[CurrentEntityReg]
Given(i) == Loaded[CurrentEntityReg + i]

\* doir_attach_comptime_number_i64 on what the function returned.
Valued(v) ==
  /\ value' = (Here :> v) @@ value
  /\ changed' = TRUE
  /\ stack' = Below
  /\ UNCHANGED <<queue, phase, source>>

VisitNothing ==
  /\ Visiting /\ ~Evaluates(mod, value, Top[1])
  /\ stack' = Below
  /\ UNCHANGED <<mod, value, queue, changed, phase, source>>

\* The program's own functions all tell whether x is 0.
IsZero(x) == IF x = 0 THEN 1 ELSE 0

EvaluateFunction ==
  /\ Evaluating
  /\ mod[Top[1]].callee \notin {Execute, ExecuteIf}
  /\ mod' = Compiled(mod)
  /\ Valued(IsZero(Given(1)))

Copies == LET f == mod[Top[1]].callee IN f = Execute \/ (f = ExecuteIf /\ Given(2) # 0)

Fits == Len(Compiled(mod)) + Len(PreOrder(mod, Given(1))) <= MaxEntities

EvaluateCopying ==
  /\ Evaluating /\ Copies /\ Fits
  /\ mod' = Spliced(Compiled(mod), Here, Given(1))
  /\ Valued(Here)

EvaluateErasing ==
  /\ Evaluating
  /\ mod[Top[1]].callee = ExecuteIf /\ Given(2) = 0
  /\ mod' = Erased(Compiled(mod), Here)
  /\ Valued(Here)

\* The program would make copies for ever: the model stops here.
Hang ==
  /\ Evaluating /\ Copies /\ ~Fits
  /\ phase' = "hung"
  /\ stack' = <<>>
  /\ UNCHANGED <<mod, value, queue, changed, source>>

\* fixed_point: again when something was evaluated.
EndOfRound ==
  /\ phase = "evaluate" /\ stack = <<>>
  /\ IF changed
     THEN /\ changed' = FALSE
          /\ stack' = << <<Root, 1>> >>
          /\ UNCHANGED <<queue, phase>>
     ELSE /\ phase' = "strip"
          /\ queue' = <<Root>>
          /\ UNCHANGED <<stack, changed>>
  /\ UNCHANGED <<mod, value, source>>

------------------------------------------------------------------------------
\* block::is_freestanding.
Freestanding(m, e) == m[e].blk /\ m[e].type = BlockT

\* strip_freestanding_blocks, one visit of its breadth first walk.
StripBlock ==
  /\ phase = "strip" /\ queue # <<>>
  /\ LET e == Head(queue)
     IN mod' = IF Export \notin mod[e].flags /\ Freestanding(mod, e) /\ mod[e].up # 0
               THEN Erased(mod, e) ELSE mod
  /\ queue' = Tail(queue) \o mod'[Head(queue)].kids
  /\ UNCHANGED <<value, stack, changed, phase, source>>

EvaluateStep ==
  \/ Descend \/ VisitNothing
  \/ EvaluateFunction \/ EvaluateCopying \/ EvaluateErasing \/ Hang
  \/ EndOfRound \/ StripBlock

------------------------------------------------------------------------------
\* The language's view.  The value of an input, NoNumber when it has none at
\* compile time; compiler.current_entity is some number that is not 0.
RECURSIVE Known(_, _)
Known(m, e) ==
  CASE e = CurrentEntity -> e
    [] e # CurrentEntity /\ m[e].num # NoNumber -> m[e].num
    [] m[e].type \in {Type, BlockT} -> e
    [] m[e].num = NoNumber /\ Comptime \in m[e].flags /\ m[e].callee # 0
         /\ m[e].callee \notin {Halt, Execute, ExecuteIf} /\ ~CompilersOwn(m, m[e].callee) ->
         LET v == Known(m, m[e].ins[1]) IN IF v = NoNumber THEN v ELSE IsZero(v % Word)
    [] OTHER -> NoNumber

\* Whether the call runs a block at compile time, and whether it does not.
Condition(m, e) == LET v == Known(m, m[e].ins[2]) IN IF v = NoNumber THEN v ELSE v % Word
Ran(m, e) ==
  \/ m[e].callee = Execute
  \/ m[e].callee = ExecuteIf /\ Condition(m, e) \notin {0, NoNumber}
Skipped(m, e) == m[e].callee = ExecuteIf /\ Condition(m, e) = 0

\* What a program says, the values it emits at run time outside of functions, in
\* program order: a call that runs a block says what the block says.  With asRun it is taken as
\* it stands instead, and a call that was to run a block says NoNumber.
RECURSIVE Says(_, _, _)
Says(m, e, asRun) ==
  LET all(s) == FlattenSeq([i \in DOMAIN s |-> Says(m, s[i], asRun)])
  IN CASE m[e].callee = Emit -> <<Known(m, m[e].ins[1])>>
       [] m[e].callee # Emit /\ ~asRun /\ Ran(m, e) -> all(m[m[e].ins[1]].kids)
       [] m[e].callee # Emit /\ ~asRun /\ Skipped(m, e) -> <<>>
       [] m[e].callee \in {Execute, ExecuteIf} /\ (asRun \/ ~(Ran(m, e) \/ Skipped(m, e))) -> <<NoNumber>>
       [] m[e].callee = 0 /\ m[e].type # BlockT /\ ~m[e].fn -> all(m[e].kids)
       [] OTHER -> <<>>

\* Some block runs itself, directly or through others: calls in blocks are
\* evaluated where they stand, so that it need not be run for that.
RunsItself(m) ==
  LET blocks == { b \in DOMAIN m : m[b].type = BlockT }
      runs == [b \in blocks |-> { m[e].ins[1] : e \in { x \in Range(PreOrder(m, b)) : Ran(m, x) } }]
  IN \E S \in SUBSET blocks : S # {} /\ \A b \in S : runs[b] \cap S # {}

\* The call is to be evaluated and given a type that an evaluation of another one
\* folds.
GivenBaseType(m, e) ==
  /\ Comptime \in m[e].flags /\ m[e].callee # 0 /\ ~CompilersOwn(m, m[e].callee)
  /\ \E x \in Range(m[e].ins) : m[x].callee \in {BaseType, ComptimeBaseType}

TakesBaseType(m) == \E e \in DOMAIN m : GivenBaseType(m, e)

\* The first call in the order of the walk that has its inputs from the beginning.
FirstEvaluated(m) ==
  LET order == SelectSeq(PostOrder([e \in DOMAIN m |-> m[e].kids], Len(m)), LAMBDA e : Evaluates(m, <<>>, e))
  IN IF order = <<>> THEN 0 ELSE Head(order)
=============================================================================
