------------------------------ MODULE MCRegisters ------------------------------
(***************************************************************************)
(* One shape of program, statements 32 .. 44 in front of the root:         *)
(*                                                                         *)
(*   32 = 0   33 = 1                                                       *)
(*   38 : block = { 34   35 : block = { 36: emit(33) }   37 }              *)
(*   40 : block = { 39 }                                                   *)
(*   41  42  43  44                                                        *)
(***************************************************************************)
EXTENDS Registers

At(up, r) == [r EXCEPT !.up = up]
Num(v) == [Blank EXCEPT !.type = U64, !.num = v, !.flags = {Comptime}]
Call(f, ins) == [Blank EXCEPT !.type = U64, !.callee = f, !.ins = ins]
AtCompileTime(f, ins) == [Call(f, ins) EXCEPT !.flags = {Comptime}]
TypeCall(f, ins) == [AtCompileTime(f, ins) EXCEPT !.type = Type]
Quoted(kids) == [Blank EXCEPT !.type = BlockT, !.blk = TRUE, !.kids = kids]
Namespaced(kids) == [Blank EXCEPT !.blk = TRUE, !.kids = kids, !.flags = {Namespace}]
Declared == [Blank EXCEPT !.type = Void, !.fn = TRUE]
Function(t, kids) == [Blank EXCEPT !.type = t, !.fn = TRUE, !.blk = TRUE, !.kids = kids]
Parameter(t) == [Blank EXCEPT !.type = t, !.param = 1]
Defined == [Blank EXCEPT !.def = TRUE]

IsZeroF == 45   \* the program's function

Negate(x) == AtCompileTime(IsZeroF, <<x>>)
And(x) == AtCompileTime(BitwiseAnd, <<x, x>>)
Run(b) == AtCompileTime(Execute, <<b>>)
RunIf(b, x) == AtCompileTime(ExecuteIf, <<b, x>>)
Say(x) == Call(Emit, <<x>>)
Pin(x, r) == Call(PinRegister, <<U64, x, r>>)
Begin == Call(BeginRegisterAllocation, <<>>)
Load(x) == Call(LoadImmediate, <<U64, x>>)
Register(x) == AtCompileTime(RegisterFor, <<U64, x>>)

Top46 ==
  [Blank EXCEPT !.blk = TRUE,
     !.kids = <<Type, BlockT, Void, EarlyInclude, Compiler, Mizu, 45, 32, 33, 38, 40, 41, 42, 43, 44>>]

\* mizu.doir gives each instruction parameters whose registers it asks for and
\* inlines calls of emit_register; Execute does here.
Builtins ==
  << At(46, Defined), At(46, Defined), At(46, Defined), At(46, Declared),
     At(Compiler, [Num(0) EXCEPT !.type = RegisterT]), At(Compiler, [Num(64) EXCEPT !.type = RegisterT]),
     At(Compiler, Declared), At(Compiler, Declared), At(Compiler, Declared), At(Compiler, Declared),
     At(Compiler, Declared),
     At(Assembler, TypeCall(ComptimeBaseType, <<Bits, Bits>>)),
     At(Assembler, Declared), At(Assembler, Declared), At(Assembler, Declared),
     At(Compiler, Namespaced(<<12, 13, 14, 15>>)),
     At(46, Namespaced(<<5, 6, 7, 8, 9, 10, 11, 16>>)),
     At(Mizu, TypeCall(BaseType, <<Bits, Bits>>)),
     At(Mizu, [Defined EXCEPT !.fn = TRUE]),
     At(Mizu, TypeCall(AlwaysInline, <<ExecuteT>>)),
     At(EmitRegister, Parameter(RegisterT)), At(EmitRegister, Say(21)),
     At(Mizu, Function(Void, <<21, 22>>)),
     At(Mizu, Declared),
     At(Execute, Parameter(BlockT)),
     At(Execute, [AtCompileTime(RegisterFor, <<BlockT, 25>>) EXCEPT !.type = RegisterT]),
     At(Execute, [Call(EmitRegister, <<26>>) EXCEPT !.type = RegisterT, !.flags = {Inline}]),
     At(Mizu, Function(ExecuteT, <<25, 26, 27>>)),
     At(Mizu, [Declared EXCEPT !.type = ExecuteT]), At(Mizu, Declared),
     At(46, Namespaced(<<18, 19, 20, 23, 24, 28, 29, 30>>)) >>

Program(c) ==
  Builtins \o
  << At(46, Num(0)), At(46, Num(1)),
     At(38, c.local), At(38, Quoted(<<36>>)), At(35, Say(33)), At(38, c.inner),
     At(46, [Quoted(<<34, 35, 37>>) EXCEPT !.flags = c.flags]),
     At(40, c.other), At(46, Quoted(<<39>>)),
     At(46, c.first), At(46, c.second), At(46, c.third), At(46, c.fourth),
     At(46, Declared), Top46 >>

\* Blocks that run blocks, and calls in front of and between them.
Evaluations ==
  [ local : {Num(2), Negate(33)},
    inner : {Say(34), Run(35), RunIf(35, 34), Run(38), RunIf(40, 34)},
    other : {Say(32), Run(38), RunIf(38, 32)},
    first : {RunIf(38, 32), RunIf(38, 33), Run(38)},
    second : {Negate(32), And(32)},
    third : {RunIf(40, 42)},
    fourth : {Call(Halt, <<>>)}, flags : {{}} ]

\* Conditions that a word does not hold, the number of the call, and types.
Conditions ==
  [ local : {Num(Word), Negate(U64)},
    inner : {RunIf(35, 34)},
    other : {Say(32)},
    first : {RunIf(38, 32), RunIf(38, 33), RunIf(38, CurrentEntity)},
    second : {Num(Word), Negate(U64), Negate(CurrentEntity)},
    third : {RunIf(40, 42)},
    fourth : {Call(Halt, <<>>)}, flags : {{}} ]

\* Values, pins and loads in front of and behind the start of allocation.
Allocations ==
  [ local : {Num(2)},
    inner : {Pin(34, 33), Register(34), Load(34)},
    other : {Load(33)},
    first : {Begin, Run(38)},
    second : {Begin, Negate(32)},
    third : {Pin(32, 33), Load(32), Register(42), RunIf(40, 33)},
    fourth : {Pin(32, 32), Pin(32, 41), Load(42), Begin, Run(38)}, flags : {{}, {Export}} ]

MCPrograms == { Program(c) : c \in Evaluations \cup Conditions \cup Allocations }
=============================================================================
