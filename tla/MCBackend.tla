------------------------------- MODULE MCBackend -------------------------------
(***************************************************************************)
(* One shape of program:                                                   *)
(*                                                                         *)
(*   ns = { n = 4  y = and(n, n)  s = "AB" }                               *)
(*   ft = (byte, byte) -> byte                                             *)
(*   it : type = always_inline(ft), always_comptime(ft)  or  7             *)
(*   h : ft = { x = and(a, b)  or a call of g or h                         *)
(*              emit(x or a)  or  emit_bytes(s) }                          *)
(*   g : ft or it = { l = and(b, a), shift(a, y) or return_register        *)
(*                    emit(l)                                              *)
(*                    { emit(l), emit_bytes(a), alias l, h(l, b),          *)
(*                      base_type(n, n), comptime_base_type(n, n),         *)
(*                      pointer(byte or l), return_register,               *)
(*                      yield_register or a call of g }                    *)
(*                    h(b, l), yield_register, 1 or a call of g }          *)
(*   v = 300                                                               *)
(*   w = alias v, and(v, y), and(v, v) or 29                               *)
(*   g(w, v), { h(w, v) }, each with the modifier inline, flatten or none  *)
(*   emit(w or v)                                                          *)
(***************************************************************************)
EXTENDS Backend

\* The ids, in the order of the program below.
Id(i) == Compiler + i
N == Id(1)
Y == Id(2)
S == Id(3)
Ns == Id(4)
Ft == Id(5)
It == Id(6)
Ha == Id(7)
Hb == Id(8)
Hx == Id(9)
HSays == Id(10)
H == Id(11)
Ga == Id(12)
Gb == Id(13)
L == Id(14)
GSays == Id(15)
Inner == Id(16)
GBlock == Id(17)
GTail == Id(18)
G == Id(19)
V == Id(20)
W == Id(21)
CallG == Id(22)
CallH == Id(23)
MainBlock == Id(24)
Says == Id(25)
Top == Id(26)

At(up, r) == [r EXCEPT !.up = up]
Num(v) == [Blank EXCEPT !.type = Byte, !.num = v]
Str(s) == [Blank EXCEPT !.type = BytePointer, !.str = s]
Call(f, ins) == [Blank EXCEPT !.type = Byte, !.callee = f, !.ins = ins]
TypeCall(f, ins) == [Call(f, ins) EXCEPT !.type = Type]
Inlining(f, ins) == [Call(f, ins) EXCEPT !.flags = {Inline}]
Block(kids) == [Blank EXCEPT !.type = Byte, !.blk = TRUE, !.kids = kids]
Function(t, kids) == [Blank EXCEPT !.type = t, !.fn = TRUE, !.blk = TRUE, !.kids = kids]
Param(i) == [Blank EXCEPT !.type = Byte, !.param = i, !.flags = {Valueless}]
With(r, modifier) == [r EXCEPT !.flags = modifier]
AliasOf(e) == [Blank EXCEPT !.alias = e]

Program(c) ==
  Builtins \o
  << At(Ns, Num(4)),
     At(Ns, Call(BitwiseAnd, <<N, N>>)),
     At(Ns, Str(<<65, 66>>)),
     At(Top, [Blank EXCEPT !.blk = TRUE, !.kids = <<N, Y, S>>, !.flags = {Namespace}]),
     At(Top, [Blank EXCEPT !.def = TRUE, !.fn = TRUE, !.ins = <<Byte, Byte>>]),
     At(Top, c.it),
     At(H, Param(1)), At(H, Param(2)),
     At(H, c.x),
     At(H, c.said),
     At(Top, Function(Ft, <<Ha, Hb, Hx, HSays>>)),
     At(G, Param(1)), At(G, Param(2)),
     At(G, c.local),
     At(G, Call(Emit, <<L>>)),
     At(GBlock, c.inner),
     At(G, Block(<<Inner>>)),
     At(G, c.tail),
     At(Top, Function(c.gtype, <<Ga, Gb, L, GSays, GBlock, GTail>>)),
     At(Top, Num(300)),
     At(Top, c.w),
     At(Top, With(Call(G, <<W, V>>), c.modifier)),
     At(MainBlock, With(Call(H, <<W, V>>), c.modifier)),
     At(Top, Block(<<CallH>>)),
     At(Top, Call(Emit, <<c.last>>)),
     [Blank EXCEPT !.blk = TRUE,
                   !.kids = <<Compiler, Ns, Ft, It, H, G, V, W, CallG, MainBlock, Says>>] >>

Its == { TypeCall(AlwaysInline, <<Ft>>), TypeCall(AlwaysComptime, <<Ft>>), Num(7) }
Both == Call(BitwiseAnd, <<Ha, Hb>>)
SaysX == Call(Emit, <<Hx>>)
Shifted == Call(ShiftRight, <<Ga, Y>>)
Locals == { Call(BitwiseAnd, <<Gb, Ga>>), Shifted, Call(ReturnRegister, <<Byte>>) }
Inners == { Call(Emit, <<L>>), Call(EmitBytes, <<Ga>>), Call(ReturnRegister, <<Byte>>),
            Call(YieldRegister, <<Byte>>), Call(H, <<L, Gb>>), AliasOf(L),
            TypeCall(BaseType, <<N, N>>), TypeCall(ComptimeBaseType, <<N, N>>),
            TypeCall(Pointer, <<Byte>>), TypeCall(Pointer, <<L>>) }
Tails == { Call(H, <<Gb, L>>), Num(1) }
Ws == { AliasOf(V), Call(BitwiseAnd, <<V, Y>>), Call(BitwiseAnd, <<V, V>>), Num(29) }

\* Every body of g under the ways to ask for inlining, with one main block;
\* every main block with two bodies of g; and functions that call themselves.
Variants ==
  [ it : {TypeCall(AlwaysInline, <<Ft>>)}, gtype : {Ft}, x : {Both}, said : {SaysX},
    local : Locals, inner : Inners, tail : Tails, w : {Num(29)}, modifier : {{}}, last : {V} ]
  \cup
  [ it : {TypeCall(AlwaysComptime, <<Ft>>)}, gtype : {Ft}, x : {Both}, said : {SaysX},
    local : Locals, inner : Inners, tail : {Num(1)}, w : {Num(29)}, modifier : {{Inline}}, last : {V} ]
  \cup
  [ it : {TypeCall(AlwaysInline, <<Ft>>)}, gtype : {Ft, It}, x : {Both},
    said : {SaysX, Call(Emit, <<Ha>>), Call(EmitBytes, <<S>>)},
    local : {Shifted}, inner : {Call(H, <<L, Gb>>)}, tail : {Num(1)},
    w : Ws, modifier : {{}}, last : {V, W} ]
  \cup
  [ it : {Num(7)}, gtype : {Ft}, x : {Both}, said : {SaysX}, local : {Shifted},
    inner : {Num(2)}, tail : {Num(1), Call(YieldRegister, <<Byte>>)}, w : Ws,
    modifier : {{}, {Flatten}, {Inline}}, last : {V, W} ]
  \cup
  [ it : {Num(7)}, gtype : {Ft}, x : {Both, Inlining(G, <<Hb, Ha>>), Inlining(H, <<N, Hb>>)},
    said : {Call(EmitBytes, <<S>>)}, local : {Call(BitwiseAnd, <<Gb, Ga>>)},
    inner : {Num(2), Inlining(G, <<N, Y>>), Inlining(H, <<Ga, Gb>>)},
    tail : {Call(G, <<Ga, Gb>>), Inlining(G, <<Ga, Gb>>), Inlining(G, <<L, N>>)},
    w : {Num(29)}, modifier : {{}, {Inline}}, last : {V} ]

MCPrograms == { Program(c) : c \in Variants }
=============================================================================
