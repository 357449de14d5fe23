-------------------------------- MODULE MCLookup --------------------------------
(***************************************************************************)
(* One shape of module in every choice of names and lookups, numbered as a *)
(* sort leaves it:                                                         *)
(*   1-6   namespace compiler { pointer, always_inline }, type modifiers   *)
(*         both built of the function type 1, which stands for type too    *)
(*   7     a declaration, or an alias of g, in the root                    *)
(*   8     a call c, in the root                                           *)
(*   9     a function type of two parameters t and u                       *)
(*   10-11 the parameters the parser pushes for a literal function type,   *)
(*         else two unnamed statements                                     *)
(*   12-13 a local in a nested block or namespace                          *)
(*   14    a call or an alias of t, in the function                        *)
(*   15    the function f, whose type is 9 itself or is given by a name    *)
(*   16    the root                                                        *)
(*   17    the block of a {}, moved                                        *)
(*   18    the block of a file that was included in the function: it lists *)
(*         13 and 14, and 11 is the size of the file                       *)
(***************************************************************************)
EXTENDS Lookup, TLC

Ptr == <<"compiler", "pointer">>
T == <<"t">>
A == <<"a">>
A0 == <<"a0">>
G == <<"g">>
C == <<"c">>
F == <<"f">>
NA == <<"n", "a">>

Shape(c) ==
  LET OfTypes(kid, n) == [Blank EXCEPT !.up = 6, !.kids = <<kid>>, !.blk = TRUE, !.fn = TRUE,
                                        !.name = n, !.modifier = TRUE]
      Param(f, i, n) == [Blank EXCEPT !.up = f, !.name = n, !.param = i]
      First(i) == IF c.literal THEN Param(15, i, c.names[i]) ELSE [Blank EXCEPT !.up = 15]
  IN
  << [Blank EXCEPT !.up = 6, !.name = "pointer_t", !.tdef = TRUE, !.fn = TRUE, !.names = <<"T">>],
     Param(3, 1, "T"), OfTypes(2, "pointer"),
     Param(5, 1, "T"), OfTypes(4, "always_inline"),
     [Blank EXCEPT !.up = 16, !.kids = <<1, 3, 5>>, !.blk = TRUE, !.name = "compiler", !.space = TRUE],
     [Blank EXCEPT !.up = 16, !.name = c.top],
     [Blank EXCEPT !.up = 16, !.name = "c"],
     [Blank EXCEPT !.up = 16, !.name = IF c.literal THEN "" ELSE "g", !.tdef = TRUE,
                   !.fn = TRUE, !.names = c.names],
     First(1), First(2),
     [Blank EXCEPT !.up = 13, !.name = c.inner],
     [Blank EXCEPT !.up = 15, !.kids = <<12>>, !.blk = TRUE, !.name = c.nested, !.space = c.nested # ""],
     [Blank EXCEPT !.up = 15, !.name = c.local],
     [Blank EXCEPT !.up = 16, !.kids = <<10, 11, 13, 14>>, !.blk = TRUE, !.fn = c.literal, !.name = "f"],
     [Blank EXCEPT !.kids = <<6, 7, 8, 9, 15>>, !.blk = TRUE],
     [Blank EXCEPT !.blk = TRUE],
     [Blank EXCEPT !.blk = TRUE, !.kids = IF c.included THEN <<13, 14>> ELSE <<>>] >>

Program(c) ==
  [ent  |-> Shape(c),
   path |-> [s \in {1, 3, 5} \X {"ret"} \X {1} |-> <<"T">>]
            @@ (<<8, "type", 1>> :> c.use) @@ (<<8, "call", 1>> :> c.callee)
            @@ [s \in {8} \X {"input"} \X DOMAIN c.args |-> c.args[s[3]]]
            @@ (IF c.aliased THEN (<<7, "alias", 1>> :> G) ELSE (<<7, "type", 1>> :> c.use))
            @@ (<<9, "input", 1>> :> c.input) @@ (<<9, "input", 2>> :> IF c.within THEN G ELSE T)
            @@ (<<9, "ret", 1>> :> c.ret)
            @@ (<<12, "type", 1>> :> c.use)
            @@ (IF c.within
                THEN (<<14, "type", 1>> :> c.use) @@ (<<14, "call", 1>> :> T)
                     @@ [s \in {14} \X {"input"} \X {1, 2} |-> A]
                ELSE (<<14, "alias", 1>> :> T))
            @@ IF c.literal
               THEN (<<10, "type", 1>> :> c.input) @@ (<<11, "type", 1>> :> T)
                    @@ (<<15, "ret", 1>> :> c.ret)
               ELSE (<<15, "type", 1>> :> c.ftype),
   bind |-> (<<1, "input", 1>> :> 1) @@ [s \in (2 .. 5) \X {"type"} \X {1} |-> 1]
            @@ IF c.literal THEN (<<15, "type", 1>> :> 9) ELSE <<>>]

\* What is looked up, and how far the searches see.
Lookups ==
  [ literal : BOOLEAN, names : {<<"t", "u">>},
    top : {"t", "a"}, inner : {"t", "a", ""}, local : {"a"},
    nested : {""}, included : {FALSE}, within : {FALSE}, aliased : {FALSE},
    callee : {Ptr, A}, args : {<<T>>, <<A>>, <<G>>},
    input : {T, A, Ptr}, ret : {T, A}, use : {T, A, Ptr}, ftype : {G, C} ]

\* What is called, with how many inputs, what the function's type is and what names
\* it gives its parameters; the call may be its own input.
Calls ==
  [ literal : BOOLEAN, names : {<<"t", "u">>, <<"t", "t">>}, top : {"t", "a"}, inner : {""},
    local : {"a", "t", "u"},
    nested : {""}, included : {FALSE}, within : {FALSE}, aliased : BOOLEAN,
    callee : {Ptr, A, F}, args : {<<>>, <<A0>>, <<C>>, <<G>>, <<G, Ptr>>},
    input : {Ptr}, ret : {Ptr}, use : {G, Ptr, T}, ftype : {G, C, A} ]

\* A function that calls its parameter.
Passed ==
  [ literal : {FALSE}, names : {<<"t", "u">>}, top : {"a"}, inner : {""}, local : {"a"},
    nested : {""}, included : {FALSE}, within : {TRUE}, aliased : {FALSE}, callee : {F}, args : {<<G, Ptr>>},
    input : {G}, ret : {Ptr}, use : {G}, ftype : {G} ]

\* A file included in the function, whose names are looked for all over.
Included ==
  [ literal : {FALSE}, names : {<<"t", "u">>}, top : {"t", "a"}, inner : {"a", "n"}, local : {"a"},
    nested : {"", "n"}, included : {TRUE}, within : {FALSE}, aliased : {FALSE}, callee : {A, NA, F},
    args : {<<T>>, <<NA, A>>}, input : {A, NA}, ret : {A}, use : {A, NA, G}, ftype : {A, G} ]

MCNames == <<"a0", "a1">>

MCPrograms == { Program(c) : c \in Lookups \cup Calls \cup Passed \cup Included }
=============================================================================
