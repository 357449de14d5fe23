-------------------------------- MODULE Rewrites --------------------------------
(***************************************************************************)
(* What compute_compiler_namespace and inline_functions make of one call,  *)
(* as operators on modules: Backend runs them over the program, Evaluate   *)
(* over what a scratch program shares with it.  Entities are those of      *)
(* Copy.                                                                   *)
(***************************************************************************)
EXTENDS Copy, Verify

\* alias::resolve.
Resolved(m, e) ==
  LET to[x \in DOMAIN m] == IF m[x].alias = 0 THEN x ELSE to[m[x].alias]
  IN to[e]

Inputs(m, e) == [i \in DOMAIN m[e].ins |-> Resolved(m, m[e].ins[i])]

------------------------------------------------------------------------------
\* compute_base_type: the call keeps its inputs.
BaseTyped(m, e, flags) ==
  [m EXCEPT ![e] = [@ EXCEPT !.type = 0, !.callee = 0, !.def = TRUE, !.blk = TRUE, !.flags = @ \cup flags]]

\* compute_always_inline and compute_always_comptime: it is the type itself
\* that gets the flag, and the call becomes an alias of it.
Modified(m, e, flag) ==
  LET ft == Inputs(m, e)[1]
  IN [m EXCEPT ![ft].flags = @ \cup {flag},
               ![e] = [@ EXCEPT !.type = 0, !.callee = 0, !.ins = <<>>, !.alias = ft]]

\* compute_register_for of a target that is no parameter and has register r.
AsRegister(m, e, type, r) ==
  [m EXCEPT ![e] = [@ EXCEPT !.type = type, !.callee = 0, !.num = r, !.flags = @ \cup {Comptime}]]

------------------------------------------------------------------------------
\* The first guards of inline_functions.
WantsInlining(m, e) ==
  /\ m[e].callee # 0
  /\ \/ Inline \in m[e].flags
     \/ Inline \in m[m[Resolved(m, m[e].callee)].type].flags

\* Mutant: the flags of the call stay.
BlockFlagsKept(flags) == flags

BlockFlags(flags) == flags \cap {Export, Flatten}

\* Mutant: the alias for a parameter names the parameter.
BoundToItself(m, e, p) == p

\* What the alias for parameter p names.
BoundTo(m, e, p) == m[e].ins[m[p].param]

\* inline_functions, past its guards.  yielding maps what a function returns by
\* to what a block yields by.
Inlined(m, e, yielding) ==
  LET f == Resolved(m, m[e].callee)
      n == Len(m[e].ins)
      param == [i \in 1 .. n |-> CHOOSE p \in Range(m[f].kids) : m[p].param = i]
      bound == [i \in 1 .. n |-> Len(m) + i]
      opened == [m EXCEPT ![e] = [@ EXCEPT !.callee = 0, !.ins = <<>>, !.blk = TRUE, !.kids = bound]]
                \o [i \in 1 .. n |-> [Blank EXCEPT !.up = e, !.alias = BoundTo(m, e, param[i])]]
      copied == Copied(opened, e, f, TRUE)
      applied == Substituted(copied, e, [p \in Range(param) |-> bound[m[p].param]], Len(copied))
  IN [Substituted(applied, e, yielding, 1) EXCEPT ![e].flags = BlockFlags(@)]
=============================================================================
