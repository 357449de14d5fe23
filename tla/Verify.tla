--------------------------------- MODULE Verify ---------------------------------
(***************************************************************************)
(* verify::structure (interface.verify.cpp 84-427): which components and   *)
(* flags an entity may carry together.  A broken rule throws, and nothing  *)
(* in the driver catches it.  Its boolean result is not used by the driver *)
(* and is left out.                                                        *)
(*                                                                         *)
(* An entity is a record                                                   *)
(*   has     its components; a resolved one and its doir::lookup form are  *)
(*           the same member ("fn" is a function_return_type)              *)
(*   flags   the bits set in doir::flags                                   *)
(*   up      doir::parent, 0 when absent                                   *)
(*   kids    doir::block::related                                          *)
(*   arity   how many function_inputs it has                               *)
(*   index   doir::function_parameter, from 1, 0 when absent               *)
(*   type    the entity of its type_of when resolved, else 0               *)
(***************************************************************************)
EXTENDS Naturals, Sequences, FiniteSets, Functions

\* doir::flags::impl; Flatten and Tail (TailCall here) are the same bit (interface.hpp 57-58).
Valueless == 1
Namespace == 2
Export == 3
Comptime == 4
ComptimeAlways == 5     \* AlwaysComptime
Constant == 7
Pure == 9
Inline == 10
Flatten == 11
TailCall == 11

Has(x, c) == c \in x.has

Exclusive == {"number", "string", "call", "fn", "block"}

\* Mutant: a function may not have its block.
OneValueOnly(x) ==
  Cardinality((x.has \cap Exclusive) \cup (x.flags \cap {Valueless})) = 1

\* One value: being valueless, a number, a string, a call, a function or a
\* block; only a function may have its block as well.
OneValue(x) ==
  LET values == (x.has \cap Exclusive) \cup (x.flags \cap {Valueless})
  IN Cardinality(values) = 1 \/ values = {"fn", "block"}

\* associated_parameters: how many of the inputs a parameter in the body takes.
Associated(m, x, n) ==
  Cardinality({ i \in 1 .. n : \E k \in Range(x.kids) : m[k].index = i })

ValueBroken(m, x) ==
  \/ x.has \cap {"pointer", "typedef", "alias"} # {}
  \/ ~OneValue(x)
  \/ /\ x.has \cap {"call", "fn"} = {}
     /\ \/ Flatten \in x.flags /\ ~Has(x, "block")
        \/ x.flags \cap {Inline, Pure, TailCall} # {}
  \/ Constant \in x.flags
  \/ /\ Has(x, "fn") /\ ~Has(x, "call")
     /\ \/ x.type = 0
        \/ Has(x, "block") /\ Associated(m, x, m[x.type].arity) # m[x.type].arity

TypeBroken(x) ==
  \/ x.has \cap {"block", "fn", "pointer"} = {}
  \/ x.has \cap {"param", "alias", "number", "string", "call"} # {}
  \/ x.flags \cap {Valueless, Namespace} # {}

NamespaceBroken(x) ==
  \/ ~Has(x, "block")
  \/ x.flags \ {Namespace} \notin {{}, {Export}}
  \/ x.has \cap {"pointer", "fn", "inputs", "param", "alias", "number", "string", "call"} # {}

AliasBroken(x) ==
  \/ x.has \cap {"pointer", "fn", "inputs", "param", "block", "number", "string", "call"} # {}
  \/ x.flags \notin {{}, {Export}, {Comptime}}

PlainBlockBroken(x, top) == x.flags \notin {{}, {Flatten}} \/ ~top

KindBroken(m, x, top) ==
  CASE Has(x, "type") -> ValueBroken(m, x)
    [] ~Has(x, "type") /\ Has(x, "typedef") -> TypeBroken(x)
    [] x.has \cap {"type", "typedef"} = {} /\ Namespace \in x.flags -> NamespaceBroken(x)
    [] x.has \cap {"type", "typedef"} = {} /\ Namespace \notin x.flags /\ Has(x, "alias") ->
         AliasBroken(x)
    [] x.has \cap {"type", "typedef", "alias"} = {} /\ Namespace \notin x.flags
       /\ Has(x, "block") -> PlainBlockBroken(x, top)
    [] OTHER -> FALSE

\* Parents and blocks name each other, and no block lists anything twice.
LinksBroken(m, e) ==
  \/ m[e].up # 0 /\ (~Has(m[m[e].up], "block") \/ e \notin Range(m[m[e].up].kids))
  \/ Cardinality(Range(m[e].kids)) # Len(m[e].kids)
  \/ \E k \in Range(m[e].kids) : m[k].up \notin {0, e}

\* The entities below root that verify::structure(root) throws for.
Broken(m, root) ==
  LET below[d \in 0 .. Len(m)] ==
        [e \in DOMAIN m |->
           {e} \cup IF d = 0 THEN {} ELSE UNION { below[d - 1][k] : k \in Range(m[e].kids) }]
  IN { e \in below[Len(m)][root] : KindBroken(m, m[e], e = root) \/ LinksBroken(m, e) }
=============================================================================
