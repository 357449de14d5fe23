------------------------------ MODULE MCComptime ------------------------------
(***************************************************************************)
(* Small programs for Comptime: T is a type (a function type when it is    *)
(* the type of a call), V a value that may be a literal or a run-time one, *)
(* A, B, C are calls with every choice of inputs, forward references and   *)
(* cycles included, swept in every order.                                  *)
(***************************************************************************)
EXTENDS Comptime, FiniteSets

CONSTANTS T, V, A, B, C

MCEntity == {T, V, A, B, C}
MCCalls == {A, B, C}

MCOrders == { <<T, V, x, y, z>> : x, y, z \in MCCalls }

\* A: a chain, a self-cycle, a cycle through C, a known or run-time value.
\* B: a literal or a use of C.  C: takes V second, as register_for does, or first, or B.
MCInputs ==
  { [c \in MCCalls |-> CASE c = A -> a [] c = B -> b [] c = C -> d] :
      a \in {<<B>>, <<T, A>>, <<A, C>>, <<T, V>>},
      b \in {<<V>>, <<C>>, <<T, V>>},
      d \in {<<T, V>>, <<V, T>>, <<B>>} }

MCPrograms ==
  { [order |-> o, call |-> MCCalls, inputs |-> f, fn |-> g, types |-> {T},
     always |-> w, never |-> {}, seed |-> s, regfor |-> {C}] :
      o \in { q \in MCOrders : Cardinality({q[3], q[4], q[5]}) = 3 },
      f \in MCInputs,
      g \in { [c \in MCCalls |-> IF c = A THEN t ELSE T] : t \in {T, B} },
      w \in {{}, {V}},
      s \in {{}, {T}, {V}} }
=============================================================================
