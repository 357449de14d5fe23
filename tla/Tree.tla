---------------------------------- MODULE Tree ----------------------------------
(***************************************************************************)
(* The tree of doir::block and doir::parent components, as the walkers and *)
(* the searches of the compiler see it: a function from entity ids to the  *)
(* sequence of ids in doir::block::related, empty when there is no block.  *)
(***************************************************************************)
EXTENDS Naturals, Sequences, SequencesExt, FiniteSets

\* depth_first (systems.hpp 14-47) and sort_tree_walk (sort.cpp 18-108):
\* every entity behind its children.
PostOrder(kids, r) ==
  LET walk[e \in DOMAIN kids] ==
        FlattenSeq([i \in DOMAIN kids[e] |-> walk[kids[e][i]]]) \o <<e>>
  IN walk[r]

\* What a chain of doir::parent components reaches from e, e excluded.
Ancestors(up, e) ==
  LET above[x \in 0 .. Len(up)] == IF x = 0 THEN {} ELSE {x} \cup above[up[x]]
  IN above[up[e]]
=============================================================================
