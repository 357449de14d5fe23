---------------------------------- MODULE Copy ----------------------------------
(***************************************************************************)
(* Copying and substituting entities: interface.copy.cpp and               *)
(* module::substitute_entities (module.cpp).                               *)
(*                                                                         *)
(* A module is a sequence of entities; an entity is the record             *)
(*   up, kids, blk  doir::parent and doir::block                           *)
(*   type           doir::type_of, 0 when absent; so for the others        *)
(*   callee, ins    doir::call and doir::function_inputs                   *)
(*   alias, ptr     doir::alias, doir::pointer                             *)
(*   param          doir::function_parameter, from 1; 0 when absent        *)
(*   num            doir::number, NoNumber when absent                     *)
(*   str            doir::string as bytes, <<>> when absent                *)
(*   def, fn        has doir::type_definition, doir::function_return_type  *)
(*   flags          the bits set in doir::flags                            *)
(***************************************************************************)
EXTENDS Naturals, Sequences, SequencesExt, FiniteSets, Functions, TLC

NoNumber == 256     \* not a byte

Blank == [up |-> 0, kids |-> <<>>, blk |-> FALSE, type |-> 0, callee |-> 0,
          ins |-> <<>>, alias |-> 0, ptr |-> 0, param |-> 0, num |-> NoNumber,
          str |-> <<>>, def |-> FALSE, fn |-> FALSE, flags |-> {}]

Image(f, x) == IF x \in DOMAIN f THEN f[x] ELSE x
Images(f, s) == [i \in DOMAIN s |-> Image(f, s[i])]

\* e and everything below it, every block in front of its children.
PreOrder(m, e) ==
  LET walk[x \in DOMAIN m] ==
        <<x>> \o FlattenSeq([i \in DOMAIN m[x].kids |-> walk[m[x].kids[i]]])
  IN walk[e]

\* Mutant: copies are put in front of what the block has.
BuiltInFront(acc, e, into) ==
  LET old == PreOrder(acc.mod, e)
      to == [x \in Range(old) |-> Len(acc.mod) + CHOOSE i \in DOMAIN old : old[i] = x]
      copies == [i \in DOMAIN old |->
                   [Blank EXCEPT !.blk = acc.mod[old[i]].blk,
                                 !.kids = Images(to, acc.mod[old[i]].kids)]]
  IN [mod |-> [acc.mod EXCEPT ![into].kids = <<to[e]>> \o @] \o copies,
      to |-> to @@ acc.to]

\* deep_copy_build_structure: the blocks of the copy of e, put into a block.
Built(acc, e, into) ==
  LET old == PreOrder(acc.mod, e)
      to == [x \in Range(old) |-> Len(acc.mod) + CHOOSE i \in DOMAIN old : old[i] = x]
      copies == [i \in DOMAIN old |->
                   [Blank EXCEPT !.blk = acc.mod[old[i]].blk,
                                 !.kids = Images(to, acc.mod[old[i]].kids)]]
  IN [mod |-> [acc.mod EXCEPT ![into].kids = Append(@, to[e])] \o copies,
      to |-> to @@ acc.to]

\* copy_components: what of x its copy gets, by the kind of x.  A constant that
\* was a call is copied without its inputs.
Components(x, to) ==
  LET re(y) == Image(to, y)
      constant == x.num # NoNumber \/ x.str # <<>>
  IN
  CASE x.type # 0 ->
         [Blank EXCEPT !.flags = x.flags, !.type = re(x.type), !.param = x.param,
                       !.num = x.num, !.str = x.str, !.fn = x.fn,
                       !.callee = IF constant THEN 0 ELSE re(x.callee),
                       !.ins = IF constant THEN <<>> ELSE Images(to, x.ins)]
    [] x.type = 0 /\ x.def ->
         [Blank EXCEPT !.flags = x.flags, !.def = TRUE, !.ins = Images(to, x.ins),
                       !.fn = x.fn, !.ptr = re(x.ptr)]
    [] OTHER -> [Blank EXCEPT !.flags = x.flags, !.alias = re(x.alias)]

\* deep_copy_copy_components, for the copy c of an entity.
Filled(m, c, to) ==
  LET old == CHOOSE x \in DOMAIN to : to[x] = c
      home == CHOOSE b \in DOMAIN m : c \in Range(m[b].kids)
  IN [m EXCEPT ![c] = [Components(m[old], to) EXCEPT
                         !.up = home, !.blk = m[c].blk, !.kids = m[c].kids]]

\* deep_copy: the copy says it is in the block e is in, which does not list it.
DeepCopied(m, e) ==
  LET home == m[e].up
      built == Built([mod |-> m, to |-> <<>>], e, home)
  IN [FoldLeft(LAMBDA acc, c : Filled(acc, c, built.to), built.mod,
               [i \in 1 .. Len(built.mod) - Len(m) |-> Len(m) + i])
        EXCEPT ![home].kids = m[home].kids]

\* block_builder::copy_existing into block "into" from block "from".
Copied(m, into, from, skipParameters) ==
  LET wanted == SelectSeq(m[from].kids, LAMBDA e : ~skipParameters \/ m[e].param = 0)
      built == FoldLeft(LAMBDA acc, e : Built(acc, e, into), [mod |-> m, to |-> <<>>], wanted)
  IN FoldLeft(LAMBDA acc, c : Filled(acc, c, built.to), built.mod,
              [i \in 1 .. Len(built.mod) - Len(m) |-> Len(m) + i])

\* Mutant: substitution never goes below the children.
SubstitutedShallow(m, range, sub, depth) ==
  LET hit == {range} \cup Range(m[range].kids)
  IN [e \in DOMAIN m |->
        IF e \in hit
        THEN [m[e] EXCEPT !.kids = Images(sub, @), !.up = Image(sub, @), !.type = Image(sub, @),
                          !.callee = Image(sub, @), !.ins = Images(sub, @), !.alias = Image(sub, @)]
        ELSE m[e]]

\* module::substitute_entities on everything down to a depth below range.  No
\* caller replaces an entity by one that is to be replaced itself, so that the
\* substitutions can be made at once.
Substituted(m, range, sub, depth) ==
  LET below[e \in DOMAIN m, d \in 0 .. depth] ==
        {e} \cup IF d = 0 THEN {} ELSE UNION { below[k, d - 1] : k \in Range(m[e].kids) }
      hit == below[range, depth]
      now == [e \in DOMAIN m |->
                IF e \in hit
                THEN [m[e] EXCEPT !.kids = Images(sub, @), !.up = Image(sub, @), !.type = Image(sub, @),
                                  !.callee = Image(sub, @), !.ins = Images(sub, @), !.alias = Image(sub, @)]
                ELSE m[e]]
  IN SubSeq(now, 1, Len(m))
=============================================================================
