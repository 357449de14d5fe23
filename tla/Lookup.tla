--------------------------------- MODULE Lookup ---------------------------------
(***************************************************************************)
(* Name resolution as the driver schedules it (driver.cpp 73-92) on a      *)
(* module that has been sorted: name_reuse, resolve_lookups for types      *)
(* only, the parameters of functions materialized from their types,        *)
(* resolve_lookups for everything, lookups_resolved and function_arity,    *)
(* each one a depth-first walk.  The compile-time analysis that comes      *)
(* before function_arity sets flags only: it is in Comptime.               *)
(*                                                                         *)
(* The search of interface.resolve.cpp has no scopes: it scans entity ids  *)
(* upwards for a block and relies on a sorted module being numbered in     *)
(* post-order.  The properties compare it with lexical scoping.            *)
(***************************************************************************)
EXTENDS Tree, Functions

CONSTANTS
  Programs,      (* sorted modules: records [ent, path, bind] as below      *)
  DefaultNames   (* a0, a1, ...: of parameters whose type does not name     *)
                 (* them, as many as anything has inputs                    *)

(***************************************************************************)
(* An entity:                                                              *)
(*   up, kids, blk  doir::parent and doir::block                           *)
(*   name           doir::name ("" when absent, as what is named _ is)     *)
(*   space          flags::Namespace                                       *)
(*   tdef, fn       has doir::type_definition, a function_return_type      *)
(*   names          doir::function_parameter_names of a function type      *)
(*   param          doir::function_parameter, from 1; 0 when absent        *)
(*   modifier       one of get_type_modifiers()                            *)
(* A slot <<e, kind, i>> is the i-th lookup of a component of e; kind is   *)
(* "type", "call", "alias", "ret" or "input".                              *)
(***************************************************************************)
Entity == [up : Nat, kids : Seq(Nat), blk : BOOLEAN, name : STRING, space : BOOLEAN,
           tdef : BOOLEAN, fn : BOOLEAN, names : Seq(STRING), param : Nat, modifier : BOOLEAN]

Blank == [up |-> 0, kids |-> <<>>, blk |-> FALSE, name |-> "", space |-> FALSE,
          tdef |-> FALSE, fn |-> FALSE, names |-> <<>>, param |-> 0, modifier |-> FALSE]

SlotsOf(m) == (DOMAIN m) \X {"type", "call", "alias", "ret", "input"} \X (Nat \ {0})

\* What the parser leaves behind: the block of a {} whose statements have moved to
\* what they are the value of, and the one an included file was read into, which
\* lists its statements still.
Detached(m, r, b) ==
  /\ b > r /\ m[b] = [Blank EXCEPT !.blk = TRUE, !.kids = m[b].kids]
  /\ \A k \in Range(m[b].kids) : k \in 1 .. r - 1

\* What a sort makes of the ids: the entities up to the root r are numbered with
\* every parent behind its children, and those behind it are what it did not
\* reach, and parameters.
Shaped(m, r) ==
  /\ m \in Seq(Entity) /\ r \in DOMAIN m /\ m[r].up = 0
  /\ \A e \in DOMAIN m \ {r} : \/ Detached(m, r, e)
                               \/ /\ m[e].up \in 1 .. r /\ e \in Range(m[m[e].up].kids)
                                  /\ IF e < r THEN e < m[e].up ELSE ~m[e].blk /\ m[e].param # 0
  /\ \A b \in DOMAIN m : /\ m[b].kids # <<>> => m[b].blk
                         /\ \A k \in Range(m[b].kids) : k \in DOMAIN m /\ (b <= r => m[k].up = b)

\* The lookups are of entities in the tree and bound to such, and no part of a name
\* is empty.
Linked(m, names, bound) ==
  /\ DOMAIN names \cup DOMAIN bound \subseteq SlotsOf(m)
  /\ \A s \in DOMAIN names \cup DOMAIN bound : m[s[1]].up # 0
  /\ names \in [DOMAIN names -> Seq(STRING \ {""}) \ {<<>>}]
  /\ bound \in [DOMAIN bound -> { e \in DOMAIN m : m[e].up # 0 }]

InputsAmong(slots, t) == { i \in DOMAIN DefaultNames : <<t, "input", i>> \in slots }

\* The name push_parameters gives the i-th parameter of the type t.
NameOf(m, t, i) == IF i \in DOMAIN m[t].names THEN m[t].names[i] ELSE DefaultNames[i]

\* The block of f starts with n parameters of the type t, and has no others.
Declares(m, f, t, n) ==
  /\ n <= Len(m[f].kids)
  /\ \A i \in DOMAIN m[f].kids : m[m[f].kids[i]].param = IF i <= n THEN i ELSE 0
  /\ \A i \in 1 .. n : m[m[f].kids[i]].name = NameOf(m, t, i)

\* Lexical scoping: the blocks around an entity, by the parents alone.
Around(m, e) == Ancestors([x \in DOMAIN m |-> m[x].up], e)

\* What the builders make of inputs, types and calls (attach_function_type,
\* attach_call), which the verifier insists on.
Built(m, slots) ==
  /\ \A s \in slots :
       IF s[2] = "input"
       THEN s[3] \in DOMAIN DefaultNames /\ \A i \in 1 .. s[3] : <<s[1], "input", i>> \in slots
       ELSE s[3] = 1
  /\ \A e \in DOMAIN m :
       /\ m[e].tdef => \A kind \in {"type", "call", "alias"} : <<e, kind, 1>> \notin slots
       /\ <<e, "call", 1>> \in slots => ~m[e].blk /\ m[e].names = <<>>
       /\ InputsAmong(slots, e) # {} => (m[e].tdef /\ m[e].fn) \/ <<e, "call", 1>> \in slots
       /\ m[e].names # <<>> => DOMAIN m[e].names = InputsAmong(slots, e)

\* A function built with its type at hand: the type stands in front of it, and the
\* parameters in front of its body (function_type_t, and attach_function, which
\* makes several builtins of one type).
Literal(m, names, bound, f) ==
  LET t == bound[<<f, "type", 1>>]
  IN /\ <<f, "type", 1>> \in DOMAIN bound \ DOMAIN names
     /\ m[t].tdef /\ m[t].fn /\ ~m[t].blk
     /\ t < f /\ Declares(m, f, t, Cardinality(InputsAmong(DOMAIN names \cup DOMAIN bound, t)))

\* No other blocks have a type that is known, and nothing else has parameters.
Written(m, names, bound) ==
  \A e \in DOMAIN m :
    /\ m[e].blk /\ (m[e].fn \/ <<e, "type", 1>> \in DOMAIN bound \ DOMAIN names)
       => m[e].fn /\ Literal(m, names, bound, e)
    /\ m[e].param # 0 => m[e].up # 0 /\ m[m[e].up].fn

ASSUME SortedPrograms ==
  \A p \in Programs : /\ \E r \in DOMAIN p.ent : /\ Shaped(p.ent, r)
                                                 /\ \A e \in DOMAIN p.ent :
                                                      e > r => Detached(p.ent, r, e)
                      /\ Linked(p.ent, p.path, p.bind)
                      /\ DOMAIN p.path \cap DOMAIN p.bind = {}
                      /\ Built(p.ent, DOMAIN p.path \cup DOMAIN p.bind)
                      /\ Written(p.ent, p.path, p.bind)

ASSUME NamesByDefault == DefaultNames \in Seq(STRING) /\ IsInjective(DefaultNames)

VARIABLES
  ent,       (* entity id -> its structure                                  *)
  path,      (* slot -> the dotted name a doir::lookup component holds      *)
  bind,      (* slot -> the entity it has been resolved to                  *)
  phase,     (* which walk is running, or the verdict                       *)
  todo       (* the entities the walk has yet to visit                      *)

vars == <<ent, path, bind, phase, todo>>

Ids == 1 .. Len(ent)
Kids == [e \in Ids |-> ent[e].kids]
Root == Min({ e \in Ids : ent[e].up = 0 })
Walk == PostOrder(Kids, Root)

\* The schedule: what follows each walk.
Then == [names |-> "types", types |-> "materialize", materialize |-> "full",
         full |-> "validate", validate |-> "arity", arity |-> "accepted"]

\* The verdicts of name_reuse, lookups_resolved and function_arity, and what
\* becomes of a pass that reads a component that is not there, or goes round in
\* a circle of modifiers or aliases.
Verdicts == {"redefined", "rejected", "misfit", "undefined", "hung"}

Init ==
  /\ \E p \in Programs : ent = p.ent /\ path = p.path /\ bind = p.bind
  /\ phase = "names"
  /\ todo = Walk

(***************************************************************************)
(* interface.resolve.cpp.                                                  *)
(***************************************************************************)
LeastOr0(S) == IF S = {} THEN 0 ELSE Min(S)

\* find_block without and with must_contain: the first block at or behind e.
BlockFrom(m, e) == LeastOr0({ b \in DOMAIN m : b >= e /\ m[b].blk })
BlockHolding(m, e) == LeastOr0({ b \in DOMAIN m : b >= e /\ m[b].blk /\ e \in Range(m[b].kids) })

\* Where a search that found nothing in block b goes on.
Outer(m, b) == IF m[b].up # 0 THEN BlockFrom(m, m[b].up) ELSE BlockFrom(m, b + 1)

FirstKid(m, b, S) ==
  LET at == { i \in DOMAIN m[b].kids : m[b].kids[i] \in S }
  IN IF at = {} THEN 0 ELSE m[b].kids[Min(at)]

\* find_name_in_block and find_namespace.
Named(m, b, n) == FirstKid(m, b, { e \in DOMAIN m : m[e].name = n })
Space(m, b, n) == FirstKid(m, b, { e \in DOMAIN m : m[e].name = n /\ m[e].space })

\* What is found in the first block from start outwards that has something.
Outward(m, start, found) ==
  LET from[b \in 0 .. Len(m)] ==
        IF b = 0 THEN 0 ELSE IF found[b] # 0 THEN found[b] ELSE from[Outer(m, b)]
  IN from[start]

\* The rest of a dotted name, b being the namespace it starts with.
Inside(m, b, p) ==
  LET home[i \in 1 .. Len(p) - 1] ==
        IF i = 1 THEN b ELSE IF home[i - 1] = 0 THEN 0 ELSE Space(m, home[i - 1], p[i])
  IN IF home[Len(p) - 1] = 0 THEN 0 ELSE Named(m, home[Len(p) - 1], Last(p))

\* Mutant: a strict search takes the first block, whatever it holds.
ResolveNeverStrict(m, e, p, strict) ==
  IF Len(p) = 1 THEN Outward(m, BlockFrom(m, e), [b \in DOMAIN m |-> Named(m, b, p[1])])
  ELSE Inside(m, Outward(m, BlockFrom(m, e), [b \in DOMAIN m |-> Space(m, b, p[1])]), p)

\* lookup::resolve: a plain name is searched outwards from the first block; a
\* dotted one looks for its first namespace that way and only inside it then.
Resolve(m, e, p, strict) ==
  LET start == IF strict THEN BlockHolding(m, e) ELSE BlockFrom(m, e)
  IN IF Len(p) = 1 THEN Outward(m, start, [b \in DOMAIN m |-> Named(m, b, p[1])])
     ELSE Inside(m, Outward(m, start, [b \in DOMAIN m |-> Space(m, b, p[1])]), p)

(***************************************************************************)
(* name_reuse: no block gives two of its entities the same name.           *)
(***************************************************************************)
Reuses(b, i, j) == i < j /\ ent[ent[b].kids[i]].name \in {ent[ent[b].kids[j]].name} \ {""}

NameReuse ==
  /\ phase = "names" /\ todo # <<>>
  /\ phase' = IF \E i, j \in DOMAIN ent[Head(todo)].kids : Reuses(Head(todo), i, j)
               THEN "redefined" ELSE phase
  /\ todo' = Tail(todo)
  /\ UNCHANGED <<ent, path, bind>>

(***************************************************************************)
(* resolve_lookups.                                                        *)
(***************************************************************************)
\* Mutant: inputs are searched strictly too.
StrictInputs(kind) == kind # "ret"

Strict(kind) == kind \in {"type", "call", "alias"}

Target(s) == IF s \in DOMAIN bind THEN bind[s] ELSE Resolve(ent, s[1], path[s], Strict(s[2]))

CallsModifier(e) ==
  LET s == <<e, "call", 1>>
  IN /\ s \in DOMAIN path \cup DOMAIN bind
     /\ Target(s) # 0 /\ ent[Target(s)].modifier

\* Mutant: the inputs of ordinary calls are never looked at.
LooksAtTypesOnly(s, typesOnly) ==
  /\ s[2] = "alias" => ~typesOnly
  /\ s[2] = "input" => ent[s[1]].tdef \/ CallsModifier(s[1])

LooksAt(s, typesOnly) ==
  /\ s[2] = "alias" => ~typesOnly
  /\ s[2] = "input" => ~typesOnly \/ ent[s[1]].tdef \/ CallsModifier(s[1])

ResolveLookups(typesOnly) ==
  /\ phase = IF typesOnly THEN "types" ELSE "full"
  /\ todo # <<>>
  /\ LET here == { s \in DOMAIN path \ DOMAIN bind :
                     s[1] = Head(todo) /\ LooksAt(s, typesOnly) /\ Target(s) # 0 }
     IN bind' = [s \in here \cup DOMAIN bind |-> Target(s)]
  /\ todo' = Tail(todo)
  /\ UNCHANGED <<ent, path, phase>>

(***************************************************************************)
(* materialize_function_types_and_parameters.  An alias is still a         *)
(* lookup::alias at this point, so resolve_type_modifications does not go  *)
(* through it.                                                             *)
(***************************************************************************)
Typed(e) == <<e, "type", 1>> \in DOMAIN bind

Modifier(t) == <<t, "call", 1>> \in DOMAIN bind /\ ent[bind[<<t, "call", 1>>]].modifier

Modifies(t) == Modifier(t) /\ <<t, "input", 1>> \in DOMAIN bind

\* More steps than there are entities go round in a circle.
FunctionType(e) ==
  LET modified[n \in 0 .. Len(ent)] == [t \in Ids |->
        IF n > 0 /\ Modifies(t) THEN modified[n - 1][bind[<<t, "input", 1>>]] ELSE t]
  IN modified[Len(ent)][bind[<<e, "type", 1>>]]

Inputs(t) == InputsAmong(DOMAIN path \cup DOMAIN bind, t)

\* doir::function_inputs, be it empty.
HasInputs(t) == (ent[t].tdef /\ ent[t].fn) \/ <<t, "call", 1>> \in DOMAIN path \cup DOMAIN bind

\* What a pass comes to that resolves modifiers up to t: the first input of a
\* modifier is read even if there is none.
ComesTo(t) ==
  IF Modifies(t) THEN "hung" ELSE IF Modifier(t) /\ Inputs(t) = {} THEN "undefined" ELSE phase

HasParams(e, ft) == \E k \in Range(ent[e].kids) : ent[k].param \in Inputs(ft)

\* Mutant: functions that have their parameters get them again.
WantsParamsAgain(e, ft) == ent[e].blk

WantsParams(e, ft) == ent[e].blk /\ ~HasParams(e, ft)

\* The slots of f that slots of g are copied to, and what they then hold.
CopiedTo(f, old, pairs) ==
  LET copied == { p[2] : p \in { q \in pairs : q[1] \in DOMAIN old } }
  IN [s \in copied \cup DOMAIN f |->
        IF s \in copied THEN old[(CHOOSE p \in pairs : p[2] = s)[1]] ELSE f[s]]

\* Mutant: the new parameters are counted from one too many.
FreshSkipping(i, n) == Len(ent) + n + 2 - i

\* push_parameters adds the last parameter first.
Fresh(i, n) == Len(ent) + n + 1 - i

\* The type is a value of function type, which has no inputs to make parameters of.
ReadsNoInputs(e) == ent[FunctionType(e)].fn /\ ent[e].blk /\ ~HasInputs(FunctionType(e))

Materialize ==
  /\ phase = "materialize" /\ todo # <<>>
  /\ LET e == Head(todo)
         ft == FunctionType(e)
         n == IF WantsParams(e, ft) THEN Cardinality(Inputs(ft)) ELSE 0
         pairs == (IF ent[e].fn THEN {} ELSE {<<<<ft, "ret", 1>>, <<e, "ret", 1>>>>})
                  \cup { <<<<ft, "input", i>>, <<Fresh(i, n), "type", 1>>>> : i \in 1 .. n }
     IN /\ phase' = IF ~Typed(e) THEN phase
                    ELSE IF ReadsNoInputs(e) THEN "undefined" ELSE ComesTo(ft)
        /\ IF Typed(e) /\ phase' = phase /\ ent[ft].fn
           THEN /\ ent' = [ent EXCEPT ![e].fn = TRUE,
                                      ![e].kids = [i \in 1 .. n |-> Fresh(i, n)] \o @]
                          \o [j \in 1 .. n |-> [Blank EXCEPT !.up = e, !.param = n + 1 - j,
                                                             !.name = NameOf(ent, ft, n + 1 - j)]]
                /\ path' = CopiedTo(path, [s \in DOMAIN path \ DOMAIN bind |-> path[s]], pairs)
                /\ bind' = CopiedTo(bind, bind, pairs)
           ELSE UNCHANGED <<ent, path, bind>>
  /\ todo' = Tail(todo)

(***************************************************************************)
(* lookups_resolved, function_arity, and the step from one walk to the     *)
(* next.                                                                   *)
(***************************************************************************)
Unresolved == DOMAIN path \ DOMAIN bind

LookupsResolved ==
  /\ phase = "validate" /\ todo # <<>>
  /\ phase' = IF \E s \in Unresolved : s[1] = Head(todo) THEN "rejected" ELSE phase
  /\ todo' = Tail(todo)
  /\ UNCHANGED <<ent, path, bind>>

\* The lookups have become components: an alias is resolved now.
FinalType(e) ==
  LET to[n \in 0 .. Len(ent)] == [t \in Ids |->
        IF n > 0 /\ <<t, "alias", 1>> \in DOMAIN bind
        THEN to[n - 1][bind[<<t, "alias", 1>>]] ELSE t]
  IN to[Len(ent)][FunctionType(e)]

\* Mutant: the inputs of the callee are counted, not those of its type.
DeclaredOfCallee(callee) == Inputs(callee)

Declared(callee) == Inputs(FinalType(callee))

\* What becomes of the pass at a call.
Arity(call, callee) ==
  IF ~Typed(callee) THEN "undefined"
  ELSE IF ComesTo(FunctionType(callee)) # phase THEN ComesTo(FunctionType(callee))
  ELSE IF <<FinalType(callee), "alias", 1>> \in DOMAIN bind THEN "hung"
  ELSE IF ~HasInputs(FinalType(callee)) THEN "undefined"
  ELSE IF Cardinality(Inputs(call)) # Cardinality(Declared(callee)) THEN "misfit" ELSE phase

FunctionArity ==
  /\ phase = "arity" /\ todo # <<>>
  /\ LET call == <<Head(todo), "call", 1>>
     IN phase' = IF call \in DOMAIN bind THEN Arity(Head(todo), bind[call]) ELSE phase
  /\ todo' = Tail(todo)
  /\ UNCHANGED <<ent, path, bind>>

NextWalk ==
  /\ todo = <<>> /\ phase \in DOMAIN Then
  /\ phase' = Then[phase]
  /\ todo' = IF phase' = "accepted" THEN <<>> ELSE Walk
  /\ UNCHANGED <<ent, path, bind>>

Next ==
  \/ NameReuse
  \/ ResolveLookups(TRUE)
  \/ Materialize
  \/ ResolveLookups(FALSE)
  \/ LookupsResolved
  \/ FunctionArity
  \/ NextWalk

Spec == Init /\ [][Next]_vars

-----------------------------------------------------------------------------
\* Type invariant: lookups are held and bound by entities of the module only,
\* those push_parameters has just created included.
TypeOK ==
  /\ \A e \in Ids : ent[e].up \in 0 .. Len(ent) /\ Range(ent[e].kids) \subseteq Ids
  /\ DOMAIN path \cup DOMAIN bind \subseteq SlotsOf(ent)
  /\ Range(bind) \subseteq Ids
  /\ Range(todo) \subseteq Ids
  /\ phase \in DOMAIN Then \cup {"accepted"} \cup Verdicts

\* Lexical scoping: the innermost block around an entity that declares the name,
\* or the namespace the dotted name starts with.
Innermost(m, S) == IF S = {} THEN 0 ELSE CHOOSE b \in S : S \ {b} \subseteq Around(m, b)

Seen(m, e, found) ==
  LET b == Innermost(m, { x \in Around(m, e) : found[x] # 0 }) IN IF b = 0 THEN 0 ELSE found[b]

Lexical(m, e, p) ==
  IF Len(p) = 1 THEN Seen(m, e, [b \in DOMAIN m |-> Named(m, b, p[1])])
  ELSE Inside(m, Seen(m, e, [b \in DOMAIN m |-> Space(m, b, p[1])]), p)

\* The first of the blocks behind the root, in which no one stands, that has it.
Astray(m, found) ==
  LET b == LeastOr0({ x \in DOMAIN m : x > Root /\ m[x].blk /\ found[x] # 0 })
  IN IF b = 0 THEN 0 ELSE found[b]

InScope(m, e, p) ==
  Seen(m, e, [b \in DOMAIN m |-> IF Len(p) = 1 THEN Named(m, b, p[1]) ELSE Space(m, b, p[1])]) # 0

\* What a name means that nothing in scope has.
OutOfScope(m, p) ==
  IF Len(p) = 1 THEN Astray(m, [b \in DOMAIN m |-> Named(m, b, p[1])])
  ELSE Inside(m, Astray(m, [b \in DOMAIN m |-> Space(m, b, p[1])]), p)

\* A type, a called function or an alias is bound to what lexical scoping says at
\* that moment: the scan over ids and the scopes agree on every entity of the
\* sorted module.  Only when nothing in scope has the name, or the namespace it
\* starts with, does the scan go on behind the root (interface.resolve.cpp 113,
\* 137) and take what the block of an included file still lists, wherever the
\* file's statements have gone; and it is left alone if none does.
BindsLexically ==
  [][\A s \in DOMAIN path \ DOMAIN bind :
       /\ Strict(s[2]) /\ todo # <<>> /\ s[1] = Head(todo)
       /\ phase \in {"types", "full"} /\ LooksAt(s, phase = "types")
       /\ ent[s[1]].param = 0
       => LET t == IF InScope(ent, s[1], path[s]) THEN Lexical(ent, s[1], path[s])
                   ELSE OutOfScope(ent, path[s])
          IN IF t = 0 THEN s \notin DOMAIN bind' ELSE s \in DOMAIN bind' /\ bind'[s] = t]_vars

\* One full walk is enough: what it leaves unresolved, no further search would
\* find, although functions were given parameters in the middle of it all.
NothingMissed ==
  phase \in {"validate", "arity", "accepted", "rejected"} =>
    \A s \in Unresolved : Resolve(ent, s[1], path[s], Strict(s[2])) = 0

\* A parameter that was pushed while lookups were resolved.
Pushed(e) == ent[e].param # 0 /\ e > Root

\* Once its type is known a function has that type's parameters, in order, in
\* front of its body, and exactly once however often the pass has run.  Only a
\* type that was a modifier of something not found may have become another since,
\* a parameter with the name; and such a module is rejected.
ParametersOnce ==
  phase \in {"full", "validate", "arity", "accepted"} =>
    \A f \in Ids : ent[f].blk /\ ent[f].fn =>
      \/ Declares(ent, f, FunctionType(f), Cardinality(Inputs(FunctionType(f))))
      \/ phase \in {"full", "validate"} /\ Pushed(FunctionType(f))

\* "Not strict so that parameters can find their neighbors" (sema/lookup.cpp
\* 44): a type among the parameters of the function written right behind its
\* function type is found, when no block inside that function takes its name.
NeighborsFound ==
  phase \in {"validate", "arity", "accepted"} =>
    \A f \in Ids : \A ft \in Ids :
      /\ ent[f].blk /\ ent[ft].tdef /\ ent[ft].up = ent[f].up
      /\ ft < f /\ \A x \in ft + 1 .. f - 1 : f \in Around(ent, x)
      /\ <<f, "type", 1>> \in DOMAIN bind \ DOMAIN path /\ bind[<<f, "type", 1>>] = ft
      => \A i \in Inputs(ft) : \A p \in Range(ent[f].kids) :
           LET s == <<ft, "input", i>> IN
           /\ ent[p].param # 0 /\ s \in DOMAIN path /\ path[s] = <<ent[p].name>>
           /\ \A e \in Ids : f \in Around(ent, e)
                             /\ ent[e].up # f => ent[e].name # ent[p].name
           => bind[s] = p

\* What the passes behind these rely on.  A name means one entity of a block, or
\* a pushed parameter and what it hides: name_reuse looks at blocks before they
\* get their parameters, and not at the names in a function type.  What is called
\* is a function, and each call has an input for every parameter of its body; but
\* the parameters that were pushed are not visited any more, so that none of them
\* becomes a function, and when the type of what is called is an alias or a call,
\* function_arity looks through the one and takes the inputs of the other for its
\* own, where no parameters were pushed.  And a component that is not there is
\* read only for something called without having a function type, or for a block
\* whose type is a value.
CallsFit ==
  /\ phase = "accepted" =>
       /\ \A b \in 1 .. Root : \A i, j \in DOMAIN ent[b].kids :
            Reuses(b, i, j) => /\ Pushed(ent[b].kids[i])
                               /\ Pushed(ent[b].kids[j]) => ~IsInjective(ent[FunctionType(b)].names)
       /\ \A call \in { s \in DOMAIN bind : s[2] = "call" } :
            LET f == bind[call] IN
            \/ FinalType(f) # FunctionType(f) \/ Pushed(f)
            \/ ~ent[f].fn /\ <<FinalType(f), "call", 1>> \in DOMAIN bind
            \/ /\ ent[f].fn
               /\ ent[f].blk => Cardinality(Inputs(call[1])) =
                                  Cardinality({ k \in Range(ent[f].kids) : ent[k].param # 0 })
  /\ phase = "undefined" =>
       \/ \E call \in { s \in DOMAIN bind : s[2] = "call" } :
            Typed(bind[call]) => LET ft == FunctionType(bind[call])
                                 IN ~ent[ft].tdef \/ ~ent[ft].fn
       \/ \E f \in Ids : /\ Typed(f) /\ ~ent[FunctionType(f)].tdef
                         /\ ent[f].blk \/ Modifier(FunctionType(f))

\* The argument of a call is a value in scope where the call stands; only
\* parameters were meant to be searched for among their neighbors.
ArgumentsInScope ==
  \A s \in DOMAIN bind :
    /\ s[2] = "input" /\ ~ent[s[1]].tdef
    /\ s \in DOMAIN path /\ Len(path[s]) = 1
    => ent[bind[s]].up \in Around(ent, s[1])

\* "We may have materialized some function parameters which can now be found"
\* (driver.cpp 80): a program is rejected only for a name that is not in scope,
\* or that means the very entity looking for it.
RejectedForCause ==
  phase = "rejected" => \E s \in Unresolved : Lexical(ent, s[1], path[s]) \in {0, s[1]}
=============================================================================
