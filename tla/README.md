# A verification project for DOIR

DOIR is an intermediate representation and its compiler: a text format is
parsed into entities of an entity-component store, a sequence of passes edits
the store in place, and what remains is printed and written as bytes. The
modules in this directory model the passes, TLC checks them on small
instances, and TLAPS proves some of the results for every instance.

Nothing in the program runs concurrently as it is built (the only parallel
walker is behind `ECRS_PARALLEL_SYSTEMS`). What makes it hard is that every
pass mutates one shared store while a walker is going through it, that an
entity id is a *position* which a sort changes, and that each pass silently
relies on what the passes before it established. There are no unit tests in
the repository; its statements of intent are `doir.spec`, the `.doir` files
and the comments in the code.

## 1. Inventory

The driver (`driver.cpp`) runs, in order:

    parse -> verify -> sort, early_include, sort, materialize, sort
      -> name_reuse, resolve_lookups(types), materialize, resolve_lookups(all),
         lookups_resolved, fixed_point(bubble_comptime), validate::comptime,
         function_arity, sort
      -> fixed_point(comptime_evaluate), strip_freestanding_blocks,
         pin, allocate, pin, compute, immediates, inline, compute
      -> sort -> verify -> print -> byte dump

| component | state it keeps | operations | what makes it correct |
|---|---|---|---|
| walkers (`systems.hpp`) | a position in a tree that changes, `fixed_point_changed()` | depth_first, breadth_first, sorted, fixed_point | every entity is visited in an order the pass can rely on; the fixed point is reached |
| parser actions (`parser.cpp`) | builder stack, pending value, `working_file` | one action per form of assignment | every entity ends up in one block, in file order, and passes the verifier |
| builders (`interface*.cpp`) | the components of the store | push_*, attach_*, move_existing, copy_existing, materialize_parameters | parents and blocks name each other |
| structure verifier (`interface.verify.cpp`) | none | verify::structure | throws for malformed modules only |
| canonical sort (`sema/canonicalize/sort.cpp`) | ids of all entities, `new_root` | sort | renumbers and changes nothing else |
| canonicalization passes | the tree | process_early_include, materialize_function_types_and_parameters | applied once, builtins stay where they are |
| name resolution (`interface.resolve.cpp`, `sema/lookup.cpp`) | lookup components | resolve, resolve_lookups, lookups_resolved | the id scan means lexical scoping |
| compile-time analysis (`sema/comptime.hpp`) | the Comptime flags | bubble_comptime, validate::comptime | the least closed set of flags, in any order of visits |
| copy and substitution (`interface.copy.cpp`, `module.cpp`) | the components of copies | copy_existing, deep_copy, substitute_entities | a copy refers to itself where the original did |
| register allocation (`opt/allocate_registers.hpp`, `opt/pin_registers.hpp`) | two statics: `allocating`, `next_register` | pin_registers, allocate_registers | no two live values share a register; a pin stands behind its value |
| inlining (`opt/inline_functions.cpp`) | calls become blocks | inline_functions | the result verifies; the walk ends |
| compiler namespace (`opt/compute_compiler_namespace.cpp`) | calls become constants and types | compute_compiler_namespace | a call is folded after its inputs |
| compile-time evaluation (`opt/mizu/`) | a scratch block as root that lists the program's own namespaces, Mizu programs | comptime_evaluate, materialize_immediates | what a program says is kept, though the namespaces are compiled in the middle of the walk; the fixed point is reached |
| string interner (`string_helpers.hpp`) | arena blocks, set of views | intern, find | equal strings are one view, and views never overlap |
| byte dumper (`temp_byte_dumper.hpp`) | bytes per entity | interpret | emits what was computed, in program order |
| semantic checks (`sema/name_reuse.hpp`, `sema/function_arity.hpp`) | none | name_reuse, function_arity | what they accept is what later passes rely on, although others change the tree in between |
| diagnostics, printer, file manager, Mizu tables | messages, mapped files | | |

Components interact through the store only: a pass leaves components, flags
and an order of ids behind, and the next one reads them. Two more channels
cross pass boundaries: function-local statics that hold entity ids
(`static auto byte = lookup::resolve(...)`), and `canonicalize::new_root`,
which compile-time evaluation swaps in the middle of a walk.

The full list of what is hard to test, line by line, is `hazards` in
`PROJECT.json`; the properties below are aimed at it.

## 2. Modules

| module | models | state and actions |
|---|---|---|
| `Comptime` | `sema/comptime.hpp` under `fixed_point` | `flagged` is the set of entities with the Comptime flag, `pos` the walker's place, `changed` is `fixed_point_changed()`. `BubbleCall`, `BubbleTyped`, `BubbleSkip` are the paths of one visit of bubble_comptime, `EndSweep` the loop of fixed_point, `Validate` and `Accept` the validation walk. |
| `Closure` | | abstract specification of `Comptime`: a set grows by one demanded member at a time and settles when nothing is missing |
| `Tree` | walk orders and ancestors | operators shared by the modules of the tree |
| `Canonicalize` | `canonicalize::sort`, the edits between two sorts, the `sorted` walker with its callbacks | `store` is the entity store indexed by id, `walk` the recursion of the walker as a stack of ranges. Actions: `PushStatement`, `PushBlock` (builders), `Materialize`, `PinValue` (the pin of allocate_registers), `CacheBuiltins` (the statics of a system), `VerifierCaches` (the verifier's, filled before the first sort), `Sort`; `StartWalk`, `VisitOther`, `VisitFunction`, `VisitInclude`, `VisitBadInclude` (an included file with errors) and `EndWalk`, which sorts. A `tag` per entity is a history value that survives renumbering. |
| `Lookup` | the first part of the semantic schedule: `name_reuse`, `resolve_lookups` twice with materialization in between, `lookups_resolved`, `function_arity` | `path` holds lookup components, `bind` resolved ones; a step visits the head of `todo`. `Resolve` is `lookup::resolve` with its scan over ids. |
| `Verify` | `verify::structure` | operators: which entities break a rule |
| `Copy` | `copy_existing`, `deep_copy` and `substitute_entities` | operators on modules: what copying the statements of a block, and replacing entities below one, makes of it |
| `Rewrites` | what `compute_compiler_namespace` and `inline_functions` make of one call | operators on modules, used by `Backend` for the program and by `Evaluate` for the namespaces |
| `Evaluate` | `comptime_evaluate` and `strip_freestanding_blocks`, with the instructions of `mizu_doir_instructions.hpp` that change the module | `stack` is the recursion of depth_first with the index each frame has reached, `value` the comptime numbers, `changed` the flag of fixed_point. One evaluation is one step, which also compiles the namespaces that the scratch program lists (`Compiled`); `Evaluate`'s users give the specification. |
| `Registers` | the optimizer schedule as far as registers go: `Evaluate`, then `pin_registers`, `allocate_registers`, `pin_registers`, `compute_compiler_namespace` for types and `register_for`, `materialize_immediates` | extends `Evaluate`. `register` holds assigned registers, `allocating` and `next` are the statics of allocate_registers, which every evaluation leaves changed. |
| `Backend` | the rest of that schedule: `compute_compiler_namespace`, `inline_functions`, `compute_compiler_namespace` again, verify, byte dump | `mod` is the module, `queue` the deque of breadth_first, `phase` the pass that runs, `out` the bytes written. One action per function of the compiler namespace and one for what is rejected, `InlineCall`, `Hang`, `NextPass`, `VerifyStructure`, `Dump`. `source` keeps the program as it was. |
| `Parser` | the semantic actions of `parser.cpp` | `builders` is the builder stack, `value` the closed block that waits for its assignment. One action per form of assignment, `BlockStart`, `BlockEnd`, and `EndOfFile`, which hands the module to `Verify`. |
| `Interner` | `string_interner` | `blocks` is the memory with the size of each block and its bytes by offset, `offset` the first free one, `table` the set of views. `Intern` and `Find` are its operations. |
| `Interning` | | abstract specification of `Interner`: each string has one data pointer of its own |
| `ComptimeProofs`, `InternerProofs`, `CanonicalizeProofs`, `ParserProofs`, `LookupProofs` | | theorems about `Comptime`, `Interner`, `Canonicalize`, `Parser` (handing its module to `Verify`) and `Lookup` |
| `ParserLemmas`, `LookupLemmas`, `TreeProofs` | | what the proofs rest on: the operators of `Parser`, the search of `Lookup` and its chains of modifiers and aliases, the walks of `Tree` with the facts about natural numbers |

In `Lookup` the search takes the module it searches as its first argument, so
that one lemma about it serves for the module before and after a step. What the
sorted modules are that `Lookup` starts with says `SortedPrograms`: `Shaped` is
what the sort makes of the ids, `Linked` what lookups are, `Built` what the
builders give to types and calls (inputs are numbered from one, a type definition
has no type of its own, only function types and calls have inputs), and `Written`
what the builders do: a block with a type that is known is a function, somewhere
behind its type and with its parameters in front of its body (`Literal`). That is so
for what the parser writes and for the builtins, several of which share one
function type (`return_t`, `pointer_t`, `return_register_t`). Behind the root stand
the blocks the sort did not reach (`Detached`): those of a `{}`, whose statements
have moved to what they are the value of, and the one an included file was parsed into,
which lists the file's statements still although they have another parent. An entity
named `_` has no name in the model. Programs the parser has warned about for a
namespace `compiler` of their own are outside of `SortedPrograms`: section 7 says why.

`Lookup` and `Canonicalize` are built on `Tree`, `Parser` on `Verify`,
`Rewrites` on `Copy` and `Verify`, `Backend` and `Evaluate` on `Rewrites` and
`Tree`, `Registers` on `Evaluate`. `Comptime` instantiates `Closure`, and `Interner` instantiates
`Interning`, with their refinement mappings. The `MC*` modules hold the
constants of the runs. `map` in `PROJECT.json` gives the source lines of every
definition. Operators called mutants stand in front of the definition they
vary: each is a plausible bug, under which one of the properties fails.

## 3. What the runs show

Liveness is checked under weak fairness of the whole next-state relation only:
`WF_vars(Next)` in `Comptime`, and the same written out as
`[]<>Stopped \/ []<><<Next>>_vars` in `Registers`, where TLC is slow to decide
whether a step is enabled. The schedule is one thread which runs until it
returns, so a step that can be taken is taken; no fairness between actions is
assumed. Where an endless loop of the code is one visit of a pass (a circle of
aliases, a block that runs itself, inlining without end) the model recognizes it
and goes to the phase "hung". The modules whose behaviour just stops
(`CHECK_DEADLOCK FALSE`) are bounded by the size of the module or end in a
verdict, as the driver does. Where a pass reads a component that is not there
(undefined behaviour, or an exception of the store, as it is built) `Lookup` ends
in the phase "undefined".

**comptime** (`MCComptime`): two values and three calls, every choice of
inputs including cycles and forward references, calls swept in every order,
whole types and flags varied; three calls are enough for a cycle with a call
outside it and for a chain that needs a second and third sweep. `Closes` is the
refinement of `Closure`: flags are never cleared, each is demanded by the ones
there are, and fixed_point stops only when none is missing. `Least` says that
nothing is flagged beside the least closed set;
`FlagsJustified` that a flag is justified in the middle of a sweep too;
`Verdict` that validation accepts a program only when every compile-time call
can be given its inputs, and rejects it only for one that can not: the
`register_for` that knows its register and not its value passes, and no other
call with a run-time input does; `Terminates` that the fixed point is
reached.

**canonicalize** (`MCCanonicalize`): up to nine entities, five of which are
builtins, so every sequence of up to four edits, any number of sorts, and sorted
walks from any block with an edit at any visit. Four edits make a block whose
first child is a block, which the walker has to enter, and parameters that are
pushed in front of it. `Canonical` is the numbering the `sorted` walker and the
id scans rely on, and that sorting again moves nothing; `SortedSeesAll` that the
walker visits everything that was there once, children first, however its
callbacks edit the tree (and what they add, not at all), and that process_early_include
always finds the position it inserts at; `MeaningKept` that a sort renumbers
every reference and changes nothing else (blocks left behind by an include, or
by one that failed, too), `OldOrderKept` that statements which have been sorted
never change their order, `StaticsStay` that the id a pass kept in a static is
still that builtin when it was resolved behind a sort, and that the one the
verifier fills before (`interface.verify.cpp:270`) is right up to the first sort
and never again.

**canonicalize_pins** (violation): a pin is moved behind its value, and the
sort in front of the byte dump moves it to the end of a function's body.

**lookup** (`MCLookup`): one module shape (a namespace, a function with a
nested block, a function type, a call, an alias) with every choice of names
for two declarations and of what eight lookups name; and one with every choice
of what is called, with no input up to two, of a function whose type is literal,
or given by the name of a type, of an alias, or of the result of a call, with
parameters that share a name or take the default ones (`a0`, `a1`); and one with a
function that calls its own parameter; and one with a file that was included in the
function, whose names are looked for from all over. Every shape has two builtins of
one function type in front, and the block of a `{}` and that of an included file
behind the root. `BindsLexically` compares the id scan with lexical
scoping stated by parents: while something in scope has the name the scan finds just
that, and only when nothing has does it go on behind the root
(`interface.resolve.cpp:137`), where it takes what the block of an included file lists
(`OutOfScope`); `NothingMissed` that the second walk leaves nothing
that a third would resolve; `ParametersOnce` that functions get the parameters
of their type exactly once; `NeighborsFound` that non-strict lookups do what
the comment in `sema/lookup.cpp:44` says they are for; `CallsFit` what an
accepted module promises the passes behind: a name used once in a block, and
calls with an input for every parameter, with the exceptions that the order of
the passes makes (names are compared before parameters are pushed, parameters
are pushed before aliases are resolved, and what is pushed is not visited by the
walk that pushes it, so that a parameter of function type never becomes a function).
It also says when the passes read a component that is not there: only for something
called, or a block, that has no function type.

**lookup_arguments** (violation): the same rule makes an ordinary argument
resolve to a local of a nested block it does not stand in.
**lookup_materialized** (violation): a type of a materialized parameter that
the first pass left unresolved is never found by the second, strict search.

**parser** (`MCParser`): files of up to three assignments, nested two deep,
every form of assignment, function types of one or two parameters. Two levels
are what a builder inside a builder needs, three assignments what an order
among siblings next to a nested block needs. `OnePlace` (nothing
is lost and nothing is in two blocks) and `FileOrder` are about the moving of
parsed blocks; `ThrowsOnlyFor` about the
verifier accepting everything else.
**parser_export** (violation): `export` in front of a namespace replaces its
flags, so that it is a namespace no more.

**interner** (`MCInterner`): blocks of four bytes and six strings: the empty
one, one that is a terminator itself, one that fills a block exactly and two
that are longer than a block, interned and looked for in every order. `Intact`
says that no view ever shows anything but what was interned there, with its
terminator; `Interns` is the refinement of `Interning`: comparing interned
strings by their data pointers, as the compiler does everywhere, is comparing
strings. Every state is finite because a string is stored once; no bound is
needed.

**registers** (`MCRegisters`): 678 programs of one shape, the builtin and mizu
namespaces in front of three blocks (one within another) and eight statements
that are numbers, calls to evaluate, calls that run a block, or run it under a
condition, pins, loads, and the start of allocation. That is enough for a call
that takes itself out of the block being walked in front of another call, for a
block that runs a block that was expanded or not, for a block that runs itself,
for conditions that are the number of the call itself or as large as a word, and
for every order of pin, value and start of allocation. In the namespaces stand two
types made by `base_type` and `comptime_base_type`, a modifier, and an instruction
whose body asks for the register of a parameter and inlines `emit_register`: what
the schedule inside the first evaluation folds and inlines there is numbered
otherwise by the allocation behind it. `Expanded` says that what a program says at
run time is kept by every step, that after the last round every block that is to
be run is in its place, and that nothing of the blocks that were only run is left;
it counts modulo a word. Of the calls that are given a type made by `base_type` it says
that only the one is evaluated which is the first of all calls to be: that
evaluation takes the `type_of` of these types away. `RegistersGiven` says that registers are the
function of the program which one would write down without walks and statics, and
that `register_for` a parameter stays a call; `Ends` that all of it ends, except
when a block runs itself. `MaxEntities` (100) is beyond what any program that ends
makes, and `Word` (128) stands for 2^32: ids are below it, and one number of the
programs is it.

**backend** (`MCBackend`): 239 programs of one shape, with a function that calls
another one in its body and in an inner block, calls of both at the top and in
a block, and choices of what their statements are, how inlining is asked for,
and what is emitted. That is enough for a function to be inlined before the
calls in its own body are and after, for a call inlined into a function that is
itself inlined, for functions that call themselves or each other, and for every
function of the compiler namespace to be folded in both passes. The three
numbers of the programs give different bytes wherever two bindings could be
confused. `MeaningKept` compares the module after every visit with what the
source program emits by an evaluation that binds parameters to values instead
of copying; `InScope` says that copies are hygienic and stand in an order the
dumper can use; `NothingLeft` that one walk of inlining is enough;
`FailsForCause` names every reason for which these passes, the verifier and the
dumper end a compilation; `HangsForCause` that one never ends only for functions
that are inlined and call themselves by more than one call, or hand on a
parameter to themselves. Programs with such calls are left out of `InScope` and
`MeaningKept`: the code has no meaning for them to keep. A module that grows
beyond `MaxEntities` (150) counts as one that never ends; all programs without
recursion stay far below it.

**backend_forced** (violation): `doir.spec` says that inlining can be asked for
by modifying a function's type; a function that has the modified type is never
inlined.

## 4. What is proved

`ComptimeProofs` proves, for every set of programs satisfying
`ProgramsAssumption` (a program is a finite sequence of entities with calls,
inputs and flags over them; calls are not flagged by the parser):

- `TypeCorrect`: `Spec => []TypeOK`;
- `Justification`: `Spec => []FlagsJustified`;
- `Refinement`: `Spec => Closes`, that `Comptime` implements `Closure`;
- `LeastFixedPoint`: `Spec => [](Least /\ Complete)`.

`Complete` (no flag is missing once the sweeps have stopped) alone is not
inductive: that the last sweep changed nothing says something only if the sweep
has looked at everything with the *present* flags. The inductive invariant
`IInv` adds `SweepClosed`: as long as a sweep has changed nothing, every entity
behind `pos` that demands a flag has it. It also carries `FlagsJustified`, from
which `BubbleCallStep` derives that the un-flag branch of bubble_comptime changes
nothing, so that flags only grow; `ReadyMonotone` then keeps every earlier
justification true although a sweep updates flags in place. There is one lemma
per conjunct, with one case per action. The refinement needs both halves:
`FlagStep` maps a visit to `Closure`'s `Add` or to a stutter, and `SweepClosed`
gives the guard of its `Settle`.

`InternerProofs` proves, for every block size but zero and every set of strings
(finite sequences of bytes):

- `TypeCorrect`: `Spec => []TypeOK`, with every write inside of its block;
- `NeverOverwritten`: `Spec => []Intact`;
- `Refinement`: `Spec => Interns`, that the arena implements `Interning`.

That no view is written over follows from where allocation writes, so the
inductive invariant says of each view that it lies in what was handed out
(`ViewsOK`: below the size of its block, and below `offset` in the last one) and
of each block that it is as large as what is checked against the block size
(`BlocksOK`): a string too long for a block gets one of its own, which is longer,
and the check that the next string fits still compares with the block size.
`Distinct` (no two views show the same string) is what makes a search that finds
*a* view find *the* view, and with it the mapping of `Interning`'s pointers well
defined. `WrittenOK` says what a write changes; `ReadsStay` and `ReadsBack` are
the two facts about reading the rest uses.

`ComptimeProofs` also has `RightVerdict`: `Spec => []Verdict`. The verdict is
found entity by entity in a walk of its own, so the strengthening (`Validated`)
says of the walk what it has passed: no call before `pos` misses a comptime
input, and the call that ended it does. `OffendsIs` ties the index the walk
remembers to the inputs: it excuses exactly the `register_for` whose first input
is known and whose second one is not, so neither half of the verdict covers an
excuse that is too wide or too narrow.

**`ParserProofs`** proves, for files of any length, nested to any depth (the
bounds of the run, `MaxAssignments` and `MaxDepth`, are constants of the
theorem like the others):

- `TypeCorrect`: `Spec => []TypeOK`;
- `NothingTwice`: `Spec => []OnePlace`;
- `InFileOrder`: `Spec => []FileOrder`.

None of the three is inductive. A closed block waits as a pending `value` and
hangs nowhere yet, an assignment moves its statements to another entity, and
parameters are pushed in front of statements which are older than they are. The
inductive invariant is `Structure`, of three parts. `Sane` says that parents and
children name each other (`Linked`), that every list of children is in the order
of the file (`Listed`), that nothing is older than the assignments so far (`Aged`),
that what has a parent has one of the forms of the grammar, and what an export took
from it is on record (`Formed`), that functions have their parameters
(`Equipped`), and of the blocks without a parent that those which are open hold
statements only (`Hanging`) and all others are empty (`Emptied`). `Stacked` says that
no builder is on the stack twice, nor the pending value on it, and `Scalars` types
the rest.
TLC was given `Structure` as an invariant of the run of `MCParser` before the
proof. `ParserLemmas` has what each kind of push does to `Sane`, one lemma per
kind, and the proof has one step per action on top of these.

It also proves `ThrowsForExports`: `Spec => []ThrowsOnlyFor`, that the verifier throws for no file but one that exports what an export strips of
its flags. `verify::structure` looks at components, flags and at blocks inside of
blocks; `Formed` says which components and flags each entity has, and the proof
shows form by form that no rule is broken.

**`TreeProofs`** proves about the walks of `Tree` that every modelled pass uses,
for every tree whose children have a rank below their parent's:

- `VisitsAll`: a depth-first walk comes to every entity that hangs together
  with its root, whatever else there is;
- `VisitsOnce`: if besides every child is listed by its parent alone, the walk
  repeats nothing and ends with its root. So the `found` set of
  `sort.cpp:19` stops nothing on the modules of the compiler, and the assertion
  of `sort.cpp:130` holds;
- `AncestorsAre`: the ancestors of an entity are its parent and the ancestors of
  that;
- `SubtreesTogether`: what is below an entity stands just in front of it in the
  walk, as a walk of its own, which is what counting from a first child to its
  block rests on;
- `SiblingsInOrder`: a walk comes to the children of an entity in their order;
- `RenamedWalk`: the walk of a renamed tree is the renamed walk;
- `GrownWalks`: in a tree that has grown a walk comes to what it came to before,
  in the same order.

Walks and ancestors are defined by recursive functions, of which TLA+ says nothing until it
is shown that such a function exists; `WalkExists` and `ClimbExists` do. That is
induction over numbers, which the library states for predicates and
`TreeProofs` states for *sets* (`SetInduction`), so that a proof can cite it.

**`CanonicalizeProofs`** proves, for modules of any size (`MaxEntities` is a
constant of the theorem), functions of any arity, and any sequence of edits,
sorted walks and sorts:

- `TypeCorrect`: `Spec => []TypeOK`, that no id dangles;
- `SortKeepsMeaning`: `Spec => MeaningKept`, that a sort rewrites every reference
  and changes nothing else;
- `SortedIsCanonical`: `Spec => []Canonical`, that the numbering is the one the
  `sorted` walker counts through and another sort would move nothing;
- `StaticsNeverStale`: `Spec => []StaticsStay`, statics of systems and the
  verifier's;
- `SortedOrderIsKept`: `Spec => OldOrderKept`;
- `WalkSeesAll`: `Spec => []SortedSeesAll`, that the `sorted` walker comes to
  everything below its start, once and children first, while its callbacks
  insert into the lists it reads.

A sort is right only if the order it computes is a permutation of the ids:
were an entity in it twice or not at all, `reorder_entities` would lose a
component. That needs the module to be a tree, which no part of `TypeOK` says.
The inductive invariant is `Structured`: whatever has a parent is listed by it
once, nobody else lists it but a block that itself has no parent (the one an
included file was parsed into, which stays behind with its list), children have
higher tags than who lists them, the parameters of a body have different
indices, and tags are the numbers from one on. The tags rank the tree, because
an edit makes entities below older ones only, and a sort keeps tags where ids
change. From there: `BodyBeforeOrders` shows that the
comparison of `sort.cpp:28-40` is a strict total order on every body, which
`std::sort` requires of it; `InOrderIs` and `BodyOrderIs` that sorting a body
loses nothing; `WalkOrderIs`, on `VisitsOnce`, that the walk repeats nothing;
`SortOrderIs` that the walk with what it has missed behind it is a permutation;
and `RenumberedKeeps` and `RenumberedMeans` are about any renumbering by a
permutation: it keeps `Structured` and what the module says. Every edit appends
entities and inserts into at most one list, with one lemma per edit. TLC was
given `Invariant` on the run's model before the proof.

`SortedIsCanonical` adds `Tidy` behind a sort: the walk from the root is 1, 2, ...
and bodies are in order. A sort makes it (`SortTidies`, on `RenamedWalk`: the walk
of the sorted module is the old walk under the new names), and a tidy module is a
fixed point (`TidyStays`). That each subtree is a range of ids which ends with its
root is `SubtreesTogether` under this numbering (`TidyIs`).

`StaticsNeverStale` and `SortedOrderIsKept` relate one sort to the next, with any number of edits in
between, so they need what no edit undoes. `Edit` says it once for all of them
(entities keep their tag, parent and index, a list keeps the order of what was in
it, the lists of the builtins and the first three entities of their block stay),
and `StepIs` that every step is an edit, a sort or a look. On top is the
invariant `Arranged`, which TLC was given too: the builtins come first in the root
(`Builtins`), so that every sort gives them the ids 1 to 4 (`Numbered`); functions are in
the tree, so that every sort orders their bodies (`Functions`); and what a body holds
since before the last sort is in the order of a sort still (`InOrderSince`). The
first sort does renumber the builtins, so a static filled before it (`VerifierCaches`)
is stale from there on, and one filled behind it (`CacheBuiltins`) never.

`WalkSeesAll` is about a walk that counts through ids while its callbacks edit
the lists it has the bounds of its loops from. The invariant `Seeing` speaks of the module `s0` in which
the walk began, which was tidy, and of which `Since` says what all edits leave as it
was: up, index and the order of what was listed. The walk is at one number
(`Counting`): it has seen `Low(s0, top)` up to the id before, and its stack of ranges
(`Linked`) is a chain from `top` down to the range that ends with a first child not
left yet. What a callback adds it could only be misled by at the first child of a
block still ahead; `Firsts` says that no block ahead has got another one
(`MaterializeBegins`: parameters go in front of the function that is being visited,
which the walk has passed; `EarlyIncludeBegins`: an include goes behind a
statement, and is never first). `WalkGoesOn` is the induction over the stack that
brings the recursion from one id to the next, on `Counted` (a subtree is a range of
ids and starts where its first child does) and on `AheadIs`, that the recursive
function `Ahead` exists at all: its recursion has no rank, and `ChainExists` gives a
function for every chain, whether it ends or not. At the end what the walk has seen is
compared with the tree as it is *now*, on `GrownWalks`.

**`LookupProofs`** proves, for every sorted program:

- `TypeCorrect`: `Spec => []TypeOK`;
- `LexicalBinding`: `Spec => BindsLexically`;
- `OneWalkSuffices`: `Spec => []NothingMissed`;
- `ParametersOfTypes`: `Spec => []ParametersOnce`;
- `NeighborsMeet`: `Spec => []NeighborsFound`;
- `AcceptedCallsFit`: `Spec => []CallsFit`.

With these every property of the runs of `Lookup` that holds is a theorem. What the
program must satisfy is `SortedPrograms` (section 2): what `canonicalize::sort`
makes (`SortedIsCanonical` proves the numbering) of what the parser and the builders
write. TLC evaluates it for the programs of the run. The heart is `StrictIsLexical`: a
search which scans ids upwards for a block finds the scopes, because in such a
module the next block that holds an entity is its parent (`HoldingIsParent`), and
where a search goes on from a block is that block's parent
(`OuterIsParent`). From the root it goes on to the blocks behind it, one after the
other (`Astray`): that is the other half of `BindsLexically`. `FromTheRoot` is the
induction both sides of the comparison are unfolded with. But the modules are sorted only once: materialization pushes
parameters behind the root, where the numbering no longer holds, and the search
goes on. So the invariant keeps `Shaped` with the root where it was
(`GrownShaped`): what is behind it and in the tree is a parameter (`BehindTheRoot`), has
no block and is nobody's parent, so no scan for a block ever stops at one, and what is
not in the tree is no type, no call and no function. That is also why
`BindsLexically` leaves parameters out, and why it is right for all others.
`OneWalkSuffices` adds `Searched`: in the second walk, whatever is unresolved
is still ahead of the walk or is found by no search. It needs that the walk comes to
everything in the tree, the new parameters included, and that nothing else holds a
lookup: `VisitsAll`, as `WalkCovers`.

The last three theorems are about what happens between the two walks, and none of
the properties is close to inductive. `ParametersOnce` speaks of the type of a
function behind its modifiers at *every* later state, and bindings made later lengthen
a chain of modifiers: a type that ended at a modifier with an unresolved input
then goes on. `TypeTurns` says exactly when: only if that one lookup (the chain's
`Open` end) is bound by the step. So the proof has to know what every unresolved
lookup would still find, which is the invariant `Tracked`:

- `Formed`: inputs are numbered from one without gaps, in the module at every
  state (`InputsAre`), although slots are copied to pushed parameters;
- `Plain`: what is behind the root is a parameter and has nothing but a type, so
  it can never be a modifier, a type or an alias;
- `Late`: a lookup of a type, a callee or an input of a type that the first walk left
  open means a *pushed parameter* or nothing. This is the strengthening that
  makes it work: an open chain can only turn into a parameter;
- `Kept`: a function written with its type has it, and its parameters, for good;
- `Provided`: a function has the parameters of its type (`Ready`), or its type
  has turned into a pushed parameter; and as long as its chain is open, a
  parameter of its own holds the same lookup, will not find it by a strict search
  (`FullTurns`), and keeps the module from being accepted (`Waits`);
- `Complete`: what the validation has passed is resolved.

`MaterializeIs` puts a step of materialization as a fact (`Grows`), and there is one lemma
for each part and each kind of step (`Resolving...`, `Growing...`, `Looking...`).
`NeighborsMeet` adds `Distinct` (which names a block can hold twice, behind and
before `name_reuse`) and `Met`: an input that means a parameter of the function
behind its type is bound to it, from the visit on that comes to it in the *first*
walk. `NeighborSeen` shows that the scan from the type, upwards through whatever
blocks the function contains, passes them all and stops at the function. `AcceptedCallsFit`
adds `Made` (which entities with a type materialization has turned into functions),
`Fits` (calls the walk of `function_arity` has passed have as many inputs as
their callee's type) and `Explained` (why a component was missing); it joins them with
`ParametersOnce`, which gives the parameters that the body has, and with
`Complete`. TLC was given each of these invariants on the run's model before its proof.
It showed the properties as they were first stated to be false, and the
exceptions in `ParametersOnce` and `CallsFit` are what it found: two parameters of
one name in a named function type are never reported, a parameter of function type
is called as it is, and a type can turn into a parameter in a module that is
rejected afterwards.

The chains (`FunctionType`, `FinalType`) are recursive functions over a number of
steps; `FollowedExists` and its like in `LookupLemmas` show that they exist, by
induction over a set of numbers.

Only model-checked, and why:

- `Terminates` and `Ends`: liveness under fairness is out of the prover's reach.
- `Evaluate`, `Registers` and `Backend`: they declare `RECURSIVE`
  operators, for which the prover has no SMT backend. Their walks would have to be written
  as recursive functions first, as those of `Tree`, `Canonicalize` and `Verify` are.
- What a recursive definition computes for every input (that `Backend` emits
  what the source program means) is induction over data.

## 5. Differences between code and text noticed without a run

- `doir.spec:43` says that leaving out the return means void; the grammar
  (`grammar.peg:12`) requires `->`, and the branch of the parser for a missing
  return type is never taken.
- `Flatten` and `Tail` are the same bit (`interface.hpp:57-58`).
- `name : alias = { ... }` parses, and dereferences a builder that was never
  made (`parser.cpp:212-228`).
- The un-flag branch of bubble_comptime (`sema/comptime.hpp:41-44`) is dead,
  which `Justification` proves.
- `offset_of` returns an id constant on failure (`interface.cpp:41`), and one of
  its callers adds one to it; `SortedSeesAll` shows that it does not fail there.
- A file included by a file is not included: what the walk of early_include
  splices in has ids behind the root it counts up to, and there is no second
  walk.
- `function_arity` reads the type of what is called without resolving aliases
  (`function_arity.hpp:15-16`): for a function called by an alias, which
  `doir.spec:47` recommends, there is no such component. `CallsFit` lists it
  under the phase "undefined".
- A function whose type is an alias of a function type never gets parameters:
  they are pushed before aliases are resolved (`driver.cpp:79`), and the number
  of inputs of its calls is compared with the type behind the alias all the same.
- `name_reuse` runs before parameters are pushed (`driver.cpp:75`): a local with
  the name of a parameter is reported when the function type is literal only, and
  so are two parameters of one name.
- A parameter whose type is a function type never becomes a function when it is
  materialized in the semantic schedule: the walk that pushes it does not visit it.
  `CallsFit` lists it.
- `resolve_type_modifications` reads the first input of a modifier without asking
  whether there is one (`interface.resolve.cpp:169`), and goes on forever when a
  modifier is its own input; materialization reads the inputs of a function type
  that is a value and has none (`materialize_function_types_and_parameters.hpp:38-40`).
- `string_interner::memory_used` counts a block larger than the block size as
  one of the block size.
- The verifier resolves a static entity before the first sort
  (`interface.verify.cpp:270`), and the sort renumbers it: from there on it holds
  the id of another builtin (`StaticsStay` says so). The driver verifies once more
  behind the last sort (`driver.cpp:134`), with that id.

- A name that nothing in scope has is not an error at once: the search leaves the root
  for the blocks behind it (`interface.resolve.cpp:135-137`), and the block an included
  file was parsed into lists the file's statements there
  (`process_early_include.hpp:67-69`). So what a file included in one function declares
  is found from everywhere else, by names without or with a namespace.
  `BindsLexically` states it.
- A namespace called `compiler` is ignored with a warning only, and the block that was
  parsed for it keeps its statements and lies behind the root. A search that has left
  the root and meets a block nested in it goes on with its parent and from there with the
  next id upwards, which is the nested block again.
- "All types are compile time known" (`sema/comptime.hpp:79`), on which
  `validate::comptime` lets a compile-time call have a type for an input. But each
  evaluation runs `mizu_schedule` over a scratch block that lists the namespaces
  `compiler` and `mizu` (`comptime_evaluate.cpp:64-68,165`), which folds their types and
  removes the `type_of` that makes a type available (`comptime_evaluate.hpp:16`): a call
  that is given `mizu.u64` is evaluated if it is the first, and is left for run time,
  without a word, behind any other. `Expanded` says so.
- "If the condition is true we inline the block" (`mizu_doir_instructions.hpp:64`): a
  condition of 2^32 is loaded as 0 (`materialize_immediates.hpp:51`) and erases its call,
  which is why `Expanded` counts modulo a word.
- A call marked `flatten` is not inlined unless its function's type is marked
  too, although `doir.spec:66-67` makes flattening an alternative to inlining;
  and when it is inlined, the verifier takes the bit for `Tail` and throws.
- `compiler.pointer` or arithmetic at the top whose input is itself a call
  inside a namespace is rejected: breadth-first folding meets the outer call
  first.
- `return_register` in an inner block of an inlined function is rejected as
  being outside of a function (`inline_functions.cpp:45`, a substitution one
  level deep).
- A call with the modifier inline that is inlined into the function it calls
  keeps its flag in the copy (the copy is made before `inline_functions.cpp:48-50`
  clears it), and the verifier throws.
- Inlining a function with one call of itself ends, in an unrolling that stops
  where the walk has passed.
- `emit_bytes` of a parameter or an alias writes nothing or throws, depending on
  ids (`temp_byte_dumper.hpp:53-54`).
- The two folding passes are given a flag `force_register_values` that nothing
  reads.
- `inline` in front of a call of a function without a body reads a block that
  is not there (`inline_functions.cpp:25`).

## 6. Plan

In the order in which the parts matter to a compiled program; what is done:

1. `Comptime`, `ComptimeProofs`, with `Closure` as its abstract specification
2. `Canonicalize` on `Tree`, with the sorted walker and its callbacks, and
   `CanonicalizeProofs`
3. `Lookup`, with the checks before and behind it, and `LookupProofs`
4. `Parser` with `Verify`, and `ParserProofs`
5. `Backend` on `Copy`, with the whole compiler namespace and recursive inlining
6. `Interner`, `InternerProofs`, with `Interning` as its abstract specification
7. `Evaluate` and `Registers`: compile-time evaluation, pins and numbering

What is left:

8. A module that composes `Registers` and `Backend`, where `yield_register` yields
   the registers given, and what is inlined asks for them.
9. A module that composes the abstract states of the passes in the driver's
   order.

Theorems planned: `Evaluate`, `Registers` and `Backend` without
`RECURSIVE`, then their `TypeOK`.

## 7. Not modelled

The printer, diagnostic texts and source locations have no effect on what is
compiled; what `debug_print` prints and the sizes of types are left out with
them. `parse` restores the name of the including file and not its text
(`module.cpp:14-29`), which only the locations in diagnostics depend on. The file
manager is a vendored library for mapped files. The Mizu instruction tables are
generated, and the Mizu machine, the ECS store, the PEG library and the
diagnostics library are submodules which the repository does not contain.

The scratch program that an evaluation builds, compiles and runs on the Mizu
machine is one step of `Evaluate`: what compiling it makes of the namespaces it
lists is modelled, its own entities, which no block of the program lists, are
not, and the machine is taken to compute the function it is given. Two things the code leaves to chance are not followed there: the
result of the schedule over the scratch module is ignored
(`comptime_evaluate.cpp:165`), and `doir_execute` holds a reference to a
component while it adds another one (`mizu_doir_instructions.hpp:47`); whether
that moves the first is for the ECS store to say, and the model takes the
reference to stay good. Strings are left out of `Evaluate` and are values of
`Backend`.

An included file is one statement in `Canonicalize`, and its errors are one
outcome. `strip_names` and `materialize_aliases` are commented out of the
schedules, and the parallel walkers out of the build.

`SortedPrograms` leaves out the programs that have a namespace `compiler` of their own:
the parser warns, keeps the namespace empty and leaves what stands in it below a block
that is nobody's statement (`parser.cpp:203-210`). No pass walks it, as every walk
begins at the root, and the properties of `Lookup` speak of scopes of the tree; what it
changes for the rest of the module is that a search that nothing in scope answers may go
on into it, and for ever if blocks are nested there (section 5).
