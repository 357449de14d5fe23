-------------------------------- MODULE Registers --------------------------------
(***************************************************************************)
(* The optimizer of the driver (opt_schedule and mizu_schedule, driver.cpp *)
(* 92-122) as far as registers go: compile-time evaluation and stripping   *)
(* as in Evaluate, then pin_registers, allocate_registers, pin_registers   *)
(* again, compute_compiler_namespace, and materialize_immediates.  The     *)
(* programs here compute no bits and inline nothing outside of the mizu    *)
(* namespace; that, and what it takes to reject a call, is in Backend.     *)
(*                                                                         *)
(* Every evaluation runs mizu_schedule over a scratch block, which begins  *)
(* with the entities 1 .. 4 and does not begin allocation: what it leaves  *)
(* in the statics of allocate_registers is what their visits set.          *)
(***************************************************************************)
EXTENDS Evaluate

VARIABLES
  register,        \* assigned_register of the entities that have one
  allocating, next,\* the statics of allocate_registers
  errors,          \* a diagnostic was pushed
  program          \* the module that mizu_schedule was given; nothing reads it

vars == <<evaluateVars, register, allocating, next, errors, program>>

Init ==
  /\ EvaluateInit
  /\ register = <<>>
  /\ allocating = FALSE
  /\ next = 0
  /\ errors = FALSE
  /\ program = <<>>

Evaluate ==
  /\ EvaluateStep
  /\ IF Evaluating /\ phase' # "hung"
     THEN allocating' = FALSE /\ next' = 1
     ELSE UNCHANGED <<allocating, next>>
  /\ UNCHANGED <<register, errors, program>>

Kids(m) == [e \in DOMAIN m |-> m[e].kids]

EndOfStrip ==
  /\ phase = "strip" /\ queue = <<>>
  /\ phase' = "pin"
  /\ program' = mod
  /\ UNCHANGED <<mod, value, stack, queue, changed, source, register, allocating, next, errors>>

------------------------------------------------------------------------------
Pinned(m, e) == [target |-> Resolved(m, m[e].ins[2]), number |-> m[Resolved(m, m[e].ins[3])].num]

\* pin_registers, one walk of it: the last pin wins.
PinnedAll(m, order) ==
  FoldLeft(LAMBDA acc, e :
             IF m[e].callee # PinRegister THEN acc
             ELSE LET p == Pinned(m, e) IN
                  IF p.number = NoNumber THEN [acc EXCEPT !.errors = TRUE]
                  ELSE [acc EXCEPT !.register = (p.target :> p.number) @@ @],
           [register |-> register, errors |-> errors], order)

PinRegisters ==
  /\ phase \in {"pin", "repin"}
  /\ LET end == PinnedAll(mod, PostOrder(Kids(mod), Root))
     IN register' = end.register /\ errors' = end.errors
  /\ IF phase = "pin" THEN phase' = "allocate" /\ queue' = <<Root>>
                      ELSE phase' = "compute" /\ queue' = <<>>
  /\ UNCHANGED <<mod, value, stack, changed, source, allocating, next, program>>

------------------------------------------------------------------------------
Allocating == phase = "allocate" /\ queue # <<>>

\* The statics as the visit of e finds them, once it has reset them.
On(e) == allocating /\ e >= 5
Counter(e) == IF e < 5 THEN 1 ELSE next

Walked ==
  /\ queue' = Tail(queue) \o mod'[Head(queue)].kids
  /\ UNCHANGED <<value, stack, changed, phase, source, register, errors, program>>

\* Mutant: whatever is pinned gets a register of its own, too.
NeedsAny(e) == mod[e].num # NoNumber \/ mod[e].callee # 0

\* A value that no pin has given a register yet.
Needs(e) == (mod[e].num # NoNumber \/ mod[e].callee # 0) /\ e \notin DOMAIN register

\* The register's number and the pin, moved right behind the value.
PinPushed(kids, e, number, call) ==
  LET i == CHOOSE j \in DOMAIN kids : kids[j] = e
  IN SubSeq(kids, 1, i) \o <<number, call>> \o SubSeq(kids, i + 1, Len(kids))

AllocateRegister ==
  /\ Allocating
  /\ LET e == Head(queue)
         home == mod[e].up
         number == Len(mod) + 1
         call == Len(mod) + 2
     IN /\ On(e) /\ Needs(e)
        /\ mod' = [mod EXCEPT ![home].kids = PinPushed(@, e, number, call)]
                  \o << [Blank EXCEPT !.up = home, !.type = RegisterT, !.num = next, !.flags = {Comptime}],
                        [Blank EXCEPT !.up = home, !.type = RegisterT, !.callee = PinRegister,
                                      !.ins = <<mod[e].type, e, number>>] >>
        /\ next' = next + 1
        /\ UNCHANGED allocating
        /\ Walked

AllocateNothing ==
  /\ Allocating
  /\ LET e == Head(queue)
     IN /\ ~(On(e) /\ Needs(e))
        /\ allocating' = (On(e) \/ mod[e].callee = BeginRegisterAllocation)
        /\ next' = Counter(e)
  /\ UNCHANGED mod
  /\ Walked

EndOfAllocation ==
  /\ phase = "allocate" /\ queue = <<>>
  /\ phase' = "repin"
  /\ UNCHANGED <<mod, value, stack, queue, changed, source, register, allocating, next, errors, program>>

------------------------------------------------------------------------------
ComputeCompilerNamespace ==
  /\ phase = "compute"
  /\ mod' = ComputedBelow(mod, <<Root>>, register)
  /\ phase' = "load"
  /\ UNCHANGED <<value, stack, queue, changed, source, register, allocating, next, errors, program>>

\* A load that has become a block; the calls that emit its bytes are left out.
Opened(m, e) == [m EXCEPT ![e] = [@ EXCEPT !.callee = 0, !.blk = TRUE]]

\* materialize_immediates: stops at the first load that fails, which is a block
\* by then if only the register is missing.
MaterializeImmediates ==
  /\ phase = "load"
  /\ LET loads == SelectSeq(PostOrder(Kids(mod), Root), LAMBDA e : mod[e].callee = LoadImmediate)
         load(acc, e) ==
           LET target == Resolved(mod, mod[e].ins[2]) IN
           IF acc.failed THEN acc
           ELSE IF mod[target].num = NoNumber THEN [acc EXCEPT !.failed = TRUE]
           ELSE IF target \notin DOMAIN acc.register
                THEN [acc EXCEPT !.failed = TRUE, !.mod = Opened(@, e)]
           ELSE [acc EXCEPT !.mod = Opened(@, e),
                            !.register = (e :> acc.register[target]) @@ @]
         end == FoldLeft(load, [mod |-> mod, register |-> register, failed |-> FALSE], loads)
     IN /\ mod' = end.mod
        /\ register' = end.register
        /\ errors' = (errors \/ end.failed)
        /\ phase' = IF end.failed THEN "failed" ELSE "done"
  /\ UNCHANGED <<value, stack, queue, changed, source, allocating, next, program>>

Next ==
  \/ Evaluate \/ EndOfStrip
  \/ PinRegisters
  \/ AllocateRegister \/ AllocateNothing \/ EndOfAllocation
  \/ ComputeCompilerNamespace \/ MaterializeImmediates

\* WF_vars(Next), with ENABLED <<Next>>_vars said in the way TLC finds easier:
\* until the passes have stopped there is a step to take.
Stopped == phase \in {"failed", "done", "hung"}
Fairness == []<>Stopped \/ []<><<Next>>_vars

Spec == Init /\ [][Next]_vars /\ Fairness

------------------------------------------------------------------------------
\* Type invariant: what an entity refers to exists, a frame of the walk is on a
\* path of the tree and never further than one past its children, although
\* calls are taken out of the blocks it walks over.
TypeOK ==
  /\ phase \in {"evaluate", "hung", "strip", "pin", "allocate", "repin", "compute", "load", "failed", "done"}
  /\ Len(mod) >= Len(source)
  /\ DOMAIN value \cup DOMAIN register \cup Range(queue) \subseteq DOMAIN mod
  /\ \A e \in DOMAIN mod :
       {mod[e].type, mod[e].callee, mod[e].alias} \cup Range(mod[e].ins) \cup Range(mod[e].kids)
         \subseteq {0} \cup DOMAIN mod
  /\ \A i \in 1 .. Len(stack) - 1 : mod[stack[i + 1][1]].up = stack[i][1]
  /\ \A i \in DOMAIN stack : stack[i][2] \in 1 .. Len(mod[stack[i][1]].kids) + 2
  /\ allocating \in BOOLEAN /\ changed \in BOOLEAN /\ errors \in BOOLEAN
  /\ next \in 0 .. Len(mod)

\* Nothing a program says at run time is changed by any step of its evaluation,
\* and once no round evaluates anything every block that was to be run has been
\* put in its place, however calls were taken out in front of the walk, and
\* every block that was only to be run is gone.  Numbers count modulo a word.  A
\* program that gives a call a type made by base_type is another matter: the first
\* evaluation folds the type, which loses the type_of that makes it available
\* (comptime_evaluate.hpp 16), so that of these calls only one that is itself the
\* first to be evaluated ever is.
Expanded ==
  LET said == Says(source, Root, FALSE)
  IN phase \in {"evaluate", "strip", "pin"} /\ ~RunsItself(source) =>
     IF TakesBaseType(source)
     THEN phase # "evaluate" =>
            \A e \in Range(PreOrder(source, Root)) :
              GivenBaseType(source, e) => (e \in DOMAIN value <=> e = FirstEvaluated(source))
     ELSE
       /\ Says(mod, Root, FALSE) = said
       /\ phase # "evaluate" =>
            /\ Says(mod, Root, TRUE) = said
            /\ \A e \in Range(PreOrder(mod, Root)) : ~Evaluates(mod, value, e)
       /\ phase = "pin" =>
            \A e \in Range(PreOrder(mod, Root)) :
              Freestanding(mod, e) => Export \in mod[e].flags

\* The program's own pins of an entity, in program order.
PinsOf(m, e) ==
  SelectSeq(PostOrder(Kids(m), Root),
            LAMBDA p : m[p].callee = PinRegister /\ Pinned(m, p).target = e /\ Pinned(m, p).number # NoNumber)

\* The values to which the program leaves the choice: those it does not pin,
\* behind the start of allocation in breadth first order.
Open(m) ==
  LET order == BreadthFirst(m, <<Root>>)
      begins == { i \in DOMAIN order : m[order[i]].callee = BeginRegisterAllocation }
  IN SelectSeq(IF begins = {} THEN <<>> ELSE SubSeq(order, 1 + CHOOSE i \in begins : \A j \in begins : i <= j, Len(order)),
               LAMBDA e : (m[e].num # NoNumber \/ m[e].callee # 0) /\ PinsOf(m, e) = <<>>)

\* Registers are a function of the program: the last pin of a value that the
\* program pins, the place in the breadth first order of the others behind the
\* start of allocation, and none else, although the walk that numbers them adds
\* numbers and calls to the blocks it walks over and its counters outlive it;
\* register_for says the same, but of a parameter, for which it stays a call, and
\* a load fails only for want of a register or of a number.
RegistersGiven ==
  phase \in {"compute", "load", "failed", "done"} =>
    LET open == Open(program)
        rank == [e \in Range(open) |-> CHOOSE i \in DOMAIN open : open[i] = e]
        pinned == [e \in { x \in DOMAIN program : PinsOf(program, x) # <<>> } |->
                     Pinned(program, Last(PinsOf(program, e))).number]
        given == pinned @@ rank
        loads == { e \in Range(PreOrder(program, Root)) : program[e].callee = LoadImmediate }
        target(e) == Resolved(program, program[e].ins[2])
    IN /\ phase = "compute" => register = given
       /\ phase = "load" =>
            \A e \in Range(PreOrder(program, Root)) : program[e].callee = RegisterFor =>
              IF program[target(e)].param # 0 THEN mod[e] = program[e]
              ELSE mod[e].num = IF target(e) \in DOMAIN given THEN given[target(e)] ELSE 0
       /\ phase = "failed" <=>
            /\ phase \in {"failed", "done"}
            /\ \E e \in loads : target(e) \notin DOMAIN given \/ program[target(e)].num = NoNumber

\* The passes end for every program but those in which a block runs itself,
\* and for those they do not.
Ends == <>(IF RunsItself(source) THEN phase = "hung" ELSE phase \in {"failed", "done"})
=============================================================================
