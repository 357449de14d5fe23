---------------------------- MODULE ComptimeProofs ----------------------------
(***************************************************************************)
(* Proofs about Comptime: the flags are always justified, never retracted, *)
(* least, and complete when the fixed point stops, and the walk after it   *)
(* gives the right verdict, for every set of programs.                     *)
(***************************************************************************)
EXTENDS Comptime, TreeProofs, TLAPS

\* Readiness only grows with the set of flagged entities.  This is what makes
\* the in-place updates of a sweep harmless.
LEMMA ReadyMonotone ==
  ASSUME NEW p, NEW C, NEW D, C \subseteq D, NEW c, Ready(p, C, c)
  PROVE  Ready(p, D, c)
BY DEF Ready, AllInputsKnown, Known

\* What the sweep in progress has established: as long as it changed nothing,
\* every entity behind it has been given what it demands.
SweepClosed ==
  phase = "bubble" /\ ~changed =>
    \A i \in 1 .. pos :
      prog.order[i] \in Demanded(prog, flagged) \ prog.never
        => prog.order[i] \in flagged

IInv ==
  /\ TypeOK
  /\ prog.seed \subseteq flagged
  /\ FlagsJustified
  /\ Least
  /\ SweepClosed
  /\ Complete

\* While a walk has entities left, the one it visits is an entity of the program.
LEMMA VisitingType ==
  ASSUME TypeOK, pos < Len(prog.order)
  PROVE  /\ Visiting \in Entity
         /\ Visiting \in Eligible(prog) \cup prog.never
         /\ pos + 1 \in 0 .. Len(prog.order)
         /\ pos + 1 \in DOMAIN prog.order
BY ProgramsAssumption DEF TypeOK, IsProgram, Visiting, Eligible

\* The flags of the parser satisfy the inductive invariant.
LEMMA InitIInv == Init => IInv
<1> SUFFICES ASSUME Init PROVE IInv
  OBVIOUS
<1>0. IsProgram(prog)
  BY ProgramsAssumption DEF Init
<1>1. TypeOK
  <2>1. prog.order \in Seq(Entity) /\ flagged \subseteq Entity
    BY <1>0 DEF Init, IsProgram
  <2>2. pos \in 0 .. Len(prog.order)
    BY <2>1 DEF Init
  <2> QED
    BY <2>1, <2>2 DEF Init, TypeOK, Phases
<1>2. FlagsJustified
  BY <1>0 DEF Init, FlagsJustified, IsProgram
<1>3. Least
  BY DEF Init, Least, Closed
<1>4. SweepClosed /\ Complete
  BY DEF Init, SweepClosed, Complete
<1> QED
  BY <1>1, <1>2, <1>3, <1>4 DEF Init, IInv

\* One visit of a call: the un-flag branch changes nothing.
LEMMA BubbleCallStep ==
  ASSUME IInv, BubbleCall
  PROVE  /\ UNCHANGED <<prog, phase>> /\ pos' = pos + 1
         /\ Visiting \in prog.call \ prog.never
         /\ \/ /\ Ready(prog, flagged, Visiting)
               /\ flagged' = flagged \cup {Visiting}
               /\ ~changed' => ~changed /\ Visiting \in flagged
            \/ /\ ~Ready(prog, flagged, Visiting)
               /\ flagged' = flagged
               /\ ~changed' => ~changed
<1>1. UNCHANGED <<prog, phase>> /\ pos' = pos + 1
      /\ Visiting \in prog.call \ prog.never
  BY DEF BubbleCall
<1>2. CASE Ready(prog, flagged, Visiting)
  BY <1>1, <1>2 DEF BubbleCall
<1>3. CASE ~Ready(prog, flagged, Visiting)
  <2>1. Visiting \notin flagged
    BY <1>1, <1>3 DEF IInv, FlagsJustified
  <2> QED
    BY <1>1, <1>3, <2>1 DEF BubbleCall
<1> QED
  BY <1>2, <1>3

(***************************************************************************)
(* Preservation, one lemma per conjunct of the inductive invariant that a  *)
(* step can disturb.                                                       *)
(***************************************************************************)
\* Every visit and every new sweep keeps the types.
LEMMA TypeStep == TypeOK /\ [Next]_vars => TypeOK'
<1> SUFFICES ASSUME TypeOK, [Next]_vars PROVE TypeOK'
  OBVIOUS
<1>0. prog.order \in Seq(Entity) /\ Len(prog.order) \in Nat
  BY ProgramsAssumption DEF TypeOK, IsProgram
<1>1. CASE BubbleCall
  BY <1>0, <1>1, VisitingType DEF TypeOK, BubbleCall, Bubbling, Phases
<1>2. CASE BubbleTyped
  BY <1>0, <1>2, VisitingType DEF TypeOK, BubbleTyped, Bubbling, Phases
<1>3. CASE BubbleSkip
  BY <1>0, <1>3 DEF TypeOK, BubbleSkip, Bubbling, Phases
<1>4. CASE EndSweep
  <2>1. pos' \in 0 .. Len(prog'.order)
    BY <1>0, <1>4 DEF EndSweep
  <2>2. phase' \in Phases
    BY <1>4 DEF EndSweep, Phases
  <2>3. changed' \in BOOLEAN
    BY <1>4 DEF EndSweep
  <2> QED
    BY <1>4, <2>1, <2>2, <2>3 DEF TypeOK, EndSweep
<1>5. CASE Validate
  BY <1>0, <1>5 DEF TypeOK, Validate, Phases
<1>6. CASE Accept
  BY <1>0, <1>6 DEF TypeOK, Accept, Phases
<1>7. CASE UNCHANGED vars
  BY <1>7 DEF TypeOK, vars
<1> QED
  BY <1>1, <1>2, <1>3, <1>4, <1>5, <1>6, <1>7 DEF Next

\* What every step does to the flags: keep them, or add the visited entity,
\* which demands to be flagged and is not marked NoComptime.
LEMMA FlagStep ==
  ASSUME IInv, [Next]_vars
  PROVE  /\ prog' = prog
         /\ \/ flagged' = flagged
            \/ /\ flagged' = flagged \cup {Visiting}
               /\ Visiting \in Eligible(prog) \cap Demanded(prog, flagged)
               /\ Visiting \in prog.call => Ready(prog, flagged, Visiting)
<1>1. CASE BubbleCall
  <2>1. Visiting \in Eligible(prog)
    BY <1>1, BubbleCallStep, VisitingType DEF IInv, BubbleCall, Bubbling
  <2> QED
    BY <1>1, <2>1, BubbleCallStep DEF Demanded
<1>2. CASE BubbleTyped
  <2>1. Visiting \in Eligible(prog)
    BY <1>2, VisitingType DEF IInv, BubbleTyped, Bubbling
  <2> QED
    BY <1>2, <2>1 DEF BubbleTyped, Demanded
<1>3. CASE BubbleSkip \/ EndSweep \/ Validate \/ Accept \/ UNCHANGED vars
  BY <1>3 DEF BubbleSkip, EndSweep, Validate, Accept, vars
<1> QED
  BY <1>1, <1>2, <1>3 DEF Next

\* A visit keeps every flag justified: flags only grow, and readiness with them.
LEMMA JustifiedStep ==
  ASSUME IInv, [Next]_vars
  PROVE  FlagsJustified'
<1>1. prog' = prog /\ flagged \subseteq flagged'
  BY FlagStep
<1>2. SUFFICES ASSUME NEW c \in prog.call, c \in flagged'
               PROVE  Ready(prog, flagged', c)
  BY <1>1 DEF FlagsJustified
<1>3. CASE c \in flagged
  <2>1. Ready(prog, flagged, c)
    BY <1>2, <1>3 DEF IInv, FlagsJustified
  <2> QED
    BY <1>1, <2>1, ReadyMonotone
<1>4. CASE c \notin flagged
  <2>1. c = Visiting /\ Ready(prog, flagged, c)
    BY <1>2, <1>4, FlagStep
  <2> QED
    BY <1>1, <2>1, ReadyMonotone
<1> QED
  BY <1>3, <1>4

\* A visit adds only what every closed set must hold.
LEMMA LeastStep ==
  ASSUME IInv, [Next]_vars
  PROVE  Least'
<1>1. prog' = prog
  BY FlagStep
<1>2. SUFFICES ASSUME NEW C \in SUBSET Entity, Closed(prog, C)
               PROVE  flagged' \subseteq C
  BY <1>1 DEF Least
<1>3. flagged \subseteq C
  BY <1>2 DEF IInv, Least
<1>4. Visiting \in Eligible(prog) \cap Demanded(prog, flagged)
        => Visiting \in C
  <2>1. Demanded(prog, flagged) \subseteq Demanded(prog, C)
    BY <1>3, ReadyMonotone DEF Demanded
  <2> QED
    BY <1>2, <2>1 DEF Closed, Owed
<1> QED
  BY <1>3, <1>4, FlagStep

\* In a sweep that has changed nothing, everything behind pos is closed.
LEMMA SweepClosedStep ==
  ASSUME IInv, [Next]_vars
  PROVE  SweepClosed'
<1>0. prog.order \in Seq(Entity) /\ pos \in Nat /\ changed \in BOOLEAN
  BY ProgramsAssumption DEF IInv, TypeOK, IsProgram
<1>1. CASE BubbleCall
  <2>1. SUFFICES ASSUME ~changed'
                 PROVE  SweepClosed'
    BY DEF SweepClosed
  <2>2. /\ ~changed /\ flagged' = flagged
        /\ Visiting \in Demanded(prog, flagged) => Visiting \in flagged
    BY <1>1, <2>1, BubbleCallStep DEF Demanded
  <2>3. prog' = prog /\ phase = "bubble" /\ pos' = pos + 1
    BY <1>1 DEF BubbleCall, Bubbling
  <2> QED
    BY <1>0, <2>2, <2>3 DEF IInv, SweepClosed, Visiting
<1>2. CASE BubbleTyped
  <2>1. SUFFICES ASSUME ~changed'
                 PROVE  SweepClosed'
    BY DEF SweepClosed
  <2>2. ~changed /\ flagged' = flagged /\ Visiting \in flagged
    BY <1>0, <1>2, <2>1 DEF BubbleTyped
  <2>3. prog' = prog /\ phase = "bubble" /\ pos' = pos + 1
    BY <1>2 DEF BubbleTyped, Bubbling
  <2> QED
    BY <1>0, <2>2, <2>3 DEF IInv, SweepClosed, Visiting
<1>3. CASE BubbleSkip
  <2>1. Visiting \notin Demanded(prog, flagged) \ prog.never
    BY <1>3 DEF BubbleSkip, Demanded
  <2>2. /\ prog' = prog /\ flagged' = flagged /\ changed' = changed
        /\ phase = "bubble" /\ pos' = pos + 1
    BY <1>3 DEF BubbleSkip, Bubbling
  <2> QED
    BY <1>0, <2>1, <2>2 DEF IInv, SweepClosed, Visiting
<1>4. CASE EndSweep
  BY <1>4 DEF EndSweep, SweepClosed
<1>5. CASE Validate \/ Accept
  BY <1>5 DEF Validate, Accept, SweepClosed
<1>6. CASE UNCHANGED vars
  BY <1>6 DEF IInv, SweepClosed, vars
<1> QED
  BY <1>1, <1>2, <1>3, <1>4, <1>5, <1>6 DEF Next

\* The sweep that ends the loop changed nothing, so the whole program is closed.
LEMMA CompleteStep ==
  ASSUME IInv, [Next]_vars
  PROVE  Complete'
<1>1. CASE EndSweep
  <2>1. SUFFICES ASSUME ~changed
                 PROVE  Closed(prog, flagged)
    BY <1>1 DEF EndSweep, Complete
  <2>2. ASSUME NEW e \in Eligible(prog) \cap Demanded(prog, flagged)
        PROVE  e \in flagged
    <3>1. PICK i \in DOMAIN prog.order : e = prog.order[i] /\ e \notin prog.never
      BY DEF Eligible
    <3>2. i \in 1 .. pos
      BY <1>1, ProgramsAssumption DEF IInv, TypeOK, IsProgram, EndSweep
    <3> QED
      BY <1>1, <2>1, <3>1, <3>2 DEF IInv, SweepClosed, EndSweep
  <2> QED
    BY <2>2 DEF IInv, Closed, Owed
<1>2. CASE BubbleCall \/ BubbleTyped \/ BubbleSkip
  BY <1>2 DEF BubbleCall, BubbleTyped, BubbleSkip, Bubbling, Complete
<1>3. CASE Validate \/ Accept
  BY <1>3 DEF IInv, Validate, Accept, Complete
<1>4. CASE UNCHANGED vars
  BY <1>4 DEF IInv, Complete, vars
<1> QED
  BY <1>1, <1>2, <1>3, <1>4 DEF Next

\* Every step keeps the inductive invariant.
LEMMA IInvStep == IInv /\ [Next]_vars => IInv'
<1> SUFFICES ASSUME IInv, [Next]_vars PROVE IInv'
  OBVIOUS
<1>1. prog.seed \subseteq flagged => (prog.seed \subseteq flagged)'
  BY FlagStep
<1> QED
  BY <1>1, TypeStep, JustifiedStep, LeastStep, SweepClosedStep, CompleteStep
     DEF IInv

\* The inductive invariant holds in every reachable state.
LEMMA IInvHolds == Spec => []IInv
BY InitIInv, IInvStep, PTL DEF Spec

-----------------------------------------------------------------------------
\* The state of the analysis stays well typed, whatever the programs.
THEOREM TypeCorrect == Spec => []TypeOK
BY IInvHolds, PTL DEF IInv

\* bubble_comptime never leaves a call flagged whose inputs are not all known
\* (and whose function is not a compile-time one), in the middle of a sweep
\* too.
THEOREM Justification == Spec => []FlagsJustified
BY IInvHolds, PTL DEF IInv

\* The sweeps of fixed_point implement the closure by one member at a time: no
\* visit clears a flag, each one set is demanded by those there are, and the
\* last sweep leaves none to set.
THEOREM Refinement == Spec => Closes
<1>1. Init => Closing!Init
  BY DEF Init, Closing!Init, Seed
<1>2. IInv /\ IInv' /\ [Next]_vars => [Closing!Next]_Closing!vars
  <2> SUFFICES ASSUME IInv, IInv', [Next]_vars PROVE [Closing!Next]_Closing!vars
    OBVIOUS
  <2>1. CASE EndSweep
    <3>1. CASE changed
      BY <2>1, <3>1 DEF EndSweep, Closing!vars
    <3>2. CASE ~changed
      <4>1. phase = "bubble" /\ phase' = "validate" /\ UNCHANGED <<prog, flagged>>
        BY <2>1, <3>2 DEF EndSweep
      <4>2. Owed(prog, flagged) \subseteq flagged
        BY <4>1 DEF IInv, Complete, Closed
      <4> QED
        BY <4>1, <4>2 DEF Closing!Next, Closing!Settle
    <3> QED
      BY <3>1, <3>2
  <2>2. CASE BubbleCall \/ BubbleTyped
    <3>1. phase = "bubble" /\ phase' = "bubble"
      BY <2>2 DEF BubbleCall, BubbleTyped, Bubbling
    <3>2. CASE flagged' = flagged
      BY <3>1, <3>2, FlagStep DEF Closing!vars
    <3>3. CASE flagged' # flagged
      BY <3>1, <3>3, FlagStep DEF Closing!Next, Closing!Add, Owed
    <3> QED
      BY <3>2, <3>3
  <2>3. CASE BubbleSkip \/ UNCHANGED vars
    BY <2>3 DEF BubbleSkip, Bubbling, vars, Closing!vars
  <2>4. CASE Validate \/ Accept
    BY <2>4 DEF Validate, Accept, Closing!vars
  <2> QED
    BY <2>1, <2>2, <2>3, <2>4 DEF Next
<1> QED
  BY <1>1, <1>2, IInvHolds, PTL DEF Spec, Closes, Closing!Spec

\* fixed_point computes the least closed set of flags: nothing is flagged
\* that need not be, and when it stops nothing is missing.
THEOREM LeastFixedPoint == Spec => [](Least /\ Complete)
BY IInvHolds, PTL DEF IInv

-----------------------------------------------------------------------------
(***************************************************************************)
(* The verdict of validate::comptime.                                      *)
(***************************************************************************)
\* What the walk in progress has established: nothing behind it offends, and
\* where it stopped there is a call without its inputs.
Validated ==
  /\ phase \in {"validate", "accepted"} =>
       \A i \in 1 .. pos : ~Offends(prog, flagged, prog.order[i])
  /\ phase = "accepted" => pos = Len(prog.order)
  /\ phase = "rejected" => \E c \in prog.call : Offends(prog, flagged, c)

\* A call that is not known all its inputs has a first unknown one.
LEMMA FirstUnknownIs ==
  ASSUME NEW p \in Programs, NEW C, NEW c \in p.call, ~AllInputsKnown(p, C, c)
  PROVE  /\ FirstUnknown(p, C, c) \in DOMAIN p.inputs[c]
         /\ ~Known(p, C, p.inputs[c][FirstUnknown(p, C, c)])
         /\ \A j \in 1 .. FirstUnknown(p, C, c) - 1 : Known(p, C, p.inputs[c][j])
<1> DEFINE S == { i \in DOMAIN p.inputs[c] : ~Known(p, C, p.inputs[c][i]) }
<1>1. p.inputs[c] \in Seq(Entity)
  BY ProgramsAssumption DEF IsProgram
<1>2. DOMAIN p.inputs[c] = 1 .. Len(p.inputs[c]) /\ Len(p.inputs[c]) \in Nat
  BY <1>1
<1>3. S \in SUBSET Nat /\ S # {}
  BY <1>2 DEF AllInputsKnown
<1>4. PICK n \in S : \A k \in S : n <= k
  <2> HIDE DEF S
  <2> QED
    BY <1>3, LeastNumber
<1>5. \A j \in 1 .. n - 1 : Known(p, C, p.inputs[c][j])
  <2> SUFFICES ASSUME NEW j \in 1 .. n - 1
               PROVE  Known(p, C, p.inputs[c][j])
    OBVIOUS
  <2>1. j \in DOMAIN p.inputs[c] /\ ~(n <= j)
    BY <1>2, <1>4
  <2> QED
    BY <1>4, <2>1
<1>6. n \in DOMAIN p.inputs[c] /\ ~Known(p, C, p.inputs[c][n])
  BY <1>4
<1> HIDE DEF S
<1> QED
  BY <1>5, <1>6 DEF FirstUnknown

\* A visit of the walk either finds nothing wrong or stops it.
LEMMA ValidatedStep ==
  ASSUME IInv, Validated, [Next]_vars
  PROVE  Validated'
<1>0. prog.order \in Seq(Entity) /\ pos \in Nat
  BY ProgramsAssumption DEF IInv, TypeOK, IsProgram
<1>1. CASE BubbleCall \/ BubbleTyped \/ BubbleSkip
  BY <1>1 DEF BubbleCall, BubbleTyped, BubbleSkip, Bubbling, Validated
<1>2. CASE EndSweep
  <2>1. pos' = 0 /\ phase' \in {"bubble", "validate"}
    BY <1>2 DEF EndSweep
  <2> QED
    BY <2>1 DEF Validated
<1>3. CASE Validate
  <2>1. /\ prog' = prog /\ flagged' = flagged /\ pos' = pos + 1 /\ phase = "validate"
        /\ phase' = IF Offends(prog, flagged, Visiting) THEN "rejected" ELSE phase
    BY <1>3 DEF Validate
  <2>2. CASE Offends(prog, flagged, Visiting)
    BY <2>1, <2>2 DEF Offends, Validated
  <2>3. CASE ~Offends(prog, flagged, Visiting)
    <3>1. \A i \in 1 .. pos + 1 : ~Offends(prog, flagged, prog.order[i])
      BY <1>0, <2>1, <2>3 DEF Validated, Visiting
    <3> QED
      BY <2>1, <2>3, <3>1 DEF Validated
  <2> QED
    BY <2>2, <2>3
<1>4. CASE Accept
  BY <1>4 DEF Accept, Validated
<1>5. CASE UNCHANGED vars
  BY <1>5 DEF Validated, vars
<1> QED
  BY <1>1, <1>2, <1>3, <1>4, <1>5 DEF Next

\* The walk excuses a call exactly when it is a register_for whose value alone
\* is not known: the first unknown input is the second one just then.
LEMMA OffendsIs ==
  ASSUME IInv, NEW c \in prog.call
  PROVE  Offends(prog, flagged, c) <=> c \in flagged /\ ~Suppliable(c)
<1>0. prog \in Programs /\ IsProgram(prog)
  BY ProgramsAssumption DEF IInv, TypeOK
<1>1. CASE AllInputsKnown(prog, flagged, c)
  BY <1>1 DEF Offends, Suppliable
<1>2. CASE ~AllInputsKnown(prog, flagged, c)
  <2> DEFINE n == FirstUnknown(prog, flagged, c)
             ins == prog.inputs[c]
  <2>1. ins \in Seq(Entity)
    BY <1>0 DEF IsProgram
  <2>2. /\ n \in 1 .. Len(ins)
        /\ ~Known(prog, flagged, ins[n])
        /\ \A j \in 1 .. n - 1 : Known(prog, flagged, ins[j])
    BY <1>0, <1>2, <2>1, FirstUnknownIs
  <2>3. Len(ins) \in Nat
    BY <2>1
  <2>4. n = 2 <=> /\ Len(ins) >= 2
                  /\ Known(prog, flagged, ins[1])
                  /\ ~Known(prog, flagged, ins[2])
    <3> HIDE DEF n, ins
    <3>1. ASSUME n = 2
          PROVE  /\ Len(ins) >= 2
                 /\ Known(prog, flagged, ins[1])
                 /\ ~Known(prog, flagged, ins[2])
      BY <2>2, <2>3, <3>1
    <3>2. ASSUME Len(ins) >= 2, Known(prog, flagged, ins[1]),
                 ~Known(prog, flagged, ins[2])
          PROVE  n = 2
      <4>1. n # 1
        BY <2>2, <3>2
      <4>2. ~(n > 2)
        <5> SUFFICES ASSUME n > 2
                     PROVE  FALSE
          OBVIOUS
        <5>1. 2 \in 1 .. n - 1
          BY <2>2
        <5> QED
          BY <2>2, <3>2, <5>1
      <4> QED
        BY <2>2, <4>1, <4>2
    <3> QED
      BY <3>1, <3>2
  <2> QED
    BY <1>2, <2>4 DEF Offends, Suppliable, ValueUnknown
<1> QED
  BY <1>1, <1>2

\* The walk accepts a program when every compile-time call can be given its
\* inputs, register_for excused its value, and rejects it only when a call of a
\* compile-time function can not, an excused one never being the cause.
THEOREM RightVerdict == Spec => []Verdict
<1>1. Init => Validated
  BY DEF Init, Validated
<1>2. IInv /\ Validated => Verdict
  <2> SUFFICES ASSUME IInv, Validated
               PROVE  Verdict
    OBVIOUS
  <2>0. prog \in Programs /\ IsProgram(prog)
    BY ProgramsAssumption DEF IInv, TypeOK
  <2>1. ASSUME phase = "accepted", NEW c \in prog.call \cap flagged
        PROVE  Suppliable(c)
    <3>1. PICK k \in DOMAIN prog.order : prog.order[k] = c
      BY <2>0 DEF IsProgram
    <3>2. k \in 1 .. pos
      BY <2>0, <2>1, <3>1 DEF IsProgram, Validated
    <3>3. ~Offends(prog, flagged, c)
      BY <2>1, <3>1, <3>2 DEF Validated
    <3> QED
      BY <3>3, OffendsIs
  <2>2. ASSUME phase = "rejected"
        PROVE  \E c \in prog.call \cap flagged : ~Suppliable(c) /\ prog.fn[c] \in flagged
    <3>1. PICK c \in prog.call : Offends(prog, flagged, c)
      BY <2>2 DEF Validated
    <3>2. c \in flagged /\ ~Suppliable(c)
      BY <3>1, OffendsIs
    <3>3. ~AllInputsKnown(prog, flagged, c)
      BY <3>2 DEF Suppliable
    <3>4. prog.fn[c] \in flagged
      BY <3>2, <3>3 DEF IInv, FlagsJustified, Ready
    <3> QED
      BY <3>2, <3>4
  <2> QED
    BY <2>1, <2>2 DEF Verdict
<1> QED
  BY <1>1, <1>2, ValidatedStep, IInvHolds, PTL DEF Spec
=============================================================================
