------------------------------- MODULE Comptime -------------------------------
(***************************************************************************)
(* The compile-time analysis of sema/comptime.hpp as the driver schedules  *)
(* it: fixed_point(depth_first(bubble_comptime)) followed by               *)
(* depth_first(validate::comptime).                                        *)
(*                                                                         *)
(* A sweep visits the entities in depth-first post-order.  bubble_comptime *)
(* only writes flags, never a block, so the order of a sweep is a fixed    *)
(* sequence of the program.  One visit of the callback is one action; the  *)
(* control loop of fixed_point (systems.hpp) is the action EndSweep.       *)
(***************************************************************************)
EXTENDS Naturals, Sequences

CONSTANTS
  Entity,     (* the entities of a module                                  *)
  Programs    (* the resolved programs the analysis may be started on      *)

(***************************************************************************)
(* A program, as lookups_resolved leaves it:                               *)
(*   order   the entities in the order a sweep visits them                 *)
(*   call    the entities with a doir::call component                      *)
(*   inputs  the doir::function_inputs of every call                       *)
(*   fn      the type of the called function, aliases resolved             *)
(*   types   the entities with a doir::type_definition                     *)
(*   always  the typed entities (not calls) whose base type is a call of   *)
(*           compiler.comptime_base_type or carries flags::AlwaysComptime  *)
(*   never   the entities with flags::NoComptime                           *)
(*   seed    the entities the parser and the builders gave flags::Comptime *)
(*   regfor  the calls of compiler.assembler.register_for                  *)
(* No builder gives a call the Comptime flag (interface.cpp 198-240 and    *)
(* parser.cpp 199-202 only set Inline, Flatten, Tail and Export on one).   *)
(***************************************************************************)
IsProgram(p) ==
  /\ p.order \in Seq(Entity)
  /\ p.call \subseteq { p.order[i] : i \in DOMAIN p.order }
  /\ p.inputs \in [p.call -> Seq(Entity)]
  /\ p.fn \in [p.call -> Entity]
  /\ p.types \subseteq Entity
  /\ p.always \subseteq Entity
  /\ p.never \subseteq Entity
  /\ p.seed \subseteq Entity
  /\ p.regfor \subseteq p.call
  /\ p.call \cap (p.seed \cup p.always) = {}

ASSUME ProgramsAssumption == \A p \in Programs : IsProgram(p)

VARIABLES
  prog,       (* the program being analysed                                *)
  flagged,    (* the entities with flags::Comptime set                     *)
  changed,    (* fixed_point_changed()                                     *)
  pos,        (* how many entities this walk has visited                   *)
  phase       (* "bubble", "validate", "accepted" or "rejected"            *)

vars == <<prog, flagged, changed, pos, phase>>

Phases == {"bubble", "validate", "accepted", "rejected"}

(***************************************************************************)
(* What a visit reads.                                                     *)
(***************************************************************************)
Visiting == prog.order[pos + 1]

\* A compile-time known input: flagged, or a type ("All types are compile
\* time known").
Known(p, C, e) == e \in C \/ e \in p.types

AllInputsKnown(p, C, c) ==
  \A i \in DOMAIN p.inputs[c] : Known(p, C, p.inputs[c][i])

\* The condition of comptime.hpp 38: comptime || comptime_function.
Ready(p, C, c) == AllInputsKnown(p, C, c) \/ p.fn[c] \in C

Init ==
  /\ prog \in Programs
  /\ flagged = prog.seed
  /\ changed = FALSE
  /\ pos = 0
  /\ phase = "bubble"

(***************************************************************************)
(* bubble_comptime.                                                        *)
(***************************************************************************)
Bubbling == phase = "bubble" /\ pos < Len(prog.order)

\* Mutant: an input is asked for, not all of them.
BubbleCallAnyInput ==
  /\ Bubbling
  /\ Visiting \in prog.call \ prog.never
  /\ \/ \E i \in DOMAIN prog.inputs[Visiting] :
          Known(prog, flagged, prog.inputs[Visiting][i])
     \/ Ready(prog, flagged, Visiting)
  /\ flagged' = flagged \cup {Visiting}
  /\ changed' = (changed \/ Visiting \notin flagged)
  /\ pos' = pos + 1
  /\ UNCHANGED <<prog, phase>>

\* Mutant: the flag is set before the inputs are looked at.
BubbleCallOptimistic ==
  /\ Bubbling
  /\ Visiting \in prog.call \ prog.never
  /\ flagged' = IF Ready(prog, flagged \cup {Visiting}, Visiting)
                  THEN flagged \cup {Visiting} ELSE flagged
  /\ changed' = (changed \/ flagged' # flagged)
  /\ pos' = pos + 1
  /\ UNCHANGED <<prog, phase>>

BubbleCall ==
  /\ Bubbling
  /\ Visiting \in prog.call \ prog.never
  /\ LET c == Visiting IN
     \/ /\ Ready(prog, flagged, c)
        /\ flagged' = flagged \cup {c}
        /\ changed' = (changed \/ c \notin flagged)
     \/ /\ ~Ready(prog, flagged, c)
        /\ flagged' = flagged \ {c}
        /\ changed' = (changed \/ c \in flagged)
  /\ pos' = pos + 1
  /\ UNCHANGED <<prog, phase>>

\* Mutant: setting a flag that is set already counts as a change.
BubbleTypedAlwaysChanges ==
  /\ Bubbling
  /\ Visiting \in prog.always \ (prog.call \cup prog.never)
  /\ flagged' = flagged \cup {Visiting}
  /\ changed' = TRUE
  /\ pos' = pos + 1
  /\ UNCHANGED <<prog, phase>>

BubbleTyped ==
  /\ Bubbling
  /\ Visiting \in prog.always \ (prog.call \cup prog.never)
  /\ flagged' = flagged \cup {Visiting}
  /\ changed' = (changed \/ Visiting \notin flagged)
  /\ pos' = pos + 1
  /\ UNCHANGED <<prog, phase>>

\* Every early return: NoComptime, or neither a call nor typed AlwaysComptime.
BubbleSkip ==
  /\ Bubbling
  /\ Visiting \in prog.never \/ Visiting \notin prog.call \cup prog.always
  /\ pos' = pos + 1
  /\ UNCHANGED <<prog, flagged, changed, phase>>

(***************************************************************************)
(* fixed_point: sweep again while the last sweep changed something.        *)
(***************************************************************************)
\* Mutant: the walk is not started over.
EndSweepNoRestart ==
  /\ phase = "bubble" /\ pos = Len(prog.order)
  /\ pos' = pos + 1
  /\ changed' = FALSE
  /\ phase' = IF changed THEN "bubble" ELSE "validate"
  /\ UNCHANGED <<prog, flagged>>

\* Mutant: one sweep only.
EndSweepOnce ==
  /\ phase = "bubble" /\ pos = Len(prog.order)
  /\ pos' = 0
  /\ changed' = FALSE
  /\ phase' = "validate"
  /\ UNCHANGED <<prog, flagged>>

EndSweep ==
  /\ phase = "bubble" /\ pos = Len(prog.order)
  /\ pos' = 0
  /\ changed' = FALSE
  /\ phase' = IF changed THEN "bubble" ELSE "validate"
  /\ UNCHANGED <<prog, flagged>>

(***************************************************************************)
(* validate::comptime.  The walk stops at the first error (systems.hpp     *)
(* 30 and 41 return false), and register_for may take a run-time value as  *)
(* its second input (index 1, here 2).                                     *)
(***************************************************************************)
FirstUnknown(p, C, c) ==
  CHOOSE i \in DOMAIN p.inputs[c] :
    /\ ~Known(p, C, p.inputs[c][i])
    /\ \A j \in 1 .. i - 1 : Known(p, C, p.inputs[c][j])

\* Mutant: the index test of register_for's excuse is off by one, so the call it
\* is for is rejected (and one without its register index is let through).
OffendsShifted(p, C, e) ==
  /\ e \in p.call \cap C
  /\ ~AllInputsKnown(p, C, e)
  /\ ~(e \in p.regfor /\ FirstUnknown(p, C, e) = 1)

Offends(p, C, e) ==
  /\ e \in p.call \cap C
  /\ ~AllInputsKnown(p, C, e)
  /\ ~(e \in p.regfor /\ FirstUnknown(p, C, e) = 2)

Validate ==
  /\ phase = "validate" /\ pos < Len(prog.order)
  /\ pos' = pos + 1
  /\ phase' = IF Offends(prog, flagged, Visiting) THEN "rejected" ELSE phase
  /\ UNCHANGED <<prog, flagged, changed>>

Accept ==
  /\ phase = "validate" /\ pos = Len(prog.order)
  /\ phase' = "accepted"
  /\ UNCHANGED <<prog, flagged, changed, pos>>

Next ==
  \/ BubbleCall
  \/ BubbleTyped
  \/ BubbleSkip
  \/ EndSweep
  \/ Validate
  \/ Accept

Spec == Init /\ [][Next]_vars

\* The schedule is one thread that runs until it returns.
FairSpec == Spec /\ WF_vars(Next)

-----------------------------------------------------------------------------
(***************************************************************************)
(* What the analysis promises, without sweeps: a set of entities is closed *)
(* when it holds the seed, every always-comptime value and every call that *)
(* is ready in it, except those marked NoComptime.                         *)
(***************************************************************************)
Eligible(p) == { p.order[i] : i \in DOMAIN p.order } \ p.never

Demanded(p, C) ==
  (p.always \ p.call) \cup { c \in p.call : Ready(p, C, c) }

Owed(p, C) == Eligible(p) \cap Demanded(p, C)

Closed(p, C) ==
  /\ p.seed \subseteq C
  /\ Owed(p, C) \subseteq C

-----------------------------------------------------------------------------
\* Type invariant: flags are set on entities only and a walk never steps past
\* the end of its order (depth_first, systems.hpp 14-47).
TypeOK ==
  /\ prog \in Programs
  /\ flagged \subseteq Entity
  /\ changed \in BOOLEAN
  /\ pos \in 0 .. Len(prog.order)
  /\ phase \in Phases

\* Every flagged call is flagged for a reason that still holds, in the middle
\* of a sweep too: the code's un-flag branch (comptime.hpp 41-44) never runs.
FlagsJustified ==
  \A c \in prog.call : c \in flagged => Ready(prog, flagged, c)

\* Nothing is flagged that some closed set does without: no cycle of calls
\* bootstraps itself into being compile-time known.
Least ==
  \A C \in SUBSET Entity : Closed(prog, C) => flagged \subseteq C

\* Once fixed_point stops, one unchanged sweep was enough: nothing that
\* should be flagged was visited too early and missed, in any sweep order.
Complete == phase # "bubble" => Closed(prog, flagged)

\* A register_for that is told its register and not its value.
ValueUnknown(c) ==
  /\ c \in prog.regfor
  /\ Len(prog.inputs[c]) >= 2
  /\ Known(prog, flagged, prog.inputs[c][1])
  /\ ~Known(prog, flagged, prog.inputs[c][2])

\* An evaluation can be given what the call c takes.
Suppliable(c) == AllInputsKnown(prog, flagged, c) \/ ValueUnknown(c)

\* The walk accepts a program when every compile-time call can be given its
\* inputs, register_for excused its value, and rejects it only when some
\* compile-time call can not: an excused call never ends the compilation, and
\* what does is a run-time value in a call of a compile-time function.
Verdict ==
  /\ phase = "accepted" => \A c \in prog.call \cap flagged : Suppliable(c)
  /\ phase = "rejected" =>
       \E c \in prog.call \cap flagged : ~Suppliable(c) /\ prog.fn[c] \in flagged

\* The sweeps are a closure: an entity that is flagged stays so, the next one is
\* flagged only when the flags there are demand it, whatever the order of the
\* visits, and fixed_point stops only when there is none left to flag.
Seed(p) == p.seed

Closing ==
  INSTANCE Closure WITH Start <- Seed, members <- flagged, settled <- phase # "bubble"

Closes == Closing!Spec

\* The analysis ends, for every program: cyclic inputs included.
Terminates == <>(phase \in {"accepted", "rejected"})
=============================================================================
