-------------------------------- MODULE Closure --------------------------------
(***************************************************************************)
(* The closure of a set under demands, by one member at a time: what the   *)
(* compile-time analysis is, without its walks.  An abstract specification *)
(* that Comptime implements.                                               *)
(***************************************************************************)
CONSTANTS
  Programs,
  Start(_),       \* what is in the set at first
  Owed(_, _)      \* what a program demands to be in it, once a set is

VARIABLES
  prog,
  members,
  settled         \* nothing is missing any more

vars == <<prog, members, settled>>

Init ==
  /\ prog \in Programs
  /\ members = Start(prog)
  /\ settled = FALSE

Add ==
  /\ ~settled
  /\ \E e \in Owed(prog, members) : members' = members \cup {e}
  /\ UNCHANGED <<prog, settled>>

Settle ==
  /\ ~settled
  /\ Owed(prog, members) \subseteq members
  /\ settled' = TRUE
  /\ UNCHANGED <<prog, members>>

Next == Add \/ Settle

Spec == Init /\ [][Next]_vars
=============================================================================
