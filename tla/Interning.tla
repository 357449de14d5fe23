-------------------------------- MODULE Interning --------------------------------
(***************************************************************************)
(* What the rest of the compiler relies on when it compares names: two     *)
(* interned strings are equal exactly when their data pointers are         *)
(* (interned_string::operator==, string_helpers.hpp 30-35), for as long as *)
(* the module lives.  The abstract specification of Interner.              *)
(***************************************************************************)
CONSTANTS Strings, Nothing

VARIABLES
  known,    \* the data pointer of every string that was interned
  reply     \* the data pointer the last call returned, or Nothing

vars == <<known, reply>>

Init ==
  /\ known = [s \in {} |-> Nothing]
  /\ reply = Nothing

Intern(s) ==
  \/ /\ s \in DOMAIN known
     /\ reply' = known[s]
     /\ UNCHANGED known
  \/ /\ s \notin DOMAIN known
     /\ reply' # Nothing
     /\ \A t \in DOMAIN known : reply' # known[t]
     /\ known' = [t \in DOMAIN known \cup {s} |-> IF t = s THEN reply' ELSE known[t]]

Find(s) ==
  /\ reply' = IF s \in DOMAIN known THEN known[s] ELSE Nothing
  /\ UNCHANGED known

Next == \E s \in Strings : Intern(s) \/ Find(s)

Spec == Init /\ [][Next]_vars
=============================================================================
