-------------------------------- MODULE Interner --------------------------------
(***************************************************************************)
(* string_interner (string_helpers.hpp 41-108): strings are copied into    *)
(* blocks of memory and found again by a table of views of these blocks.   *)
(* A string is a sequence of bytes, 0 included.  A view is a block, an     *)
(* offset in it and a size; its block and offset are the data pointer by   *)
(* which interned strings are compared.  The table is a set of views that  *)
(* is searched by what the memory they look at holds.                      *)
(***************************************************************************)
EXTENDS Naturals, Sequences, FiniteSets

CONSTANTS Strings, BlockSize

ASSUME InternerAssumption ==
  /\ Strings \subseteq Seq(Nat)
  /\ BlockSize \in Nat \ {0}

VARIABLES
  blocks,    \* the size each was allocated with, and its bytes by offset
  offset,    \* of the first free byte in the last block
  table,
  returned   \* by the last call of intern or find

vars == <<blocks, offset, table, returned>>

Nul == 0
NoView == [block |-> 0, at |-> 0, size |-> 0]     \* std::nullopt

View == [block : Nat \ {0}, at : Nat, size : Nat]

Last == Len(blocks)

\* The string that a view shows.
Read(v) == [i \in 1 .. v.size |-> blocks[v.block].bytes[v.at + i - 1]]

\* table.find
Hits(s) == { v \in table : Read(v) = s }

------------------------------------------------------------------------------
\* make_unique<char[]>
NewBlock(size) == [size |-> size, bytes |-> [i \in 0 .. size - 1 |-> Nul]]

Init ==
  /\ blocks = <<NewBlock(BlockSize)>>
  /\ offset = 0
  /\ table = {}
  /\ returned = NoView

\* Mutant: no room for the terminator.
NeededBare(s) == Len(s)

\* What a string takes in its block.
Needed(s) == Len(s) + 1

\* memcpy and the terminator.  A byte beyond the block would be written, too.
Written(block, at, s) ==
  [block EXCEPT !.bytes =
     [i \in DOMAIN @ \cup at .. at + Len(s) |->
        IF i \in at .. at + Len(s) - 1 THEN s[i - at + 1]
        ELSE IF i = at + Len(s) THEN Nul
        ELSE block.bytes[i]]]

\* Mutant: a new block is never larger than the others.
RoomyFixed(s) == BlockSize

\* The size of the block that is added for a string.
Roomy(s) == IF BlockSize < Needed(s) THEN Needed(s) ELSE BlockSize

Fits(s) == offset + Needed(s) <= BlockSize

\* allocate, in the last block or in one that is added.
Allocate(s) ==
  IF Fits(s)
  THEN /\ blocks' = [blocks EXCEPT ![Last] = Written(@, offset, s)]
       /\ offset' = offset + Needed(s)
       /\ returned' = [block |-> Last, at |-> offset, size |-> Len(s)]
  ELSE /\ blocks' = Append(blocks, Written(NewBlock(Roomy(s)), 0, s))
       /\ offset' = Needed(s)
       /\ returned' = [block |-> Last + 1, at |-> 0, size |-> Len(s)]

InternKnown(s) ==
  /\ Hits(s) # {}
  /\ returned' \in Hits(s)
  /\ UNCHANGED <<blocks, offset, table>>

\* Mutant: the table is not searched.
InternNewAlways(s) ==
  /\ Allocate(s)
  /\ table' = table \cup {returned'}

InternNew(s) ==
  /\ Hits(s) = {}
  /\ Allocate(s)
  /\ table' = table \cup {returned'}

Find(s) ==
  /\ \/ Hits(s) # {} /\ returned' \in Hits(s)
     \/ Hits(s) = {} /\ returned' = NoView
  /\ UNCHANGED <<blocks, offset, table>>

Next == \E s \in Strings : InternKnown(s) \/ InternNew(s) \/ Find(s)

Spec == Init /\ [][Next]_vars

------------------------------------------------------------------------------
\* The bytes of a view, the terminator behind it included.
Span(v) == { <<v.block, i>> : i \in v.at .. v.at + v.size }

\* No byte is written beyond what was allocated for a block, and every view lies
\* in what was handed out of its block.
TypeOK ==
  /\ Last > 0
  /\ \A b \in 1 .. Last :
       /\ blocks[b].size \in Nat
       /\ blocks[b].bytes \in [0 .. blocks[b].size - 1 -> Nat]
  /\ offset \in Nat
  /\ table \subseteq View
  /\ \A v \in table :
       /\ v.block \in 1 .. Last
       /\ v.at + v.size < blocks[v.block].size
       /\ v.block = Last => v.at + v.size < offset
  /\ returned \in table \cup {NoView}

\* Interned strings share no byte, not even the empty one its terminator, and
\* every one stays terminated: whatever the sizes are that fill a block or burst
\* it, no string is written over another (allocate).
Intact ==
  \A v \in table :
    /\ blocks[v.block].bytes[v.at + v.size] = Nul
    /\ \A w \in table : v # w => Span(v) \cap Span(w) = {}

Pointer(v) == <<v.block, v.at>>

Nothing == <<0, 0>>

\* The data pointer of every string in the table.
Known == [s \in { Read(v) : v \in table } |-> Pointer(CHOOSE v \in table : Read(v) = s)]

\* Names can be compared by their data pointers: equal strings have equal ones
\* and different strings different ones, whatever else was interned in between,
\* and find has the answer that intern gave (interned_string::operator==).
Abstract == INSTANCE Interning WITH
  known <- Known,
  reply <- Pointer(returned)

Interns == Abstract!Spec
=============================================================================
