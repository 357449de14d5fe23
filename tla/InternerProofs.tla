----------------------------- MODULE InternerProofs -----------------------------
(***************************************************************************)
(* The interner keeps every string where it put it, for every block size   *)
(* and every set of strings.  The inductive invariant says that what was   *)
(* handed out of the last block ends at offset, and that no two views show *)
(* the same string; its parts are named so that each step can cite what it *)
(* needs.                                                                  *)
(***************************************************************************)
EXTENDS Interner, TLAPS

Bytes(n) == [0 .. n - 1 -> Nat]

Block == UNION { [size : {n}, bytes : Bytes(n)] : n \in Nat }

\* Every block has room for what is checked against the block size.
BlocksOK ==
  /\ blocks \in Seq(Block)
  /\ Last > 0
  /\ \A b \in 1 .. Last : blocks[b].size >= BlockSize
  /\ offset \in Nat

\* A view shows bytes that were handed out.
HandedOut(v) ==
  /\ v \in View
  /\ v.block \in 1 .. Last
  /\ v.at + v.size < blocks[v.block].size
  /\ v.block = Last => v.at + v.size < offset

ViewsOK == \A v \in table : HandedOut(v)

\* No string is in the table twice.
Distinct == \A v, w \in table : Read(v) = Read(w) => v = w

ReturnedOK == returned \in table \cup {NoView}

IInv == BlocksOK /\ ViewsOK /\ Intact /\ Distinct /\ ReturnedOK

------------------------------------------------------------------------------
LEMMA InBlock ==
  ASSUME NEW b \in Block
  PROVE  /\ b.size \in Nat
         /\ b.bytes \in Bytes(b.size)
         /\ DOMAIN b.bytes = 0 .. b.size - 1
         /\ b = [size |-> b.size, bytes |-> b.bytes]
BY DEF Block, Bytes

LEMMA MakeBlock ==
  ASSUME NEW n \in Nat, NEW f \in Bytes(n)
  PROVE  [size |-> n, bytes |-> f] \in Block
<1>1. [size |-> n, bytes |-> f] \in [size : {n}, bytes : Bytes(n)]
  OBVIOUS
<1>2. QED BY <1>1 DEF Block

LEMMA NewBlockOK ==
  ASSUME NEW n \in Nat
  PROVE  NewBlock(n) \in Block /\ NewBlock(n).size = n
<1>1. [i \in 0 .. n - 1 |-> Nul] \in Bytes(n)
  BY DEF Bytes, Nul
<1>2. QED BY <1>1, MakeBlock DEF NewBlock

\* What allocate writes into a block with room for it, and what it leaves alone.
LEMMA WrittenOK ==
  ASSUME NEW b \in Block, NEW at \in Nat, NEW s \in Seq(Nat), at + Len(s) < b.size
  PROVE  LET w == Written(b, at, s)
         IN /\ w \in Block
            /\ w.size = b.size
            /\ \A i \in 1 .. Len(s) : w.bytes[at + i - 1] = s[i]
            /\ w.bytes[at + Len(s)] = Nul
            /\ \A i \in 0 .. at - 1 : w.bytes[i] = b.bytes[i]
<1> DEFINE f == [i \in 0 .. b.size - 1 |->
                   IF i \in at .. at + Len(s) - 1 THEN s[i - at + 1]
                   ELSE IF i = at + Len(s) THEN Nul
                   ELSE b.bytes[i]]
<1>1. Len(s) \in Nat /\ b.size \in Nat
  BY InBlock
<1>2. DOMAIN b.bytes \cup at .. at + Len(s) = 0 .. b.size - 1
  BY <1>1, InBlock
<1> DEFINE g == [i \in DOMAIN b.bytes \cup at .. at + Len(s) |->
                   IF i \in at .. at + Len(s) - 1 THEN s[i - at + 1]
                   ELSE IF i = at + Len(s) THEN Nul
                   ELSE b.bytes[i]]
<1>3. Written(b, at, s) = [size |-> b.size, bytes |-> f]
  <2>1. g = f
    BY <1>2
  <2>2. Written(b, at, s) = [b EXCEPT !.bytes = g]
    BY DEF Written
  <2>3. \A h : [b EXCEPT !.bytes = h] = [size |-> b.size, bytes |-> h]
    BY InBlock
  <2>4. QED BY <2>1, <2>2, <2>3
<1>4. f \in Bytes(b.size)
  <2>1. SUFFICES ASSUME NEW i \in 0 .. b.size - 1
                 PROVE  f[i] \in Nat
    BY DEF Bytes
  <2>2. b.bytes[i] \in Nat
    BY InBlock DEF Bytes
  <2>3. i \in at .. at + Len(s) - 1 => s[i - at + 1] \in Nat
    <3>1. i \in at .. at + Len(s) - 1 => i - at + 1 \in 1 .. Len(s)
      BY <1>1
    <3>2. \A j \in 1 .. Len(s) : s[j] \in Nat
      OBVIOUS
    <3>3. QED BY <3>1, <3>2
  <2>4. QED BY <2>2, <2>3 DEF Nul
<1>5. Written(b, at, s) \in Block
  BY <1>1, <1>3, <1>4, MakeBlock
<1>6. \A i \in 1 .. Len(s) : f[at + i - 1] = s[i]
  <2>1. SUFFICES ASSUME NEW i \in 1 .. Len(s) PROVE f[at + i - 1] = s[i]
    OBVIOUS
  <2>2. at + i - 1 \in 0 .. b.size - 1 /\ at + i - 1 \in at .. at + Len(s) - 1
    BY <1>1
  <2>3. (at + i - 1) - at + 1 = i
    BY <1>1
  <2>4. QED BY <2>2, <2>3
<1>7. f[at + Len(s)] = Nul
  BY <1>1
<1>8. \A i \in 0 .. at - 1 : f[i] = b.bytes[i]
  BY <1>1
<1>9. Written(b, at, s).size = b.size /\ Written(b, at, s).bytes = f
  BY <1>3
<1> HIDE DEF f, g
<1>10. QED BY <1>5, <1>6, <1>7, <1>8, <1>9

------------------------------------------------------------------------------
\* A string of the model is a sequence, and so its length a number.
LEMMA StringsAreSequences ==
  ASSUME NEW s \in Strings
  PROVE  s \in Seq(Nat) /\ Len(s) \in Nat /\ Needed(s) = Len(s) + 1
BY InternerAssumption DEF Needed

\* What allocate has done, wherever it found room: the string stands at "at" in
\* the last block, and all that earlier views show is as it was and in front.
Stored(s, at) ==
  /\ BlocksOK'
  /\ at \in Nat
  /\ returned' = [block |-> Last', at |-> at, size |-> Len(s)]
  /\ offset' = at + Len(s) + 1
  /\ at + Len(s) < blocks'[Last'].size
  /\ \A i \in 1 .. Len(s) : blocks'[Last'].bytes[at + i - 1] = s[i]
  /\ blocks'[Last'].bytes[at + Len(s)] = Nul
  /\ \A v \in table :
       /\ v.block \in 1 .. Last'
       /\ v.at + v.size < blocks'[v.block].size
       /\ v.block = Last' => v.at + v.size < at
       /\ \A i \in v.at .. v.at + v.size :
            blocks'[v.block].bytes[i] = blocks[v.block].bytes[i]

LEMMA StoredInLast ==
  ASSUME BlocksOK, ViewsOK, NEW s \in Strings, Fits(s), Allocate(s)
  PROVE  Stored(s, offset)
<1> DEFINE b == blocks[Last]
           w == Written(b, offset, s)
<1>1. s \in Seq(Nat) /\ Len(s) \in Nat /\ Needed(s) = Len(s) + 1
  BY StringsAreSequences
<1>2. BlockSize \in Nat
  BY InternerAssumption
<1>3. Last \in Nat /\ Last \in 1 .. Last /\ b \in Block /\ b.size \in Nat
  BY InBlock DEF BlocksOK, Last
<1>4. offset \in Nat /\ offset + Len(s) < b.size
  BY <1>1, <1>2, <1>3 DEF BlocksOK, Fits
<1>5. /\ w \in Block
      /\ w.size = b.size
      /\ \A i \in 1 .. Len(s) : w.bytes[offset + i - 1] = s[i]
      /\ w.bytes[offset + Len(s)] = Nul
      /\ \A i \in 0 .. offset - 1 : w.bytes[i] = b.bytes[i]
  BY <1>1, <1>3, <1>4, WrittenOK
<1> HIDE DEF w
<1>6. /\ blocks' = [blocks EXCEPT ![Last] = w]
      /\ offset' = offset + Len(s) + 1
      /\ returned' = [block |-> Last, at |-> offset, size |-> Len(s)]
  BY <1>1, <1>4 DEF Allocate, w
<1>7. /\ blocks' \in Seq(Block)
      /\ Last' = Last
      /\ blocks'[Last] = w
      /\ \A c \in 1 .. Last : c # Last => blocks'[c] = blocks[c]
  BY <1>3, <1>5, <1>6 DEF BlocksOK, Last
<1>8. BlocksOK'
  BY <1>1, <1>3, <1>4, <1>5, <1>6, <1>7 DEF BlocksOK
<1>9. ASSUME NEW v \in table
      PROVE  /\ v.block \in 1 .. Last'
             /\ v.at + v.size < blocks'[v.block].size
             /\ v.block = Last' => v.at + v.size < offset
             /\ \A i \in v.at .. v.at + v.size :
                  blocks'[v.block].bytes[i] = blocks[v.block].bytes[i]
  <2>1. HandedOut(v) /\ v.at \in Nat /\ v.size \in Nat
    BY DEF ViewsOK, HandedOut, View
  <2>2. CASE v.block = Last
    <3>1. v.at .. v.at + v.size \subseteq 0 .. offset - 1
      BY <1>4, <2>1, <2>2 DEF HandedOut
    <3>2. QED BY <1>5, <1>7, <2>1, <2>2, <3>1 DEF HandedOut
  <2>3. CASE v.block # Last
    BY <1>7, <2>1, <2>3 DEF HandedOut
  <2>4. QED BY <2>2, <2>3
<1>10. QED BY <1>4, <1>5, <1>6, <1>7, <1>8, <1>9 DEF Stored

LEMMA StoredInNew ==
  ASSUME BlocksOK, ViewsOK, NEW s \in Strings, ~Fits(s), Allocate(s)
  PROVE  Stored(s, 0)
<1>0. PICK a \in Nat : a = 0
  OBVIOUS
<1> DEFINE b == NewBlock(Roomy(s))
           w == Written(b, a, s)
<1>1. s \in Seq(Nat) /\ Len(s) \in Nat /\ Needed(s) = Len(s) + 1
  BY StringsAreSequences
<1>2. BlockSize \in Nat
  BY InternerAssumption
<1>3. Roomy(s) \in Nat /\ Roomy(s) >= BlockSize /\ Len(s) < Roomy(s)
  BY <1>1, <1>2 DEF Roomy
<1>4. b \in Block /\ b.size = Roomy(s)
  BY <1>3, NewBlockOK
<1>5. /\ w \in Block
      /\ w.size = b.size
      /\ \A i \in 1 .. Len(s) : w.bytes[a + i - 1] = s[i]
      /\ w.bytes[a + Len(s)] = Nul
  <2>1. a + Len(s) < b.size
    BY <1>0, <1>1, <1>3, <1>4
  <2> HIDE DEF b
  <2>2. QED BY <1>1, <1>4, <2>1, WrittenOK
<1> HIDE DEF w
<1>6. /\ blocks' = Append(blocks, w)
      /\ offset' = a + Len(s) + 1
      /\ returned' = [block |-> Last + 1, at |-> a, size |-> Len(s)]
  BY <1>0, <1>1 DEF Allocate, w
<1>7. /\ Last \in Nat
      /\ blocks' \in Seq(Block)
      /\ Last' = Last + 1
      /\ blocks'[Last + 1] = w
      /\ \A c \in 1 .. Last : blocks'[c] = blocks[c]
  BY <1>5, <1>6 DEF BlocksOK, Last
<1> HIDE DEF b
<1>8. BlocksOK'
  <2>1. \A c \in 1 .. Last' : blocks'[c].size >= BlockSize
    BY <1>3, <1>4, <1>5, <1>7 DEF BlocksOK
  <2>2. offset' \in Nat /\ Last' > 0
    BY <1>1, <1>6, <1>7
  <2>3. QED BY <1>7, <2>1, <2>2 DEF BlocksOK
<1>9. ASSUME NEW v \in table
      PROVE  /\ v.block \in 1 .. Last'
             /\ v.at + v.size < blocks'[v.block].size
             /\ v.block # Last'
             /\ \A i \in v.at .. v.at + v.size :
                  blocks'[v.block].bytes[i] = blocks[v.block].bytes[i]
  <2>1. HandedOut(v)
    BY DEF ViewsOK
  <2>2. QED BY <1>7, <2>1 DEF HandedOut
<1>10. a + Len(s) < blocks'[Last'].size
  BY <1>0, <1>1, <1>3, <1>4, <1>5, <1>7
<1>11. Stored(s, a)
  BY <1>5, <1>6, <1>7, <1>8, <1>9, <1>10 DEF Stored
<1>12. QED BY <1>0, <1>11

LEMMA AllocateStores ==
  ASSUME BlocksOK, ViewsOK, NEW s \in Strings, Allocate(s)
  PROVE  \E at \in Nat : Stored(s, at)
<1>1. CASE Fits(s)
  <2>1. Stored(s, offset) /\ offset \in Nat
    BY <1>1, StoredInLast DEF BlocksOK
  <2> HIDE DEF Stored
  <2>2. QED BY <2>1
<1>2. CASE ~Fits(s)
  BY <1>2, StoredInNew
<1>3. QED BY <1>1, <1>2

------------------------------------------------------------------------------
\* Views that are in the table show the same string after anything was stored.
LEMMA ReadsStay ==
  ASSUME ViewsOK, NEW s, NEW at, Stored(s, at), NEW v \in table
  PROVE  Read(v)' = Read(v)
<1>1. v.at \in Nat /\ v.size \in Nat
  BY DEF ViewsOK, HandedOut, View
<1>2. \A i \in 1 .. v.size : v.at + i - 1 \in v.at .. v.at + v.size
  BY <1>1
<1>3. \A i \in 1 .. v.size :
        blocks'[v.block].bytes[v.at + i - 1] = blocks[v.block].bytes[v.at + i - 1]
  BY <1>2 DEF Stored
<1>4. QED BY <1>3 DEF Read

LEMMA ReadsBack ==
  ASSUME NEW s \in Strings, NEW at, Stored(s, at)
  PROVE  Read(returned)' = s
<1>1. returned'.block = Last' /\ returned'.at = at /\ returned'.size = Len(s)
  BY DEF Stored
<1>2. s = [i \in 1 .. Len(s) |-> s[i]]
  BY StringsAreSequences
<1>3. [i \in 1 .. Len(s) |-> blocks'[Last'].bytes[at + i - 1]] = [i \in 1 .. Len(s) |-> s[i]]
  BY DEF Stored
<1>4. QED BY <1>1, <1>2, <1>3 DEF Read

LEMMA InternNewKeeps ==
  ASSUME IInv, NEW s \in Strings, InternNew(s)
  PROVE  IInv'
<1> USE DEF IInv
<1>1. PICK at \in Nat : Stored(s, at)
  BY AllocateStores DEF InternNew
<1>2. table' = table \cup {returned'} /\ Hits(s) = {}
  BY DEF InternNew
<1>3. /\ returned' \in View
      /\ returned'.block = Last' /\ returned'.at = at /\ returned'.size = Len(s)
      /\ Last' \in Nat \ {0} /\ Len(s) \in Nat
  <2>1. Last' \in Nat \ {0}
    BY <1>1 DEF Stored, BlocksOK, Last
  <2>2. QED BY <1>1, <2>1, StringsAreSequences DEF Stored, View
<1>4. BlocksOK'
  BY <1>1 DEF Stored
<1>5. ASSUME NEW v \in table
      PROVE  /\ HandedOut(v)'
             /\ v.at \in Nat /\ v.size \in Nat
             /\ v.block = Last' => v.at + v.size < at
             /\ blocks'[v.block].bytes[v.at + v.size] = Nul
  <2>1. HandedOut(v) /\ v \in View /\ v.at \in Nat /\ v.size \in Nat
    BY DEF ViewsOK, HandedOut, View
  <2>2. v.block = Last' => v.at + v.size < offset'
    BY <1>1, <1>3, <2>1 DEF Stored
  <2>3. HandedOut(v)'
    BY <1>1, <2>1, <2>2 DEF Stored, HandedOut
  <2>4. v.at + v.size \in v.at .. v.at + v.size
    BY <2>1
  <2>5. QED BY <1>1, <2>1, <2>3, <2>4 DEF Stored, Intact
<1>6. ViewsOK'
  <2>1. HandedOut(returned)'
    <3>1. returned'.block \in 1 .. Last'
      BY <1>3
    <3>2. returned'.at + returned'.size < offset'
      BY <1>1, <1>3 DEF Stored
    <3>3. returned'.at + returned'.size < blocks'[returned'.block].size
      BY <1>1, <1>3 DEF Stored
    <3>4. QED BY <1>3, <3>1, <3>2, <3>3 DEF HandedOut
  <2>2. QED BY <1>2, <1>5, <2>1 DEF ViewsOK
<1>7. Intact'
  <2>1. \A v \in table' : blocks'[v.block].bytes[v.at + v.size] = Nul
    BY <1>1, <1>2, <1>3, <1>5 DEF Stored
  <2>2. \A v, w \in table : v # w => Span(v) \cap Span(w) = {}
    BY DEF Intact
  <2>3. \A v \in table : Span(v) \cap Span(returned') = {}
    <3>1. SUFFICES ASSUME NEW v \in table,
                          NEW i \in v.at .. v.at + v.size,
                          NEW j \in returned'.at .. returned'.at + returned'.size,
                          v.block = returned'.block, i = j
                   PROVE  FALSE
      BY DEF Span
    <3>2. QED BY <1>3, <1>5, <3>1
  <2>4. QED BY <1>2, <2>1, <2>2, <2>3 DEF Intact, Span
<1>8. Distinct'
  <2>1. \A v \in table : Read(v)' = Read(v) /\ Read(v) # s
    BY <1>1, <1>2, ReadsStay DEF Hits
  <2>2. Read(returned)' = s
    BY <1>1, ReadsBack
  <2>3. SUFFICES ASSUME NEW v \in table', NEW w \in table', Read(v)' = Read(w)'
                 PROVE  v = w
    BY DEF Distinct
  <2>4. CASE v \in table /\ w \in table
    BY <2>1, <2>3, <2>4 DEF Distinct
  <2>5. CASE v = returned' \/ w = returned'
    BY <1>2, <2>1, <2>2, <2>3, <2>5
  <2>6. QED BY <1>2, <2>4, <2>5
<1>9. ReturnedOK'
  BY <1>2 DEF ReturnedOK
<1>10. QED BY <1>4, <1>6, <1>7, <1>8, <1>9

LEMMA InitIInv == Init => IInv
<1>1. SUFFICES ASSUME Init PROVE IInv
  OBVIOUS
<1>2. BlockSize \in Nat /\ BlockSize > 0
  BY InternerAssumption
<1>3. NewBlock(BlockSize) \in Block /\ NewBlock(BlockSize).size = BlockSize
  BY <1>2, NewBlockOK
<1>4. BlocksOK
  BY <1>1, <1>2, <1>3 DEF Init, BlocksOK, Last
<1>5. ViewsOK /\ Intact /\ Distinct /\ ReturnedOK
  BY <1>1 DEF Init, ViewsOK, Intact, Distinct, ReturnedOK
<1>6. QED BY <1>4, <1>5 DEF IInv

LEMMA NextIInv == IInv /\ [Next]_vars => IInv'
<1>1. SUFFICES ASSUME IInv, [Next]_vars PROVE IInv'
  OBVIOUS
<1>2. ASSUME UNCHANGED <<blocks, offset, table>>, ReturnedOK' PROVE IInv'
  BY <1>1, <1>2 DEF IInv, BlocksOK, ViewsOK, HandedOut, Intact, Distinct, Read, Last
<1>3. ASSUME NEW s \in Strings, InternKnown(s) PROVE IInv'
  BY <1>2, <1>3 DEF InternKnown, Hits, ReturnedOK
<1>4. ASSUME NEW s \in Strings, InternNew(s) PROVE IInv'
  BY <1>1, <1>4, InternNewKeeps
<1>5. ASSUME NEW s \in Strings, Find(s) PROVE IInv'
  BY <1>2, <1>5 DEF Find, Hits, ReturnedOK
<1>6. CASE UNCHANGED vars
  BY <1>1, <1>2, <1>6 DEF vars, IInv, ReturnedOK
<1>7. QED BY <1>1, <1>3, <1>4, <1>5, <1>6 DEF Next

LEMMA Invariance == Spec => []IInv
BY InitIInv, NextIInv, PTL DEF Spec

\* No string is ever written beyond its block, and every view stays in range
\* (string_interner::allocate), for every block size.
THEOREM TypeCorrect == Spec => []TypeOK
<1>1. IInv => TypeOK
  <2>1. SUFFICES ASSUME IInv PROVE TypeOK
    OBVIOUS
  <2>2. \A b \in 1 .. Last : blocks[b] \in Block
    BY <2>1 DEF IInv, BlocksOK, Last
  <2>3. \A b \in 1 .. Last : /\ blocks[b].size \in Nat
                            /\ blocks[b].bytes \in [0 .. blocks[b].size - 1 -> Nat]
    BY <2>2, InBlock DEF Bytes
  <2>4. QED BY <2>1, <2>3 DEF IInv, BlocksOK, ViewsOK, HandedOut, ReturnedOK, TypeOK
<1>2. QED BY <1>1, Invariance, PTL

\* No interned string is ever written over, and each stays terminated: data()
\* may be handed to Mizu programs as it is (comptime_evaluate.cpp 120-123).
THEOREM NeverOverwritten == Spec => []Intact
<1>1. IInv => Intact
  BY DEF IInv
<1>2. QED BY <1>1, Invariance, PTL

------------------------------------------------------------------------------
\* The refinement: what the table knows is a string's data pointer.
LEMMA PointersDiffer ==
  ASSUME IInv, NEW v \in table, NEW w \in table, v # w
  PROVE  Pointer(v) # Pointer(w)
<1>1. v.at \in v.at .. v.at + v.size /\ w.at \in w.at .. w.at + w.size
  BY DEF IInv, ViewsOK, HandedOut, View
<1>2. <<v.block, v.at>> \in Span(v) /\ <<w.block, w.at>> \in Span(w)
  BY <1>1 DEF Span
<1>3. QED BY <1>2 DEF IInv, Intact, Pointer

LEMMA PointersAreSomething ==
  ASSUME IInv, NEW v \in table
  PROVE  Pointer(v) # Nothing
BY DEF IInv, ViewsOK, HandedOut, Pointer, Nothing

LEMMA KnownOfView ==
  ASSUME IInv, NEW v \in table
  PROVE  Read(v) \in DOMAIN Known /\ Known[Read(v)] = Pointer(v)
<1>1. (CHOOSE w \in table : Read(w) = Read(v)) = v
  BY DEF IInv, Distinct
<1>2. QED BY <1>1 DEF Known

LEMMA HitIsKnown ==
  ASSUME IInv, NEW s, NEW v \in Hits(s)
  PROVE  s \in DOMAIN Known /\ Known[s] = Pointer(v)
BY KnownOfView DEF Hits

LEMMA MissIsUnknown ==
  ASSUME NEW s, Hits(s) = {}
  PROVE  s \notin DOMAIN Known
BY DEF Hits, Known

LEMMA KnownUnchanged ==
  ASSUME UNCHANGED <<blocks, table>>
  PROVE  Known' = Known
BY DEF Known, Read

LEMMA InternNewIsIntern ==
  ASSUME IInv, IInv', NEW s \in Strings, InternNew(s)
  PROVE  Abstract!Intern(s)
<1>1. PICK at \in Nat : Stored(s, at)
  BY AllocateStores DEF InternNew, IInv
<1>2. table' = table \cup {returned'} /\ Hits(s) = {}
  BY DEF InternNew
<1>3. Read(returned)' = s
  BY <1>1, ReadsBack
<1>4. \A v \in table : Read(v)' = Read(v)
  BY <1>1, ReadsStay DEF IInv
<1>5. s \notin DOMAIN Known
  BY <1>2, MissIsUnknown
<1>6. returned' \in table' /\ returned' \notin table
  BY <1>2, <1>3, <1>4 DEF Hits
<1>7. \A v \in table' : Read(v)' \in DOMAIN Known' /\ Known'[Read(v)'] = Pointer(v)
  <2>1. \A v \in table' : \A w \in table' : Read(w)' = Read(v)' => w = v
    BY DEF IInv, Distinct
  <2>2. \A v \in table' : (CHOOSE w \in table' : Read(w)' = Read(v)') = v
    BY <2>1
  <2>3. QED BY <2>2 DEF Known
<1>8. DOMAIN Known = { Read(v) : v \in table }
  BY DEF Known
<1>9. DOMAIN Known' = DOMAIN Known \cup {s}
  <2>1. DOMAIN Known' = { Read(v)' : v \in table' }
    BY DEF Known
  <2>2. QED BY <1>2, <1>3, <1>4, <1>8, <2>1
<1>10. Known'[s] = Pointer(returned')
  BY <1>3, <1>6, <1>7
<1>11. \A t \in DOMAIN Known : Known'[t] = Known[t] /\ Pointer(returned') # Known[t]
  <2>1. SUFFICES ASSUME NEW v \in table
                 PROVE  /\ Known'[Read(v)] = Known[Read(v)]
                        /\ Pointer(returned') # Known[Read(v)]
    BY <1>8
  <2>2. Known[Read(v)] = Pointer(v)
    BY KnownOfView
  <2>3. Known'[Read(v)] = Pointer(v)
    BY <1>2, <1>4, <1>7
  <2>4. Pointer(v) # Pointer(returned')
    <3>1. \A x, y \in table' : x # y => Span(x) \cap Span(y) = {}
      BY DEF IInv, Intact, Span
    <3>2. v \in table' /\ v # returned'
      BY <1>2, <1>6
    <3>3. /\ v.at \in v.at .. v.at + v.size
          /\ returned'.at \in returned'.at .. returned'.at + returned'.size
      BY <1>6, <3>2 DEF IInv, ViewsOK, HandedOut, View
    <3>4. /\ <<v.block, v.at>> \in Span(v)
          /\ <<returned'.block, returned'.at>> \in Span(returned')
      BY <3>3 DEF Span
    <3>5. QED BY <1>6, <3>1, <3>2, <3>4 DEF Pointer
  <2>5. QED BY <2>2, <2>3, <2>4
<1>12. Pointer(returned') # Nothing
  BY <1>6 DEF IInv, ViewsOK, HandedOut, Pointer, Nothing
<1>13. Known' = [t \in DOMAIN Known \cup {s} |->
                   IF t = s THEN Pointer(returned') ELSE Known[t]]
  <2>1. Known' = [t \in DOMAIN Known' |-> Known'[t]]
    BY DEF Known
  <2>2. QED BY <1>5, <1>9, <1>10, <1>11, <2>1
<1>14. Pointer(returned)' = Pointer(returned')
  BY DEF Pointer
<1>15. QED BY <1>5, <1>11, <1>12, <1>13, <1>14 DEF Abstract!Intern

\* Comparing interned strings by data() is comparing strings, for all strings
\* and block sizes: equal ones keep one pointer forever and others have another
\* (interned_string::operator==).
THEOREM Refinement == Spec => Interns
<1>1. Init => Abstract!Init
  BY DEF Init, Abstract!Init, Known, Nothing, Pointer, NoView
<1>2. IInv /\ IInv' /\ [Next]_vars => [Abstract!Next]_(Abstract!vars)
  <2>1. SUFFICES ASSUME IInv, IInv', [Next]_vars
                 PROVE  [Abstract!Next]_(Abstract!vars)
    OBVIOUS
  <2>2. Pointer(returned)' = Pointer(returned')
    BY DEF Pointer
  <2>3. ASSUME NEW s \in Strings, InternKnown(s) PROVE Abstract!Intern(s)
    <3>1. Known' = Known
      BY <2>3, KnownUnchanged DEF InternKnown
    <3>2. s \in DOMAIN Known /\ Known[s] = Pointer(returned')
      BY <2>1, <2>3, HitIsKnown DEF InternKnown
    <3>3. QED BY <2>2, <3>1, <3>2 DEF Abstract!Intern
  <2>4. ASSUME NEW s \in Strings, InternNew(s) PROVE Abstract!Intern(s)
    BY <2>1, <2>4, InternNewIsIntern
  <2>5. ASSUME NEW s \in Strings, Find(s) PROVE Abstract!Find(s)
    <3>1. Known' = Known
      BY <2>5, KnownUnchanged DEF Find
    <3>2. CASE Hits(s) # {} /\ returned' \in Hits(s)
      BY <2>1, <2>2, <3>1, <3>2, HitIsKnown DEF Abstract!Find
    <3>3. CASE Hits(s) = {} /\ returned' = NoView
      BY <2>2, <3>1, <3>3, MissIsUnknown DEF Abstract!Find, Pointer, NoView, Nothing
    <3>4. QED BY <2>5, <3>2, <3>3 DEF Find
  <2>6. CASE UNCHANGED vars
    BY <2>2, <2>6, KnownUnchanged DEF vars, Abstract!vars
  <2>7. QED BY <2>1, <2>3, <2>4, <2>5, <2>6 DEF Next, Abstract!Next
<1>3. QED BY <1>1, <1>2, Invariance, PTL DEF Spec, Interns, Abstract!Spec
=============================================================================
