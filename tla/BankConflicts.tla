--------------------------- MODULE BankConflicts ---------------------------
(***************************************************************************)
(* avoid_bank_conflicts of src/sass/optimizer.h, run after the scheduler:  *)
(* between two adjacent shared-memory accesses of one bank it moves a      *)
(* later instruction, editing the vector it walks over.                    *)
(***************************************************************************)
EXTENDS Integers, Sequences, FiniteSets

CONSTANTS
  Window,         \* how far behind i an instruction is looked for, 6 in the code
  BankPrograms    \* the vectors avoid_bank_conflicts may be called with

\* What the pass tells apart: LDS and STS with the bank of their MEM operand
\* (-1 without one, or negative after C++ division of a negative offset), the
\* opcodes it names (BRA, BRX, ISETP, EXIT: "kept"), and all others, global
\* memory accesses, RET and KILL among them.
BankInst == [kind : {"shared"}, bank : Int] \union [kind : {"kept", "other"}, bank : {-1}]

ASSUME BankAssumption ==
  /\ Window \in Nat
  /\ BankPrograms \subseteq Seq(BankInst)

VARIABLES
  listed,   \* the vector as it came
  order,    \* the vector being edited, as source positions
  place,    \* where the walk is
  moved     \* the source positions that were moved so far

bankVars == <<listed, order, place, moved>>

BankInit ==
  /\ listed \in BankPrograms
  /\ order = [k \in 1 .. Len(listed) |-> k]
  /\ place = 1
  /\ moved = {}

KindAt(k) == listed[order[k]].kind
Bank(k) == listed[order[k]].bank
IsShared(k) == KindAt(k) = "shared"

ConflictIn(c, k) ==
  /\ listed[c[k]].kind = "shared" /\ listed[c[k + 1]].kind = "shared"
  /\ listed[c[k]].bank >= 0
  /\ listed[c[k]].bank = listed[c[k + 1]].bank
Conflict(k) == ConflictIn(order, k)

\* Shared accesses and the named opcodes are skipped over, not stopped at.
MovableShared(k) == KindAt(k) # "kept"
Movable(k) == KindAt(k) \notin {"shared", "kept"}

\* The instructions behind the pair the inner loop looks at.
Behind == {j \in place + 2 .. place + Window - 1 : j <= Len(order)}
Choices == {j \in Behind : Movable(j) /\ \A k \in Behind : Movable(k) => j <= k}

MoveTo(j, k) ==
  SubSeq(order, 1, k - 1) \o <<order[j]>> \o SubSeq(order, k, j - 1)
    \o SubSeq(order, j + 1, Len(order))
MoveBefore(j) == MoveTo(j, place)
MoveBetween(j) == MoveTo(j, place + 1)

\* No conflict at this place, or nothing to put between.
BankStep ==
  /\ place + 1 <= Len(order)
  /\ ~Conflict(place) \/ Choices = {}
  /\ place' = place + 1
  /\ UNCHANGED <<listed, order, moved>>

Separate(j) ==
  /\ place + 1 <= Len(order)
  /\ Conflict(place)
  /\ j \in Choices
  /\ order' = MoveBetween(j)
  /\ moved' = moved \union {order[j]}
  /\ place' = place + 1
  /\ UNCHANGED listed

BankNext == BankStep \/ \E j \in Choices : Separate(j)

BankSpec == BankInit /\ [][BankNext]_bankVars

-----------------------------------------------------------------------------
BankTypeOK ==
  /\ listed \in Seq(BankInst)
  /\ order \in Seq(1 .. Len(listed))
  /\ place \in 1 .. (IF listed = <<>> THEN 1 ELSE Len(listed))
  /\ moved \in SUBSET (1 .. Len(listed))

\* The edits lose and repeat no instruction, and the accesses to shared memory
\* and the opcodes the pass names keep their order among themselves.
AccessesInOrder ==
  /\ Len(order) = Len(listed)
  /\ \A a, b \in 1 .. Len(order) :
       a < b => /\ order[a] # order[b]
                /\ {order[a], order[b]} \intersect moved = {} => order[a] < order[b]
  /\ \A m \in moved : listed[m].kind \notin {"shared", "kept"}

\* Pulling an instruction out from between two accesses can bring them
\* together; still, the pass never leaves more conflicts than it found.
Conflicts(c) == {k \in 1 .. Len(c) - 1 : ConflictIn(c, k)}
NeverWorse == [][Cardinality(Conflicts(order')) <= Cardinality(Conflicts(order))]_bankVars

\* What the walk has passed stays as it is.
PrefixFixed == [][\A k \in 1 .. place : k <= Len(order) => order'[k] = order[k]]_bankVars
=============================================================================
