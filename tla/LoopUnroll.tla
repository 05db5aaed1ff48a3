----------------------------- MODULE LoopUnroll -----------------------------
(***************************************************************************)
(* loop_unroll of src/sass/optimizer.h: it looks for IADD; ISETP; BRA and  *)
(* inserts a copy of the instructions in front of the IADD, editing the    *)
(* vector it walks over.  Positions count from 1, so the index i of the    *)
(* code is walk - 1.                                                       *)
(***************************************************************************)
EXTENDS Integers, Sequences, FiniteSets

CONSTANTS
  MaxBody,         \* the estimated body size, 4 in the code
  Factor,          \* the unroll factor
  UnrollPrograms   \* the vectors loop_unroll may be called with

\* "branch" stands for BRX, "other" for any opcode the pass does not look at;
\* step is the third operand of an IADD when it is an immediate, else NoStep.
NoStep == 0
UnrollInst == [kind : {"IADD", "ISETP", "BRA", "branch", "other"}, step : Nat]

ASSUME UnrollAssumption ==
  /\ MaxBody \in Nat
  /\ Factor \in Nat \ {0}
  /\ UnrollPrograms \subseteq Seq(UnrollInst)

VARIABLES
  source,   \* the vector as it came
  edited,   \* the vector being edited: source position and current step
  walk      \* where the walk is

unrollVars == <<source, edited, walk>>

KindOf(k) == source[edited[k].src].kind

UnrollInit ==
  /\ source \in UnrollPrograms
  /\ edited = [k \in 1 .. Len(source) |-> [src |-> k, step |-> source[k].step]]
  /\ walk = 1

Running == walk + 2 <= Len(edited)

AtLoopEnd == KindOf(walk) = "IADD" /\ KindOf(walk + 1) = "ISETP" /\ KindOf(walk + 2) = "BRA"

BodySize == IF walk - 1 < MaxBody THEN walk - 1 ELSE MaxBody

BodyAnything == TRUE
BodyIsStraight ==
  \A k \in walk - BodySize .. walk - 1 : KindOf(k) \notin {"BRA", "branch"}

\* No loop end here, an empty body, or a body with a branch: go on.
UnrollStep ==
  /\ Running
  /\ ~(AtLoopEnd /\ BodySize > 0 /\ BodyIsStraight)
  /\ walk' = walk + 1
  /\ UNCHANGED <<source, edited>>

\* The new IADD step and the position after the copy and the three.
Scaled(inst) == IF inst.step # NoStep THEN [inst EXCEPT !.step = @ * Factor] ELSE inst
NotPastCopy == walk
PastLoop == walk + BodySize + 3

Unroll ==
  /\ Running
  /\ AtLoopEnd
  /\ BodySize > 0
  /\ BodyIsStraight
  /\ edited' = SubSeq(edited, 1, walk - 1)
             \o SubSeq(edited, walk - BodySize, walk - 1)
             \o <<Scaled(edited[walk])>>
             \o SubSeq(edited, walk + 1, Len(edited))
  /\ walk' = PastLoop
  /\ UNCHANGED source

UnrollNext == UnrollStep \/ Unroll

UnrollSpec == UnrollInit /\ [][UnrollNext]_unrollVars

\* The walk is one sequential loop.
FairSpec == UnrollSpec /\ WF_unrollVars(UnrollNext)

-----------------------------------------------------------------------------
UnrollTypeOK ==
  /\ source \in Seq(UnrollInst)
  /\ edited \in Seq([src : 1 .. Len(source), step : Nat])
  /\ walk \in 1 .. Len(edited) + 1

\* What is left to walk shrinks with every step although the vector grows, so
\* the walk ends.
AlwaysShrinks == [][Len(edited') - walk' < Len(edited) - walk]_unrollVars

Copies(s) == {k \in 1 .. Len(edited) : edited[k].src = s}

\* No instruction is lost and none is copied twice: two loop ends never share
\* an instruction of their bodies, and an inserted copy is not unrolled again.
CopiedOnce == \A s \in 1 .. Len(source) : Cardinality(Copies(s)) \in 1 .. 2

\* Only straight-line code is duplicated, and a copy repeats the block of
\* instructions right in front of it.
CopiesAreBlocks ==
  \A s \in 1 .. Len(source) : \A a, b \in Copies(s) :
    a < b =>
      /\ b - a <= MaxBody
      /\ source[s].kind \notin {"BRA", "branch"}
      /\ \A k \in a .. b - 1 : Cardinality(Copies(edited[k].src)) = 2

-----------------------------------------------------------------------------
\* The inductive invariant behind the two, part by part.
Grown == Len(edited) - Len(source)

\* What is still to be walked is the end of the input, and everything behind
\* the walk comes from in front of it.
TailUntouched ==
  /\ \A k \in walk .. Len(edited) : edited[k].src = k - Grown
  /\ \A k \in 1 .. walk - 1 : edited[k].src < walk - Grown

NothingLost == \A s \in 1 .. Len(source) : \E k \in 1 .. Len(edited) : edited[k].src = s

SameSource(a, b) == edited[a].src = edited[b].src

\* A branch that was walked over separates every copy from the bodies still to
\* come.
CopiesSealed ==
  \A a, b \in 1 .. Len(edited) :
    a < b /\ SameSource(a, b) => \E q \in b + 1 .. walk - 1 : KindOf(q) = "BRA"

NoThird ==
  \A a, b, c \in 1 .. Len(edited) :
    SameSource(a, b) /\ SameSource(a, c) => a = b \/ a = c \/ b = c

BlocksRepeat ==
  \A a, b \in 1 .. Len(edited) :
    a < b /\ SameSource(a, b) =>
      /\ b - a <= MaxBody
      /\ KindOf(a) \notin {"BRA", "branch"}
      /\ \A k \in a .. b - 1 : \E m \in 1 .. Len(edited) : m # k /\ SameSource(k, m)

UnrollInv ==
  /\ UnrollTypeOK
  /\ TailUntouched
  /\ NothingLost
  /\ CopiesSealed
  /\ NoThird
  /\ BlocksRepeat
=============================================================================
