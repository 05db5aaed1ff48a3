----------------------------- MODULE EditProofs -----------------------------
(***************************************************************************)
(* Proofs about the three passes that edit the vector they walk over, for  *)
(* every set of programs and every value of their constants.  loop_unroll  *)
(* ends, loses nothing, copies nothing twice and copies straight-line      *)
(* blocks only; avoid_bank_conflicts loses and repeats nothing, leaves     *)
(* what it has passed alone and never leaves more conflicts than it found; *)
(* insert_depbars works on recorded positions, which survive its edits     *)
(* because the consumers are visited from the last to the first.           *)
(***************************************************************************)
EXTENDS LoopUnroll, BankConflicts, Scoreboard, SequenceTheorems, FiniteSetTheorems, TLAPS

-----------------------------------------------------------------------------
(* loop_unroll.                                                            *)

Entry == [src : 1 .. Len(source), step : Nat]

LEMMA UnrollTypeStarts == UnrollInit => UnrollTypeOK
<1>. SUFFICES ASSUME UnrollInit PROVE UnrollTypeOK
  OBVIOUS
<1>1. source \in Seq(UnrollInst) /\ Len(source) \in Nat
  BY UnrollAssumption DEF UnrollInit
<1>2. \A k \in 1 .. Len(source) : source[k].step \in Nat
  <2>1. \A k \in 1 .. Len(source) : source[k] \in UnrollInst
    BY <1>1
  <2>. QED
    BY <2>1 DEF UnrollInst
<1>3. edited \in Seq(Entry) /\ walk = 1
  BY <1>1, <1>2 DEF UnrollInit, Entry
<1>. QED
  BY <1>1, <1>3 DEF UnrollTypeOK, Entry

\* The edited vector is longer by exactly the copied body.
LEMMA Unrolled ==
  ASSUME UnrollTypeOK, Unroll
  PROVE  /\ BodySize \in 1 .. walk - 1
         /\ edited' \in Seq(Entry)
         /\ Len(edited') = Len(edited) + BodySize
<1>1. /\ Len(source) \in Nat /\ Len(edited) \in Nat /\ edited \in Seq(Entry)
      /\ walk \in 1 .. Len(edited) - 2
  <2>1. source \in Seq(UnrollInst) /\ edited \in Seq(Entry) /\ walk \in 1 .. Len(edited) + 1
    BY DEF UnrollTypeOK, Entry
  <2>2. Len(source) \in Nat /\ Len(edited) \in Nat /\ walk + 2 <= Len(edited)
    BY <2>1 DEF Unroll, Running
  <2>. QED
    BY <2>1, <2>2
<1>2. BodySize \in 1 .. walk - 1
  BY <1>1, UnrollAssumption DEF Unroll, BodySize
<1> DEFINE Front == SubSeq(edited, 1, walk - 1)
           Copy == SubSeq(edited, walk - BodySize, walk - 1)
           Add == <<Scaled(edited[walk])>>
           Back == SubSeq(edited, walk + 1, Len(edited))
<1>3. \A k \in 1 .. Len(edited) : edited[k] \in Entry
  BY <1>1
<1>4. Front \in Seq(Entry) /\ Len(Front) = walk - 1
  <2>1. \A k \in 1 .. walk - 1 : edited[k] \in Entry
    BY <1>1, <1>3
  <2>. QED
    BY <1>1, <2>1, SubSeqProperties
<1>5. Copy \in Seq(Entry) /\ Len(Copy) = BodySize
  <2> DEFINE b == BodySize
  <2>1. b \in 1 .. walk - 1
    BY <1>2
  <2> HIDE DEF b
  <2>2. \A k \in walk - b .. walk - 1 : edited[k] \in Entry
    BY <1>1, <1>3, <2>1
  <2>3. walk - b \in Int /\ walk - 1 \in Int /\ walk - b <= walk - 1 /\ (walk - 1) - (walk - b) + 1 = b
    BY <1>1, <2>1
  <2>4. /\ SubSeq(edited, walk - b, walk - 1) \in Seq(Entry)
        /\ Len(SubSeq(edited, walk - b, walk - 1)) = b
    BY <2>2, <2>3, SubSeqProperties
  <2>. QED
    BY <2>4 DEF b
<1>6. Add \in Seq(Entry) /\ Len(Add) = 1
  <2>1. edited[walk] \in Entry
    BY <1>1, <1>3
  <2>2. \A n \in Nat : n * Factor \in Nat
    BY UnrollAssumption
  <2>3. Scaled(edited[walk]) \in Entry
    BY <2>1, <2>2 DEF Scaled, Entry
  <2>. QED
    BY <2>3
<1>7. Back \in Seq(Entry) /\ Len(Back) = Len(edited) - walk
  <2>1. \A k \in walk + 1 .. Len(edited) : edited[k] \in Entry
    BY <1>1, <1>3
  <2>. QED
    BY <1>1, <2>1, SubSeqProperties
<1>8. edited' = ((Front \o Copy) \o Add) \o Back
  BY DEF Unroll
<1> HIDE DEF Front, Copy, Add, Back
<1>9. Front \o Copy \in Seq(Entry) /\ Len(Front \o Copy) = (walk - 1) + BodySize
  BY <1>4, <1>5, ConcatProperties
<1>10. /\ (Front \o Copy) \o Add \in Seq(Entry)
       /\ Len((Front \o Copy) \o Add) = ((walk - 1) + BodySize) + 1
  <2>1. /\ (Front \o Copy) \o Add \in Seq(Entry)
        /\ Len((Front \o Copy) \o Add) = Len(Front \o Copy) + Len(Add)
    BY <1>6, <1>9, ConcatProperties
  <2>. QED
    BY <1>6, <1>9, <2>1
<1>11. edited' \in Seq(Entry) /\ Len(edited') = (((walk - 1) + BodySize) + 1) + (Len(edited) - walk)
  <2>1. /\ edited' \in Seq(Entry)
        /\ Len(edited') = Len((Front \o Copy) \o Add) + Len(Back)
    BY <1>7, <1>8, <1>10, ConcatProperties
  <2>. QED
    BY <1>7, <1>10, <2>1
<1>. QED
  BY <1>1, <1>2, <1>11

LEMMA UnrollTypeKept == UnrollTypeOK /\ [UnrollNext]_unrollVars => UnrollTypeOK'
<1>. SUFFICES ASSUME UnrollTypeOK, [UnrollNext]_unrollVars PROVE UnrollTypeOK'
  OBVIOUS
<1>1. CASE UnrollStep
  BY <1>1 DEF UnrollTypeOK, UnrollStep, Running
<1>2. CASE Unroll
  <2>1. source' = source /\ walk' = walk + BodySize + 3 /\ walk + 2 <= Len(edited)
    BY <1>2 DEF Unroll, Running, PastLoop
  <2> DEFINE b == BodySize
  <2>2. b \in 1 .. walk - 1 /\ edited' \in Seq(Entry) /\ Len(edited') = Len(edited) + b
    BY <1>2, Unrolled
  <2>3. walk' = walk + b + 3
    BY <2>1
  <2> HIDE DEF b
  <2>4. walk \in 1 .. Len(edited) + 1 /\ Len(edited) \in Nat
    BY DEF UnrollTypeOK
  <2>5. walk' \in 1 .. Len(edited') + 1
    BY <2>1, <2>2, <2>3, <2>4
  <2>. QED
    BY <2>1, <2>2, <2>5 DEF UnrollTypeOK, Entry
<1>3. CASE UNCHANGED unrollVars
  BY <1>3 DEF unrollVars, UnrollTypeOK
<1>. QED
  BY <1>1, <1>2, <1>3 DEF UnrollNext

\* The walk stays inside the vector, whatever it inserts.
THEOREM LoopUnrollTypeOK == UnrollSpec => []UnrollTypeOK
<1>. QED
  BY UnrollTypeStarts, UnrollTypeKept, PTL DEF UnrollSpec

\* For every program, body size and factor, each iteration of the loop in
\* loop_unroll leaves less to walk, although an unrolled one makes the vector
\* longer: the loop ends.
THEOREM LoopUnrollAlwaysShrinks == UnrollSpec => AlwaysShrinks
<1>1. ASSUME UnrollTypeOK, [UnrollNext]_unrollVars
      PROVE  [Len(edited') - walk' < Len(edited) - walk]_unrollVars
  <2>1. CASE UnrollStep
    BY <1>1, <2>1 DEF UnrollStep, UnrollTypeOK
  <2>2. CASE Unroll
    <3> DEFINE b == BodySize
    <3>1. Len(edited') = Len(edited) + b /\ b \in 1 .. walk - 1
      BY <1>1, <2>2, Unrolled
    <3>2. walk' = walk + b + 3
      BY <2>2 DEF Unroll, PastLoop
    <3> HIDE DEF b
    <3>3. walk \in Nat /\ Len(edited) \in Nat
      BY <1>1 DEF UnrollTypeOK
    <3>. QED
      BY <3>1, <3>2, <3>3
  <2>3. CASE UNCHANGED unrollVars
    BY <2>3
  <2>. QED
    BY <1>1, <2>1, <2>2, <2>3 DEF UnrollNext
<1>. QED
  BY <1>1, LoopUnrollTypeOK, PTL DEF UnrollSpec, AlwaysShrinks

-----------------------------------------------------------------------------
(* Where the entries of the edited vector come from. *)

\* Position k of the edited vector repeats this position of the old one.
From(k) == IF k < walk THEN k ELSE k - BodySize

LEMMA ConcatAt ==
  ASSUME NEW S, NEW s \in Seq(S), NEW t \in Seq(S)
  PROVE  /\ s \o t \in Seq(S) /\ Len(s \o t) = Len(s) + Len(t)
         /\ \A k \in 1 .. Len(s) : (s \o t)[k] = s[k]
         /\ \A k \in 1 .. Len(t) : (s \o t)[Len(s) + k] = t[k]
<1>1. /\ s \o t \in Seq(S) /\ Len(s \o t) = Len(s) + Len(t)
      /\ \A k \in 1 .. Len(s) + Len(t) :
           (s \o t)[k] = IF k <= Len(s) THEN s[k] ELSE t[k - Len(s)]
  BY ConcatProperties
<1>2. Len(s) \in Nat /\ Len(t) \in Nat
  OBVIOUS
<1>3. \A k \in 1 .. Len(s) : k \in 1 .. Len(s) + Len(t) /\ k <= Len(s)
  BY <1>2
<1>4. \A k \in 1 .. Len(t) : /\ Len(s) + k \in 1 .. Len(s) + Len(t)
                             /\ ~(Len(s) + k <= Len(s)) /\ (Len(s) + k) - Len(s) = k
  BY <1>2
<1>. QED
  BY <1>1, <1>3, <1>4

LEMMA UnrolledFrom ==
  ASSUME UnrollTypeOK, Unroll
  PROVE  \A k \in 1 .. Len(edited') :
           From(k) \in 1 .. Len(edited) /\ edited'[k].src = edited[From(k)].src
<1> DEFINE b == BodySize
           Front == SubSeq(edited, 1, walk - 1)
           Copy == SubSeq(edited, walk - b, walk - 1)
           Add == <<Scaled(edited[walk])>>
           Back == SubSeq(edited, walk + 1, Len(edited))
<1>1. /\ Len(edited) \in Nat /\ edited \in Seq(Entry)
      /\ walk \in 1 .. Len(edited) - 2
  <2>1. source \in Seq(UnrollInst) /\ edited \in Seq(Entry) /\ walk \in 1 .. Len(edited) + 1
    BY DEF UnrollTypeOK, Entry
  <2>2. Len(edited) \in Nat /\ walk + 2 <= Len(edited)
    BY <2>1 DEF Unroll, Running
  <2>. QED
    BY <2>1, <2>2
<1>2. b \in 1 .. walk - 1 /\ Len(edited') = Len(edited) + b
  BY Unrolled
<1>3. edited' = Front \o Copy \o Add \o Back
  BY DEF Unroll
<1>4. \A k : From(k) = IF k < walk THEN k ELSE k - b
  BY DEF From
<1>5. edited[walk] \in Entry /\ Scaled(edited[walk]).src = edited[walk].src /\ Scaled(edited[walk]) \in Entry
  <2>1. edited[walk] \in Entry
    BY <1>1
  <2>2. \A n \in Nat : n * Factor \in Nat
    BY UnrollAssumption
  <2>. QED
    BY <2>1, <2>2 DEF Scaled, Entry
<1> HIDE DEF b
<1>6. /\ Front \in Seq(Entry) /\ Len(Front) = walk - 1
      /\ \A k \in 1 .. walk - 1 : Front[k] = edited[k]
  BY <1>1
<1>7. /\ Copy \in Seq(Entry) /\ Len(Copy) = b
      /\ \A k \in 1 .. b : Copy[k] = edited[(walk - b) + k - 1]
  BY <1>1, <1>2
<1>8. /\ Add \in Seq(Entry) /\ Len(Add) = 1 /\ Add[1] = Scaled(edited[walk])
  BY <1>5
<1>9. /\ Back \in Seq(Entry) /\ Len(Back) = Len(edited) - walk
      /\ \A k \in 1 .. Len(edited) - walk : Back[k] = edited[walk + k]
  BY <1>1
<1> HIDE DEF Front, Copy, Add, Back
<1> DEFINE FC == Front \o Copy
           FCA == FC \o Add
<1>10. /\ FC \in Seq(Entry) /\ Len(FC) = (walk - 1) + b
       /\ \A k \in 1 .. walk - 1 : FC[k] = edited[k]
       /\ \A k \in 1 .. b : FC[(walk - 1) + k] = edited[(walk - b) + k - 1]
  <2>1. Front \in Seq(Entry) /\ Copy \in Seq(Entry)
    BY <1>6, <1>7
  <2>2. /\ Front \o Copy \in Seq(Entry) /\ Len(Front \o Copy) = Len(Front) + Len(Copy)
        /\ \A k \in 1 .. Len(Front) : (Front \o Copy)[k] = Front[k]
        /\ \A k \in 1 .. Len(Copy) : (Front \o Copy)[Len(Front) + k] = Copy[k]
    BY <2>1, ConcatAt
  <2>3. Len(Front) + Len(Copy) = (walk - 1) + b
    BY <1>6, <1>7
  <2>4. \A k \in 1 .. b : (Front \o Copy)[(walk - 1) + k] = Copy[k]
    BY <1>6, <1>7, <2>2
  <2>. QED
    BY <1>6, <1>7, <2>2, <2>3, <2>4
<1> HIDE DEF FC
<1>11. /\ FCA \in Seq(Entry) /\ Len(FCA) = walk + b
       /\ \A k \in 1 .. (walk - 1) + b : FCA[k] = FC[k]
       /\ FCA[walk + b] = Scaled(edited[walk])
  <2>1. /\ FC \o Add \in Seq(Entry) /\ Len(FC \o Add) = Len(FC) + Len(Add)
        /\ \A k \in 1 .. Len(FC) : (FC \o Add)[k] = FC[k]
        /\ \A k \in 1 .. Len(Add) : (FC \o Add)[Len(FC) + k] = Add[k]
    <3>1. FC \in Seq(Entry) /\ Add \in Seq(Entry)
      BY <1>8, <1>10
    <3>. QED
      BY <3>1, ConcatAt
  <2>2. Len(FC) + 1 = walk + b /\ 1 \in 1 .. Len(Add)
    BY <1>1, <1>2, <1>8, <1>10
  <2>3. FCA[walk + b] = Scaled(edited[walk])
    BY <1>8, <2>1, <2>2
  <2>. QED
    BY <1>8, <1>10, <2>1, <2>2, <2>3
<1> HIDE DEF FCA
<1>12. /\ \A k \in 1 .. walk + b : (FCA \o Back)[k] = FCA[k]
       /\ \A k \in 1 .. Len(edited) - walk : (FCA \o Back)[(walk + b) + k] = edited[walk + k]
  BY <1>9, <1>11, ConcatAt
<1>13. edited' = FCA \o Back
  BY <1>3 DEF FC, FCA
<1>14. SUFFICES ASSUME NEW k \in 1 .. Len(edited) + b
                PROVE  /\ (IF k < walk THEN k ELSE k - b) \in 1 .. Len(edited)
                       /\ edited'[k].src = edited[IF k < walk THEN k ELSE k - b].src
  BY <1>2, <1>4
<1>15. CASE k < walk
  <2>1. k \in 1 .. walk - 1 /\ k \in 1 .. (walk - 1) + b /\ k \in 1 .. walk + b /\ k \in 1 .. Len(edited)
    BY <1>1, <1>2, <1>15
  <2>2. edited'[k] = edited[k]
    BY <1>10, <1>11, <1>12, <1>13, <2>1
  <2>. QED
    BY <1>15, <2>1, <2>2
<1>16. CASE k >= walk /\ k < walk + b
  <2> DEFINE j == k - (walk - 1)
  <2>1. /\ j \in 1 .. b /\ (walk - 1) + j = k /\ (walk - b) + j - 1 = k - b
        /\ k \in 1 .. (walk - 1) + b /\ k \in 1 .. walk + b /\ k - b \in 1 .. Len(edited) /\ ~(k < walk)
    BY <1>1, <1>2, <1>16
  <2>2. FC[k] = edited[k - b]
    <3> HIDE DEF j
    <3>. QED
      BY <1>10, <2>1
  <2>3. edited'[k] = edited[k - b]
    BY <1>11, <1>12, <1>13, <2>1, <2>2
  <2>. QED
    BY <2>1, <2>3
<1>17. CASE k = walk + b
  <2>1. k \in 1 .. walk + b /\ k - b = walk /\ ~(k < walk) /\ k - b \in 1 .. Len(edited)
    BY <1>1, <1>2, <1>17
  <2>2. edited'[k] = Scaled(edited[walk])
    BY <1>11, <1>12, <1>13, <1>17, <2>1
  <2>. QED
    BY <1>5, <2>1, <2>2
<1>18. CASE k > walk + b
  <2> DEFINE j == k - (walk + b)
  <2>1. /\ j \in 1 .. Len(edited) - walk /\ (walk + b) + j = k /\ walk + j = k - b /\ ~(k < walk)
        /\ k - b \in 1 .. Len(edited)
    BY <1>1, <1>2, <1>18
  <2>2. edited'[k] = edited[k - b]
    <3> HIDE DEF j
    <3>. QED
      BY <1>12, <1>13, <2>1
  <2>. QED
    BY <2>1, <2>2
<1>. QED
  BY <1>1, <1>2, <1>15, <1>16, <1>17, <1>18

-----------------------------------------------------------------------------
(* The inductive invariant behind CopiedOnce and CopiesAreBlocks. *)

LEMMA UnrollStarts == UnrollInit => UnrollInv
<1>. SUFFICES ASSUME UnrollInit PROVE UnrollInv
  OBVIOUS
<1>1. UnrollTypeOK
  BY UnrollTypeStarts
<1>2. Len(source) \in Nat /\ Len(edited) = Len(source) /\ walk = 1
      /\ \A k \in 1 .. Len(source) : edited[k].src = k
  BY <1>1 DEF UnrollInit, UnrollTypeOK
<1>3. Grown = 0
  BY <1>2 DEF Grown
<1>4. TailUntouched /\ NothingLost
  BY <1>2, <1>3 DEF TailUntouched, NothingLost
<1>5. \A a, b \in 1 .. Len(edited) : SameSource(a, b) => a = b
  BY <1>2 DEF SameSource
<1>6. CopiesSealed /\ NoThird /\ BlocksRepeat
  BY <1>2, <1>5 DEF CopiesSealed, NoThird, BlocksRepeat
<1>. QED
  BY <1>1, <1>4, <1>6 DEF UnrollInv

\* An instruction of a body about to be copied occurs once: a copy of it would
\* have a branch behind it that lies inside the body.
LEMMA BodyUnique ==
  ASSUME UnrollInv, Unroll, NEW j \in walk - BodySize .. walk - 1, NEW m \in 1 .. Len(edited),
         SameSource(j, m)
  PROVE  m = j
<1> DEFINE b == BodySize
<1>1. Len(edited) \in Nat /\ walk \in 1 .. Len(edited) + 1 /\ b \in 1 .. walk - 1
  BY Unrolled DEF UnrollInv, UnrollTypeOK
<1>2. \A k \in walk - b .. walk - 1 : KindOf(k) # "BRA"
  BY DEF Unroll, BodyIsStraight
<1>3. j \in walk - b .. walk - 1
  OBVIOUS
<1> HIDE DEF b
<1>4. j \in 1 .. Len(edited) /\ j \in Int
  BY <1>1, <1>3
<1>5. ASSUME m # j PROVE FALSE
  <2>1. PICK q \in j + 1 .. walk - 1 : KindOf(q) = "BRA"
    <3>1. CASE j < m
      <4>1. PICK q \in m + 1 .. walk - 1 : KindOf(q) = "BRA"
        BY <1>4, <3>1 DEF UnrollInv, CopiesSealed
      <4>2. q \in j + 1 .. walk - 1
        BY <1>1, <1>4, <3>1
      <4>. QED
        BY <4>1, <4>2
    <3>2. CASE m < j
      <4>1. SameSource(m, j)
        BY DEF SameSource
      <4>. QED
        BY <1>4, <3>2, <4>1 DEF UnrollInv, CopiesSealed
    <3>. QED
      BY <1>4, <1>5, <3>1, <3>2
  <2>2. q \in walk - b .. walk - 1
    BY <1>1, <1>3, <2>1
  <2>. QED
    BY <1>2, <2>1, <2>2
<1>. QED
  BY <1>5

\* What Unroll does, in terms of From: the facts its proof works with.
LEMMA UnrollFacts ==
  ASSUME UnrollInv, Unroll
  PROVE  /\ Len(source) \in Nat /\ Len(edited) \in Nat /\ walk \in 1 .. Len(edited) - 2
         /\ BodySize \in 1 .. walk - 1 /\ BodySize <= MaxBody /\ MaxBody \in Nat
         /\ Len(edited') = Len(edited) + BodySize /\ walk' = walk + BodySize + 3
         /\ source' = source /\ Grown' = Grown + BodySize /\ Grown \in Int
         /\ \A k \in 1 .. Len(edited) : edited[k].src \in 1 .. Len(source)
         /\ KindOf(walk + 2) = "BRA"
         /\ \A k \in walk - BodySize .. walk - 1 : KindOf(k) \notin {"BRA", "branch"}
<1>1. source \in Seq(UnrollInst) /\ edited \in Seq(Entry) /\ walk \in 1 .. Len(edited) + 1
  BY DEF UnrollInv, UnrollTypeOK, Entry
<1>2. /\ Len(source) \in Nat /\ Len(edited) \in Nat /\ walk \in 1 .. Len(edited) - 2
      /\ \A k \in 1 .. Len(edited) : edited[k].src \in 1 .. Len(source)
  <2>1. \A k \in 1 .. Len(edited) : edited[k] \in Entry
    BY <1>1
  <2>2. Len(source) \in Nat /\ Len(edited) \in Nat /\ walk + 2 <= Len(edited)
    BY <1>1 DEF Unroll, Running
  <2>. QED
    BY <1>1, <2>1, <2>2 DEF Entry
<1>3. BodySize \in 1 .. walk - 1 /\ Len(edited') = Len(edited) + BodySize
  BY Unrolled DEF UnrollInv
<1>4. BodySize <= MaxBody /\ MaxBody \in Nat
  BY <1>2, UnrollAssumption DEF BodySize
<1>5. walk' = walk + BodySize + 3 /\ source' = source
  BY DEF Unroll, PastLoop
<1>6. Grown \in Int /\ Grown' = Grown + BodySize
  BY <1>2, <1>3, <1>5 DEF Grown
<1>7. /\ KindOf(walk + 2) = "BRA"
      /\ \A k \in walk - BodySize .. walk - 1 : KindOf(k) \notin {"BRA", "branch"}
  BY DEF Unroll, AtLoopEnd, BodyIsStraight
<1>. QED
  BY <1>2, <1>3, <1>4, <1>5, <1>6, <1>7

\* Two entries of the edited vector with one source are an instruction of the
\* body and its copy, or were there before and lie in front of the body.
LEMMA PairAfter ==
  ASSUME UnrollInv, Unroll, NEW a \in 1 .. Len(edited'), NEW c \in 1 .. Len(edited'),
         a < c, edited'[a].src = edited'[c].src
  PROVE  \/ a \in walk - BodySize .. walk - 1 /\ c = a + BodySize
         \/ /\ a < walk - BodySize /\ c < walk - BodySize
            /\ a \in 1 .. Len(edited) /\ c \in 1 .. Len(edited)
            /\ SameSource(a, c)
<1> DEFINE b == BodySize
           x == IF a < walk THEN a ELSE a - b
           y == IF c < walk THEN c ELSE c - b
<1>1. /\ Len(edited) \in Nat /\ walk \in 1 .. Len(edited) - 2 /\ b \in 1 .. walk - 1
      /\ Len(edited') = Len(edited) + b
      /\ \A k \in walk - b .. walk - 1 : KindOf(k) # "BRA"
  BY UnrollFacts
<1>2. x \in 1 .. Len(edited) /\ y \in 1 .. Len(edited) /\ edited[x].src = edited[y].src
  BY UnrolledFrom DEF UnrollInv, From
<1>3. /\ x \in walk - b .. walk - 1 => x = y
      /\ y \in walk - b .. walk - 1 => x = y
  <2> HIDE DEF x, y
  <2>1. SameSource(x, y) /\ SameSource(y, x)
    BY <1>2 DEF SameSource
  <2>. QED
    BY <1>2, <2>1, BodyUnique
<1> HIDE DEF b
<1>4. a \in Int /\ c \in Int /\ x \in Int /\ y \in Int
  BY <1>1
<1>5. CASE x = y
  <2>1. a \in walk - b .. walk - 1 /\ c = a + b
    BY <1>1, <1>4, <1>5
  <2>. QED
    BY <2>1 DEF b
<1>6. CASE x # y
  <2>1. PICK q \in 1 .. walk - 1 : KindOf(q) = "BRA" /\ q > x /\ q > y
    <3>1. ASSUME NEW u \in 1 .. Len(edited), NEW v \in 1 .. Len(edited), u < v,
                 edited[u].src = edited[v].src
          PROVE  \E q \in 1 .. walk - 1 : KindOf(q) = "BRA" /\ q > u /\ q > v
      <4>1. PICK q \in v + 1 .. walk - 1 : KindOf(q) = "BRA"
        BY <3>1 DEF UnrollInv, CopiesSealed, SameSource
      <4>. QED
        BY <1>1, <3>1, <4>1
    <3> HIDE DEF x, y
    <3>2. x < y \/ y < x
      BY <1>4, <1>6
    <3>. QED
      BY <1>2, <3>1, <3>2
  <2>2. q < walk - b
    <3>1. q \notin walk - b .. walk - 1
      BY <1>1, <2>1
    <3>. QED
      BY <1>1, <2>1, <3>1
  <2>3. x < walk - b /\ y < walk - b
    BY <1>1, <1>4, <2>1, <2>2
  <2>4. a = x /\ c = y
    BY <1>1, <1>4, <2>3
  <2>. QED
    BY <1>2, <2>3, <2>4 DEF SameSource, b
<1>. QED
  BY <1>5, <1>6

\* Every position of the old vector is found again, and a position of the body
\* twice.
LEMMA FromOnto ==
  ASSUME UnrollInv, Unroll, NEW m \in 1 .. Len(edited)
  PROVE  /\ m < walk => m \in 1 .. Len(edited') /\ edited'[m].src = edited[m].src
         /\ m >= walk - BodySize =>
              m + BodySize \in 1 .. Len(edited') /\ edited'[m + BodySize].src = edited[m].src
<1> DEFINE b == BodySize
<1>1. /\ Len(edited) \in Nat /\ walk \in 1 .. Len(edited) - 2 /\ b \in 1 .. walk - 1
      /\ Len(edited') = Len(edited) + b
  BY UnrollFacts
<1>2. \A k \in 1 .. Len(edited') : edited'[k].src = edited[IF k < walk THEN k ELSE k - b].src
  BY UnrolledFrom DEF UnrollInv, From
<1> HIDE DEF b
<1>3. CASE m < walk
  <2>1. m \in 1 .. Len(edited')
    BY <1>1
  <2>2. edited'[m].src = edited[m].src
    BY <1>2, <1>3, <2>1
  <2>3. ASSUME m >= walk - b PROVE m + b \in 1 .. Len(edited') /\ edited'[m + b].src = edited[m].src
    <3>1. m + b \in 1 .. Len(edited') /\ ~(m + b < walk) /\ (m + b) - b = m
      BY <1>1, <2>3
    <3>. QED
      BY <1>2, <3>1
  <2>. QED
    BY <2>1, <2>2, <2>3 DEF b
<1>4. CASE ~(m < walk)
  <2>1. m + b \in 1 .. Len(edited') /\ ~(m + b < walk) /\ (m + b) - b = m
    BY <1>1, <1>4
  <2>2. edited'[m + b].src = edited[m].src
    BY <1>2, <2>1
  <2>. QED
    BY <1>4, <2>1, <2>2 DEF b
<1>. QED
  BY <1>3, <1>4

LEMMA UnrollTail == UnrollInv /\ Unroll => TailUntouched' /\ NothingLost'
<1>. SUFFICES ASSUME UnrollInv, Unroll PROVE TailUntouched' /\ NothingLost'
  OBVIOUS
<1> DEFINE b == BodySize
<1>1. /\ Len(source) \in Nat /\ Len(edited) \in Nat /\ walk \in 1 .. Len(edited) - 2
      /\ b \in 1 .. walk - 1 /\ Len(edited') = Len(edited) + b /\ walk' = walk + b + 3
      /\ source' = source /\ Grown' = Grown + b /\ Grown \in Int
      /\ \A k \in 1 .. Len(edited) : edited[k].src \in 1 .. Len(source)
  BY UnrollFacts
<1>2. \A k \in 1 .. Len(edited') :
        /\ (IF k < walk THEN k ELSE k - b) \in 1 .. Len(edited)
        /\ edited'[k].src = edited[IF k < walk THEN k ELSE k - b].src
  BY UnrolledFrom DEF UnrollInv, From
<1>3. \A m \in 1 .. Len(edited) :
        /\ m < walk => m \in 1 .. Len(edited') /\ edited'[m].src = edited[m].src
        /\ m >= walk - b => m + b \in 1 .. Len(edited') /\ edited'[m + b].src = edited[m].src
  BY FromOnto
<1>4. /\ \A k \in walk .. Len(edited) : edited[k].src = k - Grown
      /\ \A k \in 1 .. walk - 1 : edited[k].src < walk - Grown
  BY DEF UnrollInv, TailUntouched
<1> HIDE DEF b
<1>5. ASSUME NEW k \in walk + b + 3 .. Len(edited') PROVE edited'[k].src = k - (Grown + b)
  <2>1. k \in 1 .. Len(edited') /\ ~(k < walk) /\ k - b \in walk .. Len(edited)
    BY <1>1
  <2>2. edited'[k].src = (k - b) - Grown
    BY <1>2, <1>4, <2>1
  <2>. QED
    BY <1>1, <2>2
<1>6. ASSUME NEW k \in 1 .. walk + b + 2 PROVE edited'[k].src < (walk + b + 3) - (Grown + b)
  <2>1. k \in 1 .. Len(edited')
    BY <1>1
  <2>2. CASE k < walk
    <3>1. k \in 1 .. walk - 1 /\ edited'[k].src = edited[k].src
      BY <1>1, <1>2, <2>1, <2>2
    <3>2. edited[k].src < walk - Grown /\ edited[k].src \in Int
      BY <1>1, <1>4, <3>1
    <3>. QED
      BY <1>1, <3>1, <3>2
  <2>3. CASE ~(k < walk)
    <3>1. edited'[k].src = edited[k - b].src /\ k - b \in 1 .. Len(edited) /\ k - b < walk + 3
      BY <1>1, <1>2, <2>1, <2>3
    <3>2. CASE k - b < walk
      <4>1. k - b \in 1 .. walk - 1
        BY <1>1, <3>1, <3>2
      <4>. QED
        BY <1>1, <1>4, <3>1, <4>1
    <3>3. CASE ~(k - b < walk)
      <4>1. k - b \in walk .. Len(edited)
        BY <1>1, <3>1, <3>3
      <4>. QED
        BY <1>1, <1>4, <3>1, <4>1
    <3>. QED
      BY <3>2, <3>3
  <2>. QED
    BY <2>2, <2>3
<1>7. TailUntouched'
  <2>1. walk' - 1 = walk + b + 2
    BY <1>1
  <2>. QED
    BY <1>1, <1>5, <1>6, <2>1 DEF TailUntouched
<1>8. NothingLost'
  <2>1. ASSUME NEW s \in 1 .. Len(source) PROVE \E k \in 1 .. Len(edited') : edited'[k].src = s
    <3>1. PICK m \in 1 .. Len(edited) : edited[m].src = s
      BY DEF UnrollInv, NothingLost
    <3>2. m < walk \/ m >= walk - b
      BY <1>1
    <3>. QED
      BY <1>3, <3>1, <3>2
  <2>. QED
    BY <1>1, <2>1 DEF NothingLost
<1>. QED
  BY <1>7, <1>8

LEMMA UnrollPairs == UnrollInv /\ Unroll => CopiesSealed' /\ NoThird' /\ BlocksRepeat'
<1>. SUFFICES ASSUME UnrollInv, Unroll PROVE CopiesSealed' /\ NoThird' /\ BlocksRepeat'
  OBVIOUS
<1> DEFINE b == BodySize
<1>1. /\ Len(source) \in Nat /\ Len(edited) \in Nat /\ walk \in 1 .. Len(edited) - 2
      /\ b \in 1 .. walk - 1 /\ b <= MaxBody /\ MaxBody \in Nat
      /\ Len(edited') = Len(edited) + b /\ walk' = walk + b + 3 /\ source' = source
      /\ KindOf(walk + 2) = "BRA"
      /\ \A k \in walk - b .. walk - 1 : KindOf(k) \notin {"BRA", "branch"}
  BY UnrollFacts
<1>2. \A m \in 1 .. Len(edited) :
        /\ m < walk => m \in 1 .. Len(edited') /\ edited'[m].src = edited[m].src
        /\ m >= walk - b => m + b \in 1 .. Len(edited') /\ edited'[m + b].src = edited[m].src
  BY FromOnto
<1>3. ASSUME NEW a \in 1 .. Len(edited'), NEW c \in 1 .. Len(edited'),
             a < c, edited'[a].src = edited'[c].src
      PROVE  \/ a \in walk - b .. walk - 1 /\ c = a + b
             \/ /\ a < walk - b /\ c < walk - b
                /\ a \in 1 .. Len(edited) /\ c \in 1 .. Len(edited) /\ SameSource(a, c)
  BY <1>3, PairAfter
<1> HIDE DEF b
<1>4. CopiesSealed'
  <2>1. ASSUME NEW a \in 1 .. Len(edited'), NEW c \in 1 .. Len(edited'),
               a < c, edited'[a].src = edited'[c].src
        PROVE  \E q \in c + 1 .. walk' - 1 : source[edited'[q].src].kind = "BRA"
    <3>1. walk + 2 \in 1 .. Len(edited) /\ walk + 2 >= walk - b
      BY <1>1
    <3>2. edited'[(walk + 2) + b].src = edited[walk + 2].src
      BY <1>2, <3>1
    <3>3. source[edited'[(walk + 2) + b].src].kind = "BRA"
      BY <1>1, <3>2 DEF KindOf
    <3>4. c < walk + b
      BY <1>1, <1>3, <2>1
    <3>5. (walk + 2) + b \in c + 1 .. walk' - 1
      BY <1>1, <3>4
    <3>. QED
      BY <3>3, <3>5
  <2>. QED
    BY <1>1, <2>1 DEF CopiesSealed, SameSource, KindOf
<1>5. NoThird'
  <2>1. ASSUME NEW x \in 1 .. Len(edited'), NEW y \in 1 .. Len(edited'), NEW z \in 1 .. Len(edited'),
               x < y, y < z, edited'[x].src = edited'[y].src, edited'[y].src = edited'[z].src
        PROVE  FALSE
    <3>1. \/ x \in walk - b .. walk - 1 /\ y = x + b
          \/ /\ x < walk - b /\ y < walk - b
             /\ x \in 1 .. Len(edited) /\ y \in 1 .. Len(edited) /\ SameSource(x, y)
      BY <1>3, <2>1
    <3>2. \/ y \in walk - b .. walk - 1 /\ z = y + b
          \/ /\ y < walk - b /\ z < walk - b
             /\ y \in 1 .. Len(edited) /\ z \in 1 .. Len(edited) /\ SameSource(y, z)
      BY <1>3, <2>1
    <3>3. /\ x \in 1 .. Len(edited) /\ y \in 1 .. Len(edited) /\ z \in 1 .. Len(edited)
          /\ SameSource(x, y) /\ SameSource(y, z)
      BY <1>1, <3>1, <3>2
    <3>4. SameSource(x, z) /\ x # y /\ y # z /\ x # z
      BY <2>1, <3>3 DEF SameSource
    <3>. QED
      BY <3>3, <3>4 DEF UnrollInv, NoThird
  <2>2. ASSUME NEW x \in 1 .. Len(edited'), NEW y \in 1 .. Len(edited'), NEW z \in 1 .. Len(edited'),
               edited'[x].src = edited'[y].src, edited'[x].src = edited'[z].src,
               x # y, x # z, y # z
        PROVE  FALSE
    <3>1. \/ x < y /\ y < z
          \/ x < z /\ z < y
          \/ y < x /\ x < z
          \/ y < z /\ z < x
          \/ z < x /\ x < y
          \/ z < y /\ y < x
      <4>1. x \in Int /\ y \in Int /\ z \in Int
        BY <1>1
      <4>2. x # y /\ x # z /\ y # z
        BY <2>2
      <4>. QED
        BY <4>1, <4>2
    <3>. QED
      BY <2>1, <2>2, <3>1
  <2>. QED
    BY <2>2 DEF NoThird, SameSource
<1>6. BlocksRepeat'
  <2>1. ASSUME NEW a \in 1 .. Len(edited'), NEW c \in 1 .. Len(edited'),
               a < c, edited'[a].src = edited'[c].src
        PROVE  /\ c - a <= MaxBody
               /\ source[edited'[a].src].kind \notin {"BRA", "branch"}
               /\ \A k \in a .. c - 1 :
                    \E m \in 1 .. Len(edited') : m # k /\ edited'[k].src = edited'[m].src
    <3>1. CASE a \in walk - b .. walk - 1 /\ c = a + b
      <4>0. a \in 1 .. Len(edited) /\ a < walk /\ a \in Int
        BY <1>1, <3>1
      <4>1. edited'[a].src = edited[a].src
        BY <1>2, <4>0
      <4>2. c - a <= MaxBody /\ source[edited'[a].src].kind \notin {"BRA", "branch"}
        <5>1. c - a <= MaxBody
          BY <1>1, <3>1, <4>0
        <5>2. KindOf(a) \notin {"BRA", "branch"}
          BY <1>1, <3>1
        <5>. QED
          BY <4>1, <5>1, <5>2 DEF KindOf
      <4>3. ASSUME NEW k \in a .. c - 1
            PROVE  \E m \in 1 .. Len(edited') : m # k /\ edited'[k].src = edited'[m].src
        <5>1. CASE k < walk
          <6>1. k \in 1 .. Len(edited) /\ k >= walk - b
            BY <1>1, <3>1, <5>1
          <6>2. edited'[k].src = edited[k].src /\ k + b \in 1 .. Len(edited') /\ edited'[k + b].src = edited[k].src
            BY <1>2, <5>1, <6>1
          <6>3. k + b # k
            BY <1>1, <6>1
          <6>. QED
            BY <6>2, <6>3
        <5>2. CASE ~(k < walk)
          <6>1. k - b \in 1 .. Len(edited) /\ k - b >= walk - b /\ k - b < walk /\ (k - b) + b = k /\ k - b # k
            BY <1>1, <3>1, <5>2
          <6>2. k - b \in 1 .. Len(edited') /\ edited'[k - b].src = edited[k - b].src
                /\ edited'[k].src = edited[k - b].src
            BY <1>2, <6>1
          <6>. QED
            BY <6>1, <6>2
        <5>. QED
          BY <5>1, <5>2
      <4>. QED
        BY <4>2, <4>3
    <3>2. CASE /\ a < walk - b /\ c < walk - b
               /\ a \in 1 .. Len(edited) /\ c \in 1 .. Len(edited) /\ SameSource(a, c)
      <4>1. /\ c - a <= MaxBody
            /\ KindOf(a) \notin {"BRA", "branch"}
            /\ \A k \in a .. c - 1 : \E m \in 1 .. Len(edited) : m # k /\ SameSource(k, m)
        <5>1. BlocksRepeat
          BY DEF UnrollInv
        <5>. QED
          BY <2>1, <3>2, <5>1 DEF BlocksRepeat
      <4>2. edited'[a].src = edited[a].src
        <5>1. a \in 1 .. Len(edited) /\ a < walk
          BY <1>1, <3>2
        <5>. QED
          BY <1>2, <5>1
      <4>3. source[edited'[a].src].kind \notin {"BRA", "branch"}
        BY <4>1, <4>2 DEF KindOf
      <4>4. ASSUME NEW k \in a .. c - 1
            PROVE  \E m \in 1 .. Len(edited') : m # k /\ edited'[k].src = edited'[m].src
        <5>1. k \in 1 .. Len(edited) /\ k < walk - b /\ k < walk
          BY <1>1, <3>2
        <5>2. edited'[k].src = edited[k].src
          BY <1>2, <5>1
        <5>3. PICK m \in 1 .. Len(edited) : m # k /\ edited[k].src = edited[m].src
          BY <4>1 DEF SameSource
        <5>4. CASE m < walk
          BY <1>2, <5>2, <5>3, <5>4
        <5>5. CASE ~(m < walk)
          <6>1. m >= walk - b /\ m + b # k
            BY <1>1, <5>1, <5>5
          <6>. QED
            BY <1>2, <5>2, <5>3, <6>1
        <5>. QED
          BY <5>4, <5>5
      <4>. QED
        BY <4>1, <4>3, <4>4
    <3>. QED
      BY <1>3, <2>1, <3>1, <3>2
  <2>. QED
    BY <1>1, <2>1 DEF BlocksRepeat, SameSource, KindOf
<1>. QED
  BY <1>4, <1>5, <1>6

LEMMA UnrollKept == UnrollInv /\ [UnrollNext]_unrollVars => UnrollInv'
<1>. SUFFICES ASSUME UnrollInv, [UnrollNext]_unrollVars PROVE UnrollInv'
  OBVIOUS
<1>1. UnrollTypeOK'
  BY UnrollTypeKept DEF UnrollInv
<1>2. CASE UnrollStep
  <2>1. /\ walk' = walk + 1 /\ source' = source /\ edited' = edited /\ walk \in Nat /\ walk + 2 <= Len(edited)
        /\ Len(edited) \in Nat /\ Len(source) \in Nat
    BY <1>2 DEF UnrollStep, Running, UnrollInv, UnrollTypeOK
  <2>2. Grown' = Grown /\ Grown \in Int
    BY <2>1 DEF Grown
  <2>3. TailUntouched'
    <3>1. /\ \A k \in walk .. Len(edited) : edited[k].src = k - Grown
          /\ \A k \in 1 .. walk - 1 : edited[k].src < walk - Grown
      BY DEF UnrollInv, TailUntouched
    <3>2. \A k \in walk + 1 .. Len(edited) : k \in walk .. Len(edited)
      BY <2>1
    <3>3. ASSUME NEW k \in 1 .. (walk + 1) - 1 PROVE edited[k].src < (walk + 1) - Grown
      <4>1. CASE k = walk
        <5>1. walk \in walk .. Len(edited)
          BY <2>1
        <5>. QED
          BY <2>1, <2>2, <3>1, <4>1, <5>1
      <4>2. CASE k # walk
        <5>1. k \in 1 .. walk - 1 /\ k \in 1 .. Len(edited)
          BY <2>1, <4>2
        <5>2. edited[k].src < walk - Grown /\ edited[k].src \in Int
          <6>1. edited \in Seq(Entry)
            BY DEF UnrollInv, UnrollTypeOK, Entry
          <6>2. edited[k] \in Entry
            BY <5>1, <6>1
          <6>3. edited[k].src \in Int
            BY <6>2 DEF Entry
          <6>. QED
            BY <3>1, <5>1, <6>3
        <5>. QED
          BY <2>1, <2>2, <5>2
      <4>. QED
        BY <4>1, <4>2
    <3>. QED
      BY <2>1, <2>2, <3>1, <3>2, <3>3 DEF TailUntouched
  <2>4. CopiesSealed'
    <3>1. walk - 1 \in Int /\ \A q : q \in Int /\ q <= walk - 1 => q <= (walk + 1) - 1
      BY <2>1
    <3>2. ASSUME NEW a \in 1 .. Len(edited), NEW b \in 1 .. Len(edited), a < b, SameSource(a, b)
          PROVE  \E q \in b + 1 .. (walk + 1) - 1 : KindOf(q) = "BRA"
      BY <2>1, <3>1, <3>2 DEF UnrollInv, CopiesSealed
    <3>. QED
      BY <2>1, <3>2 DEF CopiesSealed, SameSource, KindOf
  <2>5. NothingLost' /\ NoThird' /\ BlocksRepeat'
    BY <2>1 DEF UnrollInv, NothingLost, NoThird, BlocksRepeat, SameSource, KindOf
  <2>. QED
    BY <1>1, <2>3, <2>4, <2>5 DEF UnrollInv
<1>3. CASE Unroll
  BY <1>1, <1>3, UnrollTail, UnrollPairs DEF UnrollInv
<1>4. CASE UNCHANGED unrollVars
  <2>1. source' = source /\ edited' = edited /\ walk' = walk
    BY <1>4 DEF unrollVars
  <2>. QED
    BY <1>1, <2>1 DEF UnrollInv, TailUntouched, NothingLost, CopiesSealed, NoThird, BlocksRepeat,
                     SameSource, KindOf, Grown
<1>. QED
  BY <1>2, <1>3, <1>4 DEF UnrollNext

\* Copies(s) has one element or two.
LEMMA CopyCount ==
  ASSUME UnrollInv, NEW s \in 1 .. Len(source)
  PROVE  /\ Cardinality(Copies(s)) \in 1 .. 2
         /\ \A a, b \in Copies(s) : a # b => Cardinality(Copies(s)) = 2
<1>1. PICK a \in Copies(s) : TRUE
  BY DEF UnrollInv, NothingLost, Copies
<1>2. \A x, y, z \in Copies(s) : x = y \/ x = z \/ y = z
  BY DEF UnrollInv, NoThird, SameSource, Copies
<1>3. CASE Copies(s) = {a}
  <2>1. Cardinality({a}) = 1
    BY FS_Singleton
  <2>. QED
    BY <1>3, <2>1
<1>4. CASE Copies(s) # {a}
  <2>1. PICK c \in Copies(s) : c # a
    BY <1>1, <1>4
  <2>2. Copies(s) = {a} \union {c}
    BY <1>1, <1>2, <2>1
  <2>3. IsFiniteSet({a}) /\ Cardinality({a}) = 1
    BY FS_Singleton
  <2>4. Cardinality({a} \union {c}) = 2
    BY <2>1, <2>3, FS_AddElement
  <2>. QED
    BY <2>2, <2>4
<1>. QED
  BY <1>3, <1>4

LEMMA UnrollInvariance == UnrollSpec => []UnrollInv
<1>. QED
  BY UnrollStarts, UnrollKept, PTL DEF UnrollSpec

\* For every program and body size, loop_unroll loses no instruction and
\* copies none twice.
THEOREM LoopUnrollCopiedOnce == UnrollSpec => []CopiedOnce
<1>1. UnrollInv => CopiedOnce
  BY CopyCount DEF CopiedOnce
<1>. QED
  BY <1>1, UnrollInvariance, PTL

\* A copied instruction is no branch, and its copy belongs to a repetition of
\* the block right in front of it.
THEOREM LoopUnrollCopiesAreBlocks == UnrollSpec => []CopiesAreBlocks
<1>1. ASSUME UnrollInv PROVE CopiesAreBlocks
  <2>1. SUFFICES ASSUME NEW s \in 1 .. Len(source), NEW a \in Copies(s), NEW b \in Copies(s), a < b
                 PROVE  /\ b - a <= MaxBody
                        /\ source[s].kind \notin {"BRA", "branch"}
                        /\ \A k \in a .. b - 1 : Cardinality(Copies(edited[k].src)) = 2
    BY DEF CopiesAreBlocks
  <2>2. a \in 1 .. Len(edited) /\ b \in 1 .. Len(edited) /\ edited[a].src = s /\ edited[b].src = s
    BY DEF Copies
  <2>3. /\ b - a <= MaxBody
        /\ KindOf(a) \notin {"BRA", "branch"}
        /\ \A k \in a .. b - 1 : \E m \in 1 .. Len(edited) : m # k /\ SameSource(k, m)
    BY <1>1, <2>1, <2>2 DEF UnrollInv, BlocksRepeat, SameSource
  <2>4. ASSUME NEW k \in a .. b - 1 PROVE Cardinality(Copies(edited[k].src)) = 2
    <3>1. PICK m \in 1 .. Len(edited) : m # k /\ SameSource(k, m)
      BY <2>3
    <3>2. k \in 1 .. Len(edited)
      BY <1>1, <2>2 DEF UnrollInv, UnrollTypeOK
    <3>3. k \in Copies(edited[k].src) /\ m \in Copies(edited[k].src)
      BY <3>1, <3>2 DEF Copies, SameSource
    <3>4. edited[k].src \in 1 .. Len(source)
      <4>1. edited \in Seq(Entry)
        BY <1>1 DEF UnrollInv, UnrollTypeOK, Entry
      <4>2. edited[k] \in Entry
        BY <3>2, <4>1
      <4>. QED
        BY <4>2 DEF Entry
    <3>. QED
      BY <1>1, <3>1, <3>3, <3>4, CopyCount
  <2>. QED
    BY <2>2, <2>3, <2>4 DEF KindOf
<1>. QED
  BY <1>1, UnrollInvariance, PTL

-----------------------------------------------------------------------------
(* avoid_bank_conflicts.                                                   *)

BankInv == BankTypeOK /\ AccessesInOrder

-----------------------------------------------------------------------------
(* Moving entry j of the vector to the place behind the walk.               *)

\* Where an entry of the edited vector was before the move.
Was(j, a) == IF a <= place THEN a ELSE IF a = place + 1 THEN j ELSE IF a <= j THEN a - 1 ELSE a

LEMMA Moved ==
  ASSUME order \in Seq(1 .. Len(listed)), Len(listed) \in Nat,
         NEW j \in 1 .. Len(order), place \in Nat, place >= 1, place + 2 <= j
  PROVE  /\ MoveBetween(j) \in Seq(1 .. Len(listed))
         /\ Len(MoveBetween(j)) = Len(order)
         /\ \A a \in 1 .. Len(order) : MoveBetween(j)[a] = order[Was(j, a)]
<1> DEFINE S == 1 .. Len(listed)
           n == Len(order)
           Front == SubSeq(order, 1, place)
           Item == <<order[j]>>
           Mid == SubSeq(order, place + 1, j - 1)
           Back == SubSeq(order, j + 1, Len(order))
<1>1. n \in Nat /\ j \in 1 .. n /\ \A a \in 1 .. n : order[a] \in S
  OBVIOUS
<1>2. Front \in Seq(S) /\ Len(Front) = place /\ \A a \in 1 .. place : Front[a] = order[a]
  <2>1. \A a \in 1 .. place : order[a] \in S
    BY <1>1
  <2>2. /\ Front \in Seq(S)
        /\ Len(Front) = IF 1 <= place THEN place - 1 + 1 ELSE 0
        /\ \A a \in 1 .. place - 1 + 1 : Front[a] = order[1 + a - 1]
    BY <2>1, SubSeqProperties
  <2>. QED
    BY <2>2
<1>3. Item \in Seq(S) /\ Len(Item) = 1 /\ Item[1] = order[j]
  BY <1>1
<1>4. /\ Mid \in Seq(S) /\ Len(Mid) = j - 1 - place
      /\ \A a \in 1 .. j - 1 - place : Mid[a] = order[place + a]
  <2>1. \A a \in place + 1 .. j - 1 : order[a] \in S
    BY <1>1
  <2>2. /\ Mid \in Seq(S)
        /\ Len(Mid) = IF place + 1 <= j - 1 THEN (j - 1) - (place + 1) + 1 ELSE 0
        /\ \A a \in 1 .. (j - 1) - (place + 1) + 1 : Mid[a] = order[(place + 1) + a - 1]
    BY <2>1, SubSeqProperties
  <2>3. (j - 1) - (place + 1) + 1 = j - 1 - place
    BY <1>1
  <2>4. \A a \in 1 .. j - 1 - place : (place + 1) + a - 1 = place + a
    BY <1>1
  <2> HIDE DEF Mid
  <2>. QED
    BY <1>1, <2>2, <2>3, <2>4
<1>5. /\ Back \in Seq(S) /\ Len(Back) = n - j
      /\ \A a \in 1 .. n - j : Back[a] = order[j + a]
  <2>1. \A a \in j + 1 .. n : order[a] \in S
    BY <1>1
  <2>2. /\ Back \in Seq(S)
        /\ Len(Back) = IF j + 1 <= n THEN n - (j + 1) + 1 ELSE 0
        /\ \A a \in 1 .. n - (j + 1) + 1 : Back[a] = order[(j + 1) + a - 1]
    BY <1>1, <2>1, SubSeqProperties
  <2>3. n - (j + 1) + 1 = n - j
    BY <1>1
  <2>4. \A a \in 1 .. n - j : (j + 1) + a - 1 = j + a
    BY <1>1
  <2> HIDE DEF Back, n
  <2>. QED
    BY <1>1, <2>2, <2>3, <2>4
<1>6. MoveBetween(j) = ((Front \o Item) \o Mid) \o Back
  <2>1. (place + 1) - 1 = place
    OBVIOUS
  <2>. QED
    BY <2>1 DEF MoveBetween, MoveTo
<1> HIDE DEF Front, Item, Mid, Back
<1>7. /\ Front \o Item \in Seq(S) /\ Len(Front \o Item) = Len(Front) + Len(Item)
      /\ \A a \in 1 .. Len(Front) + Len(Item) :
           (Front \o Item)[a] = IF a <= Len(Front) THEN Front[a] ELSE Item[a - Len(Front)]
  BY <1>2, <1>3, ConcatProperties
<1> DEFINE FI == Front \o Item
<1>8. /\ FI \in Seq(S) /\ Len(FI) = place + 1 /\ FI[place + 1] = order[j]
      /\ \A a \in 1 .. place : FI[a] = order[a]
  <2>1. Len(Front) + Len(Item) = place + 1 /\ (place + 1) - Len(Front) = 1
    BY <1>2, <1>3
  <2>2. place + 1 \in 1 .. place + 1 /\ ~ (place + 1 <= Len(Front))
    BY <1>2
  <2>3. \A a \in 1 .. place : a \in 1 .. place + 1 /\ a <= Len(Front)
    BY <1>2
  <2>4. FI[place + 1] = order[j]
    BY <1>3, <1>7, <2>1, <2>2
  <2>5. \A a \in 1 .. place : FI[a] = order[a]
    BY <1>2, <1>7, <2>1, <2>3
  <2>. QED
    BY <1>7, <2>1, <2>4, <2>5
<1> HIDE DEF FI
<1>9. /\ FI \o Mid \in Seq(S) /\ Len(FI \o Mid) = Len(FI) + Len(Mid)
      /\ \A a \in 1 .. Len(FI) + Len(Mid) :
           (FI \o Mid)[a] = IF a <= Len(FI) THEN FI[a] ELSE Mid[a - Len(FI)]
  BY <1>4, <1>8, ConcatProperties
<1> DEFINE FIM == FI \o Mid
<1>10. /\ FIM \in Seq(S) /\ Len(FIM) = j /\ FIM[place + 1] = order[j]
       /\ \A a \in 1 .. place : FIM[a] = order[a]
       /\ \A a \in place + 2 .. j : FIM[a] = order[a - 1]
  <2>1. Len(FI) + Len(Mid) = j
    BY <1>1, <1>4, <1>8
  <2>2. \A a \in 1 .. place + 1 : a \in 1 .. j /\ a <= Len(FI)
    BY <1>8
  <2>3. ASSUME NEW a \in place + 2 .. j PROVE FIM[a] = order[a - 1]
    <3>1. a \in 1 .. j /\ ~ (a <= Len(FI)) /\ a - Len(FI) = a - (place + 1)
      BY <1>8
    <3>2. a - (place + 1) \in 1 .. j - 1 - place /\ place + (a - (place + 1)) = a - 1
      BY <1>1
    <3>3. FIM[a] = Mid[a - (place + 1)]
      BY <1>9, <2>1, <3>1
    <3>. QED
      BY <1>4, <3>2, <3>3
  <2>4. \A a \in 1 .. place + 1 : FIM[a] = FI[a]
    BY <1>9, <2>1, <2>2
  <2>5. FIM[place + 1] = order[j] /\ \A a \in 1 .. place : FIM[a] = order[a]
    <3>1. place + 1 \in 1 .. place + 1 /\ \A a \in 1 .. place : a \in 1 .. place + 1
      OBVIOUS
    <3>. QED
      BY <1>8, <2>4, <3>1
  <2>6. FIM \in Seq(S) /\ Len(FIM) = j
    BY <1>9, <2>1
  <2>. QED
    BY <2>3, <2>5, <2>6
<1> HIDE DEF FIM
<1>11. /\ FIM \o Back \in Seq(S) /\ Len(FIM \o Back) = Len(FIM) + Len(Back)
       /\ \A a \in 1 .. Len(FIM) + Len(Back) :
            (FIM \o Back)[a] = IF a <= Len(FIM) THEN FIM[a] ELSE Back[a - Len(FIM)]
  <2>1. FIM \in Seq(S) /\ Back \in Seq(S)
    BY <1>5, <1>10
  <2>. QED
    BY <2>1, ConcatProperties
<1>12. MoveBetween(j) = FIM \o Back
  BY <1>6 DEF FI, FIM
<1>13. Len(FIM) + Len(Back) = n
  <2> HIDE DEF n
  <2>. QED
    BY <1>1, <1>5, <1>10
<1>14. ASSUME NEW a \in 1 .. n PROVE MoveBetween(j)[a] = order[Was(j, a)]
  <2> HIDE DEF n
  <2>1. CASE a <= j
    <3>1. MoveBetween(j)[a] = FIM[a]
      BY <1>1, <1>10, <1>11, <1>12, <1>13, <2>1
    <3>2. a \in 1 .. place \/ a = place + 1 \/ a \in place + 2 .. j
      BY <1>1, <2>1
    <3>3. CASE a \in 1 .. place
      <4>1. Was(j, a) = a
        BY <3>3 DEF Was
      <4>. QED
        BY <1>10, <3>1, <3>3, <4>1
    <3>4. CASE a = place + 1
      <4>1. Was(j, a) = j
        BY <3>4 DEF Was
      <4>. QED
        BY <1>10, <3>1, <3>4, <4>1
    <3>5. CASE a \in place + 2 .. j
      <4>1. Was(j, a) = a - 1
        BY <3>5 DEF Was
      <4>. QED
        BY <1>10, <3>1, <3>5, <4>1
    <3>. QED
      BY <3>2, <3>3, <3>4, <3>5
  <2>2. CASE a > j
    <3>1. MoveBetween(j)[a] = Back[a - j]
      <4>1. a \in 1 .. Len(FIM) + Len(Back) /\ ~ (a <= Len(FIM)) /\ Len(FIM) = j
        BY <1>1, <1>10, <1>13, <2>2
      <4>. QED
        BY <1>11, <1>12, <4>1
    <3>2. a - j \in 1 .. n - j /\ j + (a - j) = a
      BY <1>1, <2>2
    <3>3. Was(j, a) = a
      BY <1>1, <2>2 DEF Was
    <3>. QED
      BY <1>5, <3>1, <3>2, <3>3
  <2>. QED
    BY <1>1, <2>1, <2>2
<1>. QED
  BY <1>11, <1>12, <1>13, <1>14

-----------------------------------------------------------------------------
LEMMA BankStarts == BankInit => BankInv
<1>. SUFFICES ASSUME BankInit PROVE BankInv
  OBVIOUS
<1>1. listed \in Seq(BankInst) /\ Len(listed) \in Nat /\ place = 1 /\ moved = {}
  BY BankAssumption DEF BankInit
<1>2. /\ order \in Seq(1 .. Len(listed)) /\ Len(order) = Len(listed)
      /\ \A k \in 1 .. Len(listed) : order[k] = k
  BY <1>1 DEF BankInit
<1>3. place \in 1 .. (IF listed = <<>> THEN 1 ELSE Len(listed))
  BY <1>1
<1>4. AccessesInOrder
  BY <1>1, <1>2 DEF AccessesInOrder
<1>. QED
  BY <1>1, <1>2, <1>3, <1>4 DEF BankInv, BankTypeOK

LEMMA SeparateStep ==
  ASSUME BankInv, NEW j \in Choices, Separate(j)
  PROVE  /\ BankInv'
         /\ \A k \in 1 .. place : order'[k] = order[k]
<1>1. /\ listed \in Seq(BankInst) /\ Len(listed) \in Nat /\ Len(order) = Len(listed)
      /\ order \in Seq(1 .. Len(listed)) /\ place \in Nat /\ place >= 1 /\ place + 1 <= Len(order)
      /\ listed' = listed /\ place' = place + 1 /\ moved' = moved \union {order[j]}
  BY DEF BankInv, BankTypeOK, AccessesInOrder, Separate
<1>2. j \in 1 .. Len(order) /\ place + 2 <= j /\ Movable(j)
  BY <1>1, BankAssumption DEF Choices, Behind
<1>3. /\ order' \in Seq(1 .. Len(listed)) /\ Len(order') = Len(order)
      /\ \A a \in 1 .. Len(order) : order'[a] = order[Was(j, a)]
  <2>1. order' = MoveBetween(j)
    BY DEF Separate
  <2>2. /\ order \in Seq(1 .. Len(listed)) /\ Len(listed) \in Nat
        /\ j \in 1 .. Len(order) /\ place \in Nat /\ place >= 1 /\ place + 2 <= j
    BY <1>1, <1>2
  <2>3. /\ MoveBetween(j) \in Seq(1 .. Len(listed)) /\ Len(MoveBetween(j)) = Len(order)
        /\ \A a \in 1 .. Len(order) : MoveBetween(j)[a] = order[Was(j, a)]
    BY <2>2, Moved
  <2>. QED
    BY <2>1, <2>3
<1>4. order[j] \in 1 .. Len(listed)
  BY <1>1, <1>2
<1>5. BankTypeOK'
  <2>1. listed # <<>>
    BY <1>1
  <2>2. moved' \in SUBSET (1 .. Len(listed))
    BY <1>1, <1>4 DEF BankInv, BankTypeOK
  <2>3. place' \in 1 .. Len(listed)
    BY <1>1
  <2>. QED
    BY <1>1, <1>3, <2>1, <2>2, <2>3 DEF BankTypeOK
<1>6. \A a \in 1 .. Len(order) : Was(j, a) \in 1 .. Len(order)
  BY <1>1, <1>2 DEF Was
<1>7. \A a, b \in 1 .. Len(order) :
        a < b => /\ Was(j, a) # Was(j, b)
                 /\ Was(j, a) # j /\ Was(j, b) # j => Was(j, a) < Was(j, b)
  <2>1. SUFFICES ASSUME NEW a \in 1 .. Len(order), NEW b \in 1 .. Len(order), a < b
                 PROVE  /\ Was(j, a) # Was(j, b)
                        /\ Was(j, a) # j /\ Was(j, b) # j => Was(j, a) < Was(j, b)
    OBVIOUS
  <2>0. a \in Int /\ b \in Int /\ j \in Int /\ place \in Int /\ place + 2 <= j
    BY <1>1, <1>2, <2>1
  <2>2. /\ a <= place => Was(j, a) = a
        /\ a = place + 1 => Was(j, a) = j
        /\ place + 1 < a /\ a <= j => Was(j, a) = a - 1
        /\ a > j => Was(j, a) = a
    BY <2>0 DEF Was
  <2>3. /\ b <= place => Was(j, b) = b
        /\ b = place + 1 => Was(j, b) = j
        /\ place + 1 < b /\ b <= j => Was(j, b) = b - 1
        /\ b > j => Was(j, b) = b
    BY <2>0 DEF Was
  <2>. QED
    BY <2>0, <2>1, <2>2, <2>3
<1>8. AccessesInOrder'
  <2>1. ASSUME NEW a \in 1 .. Len(order), NEW b \in 1 .. Len(order), a < b
        PROVE  /\ order'[a] # order'[b]
               /\ {order'[a], order'[b]} \intersect moved' = {} => order'[a] < order'[b]
    <3> DEFINE oa == Was(j, a)
               ob == Was(j, b)
    <3>1. /\ oa \in 1 .. Len(order) /\ ob \in 1 .. Len(order) /\ oa # ob
          /\ oa # j /\ ob # j => oa < ob
          /\ order'[a] = order[oa] /\ order'[b] = order[ob]
      BY <1>3, <1>6, <1>7, <2>1
    <3> HIDE DEF oa, ob
    <3>2. order[oa] # order[ob]
      <4>1. oa < ob \/ ob < oa
        BY <1>1, <3>1
      <4>. QED
        BY <3>1, <4>1 DEF BankInv, AccessesInOrder
    <3>3. ASSUME {order[oa], order[ob]} \intersect moved' = {} PROVE order[oa] < order[ob]
      <4>1. oa # j /\ ob # j /\ {order[oa], order[ob]} \intersect moved = {}
        BY <1>1, <3>3
      <4>. QED
        BY <3>1, <4>1 DEF BankInv, AccessesInOrder
    <3>. QED
      BY <3>1, <3>2, <3>3
  <2>2. \A m \in moved' : listed[m].kind \notin {"shared", "kept"}
    BY <1>1, <1>2 DEF BankInv, AccessesInOrder, Movable, KindAt
  <2>. QED
    BY <1>1, <1>3, <2>1, <2>2 DEF AccessesInOrder
<1>9. \A k \in 1 .. place : order'[k] = order[k]
  <2>1. \A k \in 1 .. place : k \in 1 .. Len(order) /\ Was(j, k) = k
    BY <1>1 DEF Was
  <2>. QED
    BY <1>3, <2>1
<1>. QED
  BY <1>5, <1>8, <1>9 DEF BankInv

LEMMA BankKept == BankInv /\ [BankNext]_bankVars => BankInv'
<1>. SUFFICES ASSUME BankInv, [BankNext]_bankVars PROVE BankInv'
  OBVIOUS
<1>1. CASE BankStep
  <2>1. /\ listed \in Seq(BankInst) /\ Len(listed) \in Nat /\ Len(order) = Len(listed)
        /\ place \in Nat /\ place >= 1 /\ place + 1 <= Len(order)
        /\ place' = place + 1 /\ UNCHANGED <<listed, order, moved>>
    BY <1>1 DEF BankInv, BankTypeOK, AccessesInOrder, BankStep
  <2>2. listed # <<>> /\ place' \in 1 .. Len(listed)
    BY <2>1
  <2>. QED
    BY <2>1, <2>2 DEF BankInv, BankTypeOK, AccessesInOrder
<1>2. ASSUME NEW j \in Choices, Separate(j) PROVE BankInv'
  BY <1>2, SeparateStep
<1>3. CASE UNCHANGED bankVars
  BY <1>3 DEF bankVars, BankInv, BankTypeOK, AccessesInOrder
<1>. QED
  BY <1>1, <1>2, <1>3 DEF BankNext

LEMMA BankInvariance == BankSpec => []BankInv
<1>. QED
  BY BankStarts, BankKept, PTL DEF BankSpec

\* The walk and the places it edits stay inside the vector.
THEOREM BankTypeTheorem == BankSpec => []BankTypeOK
<1>1. BankInv => BankTypeOK
  BY DEF BankInv
<1>. QED
  BY <1>1, BankInvariance, PTL

\* avoid_bank_conflicts loses and repeats no instruction, and moves nothing but
\* instructions that are no shared access and none of the named opcodes; all
\* others keep their order.
THEOREM BankAccessesInOrder == BankSpec => []AccessesInOrder
<1>1. BankInv => AccessesInOrder
  BY DEF BankInv
<1>. QED
  BY <1>1, BankInvariance, PTL

\* The erase and the insert happen behind the walk's position: what it has
\* passed stays as it is.
THEOREM BankPrefixFixed == BankSpec => PrefixFixed
<1>1. ASSUME BankInv, [BankNext]_bankVars
      PROVE  [\A k \in 1 .. place : k <= Len(order) => order'[k] = order[k]]_bankVars
  <2>1. CASE BankStep
    BY <2>1 DEF BankStep
  <2>2. ASSUME NEW j \in Choices, Separate(j)
        PROVE  \A k \in 1 .. place : k <= Len(order) => order'[k] = order[k]
    BY <1>1, <2>2, SeparateStep
  <2>3. CASE UNCHANGED bankVars
    BY <2>3
  <2>. QED
    BY <1>1, <2>1, <2>2, <2>3 DEF BankNext
<1>. QED
  BY <1>1, BankInvariance, PTL DEF BankSpec, PrefixFixed

-----------------------------------------------------------------------------
(* The number of conflicts. *)

\* The conflict of the edited vector at k was one before: where its entries
\* stood, or at the place of the walk when the removal has brought them together.
Cause(j, k) == IF k < place THEN k ELSE IF k = j THEN place ELSE IF k < j THEN k - 1 ELSE k

LEMMA ConflictHasCause ==
  ASSUME BankInv, NEW j \in Choices, Separate(j), NEW k \in Conflicts(order')
  PROVE  Cause(j, k) \in Conflicts(order) /\ k # place /\ k # place + 1 /\ k \in Nat
<1>1. /\ Len(order) \in Nat /\ place \in Nat /\ place >= 1 /\ place + 1 <= Len(order)
      /\ j \in 1 .. Len(order) /\ place + 2 <= j
  <2>1. Len(order) \in Nat /\ place \in Nat /\ place >= 1 /\ place + 1 <= Len(order)
    BY DEF BankInv, BankTypeOK, AccessesInOrder, Separate
  <2>. QED
    BY <2>1, BankAssumption DEF Choices, Behind
<1>2. Len(order') = Len(order) /\ \A a \in 1 .. Len(order) : order'[a] = order[Was(j, a)]
  <2>1. /\ order' = MoveBetween(j) /\ order \in Seq(1 .. Len(listed)) /\ Len(listed) \in Nat
    BY DEF Separate, BankInv, BankTypeOK
  <2>. QED
    BY <1>1, <2>1, Moved
<1>3. k \in 1 .. Len(order) - 1 /\ k \in 1 .. Len(order) /\ k + 1 \in 1 .. Len(order) /\ k \in Nat
  BY <1>1, <1>2 DEF Conflicts
<1>4. /\ listed[order'[k]].kind = "shared" /\ listed[order'[k + 1]].kind = "shared"
      /\ listed[order'[k]].bank >= 0 /\ listed[order'[k]].bank = listed[order'[k + 1]].bank
  BY DEF Conflicts, ConflictIn
<1>5. listed[order[j]].kind # "shared" /\ ConflictIn(order, place)
  BY DEF Separate, Choices, Movable, KindAt, Conflict
<1>6. order'[place + 1] = order[j]
  <2>1. Was(j, place + 1) = j /\ place + 1 \in 1 .. Len(order)
    BY <1>1 DEF Was
  <2>. QED
    BY <1>2, <2>1
<1>7. k # place /\ k # place + 1
  BY <1>4, <1>5, <1>6
<1>8. CASE k < place
  <2>1. Was(j, k) = k /\ Was(j, k + 1) = k + 1 /\ Cause(j, k) = k
    BY <1>1, <1>3, <1>8 DEF Was, Cause
  <2>2. order'[k] = order[k] /\ order'[k + 1] = order[k + 1]
    BY <1>2, <1>3, <2>1
  <2>. QED
    BY <1>3, <1>4, <1>7, <2>1, <2>2 DEF Conflicts, ConflictIn
<1>9. CASE k = j
  <2>1. Cause(j, k) = place /\ place \in 1 .. Len(order) - 1
    BY <1>1, <1>9 DEF Cause
  <2>. QED
    BY <1>3, <1>5, <1>7, <2>1 DEF Conflicts
<1>10. CASE place + 1 < k /\ k < j
  <2>1. /\ Was(j, k) = k - 1 /\ Was(j, k + 1) = k /\ Cause(j, k) = k - 1
        /\ k - 1 \in 1 .. Len(order) - 1 /\ (k - 1) + 1 = k
    BY <1>1, <1>3, <1>10 DEF Was, Cause
  <2>2. order'[k] = order[k - 1] /\ order'[k + 1] = order[k]
    BY <1>2, <1>3, <2>1
  <2>. QED
    BY <1>3, <1>4, <1>7, <2>1, <2>2 DEF Conflicts, ConflictIn
<1>11. CASE k > j
  <2>1. Was(j, k) = k /\ Was(j, k + 1) = k + 1 /\ Cause(j, k) = k
    BY <1>1, <1>3, <1>11 DEF Was, Cause
  <2>2. order'[k] = order[k] /\ order'[k + 1] = order[k + 1]
    BY <1>2, <1>3, <2>1
  <2>. QED
    BY <1>3, <1>4, <1>7, <2>1, <2>2 DEF Conflicts, ConflictIn
<1>. QED
  BY <1>1, <1>3, <1>7, <1>8, <1>9, <1>10, <1>11

LEMMA SeparateNeverWorse ==
  ASSUME BankInv, NEW j \in Choices, Separate(j)
  PROVE  Cardinality(Conflicts(order')) <= Cardinality(Conflicts(order))
<1> DEFINE f == [k \in Conflicts(order') |-> Cause(j, k)]
<1>1. f \in [Conflicts(order') -> Conflicts(order)]
  BY ConflictHasCause
<1>2. place \in Nat /\ j \in Int /\ place + 2 <= j
  <2>1. Len(order) \in Nat /\ place \in Nat
    BY DEF BankInv, BankTypeOK, AccessesInOrder
  <2>. QED
    BY <2>1, BankAssumption DEF Choices, Behind
<1>3. ASSUME NEW k \in Conflicts(order'), NEW m \in Conflicts(order'), Cause(j, k) = Cause(j, m)
      PROVE  k = m
  <2>1. k \in Nat /\ k # place /\ k # place + 1 /\ m \in Nat /\ m # place /\ m # place + 1
    BY ConflictHasCause
  <2>. QED
    BY <1>2, <1>3, <2>1 DEF Cause
<1>4. f \in Injection(Conflicts(order'), Conflicts(order))
  BY <1>1, <1>3 DEF Injection, IsInjective
<1>5. IsFiniteSet(Conflicts(order))
  <2>1. Len(order) \in Nat
    BY DEF BankInv, BankTypeOK
  <2>2. 1 \in Int /\ Len(order) - 1 \in Int
    BY <2>1
  <2>3. IsFiniteSet(1 .. Len(order) - 1)
    BY <2>2, FS_Interval
  <2>4. Conflicts(order) \in SUBSET (1 .. Len(order) - 1)
    BY DEF Conflicts
  <2>. QED
    BY <2>3, <2>4, FS_Subset
<1>. QED
  BY <1>4, <1>5, FS_Injection

\* For every program and window, no move leaves more adjacent accesses of one
\* bank than it found, although it can bring two of them together.
THEOREM BankNeverWorse == BankSpec => NeverWorse
<1>1. ASSUME BankInv, [BankNext]_bankVars
      PROVE  [Cardinality(Conflicts(order')) <= Cardinality(Conflicts(order))]_bankVars
  <2>1. CASE BankStep
    <3>1. order' = order
      BY <2>1 DEF BankStep
    <3>2. IsFiniteSet(1 .. Len(order) - 1)
      <4>1. 1 \in Int /\ Len(order) - 1 \in Int
        BY <1>1 DEF BankInv, BankTypeOK
      <4>. QED
        BY <4>1, FS_Interval
    <3>3. Conflicts(order) \in SUBSET (1 .. Len(order) - 1)
      BY DEF Conflicts
    <3>4. Cardinality(Conflicts(order)) \in Nat
      BY <3>2, <3>3, FS_Subset, FS_CardinalityType
    <3>5. Cardinality(Conflicts(order')) = Cardinality(Conflicts(order))
      BY <3>1
    <3>. QED
      BY <3>4, <3>5
  <2>2. ASSUME NEW j \in Choices, Separate(j)
        PROVE  Cardinality(Conflicts(order')) <= Cardinality(Conflicts(order))
    BY <1>1, <2>2, SeparateNeverWorse
  <2>3. CASE UNCHANGED bankVars
    BY <2>3
  <2>. QED
    BY <1>1, <2>1, <2>2, <2>3 DEF BankNext
<1>. QED
  BY <1>1, BankInvariance, PTL DEF BankSpec, NeverWorse

-----------------------------------------------------------------------------
(* analyze_dependencies and insert_depbars.                                *)

-----------------------------------------------------------------------------
(* The inductive invariant. *)

\* last_writer holds the closest write before the current position.
WriterInv ==
  \A r \in Reg :
    /\ lastWriter[r] < pos
    /\ lastWriter[r] # 0 => prog[lastWriter[r]].dst = r
    /\ \A v \in Index : lastWriter[r] < v /\ v < pos => prog[v].dst # r

\* The dependences found so far are the reaching definitions of the
\* instructions in front of the current position.
FoundInv ==
  /\ \A i \in Index : i < pos =>
       \A k \in DOMAIN prog[i].srcs, w \in Index : Dep(w, i, k) \in found <=> Reaches(w, i, k)
  /\ \A d \in found : /\ d.cons < pos
                      /\ d.op \in DOMAIN prog[d.cons].srcs
                      /\ d = Dep(d.prod, d.cons, d.op)

\* The vector is not edited before the analysis has covered it, and only grows.
PhaseInv ==
  /\ phase = "analyze" => deps = {} /\ code = [i \in Index |-> i]
  /\ phase # "analyze" => pos = Len(prog) + 1
  /\ Len(code) >= Len(prog)

IInv == TypeOK /\ WriterInv /\ FoundInv /\ PhaseInv /\ OrderKept /\ PositionsValid

-----------------------------------------------------------------------------
(* Inserting a bar shifts what is behind it by one and keeps the rest. *)

LEMMA Inserted ==
  ASSUME NEW k \in 1 .. Len(code), code \in Seq(0 .. Len(prog)), Len(prog) \in Nat
  PROVE  /\ InsertBar(k) \in Seq(0 .. Len(prog))
         /\ Len(InsertBar(k)) = Len(code) + 1
         /\ \A a \in 1 .. k - 1 : InsertBar(k)[a] = code[a]
         /\ InsertBar(k)[k] = Bar
         /\ \A a \in k + 1 .. Len(code) + 1 : InsertBar(k)[a] = code[a - 1]
<1> DEFINE S == 0 .. Len(prog)
           Front == SubSeq(code, 1, k - 1)
           Back == SubSeq(code, k, Len(code))
<1>1. Front \in Seq(S) /\ Len(Front) = k - 1 /\ \A a \in 1 .. k - 1 : Front[a] = code[a]
  OBVIOUS
<1>2. /\ Back \in Seq(S)
      /\ Len(Back) = Len(code) - k + 1
      /\ \A a \in 1 .. Len(code) - k + 1 : Back[a] = code[a + k - 1]
  OBVIOUS
<1>3. <<Bar>> \in Seq(S) /\ Len(<<Bar>>) = 1 /\ <<Bar>>[1] = Bar
  BY DEF Bar
<1>4. InsertBar(k) = (Front \o <<Bar>>) \o Back
  BY DEF InsertBar, InsertBefore
<1> DEFINE Mid == Front \o <<Bar>>
<1> HIDE DEF Front, Back
<1>5. Mid \in Seq(S) /\ Len(Mid) = k /\ Mid[k] = Bar /\ \A a \in 1 .. k - 1 : Mid[a] = code[a]
  <2>1. /\ Front \o <<Bar>> \in Seq(S)
        /\ Len(Front \o <<Bar>>) = Len(Front) + Len(<<Bar>>)
        /\ \A a \in 1 .. Len(Front) + Len(<<Bar>>) :
             (Front \o <<Bar>>)[a] = IF a <= Len(Front) THEN Front[a] ELSE <<Bar>>[a - Len(Front)]
    BY <1>1, <1>3, ConcatProperties
  <2>2. Len(Front) + Len(<<Bar>>) = k /\ k \in 1 .. k /\ k - Len(Front) = 1 /\ ~ (k <= Len(Front))
    BY <1>1, <1>3
  <2>3. (Front \o <<Bar>>)[k] = Bar
    BY <1>3, <2>1, <2>2
  <2>4. \A a \in 1 .. k - 1 : a \in 1 .. k /\ a <= Len(Front)
    BY <1>1
  <2>5. \A a \in 1 .. k - 1 : (Front \o <<Bar>>)[a] = code[a]
    BY <1>1, <2>1, <2>2, <2>4
  <2>. QED
    BY <2>1, <2>2, <2>3, <2>5
<1> HIDE DEF Mid
<1>6. /\ Mid \o Back \in Seq(S)
      /\ Len(Mid \o Back) = Len(code) + 1
      /\ \A a \in 1 .. k : (Mid \o Back)[a] = Mid[a]
      /\ \A a \in k + 1 .. Len(code) + 1 : (Mid \o Back)[a] = Back[a - k]
  <2>1. /\ Mid \o Back \in Seq(S)
        /\ Len(Mid \o Back) = Len(Mid) + Len(Back)
        /\ \A a \in 1 .. Len(Mid) + Len(Back) :
             (Mid \o Back)[a] = IF a <= Len(Mid) THEN Mid[a] ELSE Back[a - Len(Mid)]
    BY <1>2, <1>5, ConcatProperties
  <2>2. Len(Mid) = k /\ Len(Back) = Len(code) - k + 1
    BY <1>2, <1>5
  <2>3. Len(Mid) + Len(Back) = Len(code) + 1
    BY <2>2
  <2>4. \A a \in 1 .. k : a \in 1 .. Len(code) + 1 /\ a <= k
    OBVIOUS
  <2>5. \A a \in k + 1 .. Len(code) + 1 : a \in 1 .. Len(code) + 1 /\ ~ (a <= k)
    OBVIOUS
  <2>. QED
    BY <2>1, <2>2, <2>3, <2>4, <2>5
<1>7. \A a \in k + 1 .. Len(code) + 1 : Back[a - k] = code[a - 1]
  <2>1. TAKE a \in k + 1 .. Len(code) + 1
  <2>2. a - k \in 1 .. Len(code) - k + 1 /\ (a - k) + k - 1 = a - 1
    OBVIOUS
  <2>. QED
    BY <1>2, <2>2
<1>8. Mid \o Back = InsertBar(k)
  BY <1>4 DEF Mid
<1>. QED
  BY <1>5, <1>6, <1>7, <1>8

-----------------------------------------------------------------------------
LEMMA TypeInit == Init => TypeOK
<1>. SUFFICES ASSUME Init PROVE TypeOK
  OBVIOUS
<1>1. prog \in Seq(Inst)
  BY BoardAssumption DEF Init
<1>2. code \in Seq(0 .. Len(prog))
  BY <1>1 DEF Init, Index
<1>. QED
  BY <1>1, <1>2 DEF Init, TypeOK

LEMMA InvInit == Init => IInv
<1>. SUFFICES ASSUME Init PROVE IInv
  OBVIOUS
<1>1. TypeOK
  BY TypeInit
<1>2. WriterInv /\ FoundInv
  BY <1>1 DEF Init, WriterInv, FoundInv, Index, TypeOK
<1>3. Len(code) = Len(prog) /\ \A i \in 1 .. Len(prog) : code[i] = i
  BY <1>1 DEF Init, Index, TypeOK
<1>4. PhaseInv /\ PositionsValid
  BY <1>1, <1>3 DEF Init, PhaseInv, PositionsValid, TypeOK
<1>5. OrderKept
  BY <1>1, <1>3 DEF OrderKept, Index, TypeOK
<1>. QED
  BY <1>1, <1>2, <1>4, <1>5 DEF IInv

-----------------------------------------------------------------------------
(* The analysis: one instruction at a time, in program order. *)

LEMMA AnalyzeStep ==
  ASSUME IInv, AnalyzeInst
  PROVE  IInv'
<1>0. /\ pos \in Index /\ prog[pos].srcs \in Seq(Reg) /\ prog[pos].dst \in Reg \union {NoReg}
      /\ phase = "analyze" /\ deps = {} /\ Len(prog) \in Nat
  <2>1. phase = "analyze" /\ deps = {} /\ prog \in Seq(Inst)
    BY DEF IInv, TypeOK, PhaseInv, AnalyzeInst
  <2>2. Len(prog) \in Nat /\ \A i \in 1 .. Len(prog) : prog[i] \in Inst
    BY <2>1
  <2>3. pos \in Index
    BY <2>2 DEF IInv, TypeOK, AnalyzeInst, Index
  <2>4. prog[pos] \in Inst
    BY <2>2, <2>3 DEF Index
  <2>. QED
    BY <2>1, <2>2, <2>3, <2>4 DEF Inst
<1>1. /\ pos' = pos + 1 /\ prog' = prog /\ Index' = Index
      /\ UNCHANGED <<phase, deps, code>>
  BY DEF AnalyzeInst, Index
<1> DEFINE New(k) == Dep(lastWriter[prog[pos].srcs[k]], pos, k)
           Named == {k \in DOMAIN prog[pos].srcs : lastWriter[prog[pos].srcs[k]] > 0}
<1>2. found' = found \union {New(k) : k \in Named}
  BY DEF AnalyzeInst, WritersSeen
<1>3. \A k \in DOMAIN prog[pos].srcs : k \in Nat /\ prog[pos].srcs[k] \in Reg
  BY <1>0
<1>4. TypeOK'
  <2>1. lastWriter' \in [Reg -> 0 .. Len(prog)]
    BY <1>0 DEF IInv, TypeOK, AnalyzeInst, RecordWriter, Index
  <2>2. \A k \in Named : New(k) \in DepInfo
    BY <1>0, <1>3, BoardAssumption DEF IInv, TypeOK, Dep, DepInfo, MinCycles, Index
  <2>3. found' \in SUBSET DepInfo /\ deps' \in SUBSET found'
    BY <1>0, <1>1, <1>2, <2>2 DEF IInv, TypeOK
  <2>4. DepInfo' = DepInfo
    BY <1>1 DEF DepInfo
  <2>. QED
    BY <1>0, <1>1, <2>1, <2>3, <2>4 DEF IInv, TypeOK, Index
<1>5. WriterInv'
  <2>1. SUFFICES ASSUME NEW r \in Reg
                 PROVE  /\ lastWriter'[r] < pos + 1
                        /\ lastWriter'[r] # 0 => prog[lastWriter'[r]].dst = r
                        /\ \A v \in Index : lastWriter'[r] < v /\ v < pos + 1 => prog[v].dst # r
    BY <1>1 DEF WriterInv
  <2>2. CASE prog[pos].dst = r
    BY <1>0, <2>2, BoardAssumption DEF IInv, TypeOK, AnalyzeInst, RecordWriter, Index
  <2>3. CASE prog[pos].dst # r
    <3>1. lastWriter'[r] = lastWriter[r]
      BY <2>3 DEF IInv, TypeOK, AnalyzeInst, RecordWriter
    <3>. QED
      BY <1>0, <2>3, <3>1 DEF IInv, TypeOK, WriterInv, Index
  <2>. QED
    BY <2>2, <2>3
<1>6. FoundInv'
  <2>1. ASSUME NEW i \in Index, i < pos + 1,
               NEW k \in DOMAIN prog[i].srcs, NEW w \in Index
        PROVE  Dep(w, i, k) \in found' <=> Reaches(w, i, k)
    <3>1. CASE i < pos
      <4>1. Dep(w, i, k) \notin {New(j) : j \in Named}
        <5>1. Dep(w, i, k).cons = i /\ \A j : New(j).cons = pos
          BY DEF Dep
        <5>. QED
          BY <1>0, <3>1, <5>1 DEF Index
      <4>. QED
        BY <1>2, <2>1, <3>1, <4>1 DEF IInv, FoundInv
    <3>2. CASE i = pos
      <4>1. Dep(w, i, k) \notin found
        BY <1>0, <3>2 DEF IInv, FoundInv, Dep, Index
      <4>2. prog[pos].srcs[k] \in Reg
        BY <1>3, <2>1, <3>2
      <4>3. Dep(w, i, k) \in found' <=> lastWriter[prog[pos].srcs[k]] > 0 /\ lastWriter[prog[pos].srcs[k]] = w
        BY <1>2, <2>1, <3>2, <4>1 DEF Dep, Index
      <4>4. Reaches(w, i, k) <=> lastWriter[prog[pos].srcs[k]] = w
        <5> DEFINE r == prog[pos].srcs[k]
        <5>1. lastWriter[r] \in 0 .. Len(prog) /\ lastWriter[r] < pos
          BY <4>2 DEF IInv, TypeOK, WriterInv
        <5>2. /\ lastWriter[r] # 0 => prog[lastWriter[r]].dst = r
              /\ \A v \in Index : lastWriter[r] < v /\ v < pos => prog[v].dst # r
          BY <4>2 DEF IInv, WriterInv
        <5>3. Reaches(w, i, k) <=> /\ w < pos
                                   /\ prog[w].dst = r
                                   /\ \A v \in w + 1 .. pos - 1 : prog[v].dst # r
          BY <3>2 DEF Reaches
        <5> HIDE DEF r
        <5>4. ASSUME lastWriter[r] = w PROVE Reaches(w, i, k)
          BY <1>0, <5>1, <5>2, <5>3, <5>4 DEF Index
        <5>5. ASSUME Reaches(w, i, k) PROVE lastWriter[r] = w
          <6>1. ~ (lastWriter[r] < w)
            BY <5>2, <5>3, <5>5
          <6>2. ~ (lastWriter[r] > w)
            <7>1. SUFFICES ASSUME lastWriter[r] > w PROVE FALSE
              OBVIOUS
            <7>2. lastWriter[r] \in w + 1 .. pos - 1 /\ lastWriter[r] # 0
              BY <1>0, <5>1, <7>1 DEF Index
            <7>. QED
              BY <5>2, <5>3, <5>5, <7>2
          <6>. QED
            BY <5>1, <6>1, <6>2 DEF Index
        <5>. QED
          BY <5>4, <5>5 DEF r
      <4>. QED
        BY <4>3, <4>4 DEF Index
    <3>. QED
      BY <1>0, <2>1, <3>1, <3>2 DEF Index
  <2>2. ASSUME NEW d \in found'
        PROVE  /\ d.cons < pos + 1
               /\ d.op \in DOMAIN prog[d.cons].srcs
               /\ d = Dep(d.prod, d.cons, d.op)
    <3>1. CASE d \in found
      BY <1>0, <3>1 DEF IInv, TypeOK, FoundInv, DepInfo, Index
    <3>2. CASE d \in {New(k) : k \in Named}
      BY <1>0, <3>2 DEF Dep, Index
    <3>. QED
      BY <1>2, <3>1, <3>2
  <2>3. \A i \in Index, k \in Nat, w \in Index : Dep(w, i, k)' = Dep(w, i, k) /\ Reaches(w, i, k)' = Reaches(w, i, k)
    BY <1>1 DEF Dep, MinCycles, Reaches
  <2>. QED
    BY <1>1, <2>1, <2>2 DEF FoundInv, Dep, MinCycles, Reaches
<1>7. PhaseInv' /\ OrderKept' /\ PositionsValid'
  BY <1>0, <1>1 DEF IInv, PhaseInv, OrderKept, PositionsValid
<1>. QED
  BY <1>4, <1>5, <1>6, <1>7 DEF IInv

-----------------------------------------------------------------------------
(* The insertion: the dependences of the last consumer first. *)

LEMMA VisitStep ==
  ASSUME IInv, NEW d \in deps, Visit(d)
  PROVE  IInv'
<1>0. /\ phase = "insert" /\ phase' = "insert" /\ pos = Len(prog) + 1
      /\ UNCHANGED <<prog, pos, lastWriter, found>> /\ Index' = Index
      /\ deps' = deps \ {d}
      /\ Len(prog) \in Nat /\ code \in Seq(0 .. Len(prog)) /\ Len(code) >= Len(prog)
  <2>1. prog \in Seq(Inst) /\ code \in Seq(0 .. Len(prog)) /\ Len(code) >= Len(prog)
    BY DEF IInv, TypeOK, PhaseInv
  <2>. QED
    BY <2>1 DEF IInv, PhaseInv, Visit, Index
<1>1. /\ \A e \in deps : e.cons \in Index /\ e.cons <= d.cons
      /\ d.cons \in 1 .. Len(code)
  BY <1>0 DEF IInv, TypeOK, DepInfo, Visit, IsNext, Index
<1>2. CASE ~ Critical(d)
  <2>1. code' = code
    BY <1>2 DEF Visit
  <2>2. TypeOK' /\ PhaseInv' /\ OrderKept'
    BY <1>0, <2>1 DEF IInv, TypeOK, PhaseInv, OrderKept, DepInfo, Index
  <2>3. WriterInv' /\ FoundInv'
    BY <1>0 DEF IInv, WriterInv, FoundInv, Dep, MinCycles, Reaches
  <2>4. PositionsValid'
    BY <1>0, <2>1 DEF IInv, PositionsValid, BarsBefore
  <2>. QED
    BY <2>2, <2>3, <2>4 DEF IInv
<1>3. CASE Critical(d)
  <2> DEFINE c == d.cons
  <2>1. code' = InsertBar(c)
    BY <1>3 DEF Visit
  <2>2. /\ code' \in Seq(0 .. Len(prog))
        /\ Len(code') = Len(code) + 1
        /\ \A a \in 1 .. c - 1 : code'[a] = code[a]
        /\ code'[c] = Bar
        /\ \A a \in c + 1 .. Len(code) + 1 : code'[a] = code[a - 1]
    BY <1>0, <1>1, <2>1, Inserted
  <2>3. c \in 1 .. Len(code) /\ c \in Index /\ c # 0
    BY <1>1 DEF Index
  <2> HIDE DEF c
  <2>4. TypeOK' /\ PhaseInv'
    <3>1. PhaseInv' /\ code' \in Seq(0 .. Len(prog')) /\ deps' \in SUBSET found'
      BY <1>0, <2>2 DEF IInv, TypeOK, PhaseInv
    <3>2. /\ prog' \in Seq(Inst) /\ pos' \in 1 .. Len(prog') + 1
          /\ lastWriter' \in [Reg -> 0 .. Len(prog')] /\ found' \in SUBSET DepInfo'
      BY <1>0 DEF IInv, TypeOK, DepInfo
    <3>. QED
      BY <1>0, <3>1, <3>2 DEF TypeOK
  <2>5. WriterInv' /\ FoundInv'
    BY <1>0 DEF IInv, WriterInv, FoundInv, Dep, MinCycles, Reaches
  <2>6. OrderKept'
    \* Where an entry of the edited vector was before the edit.
    <3> DEFINE Old(a) == IF a < c THEN a ELSE a - 1
    <3>1. \A a \in 1 .. Len(code) + 1 : code'[a] # Bar =>
             Old(a) \in 1 .. Len(code) /\ code'[a] = code[Old(a)] /\ a # c
      <4>1. SUFFICES ASSUME NEW a \in 1 .. Len(code) + 1, code'[a] # Bar
                     PROVE  Old(a) \in 1 .. Len(code) /\ code'[a] = code[Old(a)] /\ a # c
        OBVIOUS
      <4>2. a # c
        BY <2>2, <4>1
      <4>3. CASE a < c
        BY <2>2, <2>3, <4>3
      <4>4. CASE a > c
        BY <2>2, <2>3, <4>4
      <4>. QED
        BY <2>3, <4>2, <4>3, <4>4
    <3>2. \A a, b \in 1 .. Len(code) + 1 : a < b /\ a # c /\ b # c => Old(a) < Old(b)
      BY <2>3
    <3>3. \A a, b \in 1 .. Len(code') : a < b /\ code'[a] # Bar /\ code'[b] # Bar => code'[a] < code'[b]
      <4> HIDE DEF Old
      <4>. QED
        BY <2>2, <3>1, <3>2 DEF IInv, OrderKept
    <3>4. ASSUME NEW i \in Index PROVE \E a \in 1 .. Len(code') : code'[a] = i
      <4>1. PICK a \in 1 .. Len(code) : code[a] = i
        BY DEF IInv, OrderKept
      <4>2. CASE a < c
        <5>1. a \in 1 .. c - 1 /\ a \in 1 .. Len(code')
          BY <1>0, <2>2, <2>3, <4>2
        <5>2. code'[a] = i
          BY <2>2, <4>1, <5>1
        <5>. QED
          BY <5>1, <5>2
      <4>3. CASE a >= c
        <5>1. a + 1 \in c + 1 .. Len(code) + 1 /\ (a + 1) - 1 = a /\ a + 1 \in 1 .. Len(code')
          BY <1>0, <2>2, <2>3, <4>3
        <5>2. code'[a + 1] = i
          BY <2>2, <4>1, <5>1
        <5>. QED
          BY <5>1, <5>2
      <4>. QED
        BY <2>3, <4>2, <4>3
    <3>. QED
      BY <1>0, <3>3, <3>4 DEF OrderKept
  <2>7. PositionsValid'
    <3>1. \A a \in 1 .. c - 1 : code[a] = a
      BY <1>0 DEF IInv, PositionsValid, c
    <3>2. code[c] = c \/ c \in BarsBefore(c)
      BY <1>0 DEF IInv, PositionsValid, c
    <3>3. c \in BarsBefore(c)'
      <4>1. PICK b \in c .. Len(code) : code[b] = c /\ \A e \in c .. b - 1 : code[e] = Bar
        BY <2>3, <3>2 DEF BarsBefore
      <4>2. b + 1 \in c + 1 .. Len(code') /\ b + 1 \in c + 1 .. Len(code) + 1 /\ (b + 1) - 1 = b
        BY <1>0, <2>2, <2>3
      <4>3. code'[b + 1] = c
        BY <2>2, <4>1, <4>2
      <4>4. ASSUME NEW e \in c .. b PROVE code'[e] = Bar
        <5>1. CASE e = c
          BY <2>2, <5>1
        <5>2. CASE e > c
          <6>1. e \in c + 1 .. Len(code) + 1 /\ e - 1 \in c .. b - 1
            BY <2>3, <5>2
          <6>. QED
            BY <2>2, <4>1, <6>1
        <5>. QED
          BY <2>3, <5>1, <5>2
      <4>5. (b + 1) - 1 = b /\ c \in 1 .. Len(code')
        BY <1>0, <2>2, <2>3
      <4>. QED
        BY <4>2, <4>3, <4>4, <4>5 DEF BarsBefore
    <3>4. ASSUME NEW e \in deps'
          PROVE  /\ \A a \in 1 .. e.cons - 1 : code'[a] = a
                 /\ code'[e.cons] = e.cons \/ e.cons \in BarsBefore(e.cons)'
      <4>1. e.cons \in Index /\ e.cons <= c
        BY <1>0, <1>1 DEF c
      <4>0. c \in Nat /\ e.cons \in Nat /\ e.cons >= 1
        BY <1>0, <2>3, <4>1 DEF Index
      <4>2. \A a \in 1 .. e.cons - 1 : code'[a] = a
        <5>1. \A a \in 1 .. e.cons - 1 : a \in 1 .. c - 1
          BY <4>0, <4>1
        <5>. QED
          BY <2>2, <3>1, <5>1
      <4>3. CASE e.cons < c
        <5>1. e.cons \in 1 .. c - 1
          BY <4>0, <4>3
        <5>2. code'[e.cons] = e.cons
          BY <2>2, <3>1, <5>1
        <5>. QED
          BY <4>2, <5>2
      <4>4. CASE e.cons = c
        BY <3>3, <4>2, <4>4
      <4>. QED
        BY <2>3, <4>1, <4>2, <4>3, <4>4 DEF Index
    <3>. QED
      BY <3>4 DEF PositionsValid
  <2>. QED
    BY <2>4, <2>5, <2>6, <2>7 DEF IInv
<1>. QED
  BY <1>2, <1>3

-----------------------------------------------------------------------------
LEMMA InvNext == IInv /\ [Next]_vars => IInv'
<1>. SUFFICES ASSUME IInv, [Next]_vars PROVE IInv'
  OBVIOUS
<1>1. CASE AnalyzeInst
  BY <1>1, AnalyzeStep
<1>2. CASE SortDeps
  <2>1. /\ prog' = prog /\ pos' = pos /\ lastWriter' = lastWriter /\ found' = found
        /\ code' = code /\ deps' = found /\ phase' = "insert" /\ pos > Len(prog)
        /\ code = [i \in Index |-> i] /\ Index' = Index
    BY <1>2 DEF IInv, PhaseInv, SortDeps, Index
  <2>2. TypeOK' /\ WriterInv' /\ FoundInv' /\ OrderKept'
    <3>1. TypeOK' /\ OrderKept'
      BY <2>1 DEF IInv, TypeOK, OrderKept, DepInfo
    <3>2. WriterInv' /\ FoundInv'
      BY <2>1 DEF IInv, WriterInv, FoundInv, Dep, MinCycles, Reaches
    <3>. QED
      BY <3>1, <3>2
  <2>3. PhaseInv' /\ PositionsValid'
    <3>1. Len(prog) \in Nat /\ \A e \in found : e.cons \in Index
      BY DEF IInv, TypeOK, DepInfo
    <3>2. pos = Len(prog) + 1
      BY <2>1, <3>1 DEF IInv, TypeOK
    <3>3. \A a \in Index : code[a] = a
      BY <2>1
    <3>. QED
      BY <2>1, <3>1, <3>2, <3>3 DEF IInv, PhaseInv, PositionsValid, Index
  <2>. QED
    BY <2>2, <2>3 DEF IInv
<1>3. ASSUME NEW d \in deps, Visit(d) PROVE IInv'
  BY <1>3, VisitStep
<1>4. CASE Finish
  <2>1. /\ phase = "insert" /\ phase' = "done"
        /\ UNCHANGED <<prog, pos, lastWriter, found, deps, code>> /\ Index' = Index
    BY <1>4 DEF Finish, Index
  <2>2. TypeOK' /\ PhaseInv'
    BY <2>1 DEF IInv, TypeOK, PhaseInv, DepInfo
  <2>3. WriterInv' /\ FoundInv'
    BY <2>1 DEF IInv, WriterInv, FoundInv, Dep, MinCycles, Reaches
  <2>4. OrderKept' /\ PositionsValid'
    BY <2>1 DEF IInv, OrderKept, PositionsValid
  <2>. QED
    BY <2>2, <2>3, <2>4 DEF IInv
<1>5. CASE UNCHANGED vars
  <2>1. UNCHANGED <<prog, phase, pos, lastWriter, found, deps, code>> /\ Index' = Index
    BY <1>5 DEF vars, Index
  <2>2. TypeOK' /\ PhaseInv'
    BY <2>1 DEF IInv, TypeOK, PhaseInv, DepInfo
  <2>3. WriterInv' /\ FoundInv'
    BY <2>1 DEF IInv, WriterInv, FoundInv, Dep, MinCycles, Reaches
  <2>4. OrderKept' /\ PositionsValid'
    BY <2>1 DEF IInv, OrderKept, PositionsValid, BarsBefore
  <2>. QED
    BY <2>2, <2>3, <2>4 DEF IInv
<1>. QED
  BY <1>1, <1>2, <1>3, <1>4, <1>5 DEF Next

LEMMA Invariance == Spec => []IInv
<1>. QED
  BY InvInit, InvNext, PTL DEF Spec

\* Every variable keeps its type: the positions of DepInfo are positions of the
\* input, the edited vector holds its instructions and bars.
THEOREM ScoreboardTypeOK == Spec => []TypeOK
<1>1. IInv => TypeOK
  BY DEF IInv
<1>. QED
  BY <1>1, Invariance, PTL

\* analyze_dependencies finds exactly the reaching definitions of every source
\* operand, for every program.
THEOREM ScoreboardReachingDefs == Spec => []ReachingDefs
<1>1. IInv => ReachingDefs
  <2>1. SUFFICES ASSUME IInv, phase # "analyze" PROVE ReachingDefs
    BY DEF ReachingDefs
  <2>2. \A i \in Index : i < pos
    <3>1. Len(prog) \in Nat /\ pos = Len(prog) + 1
      BY <2>1 DEF IInv, TypeOK, PhaseInv
    <3>. QED
      BY <3>1 DEF Index
  <2>. QED
    BY <2>1, <2>2 DEF IInv, FoundInv, ReachingDefs
<1>. QED
  BY <1>1, Invariance, PTL

\* insert_depbars neither loses nor reorders an instruction.
THEOREM ScoreboardOrderKept == Spec => []OrderKept
<1>1. IInv => OrderKept
  BY DEF IInv
<1>. QED
  BY <1>1, Invariance, PTL

\* Visiting the consumers from the last to the first keeps every recorded
\* position that is still needed pointing at its instruction.
THEOREM ScoreboardPositionsValid == Spec => []PositionsValid
<1>1. IInv => PositionsValid
  BY DEF IInv
<1>. QED
  BY <1>1, Invariance, PTL

-----------------------------------------------------------------------------
(* The bars: one in front of a consumer for every critical dependence of it *)
(* that was visited.                                                        *)

\* The critical dependences visited so far, and those of consumer i.
Placed == {d \in found \ deps : Critical(d)}
PlacedFor(i) == {d \in Placed : d.cons = i}

BarsInv ==
  /\ IsFiniteSet(found)
  /\ phase = "done" => deps = {}
  /\ phase # "analyze" =>
       /\ \A i \in Index : Cardinality(BarsBefore(i)) = Cardinality(PlacedFor(i))
       /\ Len(code) = Len(prog) + Cardinality(Placed)

\* The dependences an instruction adds are as few as its operands.
LEMMA FoundFinite ==
  ASSUME IInv, AnalyzeInst, IsFiniteSet(found)
  PROVE  IsFiniteSet(found')
<1> DEFINE Named == {k \in DOMAIN prog[pos].srcs : WritersSeen(pos)[prog[pos].srcs[k]] > 0}
           f == [k \in Named |-> Dep(WritersSeen(pos)[prog[pos].srcs[k]], pos, k)]
           New == {f[k] : k \in Named}
<1>1. found' = found \union New
  BY DEF AnalyzeInst
<1>2. IsFiniteSet(Named)
  <2>1. prog \in Seq(Inst) /\ pos \in 1 .. Len(prog) + 1 /\ pos <= Len(prog)
    BY DEF IInv, TypeOK, AnalyzeInst
  <2>1a. pos \in 1 .. Len(prog)
    BY <2>1
  <2>1b. prog[pos] \in Inst
    BY <2>1, <2>1a
  <2>2. prog[pos].srcs \in Seq(Reg)
    BY <2>1b DEF Inst
  <2>3. DOMAIN prog[pos].srcs = 1 .. Len(prog[pos].srcs) /\ Len(prog[pos].srcs) \in Int
    BY <2>2
  <2>4. IsFiniteSet(DOMAIN prog[pos].srcs)
    BY <2>3, FS_Interval
  <2>5. Named \in SUBSET DOMAIN prog[pos].srcs
    OBVIOUS
  <2>. QED
    BY <2>4, <2>5, FS_Subset
<1>3. f \in Surjection(Named, New)
  BY DEF Surjection
<1>4. IsFiniteSet(New)
  BY <1>2, <1>3, FS_Surjection
<1>. QED
  BY <1>1, <1>4, FS_Union

\* A bar put in front of c joins the run in front of c and shifts every run.
LEMMA BarsShifted ==
  ASSUME IInv, NEW d \in deps, Visit(d), Critical(d), NEW i \in Index
  PROVE  /\ BarsBefore(i)' = {a + 1 : a \in BarsBefore(i)}
                             \union (IF i = d.cons THEN {d.cons} ELSE {})
         /\ \A a \in BarsBefore(i) : a \in Nat /\ a >= d.cons
<1> DEFINE c == d.cons
<1>0. /\ phase = "insert" /\ prog' = prog /\ Index' = Index
      /\ Len(prog) \in Nat /\ code \in Seq(0 .. Len(prog)) /\ Len(code) >= Len(prog)
      /\ Len(code) \in Nat
  <2>1. prog \in Seq(Inst) /\ code \in Seq(0 .. Len(prog)) /\ Len(code) >= Len(prog)
    BY DEF IInv, TypeOK, PhaseInv
  <2>. QED
    BY <2>1 DEF Visit, Index
<1>1. c \in Index /\ c \in 1 .. Len(code) /\ c \in Nat /\ c >= 1 /\ i \in Nat /\ i # Bar /\ c # Bar
  BY <1>0 DEF IInv, TypeOK, DepInfo, Index, Bar
<1>2. /\ \A a \in 1 .. c - 1 : code[a] = a
      /\ code[c] = c \/ c \in BarsBefore(c)
  BY <1>0 DEF IInv, PositionsValid
<1>3. /\ Len(code') = Len(code) + 1
      /\ \A a \in 1 .. c - 1 : code'[a] = code[a]
      /\ code'[c] = Bar
      /\ \A a \in c + 1 .. Len(code) + 1 : code'[a] = code[a - 1]
  BY <1>0, <1>1, Inserted DEF Visit
<1> DEFINE New == BarsBefore(i)'
<1>3a. \A a : a \in New <=>
         /\ a \in 1 .. Len(code')
         /\ \E b \in a + 1 .. Len(code') : code'[b] = i /\ \A e \in a .. b - 1 : code'[e] = Bar
  BY DEF BarsBefore
<1> HIDE DEF c, New
<1>4. ASSUME NEW a \in BarsBefore(i) PROVE a \in Nat /\ a >= c
  <2>1. a \in 1 .. Len(code) /\ code[a] = Bar
    BY <1>0 DEF BarsBefore
  <2>2. ~(a < c)
    BY <1>1, <1>2, <2>1 DEF Bar
  <2>. QED
    BY <1>1, <2>1, <2>2
<1>5. ASSUME NEW a \in BarsBefore(i) PROVE a + 1 \in New
  <2>1. PICK b \in a + 1 .. Len(code) : code[b] = i /\ \A e \in a .. b - 1 : code[e] = Bar
    BY DEF BarsBefore
  <2>2. a \in 1 .. Len(code) /\ a >= c /\ b \in Nat
    BY <1>0, <1>4, <2>1 DEF BarsBefore
  <2>3. b + 1 \in (a + 1) + 1 .. Len(code') /\ b + 1 \in c + 1 .. Len(code) + 1 /\ (b + 1) - 1 = b
    BY <1>0, <1>1, <1>3, <2>1, <2>2
  <2>4. code'[b + 1] = i
    BY <1>3, <2>1, <2>3
  <2>5. ASSUME NEW e \in a + 1 .. (b + 1) - 1 PROVE code'[e] = Bar
    <3>0. a \in Int /\ b \in Int /\ b <= Len(code) /\ e \in Int /\ c \in Int /\ Len(code) \in Int
      BY <1>0, <1>1, <2>1, <2>2
    <3>1. e \in c + 1 .. Len(code) + 1 /\ e - 1 \in a .. b - 1
      BY <2>2, <3>0
    <3>2. code'[e] = code[e - 1]
      BY <1>3, <3>1
    <3>3. code[e - 1] = Bar
      BY <2>1, <3>1
    <3>. QED
      BY <3>2, <3>3
  <2>6. a + 1 \in 1 .. Len(code')
    BY <1>0, <1>3, <2>2
  <2>. QED
    BY <1>3a, <2>3, <2>4, <2>5, <2>6
<1>6. ASSUME i = c PROVE c \in New
  <2>1. PICK b \in c .. Len(code) : code[b] = c /\ \A e \in c .. b - 1 : code[e] = Bar
    <3>1. CASE code[c] = c
      BY <1>0, <1>1, <3>1
    <3>2. CASE c \in BarsBefore(c)
      <4>1. /\ c \in 1 .. Len(code)
            /\ \E b \in c + 1 .. Len(code) : code[b] = c /\ \A e \in c .. b - 1 : code[e] = Bar
        BY <3>2 DEF BarsBefore
      <4>2. PICK b \in c + 1 .. Len(code) : code[b] = c /\ \A e \in c .. b - 1 : code[e] = Bar
        BY <4>1
      <4>3. b \in c .. Len(code)
        BY <4>1, <4>2
      <4>. QED
        BY <4>2, <4>3
    <3>. QED
      BY <1>2, <3>1, <3>2
  <2>2. b + 1 \in c + 1 .. Len(code') /\ b + 1 \in c + 1 .. Len(code) + 1 /\ (b + 1) - 1 = b
    BY <1>0, <1>1, <1>3, <2>1
  <2>3. code'[b + 1] = c
    BY <1>3, <2>1, <2>2
  <2>4. ASSUME NEW e \in c .. (b + 1) - 1 PROVE code'[e] = Bar
    <3>1. CASE e = c
      BY <1>3, <3>1
    <3>2. CASE e # c
      <4>1. e \in c + 1 .. Len(code) + 1 /\ e - 1 \in c .. b - 1
        BY <1>0, <1>1, <2>1, <3>2
      <4>2. code'[e] = code[e - 1]
        BY <1>3, <4>1
      <4>3. code[e - 1] = Bar
        BY <2>1, <4>1
      <4>. QED
        BY <4>2, <4>3
    <3>. QED
      BY <3>1, <3>2
  <2>5. c \in 1 .. Len(code')
    BY <1>0, <1>1, <1>3
  <2>. QED
    BY <1>3a, <1>6, <2>2, <2>3, <2>4, <2>5
<1>7. ASSUME NEW a \in New
      PROVE  (a = c /\ i = c) \/ a - 1 \in BarsBefore(i)
  <2>1. /\ a \in 1 .. Len(code')
        /\ \E b \in a + 1 .. Len(code') : code'[b] = i /\ \A e \in a .. b - 1 : code'[e] = Bar
    BY <1>3a
  <2>2. PICK b \in a + 1 .. Len(code') : code'[b] = i /\ \A e \in a .. b - 1 : code'[e] = Bar
    BY <2>1
  <2>3. a \in Nat /\ a >= 1 /\ b \in Nat /\ b > a /\ b <= Len(code) + 1
    BY <1>0, <1>3, <2>1, <2>2
  <2>4. code'[a] = Bar
    BY <2>2, <2>3
  <2>5. a >= c
    <3>1. ASSUME a < c PROVE FALSE
      <4>1. a \in 1 .. c - 1
        BY <1>1, <2>3, <3>1
      <4>. QED
        BY <1>2, <1>3, <2>3, <2>4, <4>1 DEF Bar
    <3>. QED
      BY <1>1, <2>3, <3>1
  <2>6. b \in c + 1 .. Len(code) + 1 /\ code[b - 1] = i
    <3>1. b \in c + 1 .. Len(code) + 1
      BY <1>0, <1>1, <2>3, <2>5
    <3>. QED
      BY <1>3, <2>2, <3>1
  <2>7. \A e \in a .. b - 2 : e >= c => code[e] = Bar
    <3>1. TAKE e \in a .. b - 2
    <3>2. HAVE e >= c
    <3>3. e + 1 \in a .. b - 1 /\ e + 1 \in c + 1 .. Len(code) + 1 /\ (e + 1) - 1 = e
      BY <1>0, <1>1, <2>3, <3>2
    <3>. QED
      BY <1>3, <2>2, <3>3
  <2>8. CASE a > c
    <3>1. /\ a - 1 \in 1 .. Len(code)
          /\ b - 1 \in (a - 1) + 1 .. Len(code)
      BY <1>0, <1>1, <2>3, <2>8
    <3>2. ASSUME NEW e \in a - 1 .. (b - 1) - 1 PROVE code[e] = Bar
      <4>1. e + 1 \in a .. b - 1 /\ e + 1 \in c + 1 .. Len(code) + 1 /\ (e + 1) - 1 = e
        BY <1>0, <1>1, <2>3, <2>8
      <4>. QED
        BY <1>3, <2>2, <4>1
    <3>. QED
      BY <2>6, <3>1, <3>2 DEF BarsBefore
  <2>9. CASE a = c
    \* The run that starts at c leads to c alone.
    <3>1. SUFFICES ASSUME i # c PROVE FALSE
      BY <2>9
    <3>2. code[c] # c
      <4>1. CASE b = c + 1
        BY <1>1, <2>6, <3>1, <4>1
      <4>2. CASE b # c + 1
        <5>1. c \in a .. b - 2
          BY <1>1, <2>3, <2>9, <4>2
        <5>. QED
          BY <1>1, <2>7, <5>1
      <4>. QED
        BY <4>1, <4>2
    <3>3. PICK g \in c + 1 .. Len(code) : code[g] = c /\ \A e \in c .. g - 1 : code[e] = Bar
      BY <1>2, <3>2 DEF BarsBefore
    <3>4. g \in Nat /\ g > c
      BY <1>0, <1>1, <3>3
    <3>5. ~(b - 1 < g)
      <4>1. ASSUME b - 1 < g PROVE FALSE
        <5>1. b - 1 \in c .. g - 1
          BY <1>1, <2>3, <2>9, <3>4, <4>1
        <5>. QED
          BY <1>1, <2>6, <3>3, <5>1
      <4>. QED
        BY <4>1
    <3>6. ~(g < b - 1)
      <4>1. ASSUME g < b - 1 PROVE FALSE
        <5>1. g \in a .. b - 2 /\ g >= c
          BY <1>1, <2>3, <2>9, <3>4, <4>1
        <5>. QED
          BY <1>1, <2>7, <3>3, <5>1
      <4>. QED
        BY <4>1
    <3>7. g = b - 1
      BY <2>3, <3>4, <3>5, <3>6
    <3>. QED
      BY <2>6, <3>1, <3>3, <3>7
  <2>. QED
    BY <1>1, <2>3, <2>5, <2>8, <2>9
<1>8. ASSUME NEW a \in New
      PROVE  a \in {x + 1 : x \in BarsBefore(i)} \union (IF i = c THEN {c} ELSE {})
  <2>1. a \in 1 .. Len(code')
    BY <1>3a
  <2>2. a \in Int /\ a = (a - 1) + 1
    BY <1>0, <1>3, <2>1
  <2>. QED
    BY <1>7, <2>2
<1>9. ASSUME NEW a \in {x + 1 : x \in BarsBefore(i)} \union (IF i = c THEN {c} ELSE {})
      PROVE  a \in New
  BY <1>5, <1>6
<1>10. BarsBefore(i)' = {x + 1 : x \in BarsBefore(i)} \union (IF i = c THEN {c} ELSE {})
  BY <1>8, <1>9 DEF New
<1>. QED
  BY <1>4, <1>10 DEF c

\* Shifting a set of positions keeps its size; a position below joins it.
LEMMA ShiftedCardinality ==
  ASSUME NEW n \in Nat, NEW S \in SUBSET (1 .. n), NEW c \in Nat, \A a \in S : a >= c
  PROVE  /\ Cardinality({a + 1 : a \in S}) = Cardinality(S)
         /\ Cardinality({a + 1 : a \in S} \union {c}) = Cardinality(S) + 1
         /\ Cardinality(S) \in Nat
<1> DEFINE T == {a + 1 : a \in S}
           f == [a \in S |-> a + 1]
<1>1. IsFiniteSet(S) /\ Cardinality(S) \in Nat
  <2>1. 1 \in Int /\ n \in Int
    OBVIOUS
  <2>2. IsFiniteSet(1 .. n)
    BY <2>1, FS_Interval
  <2>3. IsFiniteSet(S)
    BY <2>2, FS_Subset
  <2>. QED
    BY <2>3, FS_CardinalityType
<1>2. f \in Bijection(S, T)
  <2>1. \A a, b \in S : f[a] = f[b] => a = b
    OBVIOUS
  <2>2. f \in [S -> T] /\ \A t \in T : \E a \in S : f[a] = t
    OBVIOUS
  <2>. QED
    BY <2>1, <2>2 DEF Bijection, Injection, Surjection, IsInjective
<1>3. IsFiniteSet(T) /\ Cardinality(T) = Cardinality(S)
  BY <1>1, <1>2, FS_Bijection DEF ExistsBijection
<1>4. c \notin T
  OBVIOUS
<1>. QED
  BY <1>1, <1>3, <1>4, FS_AddElement

\* Visiting a dependence places a bar for it exactly when it is critical.
LEMMA VisitBars ==
  ASSUME IInv, BarsInv, NEW d \in deps, Visit(d)
  PROVE  BarsInv'
<1>0. /\ phase = "insert" /\ phase' = "insert" /\ prog' = prog /\ found' = found
      /\ deps' = deps \ {d} /\ Index' = Index /\ d \in found
      /\ Len(prog) \in Nat /\ code \in Seq(0 .. Len(prog)) /\ Len(code) \in Nat
      /\ d.cons \in Nat /\ d.cons \in 1 .. Len(code)
  <2>1. prog \in Seq(Inst) /\ code \in Seq(0 .. Len(prog)) /\ Len(code) >= Len(prog)
    BY DEF IInv, TypeOK, PhaseInv
  <2>2. d \in found /\ d.cons \in Index
    BY DEF IInv, TypeOK, DepInfo
  <2>. QED
    BY <2>1, <2>2 DEF Visit, Index
<1>1. IsFiniteSet(found) /\ IsFiniteSet(Placed) /\ \A i : IsFiniteSet(PlacedFor(i))
  <2>1. Placed \in SUBSET found /\ \A i : PlacedFor(i) \in SUBSET found
    BY DEF Placed, PlacedFor
  <2>. QED
    BY <2>1, FS_Subset DEF BarsInv
<1>2. \A e : Critical(e)' <=> Critical(e)
  BY DEF Critical
<1>3. CASE ~ Critical(d)
  <2>1. code' = code
    BY <1>3 DEF Visit
  <2>2. Placed' = Placed
    BY <1>0, <1>3 DEF Placed, Critical
  <2>. QED
    BY <1>0, <2>1, <2>2 DEF BarsInv, BarsBefore, PlacedFor
<1>4. CASE Critical(d)
  <2>1. Placed' = Placed \union {d} /\ d \notin Placed
    BY <1>0, <1>4 DEF Placed, Critical
  <2>2. Cardinality(Placed') = Cardinality(Placed) + 1
    BY <1>1, <2>1, FS_AddElement
  <2>3. Len(code') = Len(code) + 1
    BY <1>0, <1>4, Inserted DEF Visit
  <2>4. ASSUME NEW i \in Index
        PROVE  Cardinality(BarsBefore(i)') = Cardinality(PlacedFor(i)')
    <3>1. /\ BarsBefore(i)' = {a + 1 : a \in BarsBefore(i)}
                              \union (IF i = d.cons THEN {d.cons} ELSE {})
          /\ \A a \in BarsBefore(i) : a >= d.cons
      BY <1>4, BarsShifted
    <3>2. BarsBefore(i) \in SUBSET (1 .. Len(code))
      BY DEF BarsBefore
    <3>3. Cardinality(BarsBefore(i)) = Cardinality(PlacedFor(i))
      BY <1>0 DEF BarsInv
    <3>4. CASE i = d.cons
      <4>1. PlacedFor(i)' = PlacedFor(i) \union {d} /\ d \notin PlacedFor(i)
        BY <2>1, <3>4 DEF PlacedFor
      <4>2. Cardinality(PlacedFor(i)') = Cardinality(PlacedFor(i)) + 1
        BY <1>1, <4>1, FS_AddElement
      <4>3. BarsBefore(i)' = {a + 1 : a \in BarsBefore(i)} \union {d.cons}
        BY <3>1, <3>4
      <4>4. /\ Cardinality({a + 1 : a \in BarsBefore(i)} \union {d.cons})
                 = Cardinality(BarsBefore(i)) + 1
            /\ Cardinality(BarsBefore(i)) \in Nat
        BY <1>0, <3>1, <3>2, ShiftedCardinality
      <4>. QED
        BY <3>3, <4>2, <4>3, <4>4
    <3>5. CASE i # d.cons
      <4>1. PlacedFor(i)' = PlacedFor(i)
        BY <2>1, <3>5 DEF PlacedFor
      <4>2. BarsBefore(i)' = {a + 1 : a \in BarsBefore(i)}
        BY <3>1, <3>5
      <4>3. Cardinality({a + 1 : a \in BarsBefore(i)}) = Cardinality(BarsBefore(i))
        BY <1>0, <3>1, <3>2, ShiftedCardinality
      <4>. QED
        BY <3>3, <4>1, <4>2, <4>3
    <3>. QED
      BY <3>4, <3>5
  <2>5. Len(code') = Len(prog') + Cardinality(Placed')
    <3>1. Len(code) = Len(prog) + Cardinality(Placed) /\ Cardinality(Placed) \in Nat
      BY <1>0, <1>1, FS_CardinalityType DEF BarsInv
    <3>. QED
      BY <1>0, <2>2, <2>3, <3>1
  <2>. QED
    BY <1>0, <1>1, <2>4, <2>5 DEF BarsInv
<1>. QED
  BY <1>3, <1>4

\* No bar is there when the insertion starts.
LEMMA SortBars ==
  ASSUME IInv, BarsInv, SortDeps
  PROVE  BarsInv'
<1>1. /\ code' = code /\ prog' = prog /\ found' = found /\ deps' = found /\ phase' = "insert"
      /\ code = [i \in Index |-> i] /\ Index' = Index /\ Len(prog) \in Nat
  BY DEF IInv, TypeOK, PhaseInv, SortDeps, Index
<1>2. Placed' = {} /\ \A i : PlacedFor(i)' = {}
  BY <1>1 DEF Placed, PlacedFor
<1>3. Len(code) = Len(prog) /\ \A a \in 1 .. Len(code) : code[a] # Bar
  BY <1>1 DEF Index, Bar
<1>4. ASSUME NEW i \in Index PROVE BarsBefore(i)' = {}
  <2>1. ASSUME NEW a \in 1 .. Len(code), NEW b \in a + 1 .. Len(code),
               \A e \in a .. b - 1 : code[e] = Bar
        PROVE  FALSE
    <3>1. a \in a .. b - 1
      BY <1>1, <1>3
    <3>. QED
      BY <1>3, <2>1, <3>1
  <2>2. BarsBefore(i)' = {a \in 1 .. Len(code) :
          \E b \in a + 1 .. Len(code) : code[b] = i /\ \A e \in a .. b - 1 : code[e] = Bar}
    BY <1>1 DEF BarsBefore
  <2>. QED
    BY <2>1, <2>2
<1>5. Cardinality({}) = 0
  BY FS_EmptySet
<1>6. \A i \in Index : Cardinality(BarsBefore(i)') = Cardinality(PlacedFor(i)')
  BY <1>2, <1>4
<1>7. Len(code') = Len(prog') + Cardinality(Placed')
  BY <1>1, <1>2, <1>3, <1>5
<1>. QED
  BY <1>1, <1>6, <1>7 DEF BarsInv

LEMMA BarsInit == Init => BarsInv
<1>1. IsFiniteSet({})
  BY FS_EmptySet
<1>. QED
  BY <1>1 DEF Init, BarsInv

LEMMA BarsNext == IInv /\ BarsInv /\ [Next]_vars => BarsInv'
<1>. SUFFICES ASSUME IInv, BarsInv, [Next]_vars PROVE BarsInv'
  OBVIOUS
<1>1. CASE AnalyzeInst
  <2>1. IsFiniteSet(found')
    BY <1>1, FoundFinite DEF BarsInv
  <2>. QED
    BY <1>1, <2>1 DEF BarsInv, AnalyzeInst
<1>2. CASE Finish \/ UNCHANGED vars
  <2>1. /\ prog' = prog /\ found' = found /\ deps' = deps /\ code' = code /\ Index' = Index
        /\ phase' = "done" => deps = {}
        /\ phase' # "analyze" => phase # "analyze"
    BY <1>2 DEF Finish, vars, BarsInv, Index
  <2>2. Placed' = Placed /\ \A i \in Index : PlacedFor(i)' = PlacedFor(i)
    BY <2>1 DEF Placed, PlacedFor, Critical
  <2>3. \A i \in Index : BarsBefore(i)' = BarsBefore(i)
    BY <2>1 DEF BarsBefore
  <2>. QED
    BY <2>1, <2>2, <2>3 DEF BarsInv
<1>. QED
  BY <1>1, <1>2, SortBars, VisitBars DEF Next

\* In the finished vector, the bars right in front of an instruction are as
\* many as its critical dependences, and there are no others.
LEMMA BarsCount == IInv /\ BarsInv => BarsCounted
<1>1. SUFFICES ASSUME BarsInv, phase = "done" PROVE BarsCounted
  BY DEF BarsCounted
<1>2. deps = {}
  BY <1>1 DEF BarsInv
<1>3. /\ Placed = {d \in found : Critical(d)}
      /\ \A i : PlacedFor(i) = {d \in found : d.cons = i /\ Critical(d)}
  BY <1>2 DEF Placed, PlacedFor
<1>. QED
  BY <1>1, <1>3 DEF BarsInv, BarsCounted

\* What is closer than half the latency is closer than the latency.
LEMMA CriticalIsNear ==
  ASSUME IInv, NEW d \in found, Critical(d)
  PROVE  TooNear(d)
<1>1. d \in DepInfo /\ Len(prog) \in Nat
  BY DEF IInv, TypeOK
<1>2. d.min \in Nat /\ d.cons \in Int /\ d.prod \in Int
  BY <1>1 DEF DepInfo, Index
<1>. QED
  BY <1>2 DEF Critical, TooNear

\* For every program and latency, the bars right in front of an instruction are
\* at least its dependences closer than half their latency and at most those
\* closer than their latency, and there are no others.
THEOREM ScoreboardBarsPlaced == Spec => []BarsPlaced
<1>1. IInv /\ BarsInv => BarsPlaced
  <2>1. SUFFICES ASSUME IInv, BarsInv, phase = "done" PROVE BarsPlaced
    BY DEF BarsPlaced
  <2>2. BarsCounted /\ IsFiniteSet(found) /\ Len(prog) \in Nat
    BY <2>1, BarsCount DEF BarsInv, IInv, TypeOK
  <2> DEFINE crit(i) == {d \in found : d.cons = i /\ Critical(d)}
             near(i) == {d \in found : d.cons = i /\ TooNear(d)}
             allCrit == {d \in found : Critical(d)}
             allNear == {d \in found : TooNear(d)}
  <2>3. /\ \A i : crit(i) \in SUBSET near(i) /\ near(i) \in SUBSET found
        /\ allCrit \in SUBSET allNear /\ allNear \in SUBSET found
    BY <2>1, CriticalIsNear
  <2>4. /\ \A i : Cardinality(crit(i)) <= Cardinality(near(i)) /\ Cardinality(crit(i)) \in Nat
        /\ Cardinality(allCrit) <= Cardinality(allNear)
        /\ Cardinality(allCrit) \in Nat /\ Cardinality(allNear) \in Nat
    <3>1. \A i : IsFiniteSet(near(i)) /\ IsFiniteSet(crit(i))
      <4>1. \A i : IsFiniteSet(near(i))
        BY <2>2, <2>3, FS_Subset
      <4>. QED
        BY <2>3, <4>1, FS_Subset
    <3>2. IsFiniteSet(allNear) /\ IsFiniteSet(allCrit)
      <4>1. IsFiniteSet(allNear)
        BY <2>2, <2>3, FS_Subset
      <4>. QED
        BY <2>3, <4>1, FS_Subset
    <3>. HIDE DEF crit, near, allCrit, allNear
    <3>. QED
      BY <2>3, <3>1, <3>2, FS_Subset, FS_CardinalityType
  <2>5. /\ \A i \in Index : Cardinality(BarsBefore(i)) = Cardinality(crit(i))
        /\ Len(code) = Len(prog) + Cardinality(allCrit)
    BY <2>1, <2>2 DEF BarsCounted
  <2>6. \A i \in Index : /\ Cardinality(crit(i)) <= Cardinality(BarsBefore(i))
                         /\ Cardinality(BarsBefore(i)) <= Cardinality(near(i))
    <3>. HIDE DEF crit, near
    <3>. QED
      BY <2>4, <2>5
  <2>7. Len(code) <= Len(prog) + Cardinality(allNear)
    <3>. HIDE DEF allCrit, allNear
    <3>. QED
      BY <2>2, <2>4, <2>5
  <2>. QED
    BY <2>6, <2>7 DEF BarsPlaced
<1>2. Spec => [](IInv /\ BarsInv)
  BY InvInit, InvNext, BarsInit, BarsNext, PTL DEF Spec
<1>. QED
  BY <1>1, <1>2, PTL
=============================================================================
