-------------------------- MODULE OptimizerProofs ---------------------------
(***************************************************************************)
(* Proofs about OptimizeP0, ConstProp and OptimizeP1 for every program and *)
(* register set: the three passes of optimize_p0, const_propagation behind *)
(* them, and the whole of optimize_p1.                                     *)
(***************************************************************************)
EXTENDS OptimizeP1, FiniteSetTheorems, FunctionTheorems, SequenceTheorems, WellFoundedInduction, TLAPS

-----------------------------------------------------------------------------
\* A set of numbers has a least member.
LEMMA Least ==
  ASSUME NEW T \in SUBSET Nat, T # {}
  PROVE  \E x \in T : \A y \in T : x <= y
<1>1. PICK x \in T : \A y \in T : ~(<<y, x>> \in OpToRel(<, Nat))
  BY WFMin, NatLessThanWellFounded, Zenon
<1>2. ASSUME NEW y \in T, y < x PROVE FALSE
  <2>1. <<y, x>> \in Nat \X Nat /\ <<y, x>>[1] < <<y, x>>[2]
    BY <1>2
  <2>2. <<y, x>> \in OpToRel(<, Nat)
    BY <2>1, Zenon DEF OpToRel
  <2>. QED
    BY <1>1, <2>2, Zenon
<1>. QED
  BY <1>2

-----------------------------------------------------------------------------
(* The order of schedule_order.                                            *)

LEMMA TotalOrder ==
  ASSUME prog \in Seq(Inst)
  PROVE  /\ Len(prog) \in Nat /\ Index = DOMAIN prog
         /\ \A i \in Index : ~ByCycle(i, i)
         /\ \A i, j \in Index : i # j => ByCycle(i, j) \/ ByCycle(j, i)
         /\ \A i, j, k \in Index : ByCycle(i, j) /\ ByCycle(j, k) => ByCycle(i, k)
<1>1. Len(prog) \in Nat /\ Index = DOMAIN prog
  BY DEF Index
<1>2. \A i \in Index : prog[i].cycle \in Nat /\ i \in Nat
  <2>1. TAKE i \in Index
  <2>2. prog[i] \in Inst /\ i \in Nat
    BY <1>1 DEF Index
  <2>. QED
    BY <2>2 DEF Inst
<1>. QED
  BY <1>1, <1>2 DEF ByCycle

\* An instruction's rank is its place in the sorted vector: no two share one,
\* none is left out, and the order of ranks is that of the cycles.
LEMMA RankFacts ==
  ASSUME prog \in Seq(Inst)
  PROVE  /\ \A i \in Index : Rank(i) \in Nat /\ Rank(i) < Len(prog)
         /\ \A i, j \in Index : ByCycle(i, j) <=> Rank(i) < Rank(j)
         /\ \A i, j \in Index : Rank(i) = Rank(j) => i = j
         /\ \A k \in Index : \E i \in Index : Rank(i) = k - 1
<1>. DEFINE below(i) == {j \in Index : ByCycle(j, i)}
<1>1. Len(prog) \in Nat /\ IsFiniteSet(Index) /\ Cardinality(Index) = Len(prog)
  <2>1. Len(prog) \in Nat
    OBVIOUS
  <2>2. IsFiniteSet(1 .. Len(prog)) /\ Cardinality(1 .. Len(prog)) = Len(prog)
    BY <2>1, FS_Interval
  <2>. QED
    BY <2>1, <2>2 DEF Index
<1>2. \A i \in Index : IsFiniteSet(below(i)) /\ Cardinality(below(i)) \in Nat
  <2>1. \A i \in Index : below(i) \in SUBSET Index
    OBVIOUS
  <2>2. \A i \in Index : IsFiniteSet(below(i))
    BY <1>1, <2>1, FS_Subset
  <2>. QED
    BY <2>2, FS_CardinalityType
<1>3. \A i \in Index : Cardinality(below(i)) < Len(prog)
  <2>1. TAKE i \in Index
  <2>2. below(i) \in SUBSET Index /\ below(i) # Index
    BY TotalOrder
  <2>3. Cardinality(below(i)) <= Len(prog) /\ Cardinality(below(i)) # Len(prog)
    BY <1>1, <2>2, FS_Subset
  <2>4. Cardinality(below(i)) \in Nat
    BY <1>2
  <2>. HIDE DEF below
  <2>. QED
    BY <1>1, <2>3, <2>4
<1>4. \A i, j \in Index : ByCycle(i, j) => Cardinality(below(i)) < Cardinality(below(j))
  <2>1. TAKE i, j \in Index
  <2>2. HAVE ByCycle(i, j)
  <2>3. below(i) \in SUBSET below(j) /\ i \in below(j) /\ i \notin below(i)
    BY <2>2, TotalOrder
  <2>4. Cardinality(below(i)) <= Cardinality(below(j)) /\ Cardinality(below(i)) # Cardinality(below(j))
    BY <1>2, <2>3, FS_Subset
  <2>5. Cardinality(below(i)) \in Nat /\ Cardinality(below(j)) \in Nat
    BY <1>2
  <2>. HIDE DEF below
  <2>. QED
    BY <2>4, <2>5
<1>5. \A i \in Index : Rank(i) = Cardinality(below(i))
  BY DEF Rank
<1>. HIDE DEF below
<1>6. \A i \in Index : Rank(i) \in Nat /\ Rank(i) < Len(prog)
  BY <1>2, <1>3, <1>5
<1>7. \A i, j \in Index : ByCycle(i, j) => Rank(i) < Rank(j)
  BY <1>4, <1>5
<1>8. \A i, j \in Index : Rank(i) = Rank(j) => i = j
  BY <1>6, <1>7, TotalOrder
<1>9. \A i, j \in Index : Rank(i) < Rank(j) => ByCycle(i, j)
  BY <1>6, <1>7, TotalOrder
<1>10. \A k \in Index : \E i \in Index : Rank(i) = k - 1
  <2>. DEFINE place == [i \in Index |-> Rank(i) + 1]
  <2>1. \A i \in Index : Rank(i) + 1 \in Index
    BY <1>1, <1>6 DEF Index
  <2>2. place \in [Index -> Index]
    BY <2>1
  <2>3. \A i, j \in Index : place[i] = place[j] => i = j
    BY <1>6, <1>8
  <2>4. place \in Injection(Index, Index)
    BY <2>2, <2>3 DEF Injection, IsInjective
  <2>5. place \in Surjection(Index, Index)
    <3>. HIDE DEF place
    <3>. QED
      BY <1>1, <2>4, FS_Injection, Zenon
  <2>6. \A k \in Index : \E i \in Index : place[i] = k
    BY <2>5 DEF Surjection
  <2>7. TAKE k \in Index
  <2>8. PICK i \in Index : place[i] = k
    BY <2>6
  <2>9. place[i] = Rank(i) + 1 /\ Rank(i) \in Nat
    BY <1>6
  <2>. QED
    BY <2>8, <2>9
<1>. QED
  BY <1>6, <1>7, <1>8, <1>9, <1>10

\* Each entry of the sorted vector, cut or not, is one source instruction.
LEMMA Places ==
  ASSUME prog \in Seq(Inst), stage # "order", Sorted
  PROVE  /\ Len(code) \in Nat /\ \A k \in 1 .. Len(code) : code[k] \in Index /\ k \in Index
         /\ \A k, l \in 1 .. Len(code) : code[k] = code[l] => k = l
         /\ \A k, l \in 1 .. Len(code) : k < l => ByCycle(code[k], code[l])
         /\ Len(code) = Len(prog) => \A i \in Index : \E k \in 1 .. Len(code) : code[k] = i
<1>1. /\ code \in Seq(Index) /\ Len(code) \in Nat /\ Len(prog) \in Nat /\ Len(code) <= Len(prog)
      /\ \A k \in 1 .. Len(code) : Rank(code[k]) = k - 1
  BY DEF Sorted
<1>2. \A k \in 1 .. Len(code) : code[k] \in Index /\ k \in Index
  BY <1>1 DEF Index
<1>3. \A k, l \in 1 .. Len(code) : code[k] = code[l] => k = l
  <2>1. TAKE k, l \in 1 .. Len(code)
  <2>2. HAVE code[k] = code[l]
  <2>3. k - 1 = l - 1
    BY <1>1, <2>2
  <2>. QED
    BY <2>3
<1>4. \A k, l \in 1 .. Len(code) : k < l => ByCycle(code[k], code[l])
  <2>1. TAKE k, l \in 1 .. Len(code)
  <2>2. HAVE k < l
  <2>3. Rank(code[k]) < Rank(code[l])
    BY <1>1, <2>2
  <2>. QED
    BY <1>2, <2>3, RankFacts
<1>5. ASSUME Len(code) = Len(prog), NEW i \in Index
      PROVE  \E k \in 1 .. Len(code) : code[k] = i
  <2>1. Rank(i) \in Nat /\ Rank(i) < Len(prog)
    BY RankFacts
  <2>2. Rank(i) + 1 \in 1 .. Len(code)
    BY <1>1, <1>5, <2>1
  <2>3. Rank(code[Rank(i) + 1]) = Rank(i)
    BY <1>1, <2>1, <2>2
  <2>4. code[Rank(i) + 1] = i
    BY <1>2, <2>2, <2>3, RankFacts
  <2>. QED
    BY <2>2, <2>4
<1>. QED
  BY <1>1, <1>2, <1>3, <1>4, <1>5
-----------------------------------------------------------------------------
(* optimize_p0.                                                            *)

LEMMA P0Starts == P0Init => P0Inv
<1>. SUFFICES ASSUME P0Init PROVE P0Inv
  OBVIOUS
<1>1. prog \in Seq(Inst) /\ Len(prog) \in Nat
  BY P0Assumption DEF P0Init
<1>. QED
  BY <1>1 DEF P0Init, P0Inv, Sorted, MarkedSoFar, CutAtStop

\* What speaks of the program alone stays when the program does.
LEMMA SameProgram ==
  ASSUME prog' = prog
  PROVE  /\ Index' = Index
         /\ \A i : Rank(i)' = Rank(i)
         /\ \A i, k : Source(i, k)' = Source(i, k)
<1>1. Index' = Index
  BY DEF Index
<1>2. \A i, j : ByCycle(i, j)' = ByCycle(i, j)
  BY DEF ByCycle
<1>3. \A i : Rank(i)' = Rank(i)
  BY <1>1, <1>2 DEF Rank
<1>4. \A i, k : Source(i, k)' = Source(i, k)
  BY DEF Source, RegAt
<1>. QED
  BY <1>1, <1>3, <1>4

LEMMA OrderKept ==
  ASSUME P0Inv, Order
  PROVE  P0Inv'
<1>1. /\ prog' = prog /\ pos' = pos /\ reuse' = reuse /\ stage = "order" /\ stage' = "reuse"
      /\ code' = [k \in Index |-> CHOOSE i \in Index : Rank(i) = k - 1]
      /\ pos = 1 /\ reuse = {} /\ prog \in Seq(Inst) /\ Len(prog) \in Nat
  BY DEF Order, P0Inv, Sorted
<1>2. \A k \in Index : code'[k] \in Index /\ Rank(code'[k]) = k - 1
  BY <1>1, RankFacts
<1>3. code' \in Seq(Index) /\ Len(code') = Len(prog)
  BY <1>1, <1>2 DEF Index
<1>4. Sorted'
  BY <1>1, <1>2, <1>3, SameProgram DEF Sorted, Index
<1>5. MarkedSoFar'
  BY <1>1, <1>3 DEF MarkedSoFar
<1>. QED
  BY <1>1, <1>4, <1>5 DEF P0Inv, CutAtStop

LEMMA MarkKept ==
  ASSUME P0Inv, MarkReuse
  PROVE  P0Inv'
<1>1. /\ prog' = prog /\ code' = code /\ stage' = stage /\ pos' = pos + 1 /\ stage = "reuse"
      /\ prog \in Seq(Inst) /\ Len(prog) \in Nat /\ Len(code) = Len(prog) /\ pos \in 1 .. Len(code)
  BY DEF MarkReuse, NextPos, P0Inv, Sorted, MarkedSoFar
<1>. DEFINE marks(p, k) == Source(code[p], k) # NoReg /\ Found(p, Source(code[p], k))
<1>2. reuse' = reuse \union {<<code[pos], k>> : k \in {k \in 2 .. 3 : marks(pos, k)}}
  BY DEF MarkReuse
<1>3. \A p \in 1 .. Len(code), k \in 2 .. 3 : <<code[p], k>> \in reuse <=> p < pos /\ marks(p, k)
  BY <1>1 DEF P0Inv, MarkedSoFar
<1>4. \A p \in 1 .. Len(code) : code[p] = code[pos] => p = pos
  BY <1>1, Places DEF P0Inv
<1>5. \A p \in 1 .. Len(code), k \in 2 .. 3 : <<code[p], k>> \in reuse' <=> p < pos + 1 /\ marks(p, k)
  <2>. HIDE DEF marks
  <2>1. TAKE p \in 1 .. Len(code), k \in 2 .. 3
  <2>2. <<code[p], k>> \in reuse' <=> <<code[p], k>> \in reuse \/ (code[p] = code[pos] /\ marks(pos, k))
    BY <1>2
  <2>3. code[p] = code[pos] <=> p = pos
    BY <1>4
  <2>4. p < pos + 1 <=> p < pos \/ p = pos
    BY <1>1
  <2>. QED
    BY <1>3, <2>2, <2>3, <2>4
<1>6. \A p, r : Found(p, r)' = Found(p, r)
  BY <1>1 DEF Found, Ahead, ReadsAt, WritesAt, Source, RegAt
<1>7. MarkedSoFar'
  BY <1>1, <1>5, <1>6, SameProgram DEF MarkedSoFar
<1>8. Sorted'
  BY <1>1, SameProgram DEF P0Inv, Sorted
<1>. QED
  BY <1>1, <1>7, <1>8 DEF P0Inv, CutAtStop

LEMMA DoneKept ==
  ASSUME P0Inv, ReuseDone
  PROVE  P0Inv'
<1>1. /\ prog' = prog /\ code' = code /\ pos' = pos /\ reuse' = reuse /\ stage = "reuse" /\ stage' = "dce"
      /\ Len(prog) \in Nat /\ Len(code) = Len(prog) /\ pos = Len(prog) + 1
  BY DEF ReuseDone, P0Inv, MarkedSoFar
<1>2. \A p, r : Found(p, r)' = Found(p, r)
  BY <1>1 DEF Found, Ahead, ReadsAt, WritesAt, Source, RegAt
<1>3. MarkedSoFar'
  BY <1>1, <1>2, SameProgram DEF P0Inv, MarkedSoFar
<1>4. Sorted'
  BY <1>1, SameProgram DEF P0Inv, Sorted
<1>. QED
  BY <1>1, <1>3, <1>4 DEF P0Inv, CutAtStop

\* The cut is inside the vector, and behind its first terminator if it has one.
LEMMA CutFacts ==
  ASSUME code \in Seq(Index)
  PROVE  /\ CutLength \in Nat /\ CutLength <= Len(code)
         /\ \A k \in 1 .. CutLength - 1 : k \notin Stops
         /\ CutLength < Len(code) => CutLength \in Stops
<1>1. Len(code) \in Nat /\ Stops \in SUBSET Nat /\ \A k \in Stops : k <= Len(code)
  BY DEF Stops
<1>2. CASE Stops = {}
  BY <1>1, <1>2 DEF CutLength
<1>3. CASE Stops # {}
  <2>1. \E k \in Stops : \A l \in Stops : k <= l
    BY <1>1, <1>3, Least
  <2>2. CutLength \in Stops /\ \A l \in Stops : CutLength <= l
    BY <1>3, <2>1 DEF CutLength
  <2>3. CutLength \in Nat
    BY <1>1, <2>2
  <2>. QED
    BY <1>1, <2>2, <2>3
<1>. QED
  BY <1>2, <1>3

LEMMA CutKept ==
  ASSUME P0Inv, EliminateDead
  PROVE  P0Inv'
<1>1. /\ prog' = prog /\ pos' = pos /\ stage = "dce" /\ stage' = "done"
      /\ code' = SubSeq(code, 1, CutLength) /\ code \in Seq(Index)
      /\ Len(prog) \in Nat /\ Len(code) = Len(prog)
      /\ \A k \in 1 .. Len(code) : Rank(code[k]) = k - 1
  BY DEF EliminateDead, P0Inv, Sorted, MarkedSoFar
<1>2. /\ CutLength \in Nat /\ CutLength <= Len(code)
      /\ \A k \in 1 .. CutLength - 1 : k \notin Stops
      /\ CutLength < Len(code) => CutLength \in Stops
  BY <1>1, CutFacts
<1>3. /\ code' \in Seq(Index) /\ Len(code') = CutLength
      /\ \A k \in 1 .. CutLength : code'[k] = code[k]
  BY <1>1, <1>2
<1>4. Sorted'
  BY <1>1, <1>2, <1>3, SameProgram DEF Sorted
<1>5. CutAtStop'
  <2>1. \A k \in 1 .. CutLength - 1 : prog[code'[k]].opcode \notin Terminator
    BY <1>1, <1>2, <1>3 DEF Stops
  <2>2. CutLength < Len(code) => CutLength > 0 /\ prog[code'[CutLength]].opcode \in Terminator
    BY <1>1, <1>2, <1>3 DEF Stops
  <2>. QED
    BY <1>1, <1>3, <2>1, <2>2 DEF CutAtStop
<1>. QED
  BY <1>1, <1>4, <1>5 DEF P0Inv, MarkedSoFar

LEMMA P0Kept == P0Inv /\ [P0Next]_p0vars => P0Inv'
<1>. SUFFICES ASSUME P0Inv, [P0Next]_p0vars PROVE P0Inv'
  OBVIOUS
<1>1. CASE UNCHANGED p0vars
  <2>1. prog' = prog /\ stage' = stage /\ code' = code /\ pos' = pos /\ reuse' = reuse
    BY <1>1 DEF p0vars
  <2>2. \A p, r : Found(p, r)' = Found(p, r)
    BY <2>1 DEF Found, Ahead, ReadsAt, WritesAt, Source, RegAt
  <2>3. MarkedSoFar'
    BY <2>1, <2>2, SameProgram DEF P0Inv, MarkedSoFar
  <2>4. Sorted'
    BY <2>1, SameProgram DEF P0Inv, Sorted
  <2>5. CutAtStop'
    BY <2>1 DEF P0Inv, CutAtStop
  <2>. QED
    BY <2>1, <2>3, <2>4, <2>5 DEF P0Inv
<1>. QED
  BY <1>1, OrderKept, MarkKept, DoneKept, CutKept DEF P0Next

\* The vector stays the sorted program, or the part of it in front of the first
\* terminator, and the flags set so far are those the walk has passed.
THEOREM P0Invariance == P0Spec => []P0Inv
  BY P0Starts, P0Kept, PTL DEF P0Spec

\* The search stops at the first reader or writer, which finds a reader exactly
\* when some reader comes before every writer.
LEMMA FirstReader ==
  ASSUME code \in Seq(Index), NEW p \in 1 .. Len(code), NEW r
  PROVE  Found(p, r) <=> \E j \in p + 1 .. Len(code) :
                           /\ j - p < Lookahead /\ ReadsAt(j, r)
                           /\ \A v \in p + 1 .. j - 1 : ~WritesAt(v, r)
<1>1. Len(code) \in Nat /\ p \in Nat /\ Lookahead \in Nat
  BY P0Assumption
<1>2. \A j : j \in Ahead(p) <=> j \in p + 1 .. Len(code) /\ j - p < Lookahead
  BY <1>1 DEF Ahead
<1>3. ASSUME NEW j \in p + 1 .. Len(code), j - p < Lookahead, ReadsAt(j, r),
             \A v \in p + 1 .. j - 1 : ~WritesAt(v, r)
      PROVE  Found(p, r)
  <2>. DEFINE T == {x \in p + 1 .. Len(code) : ReadsAt(x, r)}
  <2>1. T \in SUBSET Nat /\ j \in T
    BY <1>1, <1>3
  <2>2. PICK x \in T : \A y \in T : x <= y
    BY <2>1, Least
  <2>3. x \in p + 1 .. Len(code) /\ ReadsAt(x, r) /\ x <= j
    BY <2>1, <2>2
  <2>4. x \in Ahead(p)
    BY <1>1, <1>2, <1>3, <2>3
  <2>5. \A v \in p + 1 .. x - 1 : ~ReadsAt(v, r) /\ ~WritesAt(v, r)
    BY <1>1, <1>3, <2>2, <2>3
  <2>. QED
    BY <2>3, <2>4, <2>5 DEF Found
<1>4. ASSUME Found(p, r)
      PROVE  \E j \in p + 1 .. Len(code) :
               /\ j - p < Lookahead /\ ReadsAt(j, r)
               /\ \A v \in p + 1 .. j - 1 : ~WritesAt(v, r)
  <2>1. PICK j \in Ahead(p) : ReadsAt(j, r) /\ \A v \in p + 1 .. j - 1 : ~ReadsAt(v, r) /\ ~WritesAt(v, r)
    BY <1>4 DEF Found
  <2>. QED
    BY <1>2, <2>1
<1>. QED
  BY <1>3, <1>4

\* For every program and lookahead, a value read again before the last
\* instruction of the lookahead is flagged, and only a value read again within
\* the lookahead is.
THEOREM ReuseTheorem == P0Spec => []ReuseAgreed
<1>1. ASSUME P0Inv, stage = "dce", NEW i \in Index, NEW k \in 2 .. 3
      PROVE  <<i, k>> \in reuse <=>
               /\ Source(i, k) # NoReg
               /\ \E j \in At(i) + 1 .. Len(code) :
                    /\ j - At(i) < Lookahead
                    /\ ReadsAt(j, Source(i, k))
                    /\ \A v \in At(i) + 1 .. j - 1 : ~WritesAt(v, Source(i, k))
  <2>1. /\ code \in Seq(Index) /\ Len(code) \in Nat /\ pos = Len(code) + 1 /\ Len(code) = Len(prog)
        /\ prog \in Seq(Inst)
    BY <1>1 DEF P0Inv, Sorted, MarkedSoFar
  <2>2. \E p \in 1 .. Len(code) : code[p] = i
    BY <1>1, <2>1, Places DEF P0Inv
  <2>3. At(i) \in 1 .. Len(code) /\ code[At(i)] = i
    BY <2>2 DEF At
  <2>4. <<i, k>> \in reuse <=> At(i) < pos /\ Source(i, k) # NoReg /\ Found(At(i), Source(i, k))
    BY <1>1, <2>3 DEF P0Inv, MarkedSoFar
  <2>5. At(i) < pos
    BY <2>1, <2>3
  <2>. QED
    BY <2>1, <2>3, <2>4, <2>5, FirstReader
<1>2. ASSUME P0Inv, stage = "dce", NEW i \in Index, NEW k \in 2 .. 3
      PROVE  LET r == Source(i, k)
             IN  /\ r # NoReg /\ ReadAgain(At(i), r, Lookahead - 1) => <<i, k>> \in reuse
                 /\ <<i, k>> \in reuse => r # NoReg /\ ReadAgain(At(i), r, Lookahead)
  <2>1. Len(code) \in Nat /\ Lookahead \in Nat /\ At(i) \in Int
    <3>1. /\ code \in Seq(Index) /\ Len(code) = Len(prog) /\ prog \in Seq(Inst)
      BY <1>2 DEF P0Inv, Sorted, MarkedSoFar
    <3>2. \E p \in 1 .. Len(code) : code[p] = i
      BY <1>2, <3>1, Places DEF P0Inv
    <3>3. At(i) \in 1 .. Len(code)
      BY <3>2 DEF At
    <3>. QED
      BY <3>1, <3>3, P0Assumption
  <2>2. \A j \in At(i) + 1 .. Len(code) : j - At(i) < Lookahead <=> j - At(i) <= Lookahead - 1
    BY <2>1
  <2>3. \A j \in At(i) + 1 .. Len(code) : j - At(i) < Lookahead => j - At(i) <= Lookahead
    BY <2>1
  <2>. QED
    BY <1>1, <1>2, <2>2, <2>3 DEF ReadAgain
<1>3. ASSUME P0Inv PROVE ReuseAgreed
  BY <1>2, <1>3 DEF ReuseAgreed
<1>. QED
  BY <1>3, P0Invariance, PTL

\* For every program whose cycles follow the source order, what is cut is what
\* lies behind a terminator of the source, all of it and nothing else.
THEOREM DeadTheorem == P0Spec => []DeadWhenInOrder
<1>1. ASSUME P0Inv, stage = "done", \A i, j \in Index : i < j => prog[i].cycle <= prog[j].cycle
      PROVE  Removed = {i \in Index : Dead(i)}
  <2>1. /\ prog \in Seq(Inst) /\ Len(prog) \in Nat /\ code \in Seq(Index) /\ Len(code) \in Nat
        /\ Len(code) <= Len(prog) /\ \A k \in 1 .. Len(code) : Rank(code[k]) = k - 1
    BY <1>1 DEF P0Inv, Sorted
  <2>2. \A i \in Index : i \in Nat /\ prog[i].cycle \in Nat
    <3>1. TAKE i \in Index
    <3>2. prog[i] \in Inst /\ i \in Nat
      BY <2>1 DEF Index
    <3>. QED
      BY <3>2 DEF Inst
  <2>3. \A i \in Index : Rank(i) = i - 1
    <3>1. TAKE i \in Index
    <3>2. \A j \in Index : ByCycle(j, i) <=> j < i
      BY <1>1, <2>2 DEF ByCycle
    <3>3. {j \in Index : ByCycle(j, i)} = 1 .. i - 1
      BY <2>1, <3>2 DEF Index
    <3>4. i \in Nat /\ i >= 1
      BY DEF Index
    <3>5. Cardinality(1 .. i - 1) = i - 1
      BY <3>4, FS_Interval
    <3>. QED
      BY <3>3, <3>5 DEF Rank
  <2>4. \A k \in 1 .. Len(code) : code[k] = k
    <3>1. TAKE k \in 1 .. Len(code)
    <3>2. code[k] \in Index /\ Rank(code[k]) = k - 1
      BY <2>1
    <3>. QED
      BY <2>2, <2>3, <3>2
  <2>5. \A i \in Index : i \in Removed <=> i > Len(code)
    BY <2>1, <2>4 DEF Removed, Index
  <2>6. /\ \A k \in 1 .. Len(code) - 1 : prog[k].opcode \notin Terminator
        /\ Len(code) < Len(prog) => Len(code) > 0 /\ prog[Len(code)].opcode \in Terminator
    <3>1. /\ \A k \in 1 .. Len(code) - 1 : prog[code[k]].opcode \notin Terminator
          /\ Len(code) < Len(prog) => Len(code) > 0 /\ prog[code[Len(code)]].opcode \in Terminator
      BY <1>1 DEF P0Inv, CutAtStop
    <3>2. \A k \in 1 .. Len(code) - 1 : code[k] = k
      BY <2>1, <2>4
    <3>3. Len(code) > 0 => code[Len(code)] = Len(code)
      BY <2>1, <2>4
    <3>. QED
      BY <3>1, <3>2, <3>3
  <2>7. \A i \in Index : Dead(i) <=> i > Len(code)
    <3>1. TAKE i \in Index
    <3>2. i \in Nat /\ i >= 1 /\ i <= Len(prog)
      BY <2>1 DEF Index
    <3>3. ASSUME i > Len(code) PROVE Dead(i)
      <4>1. Len(code) \in 1 .. i - 1 /\ prog[Len(code)].opcode \in Terminator
        BY <2>1, <2>6, <3>2, <3>3
      <4>. QED
        BY <4>1 DEF Dead
    <3>4. ASSUME Dead(i), i <= Len(code) PROVE FALSE
      <4>1. PICK t \in 1 .. i - 1 : prog[t].opcode \in Terminator
        BY <3>4 DEF Dead
      <4>2. t \in 1 .. Len(code) - 1
        BY <2>1, <3>2, <3>4
      <4>. QED
        BY <2>6, <4>1, <4>2
    <3>. QED
      BY <2>1, <3>2, <3>3, <3>4
  <2>8. Removed \subseteq Index
    BY DEF Removed
  <2>. QED
    BY <2>5, <2>7, <2>8
<1>2. ASSUME P0Inv PROVE DeadWhenInOrder
  BY <1>1, <1>2 DEF DeadWhenInOrder
<1>. QED
  BY <1>2, P0Invariance, PTL
-----------------------------------------------------------------------------
(* An instruction of the vector, and what the rewriting makes of it.       *)

LEMMA ImmMoveShape ==
  ASSUME NEW inst \in Inst, IsImmMove(inst)
  PROVE  /\ inst.operands[1].reg \in Reg
         /\ inst.operands[2].val \in Int
         /\ inst.operands[2] = [type |-> "IMM", val |-> inst.operands[2].val]
<1>1. inst.operands \in Seq(Operand) /\ Len(inst.operands) >= 2
  BY DEF Inst, IsImmMove
<1>2. inst.operands[1] \in Operand /\ inst.operands[2] \in Operand
  BY <1>1
<1>. QED
  BY <1>2 DEF Operand, IsImmMove

LEMMA RewriteShape ==
  ASSUME NEW inst \in Inst, NEW known \in [Reg -> Int \union {None}]
  PROVE  /\ Rewrite(inst, known) \in Inst /\ Rewrite(inst, known).opcode = inst.opcode
         /\ \A k \in DOMAIN inst.operands :
              Rewrite(inst, known).operands[k] = Replace(inst.operands[k], known)
<1> DEFINE ops == [k \in DOMAIN inst.operands |-> Replace(inst.operands[k], known)]
<1>1. inst.operands \in Seq(Operand) /\ inst.opcode \in STRING
  BY DEF Inst
<1>2. DOMAIN inst.operands = 1 .. Len(inst.operands) /\ Len(inst.operands) \in Nat
  BY <1>1
<1>3. \A k \in 1 .. Len(inst.operands) : Replace(inst.operands[k], known) \in Operand
  <2>1. TAKE k \in 1 .. Len(inst.operands)
  <2>2. inst.operands[k] \in Operand
    BY <1>1
  <2>. QED
    BY <2>2 DEF Replace, Operand
<1>4. ops \in [1 .. Len(inst.operands) -> Operand]
  BY <1>2, <1>3
<1>5. ops \in Seq(Operand)
  BY <1>2, <1>4
<1>6. Rewrite(inst, known) = [inst EXCEPT !.operands = ops]
  BY DEF Rewrite
<1>7. /\ Rewrite(inst, known) \in Inst /\ Rewrite(inst, known).operands = ops
      /\ Rewrite(inst, known).opcode = inst.opcode
  <2> HIDE DEF ops
  <2>. QED
    BY <1>5, <1>6 DEF Inst
<1>. QED
  BY <1>7

-----------------------------------------------------------------------------
(* const_propagation.                                                      *)

\* What optimize_p0 hands over is a vector of instructions.
LEMMA LiveTypes == P0Inv => Live \in Seq(Inst) /\ Len(Live) \in Nat /\ Len(Live) = Len(code)
<1>. SUFFICES ASSUME P0Inv PROVE Live \in Seq(Inst) /\ Len(Live) \in Nat /\ Len(Live) = Len(code)
  OBVIOUS
<1>1. prog \in Seq(Inst) /\ code \in Seq(Index) /\ Len(code) \in Nat
  <2>1. prog \in Seq(Inst) /\ Len(prog) \in Nat
    BY DEF P0Inv
  <2>2. CASE stage = "order"
    BY <2>1, <2>2 DEF P0Inv, Sorted, Index
  <2>3. CASE stage # "order"
    BY <2>1, <2>3 DEF P0Inv, Sorted
  <2>. QED
    BY <2>1, <2>2, <2>3
<1>2. \A k \in 1 .. Len(code) : prog[code[k]] \in Inst
  BY <1>1 DEF Index
<1>. QED
  BY <1>1, <1>2 DEF Live

LEMMA PropStarts == Init => PropInv
<1>. SUFFICES ASSUME Init PROVE PropInv
  OBVIOUS
<1>1. P0Inv /\ Live \in Seq(Inst) /\ Len(Live) \in Nat
  BY P0Starts, LiveTypes DEF Init
<1>2. insts = <<>> /\ visit = 0 /\ constVals = [r \in Reg |-> None]
  BY DEF Init
<1>. QED
  BY <1>1, <1>2 DEF PropInv, TypeOK, AheadUntouched, TableInv, OpcodesKept, ReplacedByLatest

\* Before the pass begins there is nothing but the work of optimize_p0.
LEMMA PassesKept ==
  ASSUME PropInv, P0Passes
  PROVE  PropInv'
<1>1. P0Inv' /\ insts' = insts /\ visit' = visit /\ constVals' = constVals
  BY P0Kept DEF PropInv, P0Passes, propVars
<1>2. visit = 0
  <2>1. stage # "done"
    BY DEF P0Passes, P0Next, Order, MarkReuse, ReuseDone, EliminateDead
  <2>2. visit \in Nat
    BY LiveTypes DEF PropInv, TypeOK
  <2>. QED
    BY <2>1, <2>2 DEF PropInv, TypeOK
<1>3. (Live \in Seq(Inst) /\ Len(Live) \in Nat)'
  BY <1>1, LiveTypes, PTL
<1>4. TypeOK'
  BY <1>1, <1>2, <1>3 DEF PropInv, TypeOK
<1>5. TableInv'
  BY <1>1, <1>2 DEF PropInv, TableInv
<1>6. ReplacedByLatest' /\ AheadUntouched' /\ OpcodesKept'
  <2>1. Len(insts) = 0 /\ insts \in Seq(Inst)
    BY <1>2 DEF PropInv, TypeOK
  <2>. QED
    BY <1>1, <1>2, <2>1 DEF ReplacedByLatest, AheadUntouched, OpcodesKept
<1>. QED
  BY <1>1, <1>4, <1>5, <1>6 DEF PropInv

LEMMA BeginKept ==
  ASSUME PropInv, Begin
  PROVE  PropInv'
<1>1. /\ insts' = Live /\ visit = 0 /\ visit' = 1 /\ constVals' = constVals /\ Live' = Live
      /\ stage = "done" /\ stage' = "done"
  BY DEF Begin, p0vars, Live
<1>2. P0Inv'
  BY P0Kept DEF PropInv, Begin, p0vars
<1>3. Live \in Seq(Inst) /\ Len(Live) \in Nat
  BY LiveTypes DEF PropInv
<1>4. TypeOK'
  BY <1>1, <1>3 DEF PropInv, TypeOK
<1>5. TableInv'
  BY <1>1 DEF PropInv, TableInv
<1>6. AheadUntouched' /\ ReplacedByLatest' /\ OpcodesKept'
  BY <1>1 DEF AheadUntouched, ReplacedByLatest, OpcodesKept
<1>. QED
  BY <1>2, <1>4, <1>5, <1>6 DEF PropInv

\* What speaks of the vector handed over alone stays when that does.
LEMMA SameMoves ==
  ASSUME Live' = Live
  PROVE  /\ \A n, r : MovesInto(n, r)' = MovesInto(n, r)
         /\ \A m, r, i : LastMove(m, r, i)' = LastMove(m, r, i)
  BY DEF MovesInto, LastMove, IsImmMove

LEMMA VisitKept ==
  ASSUME PropInv, VisitInst
  PROVE  PropInv'
<1>0. /\ Live \in Seq(Inst) /\ Len(Live) \in Nat /\ visit \in 1 .. Len(Live)
      /\ insts \in Seq(Inst) /\ Len(insts) = Len(Live) /\ stage = "done"
      /\ constVals \in [Reg -> Int \union {None}]
  BY DEF PropInv, TypeOK, VisitInst
<1>1. Live' = Live /\ visit' = visit + 1 /\ stage' = stage
  BY DEF VisitInst, p0vars, Live
<1>2. insts[visit] = Live[visit] /\ Live[visit] \in Inst
  BY <1>0 DEF PropInv, AheadUntouched
<1>3. constVals' = Recorded(Live[visit])
  BY <1>2 DEF VisitInst
<1>4. constVals' \in [Reg -> Int \union {None}]
  BY <1>0, <1>2, <1>3, ImmMoveShape DEF Recorded
<1>5. /\ Rewrite(Live[visit], constVals') \in Inst
      /\ \A k \in DOMAIN Live[visit].operands :
           Rewrite(Live[visit], constVals').operands[k] = Replace(Live[visit].operands[k], constVals')
  BY <1>2, <1>4, RewriteShape
<1>6. insts' = [insts EXCEPT ![visit] = Rewrite(Live[visit], constVals')]
  BY <1>2 DEF VisitInst
<1>7. /\ insts' \in Seq(Inst) /\ Len(insts') = Len(Live)
      /\ insts'[visit] = Rewrite(Live[visit], constVals')
      /\ \A i \in 1 .. Len(Live) : i # visit => insts'[i] = insts[i]
  BY <1>0, <1>5, <1>6
<1>8. TypeOK' /\ AheadUntouched' /\ OpcodesKept'
  <2>1. TypeOK' /\ AheadUntouched'
    BY <1>0, <1>1, <1>4, <1>7 DEF PropInv, TypeOK, AheadUntouched
  <2>2. Rewrite(Live[visit], constVals').opcode = Live[visit].opcode
    BY <1>2, <1>4, RewriteShape
  <2>3. \A i \in 1 .. Len(Live) : insts'[i].opcode = Live[i].opcode
    BY <1>0, <1>7, <2>2 DEF PropInv, OpcodesKept
  <2>. QED
    BY <1>1, <1>7, <2>1, <2>3 DEF OpcodesKept
<1>9. ASSUME NEW r \in Reg
      PROVE  /\ constVals'[r] = None => \A m \in 1 .. visit : ~MovesInto(m, r)
             /\ constVals'[r] # None =>
                  \E m \in 1 .. visit : /\ MovesInto(m, r)
                                        /\ \A n \in m + 1 .. visit : ~MovesInto(n, r)
                                        /\ Live[m].operands[2].val = constVals'[r]
  <2>2. CASE MovesInto(visit, r)
    <3>1. constVals'[r] = Live[visit].operands[2].val /\ constVals'[r] # None
      BY <1>0, <1>2, <1>3, <2>2, ImmMoveShape, PropAssumption DEF MovesInto, Recorded
    <3>. QED
      BY <1>0, <2>2, <3>1
  <2>3. CASE ~MovesInto(visit, r)
    <3>1. constVals'[r] = constVals[r]
      BY <1>0, <1>2, <1>3, <2>3, ImmMoveShape DEF MovesInto, Recorded
    <3>2. CASE constVals[r] = None
      BY <1>0, <2>3, <3>1, <3>2 DEF PropInv, TableInv
    <3>3. CASE constVals[r] # None
      <4>1. PICK m \in 1 .. visit - 1 : /\ MovesInto(m, r)
                                        /\ \A n \in m + 1 .. visit - 1 : ~MovesInto(n, r)
                                        /\ Live[m].operands[2].val = constVals[r]
        BY <3>3 DEF PropInv, TableInv
      <4>2. m \in 1 .. visit /\ \A n \in m + 1 .. visit : ~MovesInto(n, r)
        BY <1>0, <2>3, <4>1
      <4>. QED
        BY <3>1, <3>3, <4>1, <4>2
    <3>. QED
      BY <3>2, <3>3
  <2>. QED
    BY <2>2, <2>3
<1>10. TableInv'
  <2>1. visit' - 1 = visit
    BY <1>0, <1>1
  <2>. QED
    BY <1>1, <1>9, <2>1, SameMoves DEF TableInv
<1>11. ReplacedByLatest'
  <2>1. SUFFICES ASSUME NEW i \in 1 .. visit, NEW k \in DOMAIN Live[i].operands,
                        Live[i].operands[k].type = "REG"
                 PROVE  LET op == Live[i].operands[k]
                        IN  /\ \A m \in 1 .. i :
                                 LastMove(m, op.reg, i) => insts'[i].operands[k] = Live[m].operands[2]
                            /\ (\A m \in 1 .. i : ~LastMove(m, op.reg, i)) => insts'[i].operands[k] = op
    <3>1. visit' - 1 = visit
      BY <1>0, <1>1
    <3>. QED
      BY <1>1, <3>1, SameMoves DEF ReplacedByLatest
  <2> DEFINE op == Live[i].operands[k]
  <2>2. CASE i < visit
    <3>1. insts'[i] = insts[i] /\ i \in 1 .. visit - 1
      BY <1>0, <1>7, <2>2
    <3>. QED
      BY <2>1, <3>1 DEF PropInv, ReplacedByLatest
  <2>3. CASE i = visit
    <3>1. op.reg \in Reg /\ op.type = "REG"
      <4>1. Live[i].operands \in Seq(Operand)
        BY <1>2, <2>3 DEF Inst
      <4>2. op \in Operand
        BY <4>1
      <4>. QED
        BY <2>1, <4>2 DEF Operand
    <3>2. insts'[i].operands[k] = Replace(op, constVals')
      BY <1>5, <1>7, <2>3
    <3>3. \A m \in 1 .. i : LastMove(m, op.reg, i) <=>
             MovesInto(m, op.reg) /\ \A n \in m + 1 .. i : ~MovesInto(n, op.reg)
      BY <1>0 DEF LastMove, MovesInto
    <3> HIDE DEF op
    <3>4. ASSUME NEW m \in 1 .. i, LastMove(m, op.reg, i)
          PROVE  insts'[i].operands[k] = Live[m].operands[2]
      <4>1. constVals'[op.reg] # None
        <5>1. m \in 1 .. visit /\ MovesInto(m, op.reg)
          BY <2>3, <3>3, <3>4
        <5>2. constVals'[op.reg] = None => \A n \in 1 .. visit : ~MovesInto(n, op.reg)
          BY <1>9, <3>1
        <5>. QED
          BY <5>1, <5>2
      <4>2. PICK q \in 1 .. visit : /\ MovesInto(q, op.reg)
                                    /\ \A n \in q + 1 .. visit : ~MovesInto(n, op.reg)
                                    /\ Live[q].operands[2].val = constVals'[op.reg]
        BY <1>9, <3>1, <4>1
      <4>3. q = m
        BY <1>0, <2>3, <3>3, <3>4, <4>2
      <4>4. Live[m] \in Inst /\ IsImmMove(Live[m])
        BY <1>0, <2>3, <3>4 DEF LastMove
      <4>5. Live[m].operands[2] = [type |-> "IMM", val |-> Live[m].operands[2].val]
        BY <4>4, ImmMoveShape
      <4>6. Live[m].operands[2].val = constVals'[op.reg]
        BY <4>2, <4>3
      <4>. QED
        BY <3>1, <3>2, <4>1, <4>5, <4>6 DEF Replace
    <3>5. ASSUME \A m \in 1 .. i : ~LastMove(m, op.reg, i)
          PROVE  insts'[i].operands[k] = op
      <4>1. constVals'[op.reg] = None
        <5>1. SUFFICES ASSUME constVals'[op.reg] # None PROVE FALSE
          OBVIOUS
        <5>2. PICK q \in 1 .. visit : /\ MovesInto(q, op.reg)
                                      /\ \A n \in q + 1 .. visit : ~MovesInto(n, op.reg)
          BY <1>9, <3>1, <5>1
        <5>. QED
          BY <2>3, <3>3, <3>5, <5>2
      <4>. QED
        BY <3>2, <4>1 DEF Replace
    <3>. QED
      BY <3>4, <3>5 DEF op
  <2>. QED
    BY <1>0, <2>2, <2>3
<1>. QED
  BY <1>8, <1>10, <1>11, P0Kept DEF PropInv, VisitInst, p0vars

LEMMA PropKept == PropInv /\ [Next]_vars => PropInv'
<1>. SUFFICES ASSUME PropInv, [Next]_vars PROVE PropInv'
  OBVIOUS
<1>1. CASE UNCHANGED vars
  <2>1. /\ Live' = Live /\ stage' = stage /\ insts' = insts /\ visit' = visit /\ constVals' = constVals
    BY <1>1 DEF vars, p0vars, propVars, Live
  <2>2. P0Inv'
    BY <1>1, P0Kept DEF PropInv, vars
  <2>3. TypeOK' /\ AheadUntouched' /\ OpcodesKept'
    BY <2>1 DEF PropInv, TypeOK, AheadUntouched, OpcodesKept
  <2>4. TableInv'
    BY <2>1, SameMoves DEF PropInv, TableInv
  <2>5. ReplacedByLatest'
    BY <2>1, SameMoves DEF PropInv, ReplacedByLatest
  <2>. QED
    BY <2>2, <2>3, <2>4, <2>5 DEF PropInv
<1>. QED
  BY <1>1, PassesKept, BeginKept, VisitKept DEF Next

\* The table and the edited vector keep their types: an operand that is
\* replaced becomes an immediate of the program.
THEOREM ConstPropTypeOK == Spec => []TypeOK
<1>1. PropInv => TypeOK
  BY DEF PropInv
<1>. QED
  BY <1>1, PropStarts, PropKept, PTL DEF Spec

\* For every program optimize_p0 may leave, a source register whose last writer
\* moved an immediate into it becomes that immediate, and one that no immediate
\* was ever moved into stays.
THEOREM ConstPropKnown == Spec => []KnownReplaced
<1>1. ASSUME PropInv, NEW i \in 1 .. visit - 1, NEW k \in Sources(i), ~IsImmMove(Live[i]),
             NEW w \in 1 .. i - 1, Defines(w, Live[i].operands[k].reg, i), IsImmMove(Live[w])
      PROVE  insts[i].operands[k] = Live[w].operands[2]
  <2>1. i \in Nat /\ w \in 1 .. i /\ w <= i
    BY <1>1 DEF PropInv, TypeOK
  <2>2. \A n \in DOMAIN Live : IsImmMove(Live[n]) => RegAt(Live[n], 1) = Live[n].operands[1].reg
    <3>1. ASSUME NEW n \in DOMAIN Live, IsImmMove(Live[n])
          PROVE  1 \in DOMAIN Live[n].operands
      <4>1. Live[n] \in Inst
        BY <1>1, <3>1 DEF PropInv, TypeOK
      <4>2. Live[n].operands \in Seq(Operand) /\ Len(Live[n].operands) >= 2
        BY <3>1, <4>1 DEF Inst, IsImmMove
      <4>. QED
        BY <4>2
    <3>. QED
      BY <3>1 DEF RegAt, IsImmMove
  <2>3. \A n \in 1 .. i : n \in DOMAIN Live
    BY <1>1, <2>1 DEF PropInv, TypeOK
  <2>4. Live[w].operands[1].reg = Live[i].operands[k].reg
    BY <1>1, <2>1, <2>2, <2>3 DEF Defines
  <2>5. \A n \in w + 1 .. i :
          ~(IsImmMove(Live[n]) /\ Live[n].operands[1].reg = Live[i].operands[k].reg)
    <3>1. TAKE n \in w + 1 .. i
    <3>2. n = i \/ n \in w + 1 .. i - 1
      BY <2>1
    <3>3. n \in DOMAIN Live
      BY <2>1, <2>3
    <3>. QED
      BY <1>1, <2>2, <3>2, <3>3 DEF Defines
  <2>6. LastMove(w, Live[i].operands[k].reg, i)
    BY <1>1, <2>1, <2>4, <2>5 DEF LastMove
  <2>7. k \in DOMAIN Live[i].operands /\ Live[i].operands[k].type = "REG"
    BY <1>1 DEF Sources
  <2>. QED
    BY <1>1, <2>1, <2>6, <2>7 DEF PropInv, ReplacedByLatest
<1>2. ASSUME PropInv, NEW i \in 1 .. visit - 1, NEW k \in Sources(i), ~IsImmMove(Live[i]),
             \A m \in 1 .. i - 1 : IsImmMove(Live[m]) => Live[m].operands[1].reg # Live[i].operands[k].reg
      PROVE  insts[i].operands[k] = Live[i].operands[k]
  <2>1. i \in Nat /\ \A m \in 1 .. i : m = i \/ m \in 1 .. i - 1
    BY <1>2 DEF PropInv, TypeOK
  <2>2. \A m \in 1 .. i : ~LastMove(m, Live[i].operands[k].reg, i)
    BY <1>2, <2>1 DEF LastMove
  <2>3. k \in DOMAIN Live[i].operands /\ Live[i].operands[k].type = "REG"
    BY <1>2 DEF Sources
  <2>. QED
    BY <1>2, <2>2, <2>3 DEF PropInv, ReplacedByLatest
<1>3. PropInv => KnownReplaced
  BY <1>1, <1>2 DEF KnownReplaced
<1>. QED
  BY <1>3, PropStarts, PropKept, PTL DEF Spec

-----------------------------------------------------------------------------
(* The passes of optimize_p1 on the vector.                                *)

\* A part of a vector.
LEMMA Part ==
  ASSUME NEW S, NEW v \in Seq(S), NEW m \in 1 .. Len(v) + 1, NEW n \in m - 1 .. Len(v)
  PROVE  /\ SubSeq(v, m, n) \in Seq(S) /\ Len(SubSeq(v, m, n)) = n - m + 1
         /\ \A p \in 1 .. n - m + 1 : SubSeq(v, m, n)[p] = v[m + p - 1]
<1>1. Len(v) \in Nat /\ \A i \in 1 .. Len(v) : v[i] \in S
  OBVIOUS
<1>2. m \in Nat /\ n \in Nat /\ m >= 1 /\ n <= Len(v) /\ n >= m - 1
  BY <1>1
<1>3. \A i \in m .. n : v[i] \in S
  BY <1>1, <1>2
<1>4. /\ SubSeq(v, m, n) \in Seq(S)
      /\ Len(SubSeq(v, m, n)) = IF m <= n THEN n - m + 1 ELSE 0
      /\ \A i \in 1 .. n - m + 1 : SubSeq(v, m, n)[i] = v[m + i - 1]
  BY <1>2, <1>3, SubSeqProperties
<1>. QED
  BY <1>2, <1>4

-----------------------------------------------------------------------------
(* optimize_p1, pass by pass. *)

\* Two vectors one behind the other.
LEMMA TwoParts ==
  ASSUME NEW S, NEW a \in Seq(S), NEW b \in Seq(S)
  PROVE  /\ a \o b \in Seq(S) /\ Len(a \o b) = Len(a) + Len(b)
         /\ \A p \in 1 .. Len(a) : (a \o b)[p] = a[p]
         /\ \A p \in 1 .. Len(b) : (a \o b)[Len(a) + p] = b[p]
<1>1. Len(a) \in Nat /\ Len(b) \in Nat
  OBVIOUS
<1>2. PICK w : w = a \o b
  OBVIOUS
<1>3. /\ w \in Seq(S) /\ Len(w) = Len(a) + Len(b)
      /\ \A p \in 1 .. Len(a) + Len(b) : w[p] = IF p <= Len(a) THEN a[p] ELSE b[p - Len(a)]
  BY <1>2, ConcatProperties
<1>4. \A p \in 1 .. Len(a) : w[p] = a[p]
  BY <1>1, <1>3
<1>5. \A p \in 1 .. Len(b) : w[Len(a) + p] = b[p]
  <2>1. TAKE p \in 1 .. Len(b)
  <2>2. Len(a) + p \in 1 .. Len(a) + Len(b) /\ ~(Len(a) + p <= Len(a)) /\ (Len(a) + p) - Len(a) = p
    BY <1>1
  <2>. QED
    BY <1>3, <2>2
<1>. QED
  BY <1>2, <1>3, <1>4, <1>5

\* Four vectors one behind the other.
LEMMA FourParts ==
  ASSUME NEW S, NEW a \in Seq(S), NEW b \in Seq(S), NEW c \in Seq(S), NEW d \in Seq(S),
         NEW w, w = a \o b \o c \o d
  PROVE  /\ w \in Seq(S) /\ Len(w) = Len(a) + Len(b) + Len(c) + Len(d)
         /\ \A p \in 1 .. Len(a) : w[p] = a[p]
         /\ \A p \in 1 .. Len(b) : w[Len(a) + p] = b[p]
         /\ \A p \in 1 .. Len(c) : w[Len(a) + Len(b) + p] = c[p]
         /\ \A p \in 1 .. Len(d) : w[Len(a) + Len(b) + Len(c) + p] = d[p]
<1>1. /\ Len(a) \in Nat /\ Len(b) \in Nat /\ Len(c) \in Nat /\ Len(d) \in Nat
  OBVIOUS
<1>2. PICK ab : ab = a \o b
  OBVIOUS
<1>3. /\ ab \in Seq(S) /\ Len(ab) = Len(a) + Len(b)
      /\ \A p \in 1 .. Len(a) : ab[p] = a[p]
      /\ \A p \in 1 .. Len(b) : ab[Len(a) + p] = b[p]
  BY <1>2, TwoParts
<1>4. PICK abc : abc = ab \o c
  OBVIOUS
<1>5. /\ abc \in Seq(S) /\ Len(abc) = Len(ab) + Len(c)
      /\ \A p \in 1 .. Len(ab) : abc[p] = ab[p]
      /\ \A p \in 1 .. Len(c) : abc[Len(ab) + p] = c[p]
  <2>1. ab \in Seq(S)
    BY <1>3
  <2>. QED
    BY <1>4, <2>1, TwoParts
<1>6. w = abc \o d
  BY <1>2, <1>4
<1>7. /\ w \in Seq(S) /\ Len(w) = Len(abc) + Len(d)
      /\ \A p \in 1 .. Len(abc) : w[p] = abc[p]
      /\ \A p \in 1 .. Len(d) : w[Len(abc) + p] = d[p]
  <2>1. abc \in Seq(S)
    BY <1>5
  <2>. QED
    BY <1>6, <2>1, TwoParts
<1>8. \A p \in 1 .. Len(ab) : w[p] = ab[p]
  <2>1. Len(ab) \in Nat /\ Len(abc) \in Nat /\ Len(ab) <= Len(abc)
    BY <1>1, <1>3, <1>5
  <2>2. \A p \in 1 .. Len(ab) : p \in 1 .. Len(abc)
    BY <2>1
  <2>3. \A p \in 1 .. Len(ab) : w[p] = abc[p] /\ abc[p] = ab[p]
    BY <1>5, <1>7, <2>2, Zenon
  <2>. QED
    BY <2>3, Zenon
<1>9. \A p \in 1 .. Len(a) : w[p] = a[p]
  BY <1>1, <1>3, <1>8
<1>10. \A p \in 1 .. Len(b) : w[Len(a) + p] = b[p]
  BY <1>1, <1>3, <1>8
<1>11. \A p \in 1 .. Len(c) : w[Len(a) + Len(b) + p] = c[p]
  BY <1>1, <1>3, <1>5, <1>7
<1>12. \A p \in 1 .. Len(d) : w[Len(a) + Len(b) + Len(c) + p] = d[p]
  BY <1>3, <1>5, <1>7
<1>13. Len(w) = Len(a) + Len(b) + Len(c) + Len(d)
  BY <1>3, <1>5, <1>7
<1>. QED
  BY <1>7, <1>9, <1>10, <1>11, <1>12, <1>13, Zenon

\* What rearranges a vector and puts bars between loses and doubles nothing.
LEMMA Rearranged ==
  ASSUME NEW v, NEW w, NEW to \in [DOMAIN v -> DOMAIN w], Arranged(v),
         \A q \in DOMAIN v : w[to[q]] = v[q],
         \A p \in DOMAIN w : w[p] = Bar \/ \E q \in DOMAIN v : to[q] = p
  PROVE  Arranged(w)
<1>1. \A p \in DOMAIN w : w[p].at # 0 => \E q \in DOMAIN v : to[q] = p /\ w[p] = v[q]
  BY DEF Bar
<1>2. \A u \in DOMAIN base : \E p \in DOMAIN w : w[p].at = u
  <2>1. TAKE u \in DOMAIN base
  <2>2. PICK q \in DOMAIN v : v[q].at = u
    BY DEF Arranged
  <2>3. to[q] \in DOMAIN w /\ w[to[q]].at = u
    BY <2>2
  <2>. QED
    BY <2>3
<1>3. \A p, q \in DOMAIN w : w[p].at # 0 /\ w[p].at = w[q].at => p = q
  <2>1. TAKE p, q \in DOMAIN w
  <2>2. HAVE w[p].at # 0 /\ w[p].at = w[q].at
  <2>3. PICK k \in DOMAIN v : to[k] = p /\ w[p] = v[k]
    BY <1>1, <2>2
  <2>4. PICK l \in DOMAIN v : to[l] = q /\ w[q] = v[l]
    BY <1>1, <2>2
  <2>5. v[k].at # 0 /\ v[k].at = v[l].at
    BY <2>2, <2>3, <2>4
  <2>6. k = l
    BY <2>5, Zenon DEF Arranged
  <2>. QED
    BY <2>3, <2>4, <2>6, Zenon
<1>4. ASSUME NEW p \in DOMAIN w
      PROVE  IF w[p].at = 0 THEN w[p].src = 0
             ELSE w[p].at \in DOMAIN base /\ w[p].src = base[w[p].at].src
  <2>1. CASE w[p] = Bar
    BY <2>1 DEF Bar
  <2>2. CASE \E q \in DOMAIN v : to[q] = p
    <3>1. PICK q \in DOMAIN v : w[p] = v[q]
      BY <2>2
    <3>. QED
      BY <3>1 DEF Arranged
  <2>. QED
    BY <2>1, <2>2
<1>. QED
  BY <1>2, <1>3, <1>4, Zenon DEF Arranged


\* Nothing of P1Inv is missing at the start.
LEMMA P1Starts == P1Init => P1Inv
<1>. SUFFICES ASSUME P1Init PROVE P1Inv
  OBVIOUS
<1>1. PropInv /\ stage = "order"
  BY PropStarts DEF P1Init, Init, P0Init
<1>2. P1Types
  <2>1. <<>> \in Seq(Placed)
    OBVIOUS
  <2>. QED
    BY <1>1, <2>1 DEF P1Init, P1Types, Early
<1>3. issued = <<>> /\ \A r \in Reg : written[r] = -1
  BY DEF P1Init
<1>. QED
  BY <1>1, <1>2, <1>3 DEF P1Inv, Early, BehindTerminator

\* The front passes change nothing of the others.
LEMMA FrontKept ==
  ASSUME P1Inv, FrontPasses
  PROVE  P1Inv'
<1>1. Next /\ UNCHANGED p1vars
  BY DEF FrontPasses
<1>2. stage \in Early /\ stage' \in Early
  <2>1. CASE P0Passes
    BY <2>1 DEF P0Passes, P0Next, Order, MarkReuse, ReuseDone, EliminateDead, Early
  <2>2. CASE Begin
    BY <2>2 DEF Begin, p0vars, Early
  <2>3. CASE VisitInst
    BY <2>3 DEF VisitInst, p0vars, Early
  <2>. QED
    BY <1>1, <2>1, <2>2, <2>3 DEF Next
<1>3. PropInv'
  BY <1>1, <1>2, PropKept DEF P1Inv
<1>4. P1Types'
  BY <1>1, <1>2 DEF P1Inv, P1Types, p1vars
<1>5. (issued = <<>> /\ \A r \in Reg : written[r] = -1)'
  BY <1>1, <1>2 DEF P1Inv, p1vars, Early
<1>6. /\ stage \notin {"unroll", "allocate", "schedule", "separate", "guard"}
      /\ stage' \notin {"unroll", "allocate", "schedule", "separate", "guard"}
  BY <1>2 DEF Early
<1>. QED
  BY <1>2, <1>3, <1>4, <1>5, <1>6 DEF P1Inv, BehindTerminator

\* optimize_p0 hands on each instruction once, and a terminator only as the last.
LEMMA Handed ==
  ASSUME P0Inv, stage = "done"
  PROVE  HandedOn
<1>1. prog \in Seq(Inst) /\ code \in Seq(Index) /\ Sorted /\ stage # "order"
  BY DEF P0Inv, Sorted
<1>2. \A k, l \in DOMAIN code : code[k] = code[l] => k = l
  <2>1. \A k, l \in 1 .. Len(code) : code[k] = code[l] => k = l
    BY <1>1, Places, Zenon
  <2>2. DOMAIN code = 1 .. Len(code)
    BY <1>1
  <2>. QED
    BY <2>1, <2>2, Zenon
<1>. QED
  BY <1>1, <1>2 DEF HandedOn, P0Inv, CutAtStop

\* loop_unroll begins with the vector as const_propagation left it.
LEMMA TracedShape ==
  ASSUME PropInv, stage = "done", visit > Len(insts)
  PROVE  /\ HandedOn /\ Len(code) \in Nat
         /\ Traced \in Seq(Placed) /\ Len(Traced) = Len(code)
         /\ \A k \in 1 .. Len(code) : /\ Traced[k].src = code[k] /\ code[k] \in Index
                                      /\ Traced[k].opcode = prog[code[k]].opcode
<1>1. HandedOn /\ Live \in Seq(Inst) /\ Len(Live) \in Nat /\ Len(Live) = Len(code)
  BY Handed, LiveTypes DEF PropInv
<1>2. insts \in Seq(Inst) /\ Len(insts) = Len(code) /\ Len(insts) \in Nat /\ DOMAIN insts = 1 .. Len(code)
  <2>1. insts \in Seq(Inst) /\ visit \in Int /\ Len(insts) = IF visit = 0 THEN 0 ELSE Len(Live)
    BY <1>1 DEF PropInv, TypeOK
  <2>2. Len(insts) \in Nat /\ DOMAIN insts = 1 .. Len(insts)
    BY <2>1
  <2>3. visit # 0
    BY <2>1, <2>2
  <2>. QED
    BY <1>1, <2>1, <2>2, <2>3
<1>3. Len(prog) \in Nat /\ code \in Seq(Index) /\ \A k \in 1 .. Len(code) : code[k] \in Index /\ code[k] \in Nat
  BY <1>1 DEF HandedOn, Index
<1>4. \A k \in 1 .. Len(code) : insts[k] \in Inst /\ insts[k].opcode = prog[code[k]].opcode
  BY <1>1, <1>2 DEF PropInv, OpcodesKept, Live
<1>5. \A k \in 1 .. Len(code) :
        [opcode |-> insts[k].opcode, operands |-> insts[k].operands, src |-> code[k], at |-> 0] \in Placed
  BY <1>3, <1>4 DEF Placed, Inst
<1>6. Traced = [k \in 1 .. Len(code) |->
                  [opcode |-> insts[k].opcode, operands |-> insts[k].operands, src |-> code[k], at |-> 0]]
  BY <1>2 DEF Traced
<1>7. Traced \in Seq(Placed) /\ Len(Traced) = Len(code)
  BY <1>1, <1>5, <1>6
<1>8. \A k \in 1 .. Len(code) : Traced[k].src = code[k] /\ Traced[k].opcode = insts[k].opcode
  BY <1>6
<1>. QED
  BY <1>1, <1>3, <1>4, <1>7, <1>8

\* What the later passes read and do not write stays what it is.
LEMMA SourceKept ==
  ASSUME UNCHANGED <<prog, code>>
  PROVE  (HandedOn => HandedOn') /\ (base' = base => (BaseInv => BaseInv'))
<1>1. prog' = prog /\ code' = code
  OBVIOUS
<1>2. HandedOn' <=> HandedOn
  BY <1>1 DEF HandedOn, Index
<1>3. ASSUME base' = base PROVE BaseInv' <=> BaseInv
  <2>1. \A k : Copied(base, k)' <=> Copied(base, k)
    BY <1>1, <1>3 DEF Copied, InFrontOfLoopEnd
  <2>. QED
    BY <1>1, <1>3, <2>1 DEF BaseInv
<1>. QED
  BY <1>2, <1>3

\* Nothing but base and the vector tells how the vector is arranged.
LEMMA ArrangedKept ==
  ASSUME base' = base, Arranged(insts')
  PROVE  Arranged(insts)'
BY DEF Arranged

\* The vector const_propagation left is the one loop_unroll begins with.
LEMMA BeginUnrollKept ==
  ASSUME P1Inv, BeginUnroll
  PROVE  P1Inv'
<1>1. /\ stage = "done" /\ stage' = "unroll" /\ visit' = 1 /\ insts' = Traced
      /\ prog' = prog /\ code' = code /\ visit > Len(insts) /\ UNCHANGED p1vars
  BY DEF BeginUnroll
<1>2. PropInv
  BY <1>1 DEF P1Inv, Early
<1>3. /\ HandedOn /\ Len(code) \in Nat
      /\ insts' \in Seq(Placed) /\ Len(insts') = Len(code) /\ DOMAIN insts' = 1 .. Len(code)
      /\ \A k \in 1 .. Len(code) : /\ insts'[k].src = code[k] /\ code[k] \in Index
                                   /\ insts'[k].opcode = prog[code[k]].opcode
  <2>1. /\ HandedOn /\ Len(code) \in Nat /\ insts' \in Seq(Placed) /\ Len(insts') = Len(code)
        /\ \A k \in 1 .. Len(code) : /\ insts'[k].src = code[k] /\ code[k] \in Index
                                     /\ insts'[k].opcode = prog[code[k]].opcode
    BY <1>1, <1>2, TracedShape
  <2>2. DOMAIN insts' = 1 .. Len(insts')
    BY <2>1
  <2>. QED
    BY <2>1, <2>2
<1>4. HandedOn'
  BY <1>1, <1>3 DEF HandedOn, Index
<1>5. P1Types'
  BY <1>1, <1>3 DEF P1Inv, P1Types, p1vars
<1>6. UnrollInv'
  <2>1. Grown' = 0
    BY <1>1, <1>3 DEF Grown
  <2>2. visit' \in 1 .. Len(insts') + 1
    BY <1>1, <1>3
  <2>3. (\A i \in DOMAIN insts : insts[i].src \in Index /\ insts[i].opcode = prog[insts[i].src].opcode)'
    BY <1>1, <1>3 DEF Index
  <2>4. UntouchedFrom(1)'
    <3>1. \A i \in 1 .. Len(insts') : insts'[i].src = code'[i - Grown']
      BY <1>1, <1>3, <2>1
    <3>. QED
      BY <2>1, <3>1 DEF UntouchedFrom
  <2>5. 1 \in Grown' + 1 .. visit'
    BY <1>1, <2>1
  <2>6. Grown' \in Nat
    BY <2>1
  <2>. QED
    BY <2>2, <2>3, <2>4, <2>5, <2>6 DEF UnrollInv
<1>7. (issued = <<>> /\ \A r \in Reg : written[r] = -1)'
  BY <1>1 DEF P1Inv, p1vars
<1>. QED
  BY <1>1, <1>4, <1>5, <1>6, <1>7 DEF P1Inv, Early, BehindTerminator

\* The doubled step is an operand, and nothing else of the instruction changes.
LEMMA StepDoubledShape ==
  ASSUME NEW inst \in Placed
  PROVE  /\ StepDoubled(inst) \in Placed
         /\ StepDoubled(inst).opcode = inst.opcode /\ StepDoubled(inst).src = inst.src
<1>. DEFINE ops == inst.operands
            step == [ops[3] EXCEPT !.val = 2 * @]
<1>1. CASE Len(ops) >= 3 /\ ops[3].type = "IMM"
  <2>1. ops \in Seq(Operand) /\ Len(ops) \in Nat
    BY DEF Placed
  <2>2. 3 \in 1 .. Len(ops)
    BY <1>1, <2>1
  <2>3. ops[3] \in Operand
    BY <2>1, <2>2
  <2>4. ops[3] \in [type : {"IMM"}, val : Int]
    BY <1>1, <2>3 DEF Operand
  <2>5. step \in [type : {"IMM"}, val : Int]
    BY <2>4
  <2>6. step \in Operand
    BY <2>5 DEF Operand
  <2>. HIDE DEF step
  <2>7. [ops EXCEPT ![3] = step] \in Seq(Operand)
    BY <2>1, <2>2, <2>6, ExceptSeq
  <2>8. StepDoubled(inst) = [inst EXCEPT !.operands = [ops EXCEPT ![3] = step]]
    BY <1>1 DEF StepDoubled, step
  <2>. QED
    BY <2>7, <2>8 DEF Placed
<1>2. CASE ~(Len(ops) >= 3 /\ ops[3].type = "IMM")
  BY <1>2 DEF StepDoubled
<1>. QED
  BY <1>1, <1>2

\* Where instruction p of the unrolled vector stood before.
From(p, i, b) == IF p < i THEN p ELSE p - b

\* An unrolled body is the body twice.
LEMMA UnrolledShape ==
  ASSUME insts \in Seq(Placed), visit \in 1 .. Len(insts), BodySize \in 1 .. visit - 1
  PROVE  /\ Unrolled \in Seq(Placed) /\ Len(Unrolled) = Len(insts) + BodySize
         /\ \A p \in 1 .. Len(insts) + BodySize :
              /\ From(p, visit, BodySize) \in 1 .. Len(insts)
              /\ Unrolled[p].src = insts[From(p, visit, BodySize)].src
              /\ Unrolled[p].opcode = insts[From(p, visit, BodySize)].opcode
<1>1. PICK n, i, b : n = Len(insts) /\ i = visit /\ b = BodySize
  OBVIOUS
<1>2. n \in Nat /\ i \in 1 .. n /\ b \in 1 .. i - 1 /\ \A p \in 1 .. n : insts[p] \in Placed
  BY <1>1
<1>3. PICK x, y, z, t : /\ x = SubSeq(insts, 1, i - 1) /\ y = SubSeq(insts, i - b, i - 1)
                        /\ z = <<StepDoubled(insts[i])>> /\ t = SubSeq(insts, i + 1, n)
  OBVIOUS
<1>4. x \in Seq(Placed) /\ Len(x) = i - 1 /\ \A p \in 1 .. i - 1 : x[p] = insts[p]
  <2>1. 1 \in 1 .. n + 1 /\ i - 1 \in 1 - 1 .. n
    BY <1>2
  <2>2. x \in Seq(Placed) /\ Len(x) = (i - 1) - 1 + 1 /\ \A p \in 1 .. (i - 1) - 1 + 1 : x[p] = insts[1 + p - 1]
    BY <1>1, <1>3, <2>1, Part
  <2>. QED
    BY <1>2, <2>2
<1>5. y \in Seq(Placed) /\ Len(y) = b /\ \A p \in 1 .. b : y[p] = insts[i - b + p - 1]
  <2>1. PICK m, c : m = i - b /\ c = i - 1
    OBVIOUS
  <2>2. m \in 1 .. n + 1 /\ c \in m - 1 .. n /\ c - m + 1 = b
    BY <1>2, <2>1
  <2>3. y = SubSeq(insts, m, c)
    BY <1>3, <2>1
  <2>4. y \in Seq(Placed) /\ Len(y) = c - m + 1 /\ \A p \in 1 .. c - m + 1 : y[p] = insts[m + p - 1]
    BY <1>1, <2>2, <2>3, Part
  <2>. QED
    BY <2>1, <2>2, <2>4
<1>6. z \in Seq(Placed) /\ Len(z) = 1 /\ z[1].opcode = insts[i].opcode /\ z[1].src = insts[i].src
  <2>1. /\ StepDoubled(insts[i]) \in Placed
        /\ StepDoubled(insts[i]).opcode = insts[i].opcode /\ StepDoubled(insts[i]).src = insts[i].src
    BY <1>2, StepDoubledShape
  <2>. QED
    BY <1>3, <2>1
<1>7. t \in Seq(Placed) /\ Len(t) = n - i /\ \A p \in 1 .. n - i : t[p] = insts[i + p]
  <2>1. i + 1 \in 1 .. n + 1 /\ n \in (i + 1) - 1 .. n
    BY <1>2
  <2>2. t \in Seq(Placed) /\ Len(t) = n - (i + 1) + 1
        /\ \A p \in 1 .. n - (i + 1) + 1 : t[p] = insts[(i + 1) + p - 1]
    BY <1>1, <1>3, <2>1, Part
  <2>. QED
    BY <1>2, <2>2
<1>8. PICK w : w = x \o y \o z \o t
  OBVIOUS
<1>9. Unrolled = w
  BY <1>1, <1>3, <1>8 DEF Unrolled
<1>10. /\ w \in Seq(Placed) /\ Len(w) = n + b
       /\ \A p \in 1 .. i - 1 : w[p] = insts[p]
       /\ \A p \in 1 .. b : w[(i - 1) + p] = insts[i - b + p - 1]
       /\ w[(i - 1) + b + 1].opcode = insts[i].opcode /\ w[(i - 1) + b + 1].src = insts[i].src
       /\ \A p \in 1 .. n - i : w[(i - 1) + b + 1 + p] = insts[i + p]
  <2>1. x \in Seq(Placed) /\ y \in Seq(Placed) /\ z \in Seq(Placed) /\ t \in Seq(Placed)
    BY <1>4, <1>5, <1>6, <1>7
  <2>2. /\ w \in Seq(Placed) /\ Len(w) = Len(x) + Len(y) + Len(z) + Len(t)
        /\ \A p \in 1 .. Len(x) : w[p] = x[p]
        /\ \A p \in 1 .. Len(y) : w[Len(x) + p] = y[p]
        /\ \A p \in 1 .. Len(z) : w[Len(x) + Len(y) + p] = z[p]
        /\ \A p \in 1 .. Len(t) : w[Len(x) + Len(y) + Len(z) + p] = t[p]
    BY <1>8, <2>1, FourParts
  <2>3. Len(w) = n + b
    BY <1>2, <1>4, <1>5, <1>6, <1>7, <2>2
  <2>4. \A p \in 1 .. i - 1 : w[p] = insts[p]
    BY <1>4, <2>2
  <2>5. \A p \in 1 .. b : w[(i - 1) + p] = insts[i - b + p - 1]
    BY <1>4, <1>5, <2>2
  <2>6. w[(i - 1) + b + 1] = z[1]
    BY <1>4, <1>5, <1>6, <2>2
  <2>7. \A p \in 1 .. n - i : w[(i - 1) + b + 1 + p] = insts[i + p]
    BY <1>4, <1>5, <1>6, <1>7, <2>2
  <2>. QED
    BY <1>6, <2>2, <2>3, <2>4, <2>5, <2>6, <2>7
<1>11. ASSUME NEW p \in 1 .. n + b
       PROVE  /\ From(p, i, b) \in 1 .. n
              /\ w[p].src = insts[From(p, i, b)].src /\ w[p].opcode = insts[From(p, i, b)].opcode
  <2>1. CASE p < i
    <3>1. p \in 1 .. i - 1 /\ p \in 1 .. n /\ From(p, i, b) = p
      BY <1>2, <2>1 DEF From
    <3>2. w[p] = insts[p]
      BY <1>10, <3>1
    <3>. QED
      BY <3>1, <3>2
  <2>2. CASE p >= i /\ p < i + b
    <3>1. PICK q : q = p - i + 1
      OBVIOUS
    <3>2. q \in 1 .. b /\ p = (i - 1) + q /\ From(p, i, b) = i - b + q - 1 /\ From(p, i, b) \in 1 .. n
      BY <1>2, <2>2, <3>1 DEF From
    <3>3. w[p] = insts[From(p, i, b)]
      BY <1>10, <3>2
    <3>. QED
      BY <3>2, <3>3
  <2>3. CASE p = i + b
    <3>1. p = (i - 1) + b + 1 /\ From(p, i, b) = i
      BY <1>2, <2>3 DEF From
    <3>. QED
      BY <1>2, <1>10, <3>1
  <2>4. CASE p > i + b
    <3>1. PICK q : q = p - i - b
      OBVIOUS
    <3>2. q \in 1 .. n - i /\ p = (i - 1) + b + 1 + q /\ From(p, i, b) = i + q /\ From(p, i, b) \in 1 .. n
      BY <1>2, <2>4, <3>1 DEF From
    <3>3. w[p] = insts[From(p, i, b)]
      BY <1>10, <3>2
    <3>. QED
      BY <3>2, <3>3
  <2>. QED
    BY <1>2, <2>1, <2>2, <2>3, <2>4
<1>. QED
  BY <1>1, <1>9, <1>10, <1>11

\* The body copied has not been copied into: it lies behind the last branch.
LEMMA FreshBody ==
  ASSUME HandedOn, insts \in Seq(Placed), UnrollInv, visit + 2 <= Len(insts), Unrolls,
         NEW l \in Grown + 1 .. visit, UntouchedFrom(l)
  PROVE  /\ Len(insts) \in Nat /\ Len(code) \in Nat /\ Grown \in Nat /\ Grown = Len(insts) - Len(code)
         /\ visit \in 1 .. Len(insts) /\ BodySize \in 1 .. visit - 1 /\ BodySize <= MaxBody /\ MaxBody \in Nat
         /\ l \in Grown + 1 .. visit - BodySize
<1>1. Len(insts) \in Nat /\ Len(code) \in Nat /\ Grown \in Nat /\ Grown = Len(insts) - Len(code)
  BY DEF HandedOn, UnrollInv, Grown
<1>2. visit \in 1 .. Len(insts) /\ MaxBody \in Nat
  BY <1>1, P1Assumption DEF UnrollInv
<1>3. BodySize \in 1 .. visit - 1 /\ BodySize <= MaxBody
  BY <1>2 DEF Unrolls, BodySize
<1>4. l > 1 => insts[l - 1].opcode = "BRA"
  BY DEF UntouchedFrom
<1>5. \A j \in visit - BodySize .. visit - 1 : insts[j].opcode # "BRA"
  BY DEF Unrolls, Straight
<1>6. l <= visit - BodySize
  <2>1. SUFFICES ASSUME l > visit - BodySize PROVE FALSE
    BY <1>1, <1>2, <1>3
  <2>2. l > 1 /\ l - 1 \in visit - BodySize .. visit - 1
    BY <1>1, <1>2, <1>3, <2>1
  <2>. QED
    BY <1>4, <1>5, <2>2
<1>. QED
  BY <1>1, <1>2, <1>3, <1>6

\* What was copied once is copied once more when it is in the body, and what was
\* copied twice lies in front of the body.
LEMMA UnrolledCopies ==
  ASSUME HandedOn, insts \in Seq(Placed), UnrollInv, visit + 2 <= Len(insts), Unrolls,
         NEW l \in Grown + 1 .. visit, UntouchedFrom(l), NEW k \in 1 .. visit + 2 - Grown
  PROVE  Copied(Unrolled, k)
<1>1. PICK n, i, b, g, w : n = Len(insts) /\ i = visit /\ b = BodySize /\ g = Grown /\ w = Unrolled
  OBVIOUS
<1>2. /\ n \in Nat /\ Len(code) \in Nat /\ g \in Nat /\ n = Len(code) + g /\ i \in 1 .. n /\ i + 2 <= n
      /\ b \in 1 .. i - 1 /\ b <= MaxBody /\ MaxBody \in Nat /\ l \in g + 1 .. i - b /\ k \in 1 .. i + 2 - g
  <2>1. /\ Len(insts) \in Nat /\ Len(code) \in Nat /\ Grown \in Nat /\ Grown = Len(insts) - Len(code)
        /\ visit \in 1 .. Len(insts) /\ BodySize \in 1 .. visit - 1 /\ BodySize <= MaxBody /\ MaxBody \in Nat
        /\ l \in Grown + 1 .. visit - BodySize
    BY FreshBody, Zenon
  <2>2. g \in Nat /\ n \in Nat /\ g = n - Len(code) /\ Len(code) \in Nat
    BY <1>1, <2>1
  <2>. QED
    BY <1>1, <2>1, <2>2
<1>3. /\ DOMAIN w = 1 .. n + b /\ DOMAIN insts = 1 .. n
      /\ \A p \in 1 .. n + b : From(p, i, b) \in 1 .. n /\ w[p].src = insts[From(p, i, b)].src
  <2>1. visit \in 1 .. Len(insts) /\ BodySize \in 1 .. visit - 1
    BY <1>1, <1>2
  <2>2. /\ Unrolled \in Seq(Placed) /\ Len(Unrolled) = Len(insts) + BodySize
        /\ \A p \in 1 .. Len(insts) + BodySize :
             /\ From(p, visit, BodySize) \in 1 .. Len(insts)
             /\ Unrolled[p].src = insts[From(p, visit, BodySize)].src
    BY <2>1, UnrolledShape
  <2>. QED
    BY <1>1, <2>2
<1>4. /\ \A p \in l .. n : insts[p].src = code[p - g]
      /\ \A p \in 1 .. l - 1 : \E j \in 1 .. l - 1 - g : insts[p].src = code[j]
      /\ \A j \in 1 .. l - 1 - g : Copied(insts, j)
  BY <1>1 DEF UntouchedFrom
<1>5. \A j, m \in 1 .. Len(code) : code[j] = code[m] => j = m
  BY DEF HandedOn
<1>6. k \in 1 .. Len(code)
  BY <1>2
<1>7. \A p, q \in 1 .. n + b : q < i - b => (From(p, i, b) = q <=> p = q)
  BY <1>2 DEF From
<1>8. CASE k < l - g
  <2>1. k \in 1 .. l - 1 - g
    BY <1>2, <1>8
  <2>2. PICK c, d \in DOMAIN insts :
          /\ \A p \in DOMAIN insts : insts[p].src = code[k] <=> p \in {c, d}
          /\ c = d \/ InFrontOfLoopEnd(k)
    BY <1>4, <2>1 DEF Copied
  <2>3. \A p \in l .. n : insts[p].src # code[k]
    <3>1. TAKE p \in l .. n
    <3>2. p - g \in 1 .. Len(code) /\ p - g # k
      BY <1>2, <1>8
    <3>. QED
      BY <1>4, <1>5, <1>6, <3>2
  <2>4. c \in 1 .. n /\ d \in 1 .. n /\ c < i - b /\ d < i - b
    BY <1>2, <1>3, <2>2, <2>3
  <2>5. c \in 1 .. n + b /\ d \in 1 .. n + b
    BY <1>2, <2>4
  <2>6. \A p \in 1 .. n + b : w[p].src = code[k] <=> p \in {c, d}
    <3>1. TAKE p \in 1 .. n + b
    <3>2. w[p].src = code[k] <=> From(p, i, b) \in {c, d}
      BY <1>3, <2>2
    <3>3. (From(p, i, b) = c <=> p = c) /\ (From(p, i, b) = d <=> p = d)
      BY <1>7, <2>4, <2>5
    <3>. QED
      BY <3>2, <3>3
  <2>. QED
    BY <1>1, <1>3, <2>2, <2>5, <2>6 DEF Copied
<1>9. CASE k >= l - g
  <2>1. PICK q : q = k + g
    OBVIOUS
  <2>2. q \in l .. i + 2 /\ q \in 1 .. n /\ q - g = k /\ k \in Nat
    BY <1>2, <1>9, <2>1
  <2>3. \A p \in 1 .. n : insts[p].src = code[k] <=> p = q
    <3>1. TAKE p \in 1 .. n
    <3>2. CASE p < l
      <4>1. PICK j \in 1 .. l - 1 - g : insts[p].src = code[j]
        BY <1>2, <1>4, <3>2
      <4>2. j \in 1 .. Len(code) /\ j # k /\ p # q
        BY <1>2, <1>9, <2>2, <3>2
      <4>. QED
        BY <1>5, <1>6, <4>1, <4>2
    <3>3. CASE p >= l
      <4>1. p \in l .. n /\ p - g \in 1 .. Len(code) /\ (p - g = k <=> p = q)
        BY <1>2, <2>1, <3>3
      <4>. QED
        BY <1>4, <1>5, <1>6, <4>1
    <3>. QED
      BY <1>2, <3>2, <3>3
  <2>4. \A p \in 1 .. n + b : w[p].src = code[k] <=> From(p, i, b) = q
    BY <1>3, <2>3
  <2>5. CASE q < i - b
    <3>1. q \in 1 .. n + b
      BY <1>2, <2>2
    <3>2. \A p \in 1 .. n + b : w[p].src = code[k] <=> p \in {q, q}
      BY <1>7, <2>4, <2>5, <3>1
    <3>. QED
      BY <1>1, <1>3, <3>1, <3>2 DEF Copied
  <2>6. CASE q \in i - b .. i - 1
    <3>1. q \in 1 .. n + b /\ q + b \in 1 .. n + b
      BY <1>2, <2>2, <2>6
    <3>2. \A p \in 1 .. n + b : From(p, i, b) = q <=> p \in {q, q + b}
      BY <1>2, <2>2, <2>6 DEF From
    <3>3. InFrontOfLoopEnd(k)
      <4>1. i - g \in k + 1 .. k + MaxBody /\ i - g <= Len(code) /\ i \in l .. n
        BY <1>2, <2>1, <2>6
      <4>2. insts[i].src = code[i - g] /\ insts[i].opcode = prog[insts[i].src].opcode
        BY <1>2, <1>3, <1>4, <4>1 DEF UnrollInv
      <4>3. insts[i].opcode = "IADD"
        BY <1>1 DEF Unrolls, LoopEnd
      <4>. QED
        BY <4>1, <4>2, <4>3 DEF InFrontOfLoopEnd
    <3>4. \A p \in 1 .. n + b : w[p].src = code[k] <=> p \in {q, q + b}
      BY <2>4, <3>2
    <3>. QED
      BY <1>1, <1>3, <3>1, <3>3, <3>4 DEF Copied
  <2>7. CASE q >= i
    <3>1. q + b \in 1 .. n + b
      BY <1>2, <2>2, <2>7
    <3>2. \A p \in 1 .. n + b : From(p, i, b) = q <=> p = q + b
      BY <1>2, <2>2, <2>7 DEF From
    <3>3. \A p \in 1 .. n + b : w[p].src = code[k] <=> p \in {q + b, q + b}
      BY <2>4, <3>2
    <3>. QED
      BY <1>1, <1>3, <3>1, <3>3 DEF Copied
  <2>. QED
    BY <1>2, <2>2, <2>5, <2>6, <2>7
<1>. QED
  BY <1>2, <1>8, <1>9

\* A loop end with a straight body: the copy keeps what UnrollInv says, with the
\* branch behind the last copy as the new border.
LEMMA UnrolledKept ==
  ASSUME HandedOn, insts \in Seq(Placed), UnrollInv, visit + 2 <= Len(insts), Unrolls,
         insts' = Unrolled, visit' = visit + BodySize + 3, UNCHANGED <<prog, code>>
  PROVE  UnrollInv' /\ insts' \in Seq(Placed)
<1>1. PICK l \in Grown + 1 .. visit : UntouchedFrom(l)
  BY DEF UnrollInv
<1>2. PICK n, i, b, g : n = Len(insts) /\ i = visit /\ b = BodySize /\ g = Grown
  OBVIOUS
<1>3. /\ n \in Nat /\ Len(code) \in Nat /\ g \in Nat /\ n = Len(code) + g /\ i \in 1 .. n /\ i + 2 <= n
      /\ b \in 1 .. i - 1 /\ l \in g + 1 .. i - b
  <2>1. /\ Len(insts) \in Nat /\ Len(code) \in Nat /\ Grown \in Nat /\ Grown = Len(insts) - Len(code)
        /\ visit \in 1 .. Len(insts) /\ BodySize \in 1 .. visit - 1 /\ l \in Grown + 1 .. visit - BodySize
    BY <1>1, FreshBody, Zenon
  <2>2. g \in Nat /\ n \in Nat /\ g = n - Len(code) /\ Len(code) \in Nat
    BY <1>2, <2>1
  <2>. QED
    BY <1>2, <2>1, <2>2
<1>4. /\ insts' \in Seq(Placed) /\ Len(insts') = n + b /\ DOMAIN insts' = 1 .. n + b /\ DOMAIN insts = 1 .. n
      /\ \A p \in 1 .. n + b : /\ From(p, i, b) \in 1 .. n /\ insts'[p].src = insts[From(p, i, b)].src
                               /\ insts'[p].opcode = insts[From(p, i, b)].opcode
  <2>1. visit \in 1 .. Len(insts) /\ BodySize \in 1 .. visit - 1
    BY <1>2, <1>3
  <2>2. /\ Unrolled \in Seq(Placed) /\ Len(Unrolled) = Len(insts) + BodySize
        /\ \A p \in 1 .. Len(insts) + BodySize :
             /\ From(p, visit, BodySize) \in 1 .. Len(insts)
             /\ Unrolled[p].src = insts[From(p, visit, BodySize)].src
             /\ Unrolled[p].opcode = insts[From(p, visit, BodySize)].opcode
    BY <2>1, UnrolledShape
  <2>. QED
    BY <1>2, <2>2
<1>5. Grown' = g + b /\ visit' = i + b + 3 /\ Len(insts') = n + b
  BY <1>2, <1>3, <1>4 DEF Grown
<1>6. /\ \A p \in l .. n : insts[p].src = code[p - g]
      /\ \A p \in 1 .. l - 1 : \E j \in 1 .. l - 1 - g : insts[p].src = code[j]
  BY <1>1, <1>2 DEF UntouchedFrom
<1>7. UntouchedFrom(i + b + 3)'
  <2>1. \A p \in i + b + 3 .. n + b : insts'[p].src = code[p - (g + b)]
    <3>1. TAKE p \in i + b + 3 .. n + b
    <3>2. p \in 1 .. n + b /\ From(p, i, b) = p - b /\ p - b \in l .. n /\ (p - b) - g = p - (g + b)
      BY <1>3 DEF From
    <3>. QED
      BY <1>4, <1>6, <3>2
  <2>2. ASSUME NEW p \in 1 .. i + b + 2
        PROVE  \E k \in 1 .. i + 2 - g : insts'[p].src = code[k]
    <3>1. PICK q : q = From(p, i, b)
      OBVIOUS
    <3>2. p \in 1 .. n + b /\ q \in 1 .. i + 2 /\ q \in 1 .. n
      BY <1>3, <3>1 DEF From
    <3>3. insts'[p].src = insts[q].src
      BY <1>4, <3>1, <3>2
    <3>4. CASE q < l
      <4>1. q \in 1 .. l - 1
        BY <1>3, <3>2, <3>4
      <4>2. PICK j \in 1 .. l - 1 - g : insts[q].src = code[j]
        BY <1>6, <4>1
      <4>3. j \in 1 .. i + 2 - g
        BY <1>3
      <4>. QED
        BY <3>3, <4>2, <4>3
    <3>5. CASE q >= l
      <4>1. q \in l .. n /\ q - g \in 1 .. i + 2 - g
        BY <1>3, <3>2, <3>5
      <4>. QED
        BY <1>6, <3>3, <4>1
    <3>. QED
      BY <1>3, <3>2, <3>4, <3>5
  <2>3. \A k \in 1 .. i + 2 - g : Copied(insts', k)
    BY <1>1, <1>2, UnrolledCopies
  <2>4. /\ insts'[i + b + 2].opcode = "BRA" /\ insts'[i + b + 2].src = code[i + 2 - g]
    <3>1. PICK p, q : p = i + b + 2 /\ q = i + 2
      OBVIOUS
    <3>2. p \in 1 .. n + b /\ From(p, i, b) = q /\ q \in l .. n
      BY <1>3, <3>1 DEF From
    <3>3. insts'[p].opcode = insts[q].opcode /\ insts'[p].src = insts[q].src
      BY <1>4, <3>2
    <3>4. insts[q].src = code[q - g] /\ insts[q].opcode = "BRA"
      BY <1>2, <1>6, <3>1, <3>2 DEF Unrolls, LoopEnd
    <3>. QED
      BY <1>3, <3>1, <3>3, <3>4
  <2>5. (i + b + 3) - 1 = i + b + 2 /\ ((i + b + 3) - 1) - (g + b) = i + 2 - g /\ i + b + 2 > g + b
    BY <1>3
  <2>6. ASSUME NEW k \in 1 .. i + 2 - g
        PROVE  Copied(insts, k)'
    <3>1. Copied(insts', k)
      BY <2>3
    <3>2. code' = code /\ prog' = prog
      OBVIOUS
    <3>3. PICK c, d \in DOMAIN insts' :
            /\ \A p \in DOMAIN insts' : insts'[p].src = code[k] <=> p \in {c, d}
            /\ c = d \/ InFrontOfLoopEnd(k)
      BY <3>1 DEF Copied
    <3>4. \A p \in DOMAIN insts' : insts'[p].src = code'[k] <=> p \in {c, d}
      BY <3>2, <3>3
    <3>5. c = d \/ InFrontOfLoopEnd(k)'
      BY <3>2, <3>3 DEF InFrontOfLoopEnd
    <3>. QED
      BY <3>4, <3>5 DEF Copied
  <2>7. PICK m, h : m = i + b + 3 /\ h = Grown'
    OBVIOUS
  <2>8. code' = code /\ h = g + b /\ m - 1 = i + b + 2 /\ (m - 1) - h = i + 2 - g
    BY <1>3, <1>5, <2>7
  <2>9. \A p \in m .. Len(insts') : insts'[p].src = code'[p - h]
    BY <1>4, <2>1, <2>7, <2>8
  <2>10. \A p \in 1 .. m - 1 : \E k \in 1 .. (m - 1) - h : insts'[p].src = code'[k]
    BY <2>2, <2>8
  <2>11. \A k \in 1 .. (m - 1) - h : Copied(insts, k)'
    BY <2>6, <2>8
  <2>12. (m - 1) > h /\ insts'[m - 1].opcode = "BRA" /\ insts'[m - 1].src = code'[(m - 1) - h]
    BY <2>4, <2>5, <2>7, <2>8
  <2>13. UntouchedFrom(m)'
    BY <2>7, <2>9, <2>10, <2>11, <2>12 DEF UntouchedFrom
  <2>. QED
    BY <2>7, <2>13
<1>8. \A p \in DOMAIN insts' : insts'[p].src \in Index' /\ insts'[p].opcode = prog'[insts'[p].src].opcode
  BY <1>4 DEF UnrollInv, Index
<1>9. /\ g + b \in Nat /\ i + b + 3 \in 1 .. (n + b) + 1 /\ i + b + 3 \in (g + b) + 1 .. i + b + 3
  BY <1>3
<1>10. Grown' \in Nat /\ visit' \in 1 .. Len(insts') + 1 /\ i + b + 3 \in Grown' + 1 .. visit'
  BY <1>5, <1>9
<1>. QED
  BY <1>4, <1>7, <1>8, <1>10 DEF UnrollInv

\* A visit of loop_unroll, with a copy or without one.
LEMMA LoopUnrollKept ==
  ASSUME P1Inv, LoopUnroll
  PROVE  P1Inv'
<1>1. /\ stage = "unroll" /\ stage' = "unroll" /\ visit + 2 <= Len(insts)
      /\ UNCHANGED <<prog, code, base, phys, held, issued, written, cycle>>
  BY DEF LoopUnroll, p0vars, p1vars
<1>2. HandedOn /\ insts \in Seq(Placed) /\ UnrollInv
  BY <1>1 DEF P1Inv, P1Types, Early
<1>3. UnrollInv' /\ insts' \in Seq(Placed)
  <2>1. CASE Unrolls
    BY <1>1, <1>2, <2>1, UnrolledKept DEF LoopUnroll
  <2>2. CASE ~Unrolls
    <3>1. visit' = visit + 1 /\ insts' = insts
      BY <2>2 DEF LoopUnroll
    <3>2. visit \in Nat /\ Len(insts) \in Nat /\ visit' \in 1 .. Len(insts) + 1
      BY <1>1, <1>2, <3>1 DEF UnrollInv
    <3>3. Grown' = Grown /\ Grown \in Nat
      BY <1>1, <1>2, <3>1 DEF Grown, UnrollInv
    <3>4. PICK l \in Grown + 1 .. visit : UntouchedFrom(l)
      BY <1>2 DEF UnrollInv
    <3>5. UntouchedFrom(l)'
      BY <1>1, <3>1, <3>4 DEF UntouchedFrom, Copied, InFrontOfLoopEnd, Grown
    <3>6. l \in Grown' + 1 .. visit'
      BY <3>1, <3>2, <3>3
    <3>. QED
      BY <1>1, <1>2, <3>1, <3>2, <3>3, <3>5, <3>6 DEF UnrollInv, Index
  <2>. QED
    BY <2>1, <2>2
<1>4. HandedOn'
  BY <1>1, <1>2 DEF HandedOn, Index
<1>5. P1Types'
  BY <1>1, <1>3 DEF P1Inv, P1Types
<1>. QED
  BY <1>1, <1>3, <1>4, <1>5 DEF P1Inv, Early, BehindTerminator

\* What loop_unroll leaves: every instruction copied as said, and a terminator,
\* which no body holds, only at the end.
LEMMA UnrollLeaves ==
  ASSUME HandedOn, insts \in Seq(Placed), UnrollInv
  PROVE  /\ \A k \in DOMAIN code : Copied(insts, k)
         /\ \A i \in DOMAIN insts : insts[i].opcode \in Terminator => i = Len(insts)
<1>1. PICK l \in Grown + 1 .. visit : UntouchedFrom(l)
  BY DEF UnrollInv
<1>2. PICK n, g, c : n = Len(insts) /\ g = Grown /\ c = Len(code)
  OBVIOUS
<1>3. /\ n \in Nat /\ c \in Nat /\ g \in Nat /\ n = c + g /\ l \in g + 1 .. n + 1
      /\ DOMAIN insts = 1 .. n /\ DOMAIN code = 1 .. c
  <2>1. /\ Len(insts) \in Nat /\ Len(code) \in Nat /\ DOMAIN insts = 1 .. Len(insts) /\ DOMAIN code = 1 .. Len(code)
    BY DEF HandedOn
  <2>2. g = n - c /\ g \in Nat /\ l \in g + 1 .. visit /\ visit \in 1 .. n + 1 /\ n \in Nat /\ c \in Nat
    BY <1>1, <1>2, <2>1 DEF Grown, UnrollInv
  <2>. QED
    BY <1>2, <2>1, <2>2
<1>4. /\ \A p \in l .. n : insts[p].src = code[p - g]
      /\ \A p \in 1 .. l - 1 : \E j \in 1 .. l - 1 - g : insts[p].src = code[j]
      /\ \A j \in 1 .. l - 1 - g : Copied(insts, j)
      /\ l > 1 => insts[l - 1].opcode = "BRA" /\ insts[l - 1].src = code[l - 1 - g]
  BY <1>1, <1>2 DEF UntouchedFrom
<1>5. /\ \A j, m \in 1 .. c : code[j] = code[m] => j = m
      /\ \A k \in 1 .. c - 1 : prog[code[k]].opcode \notin Terminator
  BY <1>2, <1>3 DEF HandedOn
<1>6. \A p \in 1 .. n : insts[p].opcode = prog[insts[p].src].opcode
  BY <1>3 DEF UnrollInv
<1>7. ASSUME NEW k \in 1 .. c
      PROVE  Copied(insts, k)
  <2>1. CASE k <= l - 1 - g
    BY <1>3, <1>4, <2>1
  <2>2. CASE k > l - 1 - g
    <3>1. PICK q : q = k + g
      OBVIOUS
    <3>2. q \in l .. n /\ q - g = k /\ q \in 1 .. n
      BY <1>3, <2>2, <3>1
    <3>3. \A p \in 1 .. n : insts[p].src = code[k] <=> p = q
      <4>1. TAKE p \in 1 .. n
      <4>2. CASE p < l
        <5>0. p \in 1 .. l - 1
          BY <1>3, <4>2
        <5>1. PICK j \in 1 .. l - 1 - g : insts[p].src = code[j]
          BY <1>4, <5>0
        <5>2. j \in 1 .. c /\ j # k
          BY <1>3, <2>2
        <5>3. p # q
          BY <1>3, <3>2, <4>2
        <5>. QED
          BY <1>5, <5>1, <5>2, <5>3
      <4>3. CASE p >= l
        <5>1. p \in l .. n /\ p - g \in 1 .. c /\ (p - g = k <=> p = q)
          BY <1>3, <3>1, <4>3
        <5>. QED
          BY <1>4, <1>5, <5>1
      <4>. QED
        BY <1>3, <4>2, <4>3
    <3>4. \A p \in DOMAIN insts : insts[p].src = code[k] <=> p \in {q, q}
      BY <1>3, <3>3
    <3>. QED
      BY <1>3, <3>2, <3>4 DEF Copied
  <2>. QED
    BY <1>3, <2>1, <2>2
<1>8. ASSUME NEW i \in 1 .. n, i # n
      PROVE  insts[i].opcode \notin Terminator
  <2>1. CASE i >= l
    <3>1. i \in l .. n /\ i - g \in 1 .. c - 1
      BY <1>3, <1>8, <2>1
    <3>. QED
      BY <1>4, <1>5, <1>6, <3>1
  <2>2. CASE i < l
    <3>0. i \in 1 .. l - 1
      BY <1>3, <2>2
    <3>1. PICK k \in 1 .. l - 1 - g : insts[i].src = code[k]
      BY <1>4, <3>0
    <3>2. CASE k \in 1 .. c - 1
      BY <1>5, <1>6, <3>1, <3>2
    <3>3. CASE k \notin 1 .. c - 1
      <4>1. k = c /\ l - 1 - g = k /\ l - 1 \in 1 .. n /\ l > 1
        BY <1>3, <3>0, <3>1, <3>3
      <4>2. prog[code[k]].opcode = "BRA"
        BY <1>4, <1>6, <4>1
      <4>3. insts[i].opcode = "BRA"
        BY <1>6, <3>1, <4>2
      <4>. QED
        BY <4>3 DEF Terminator
    <3>. QED
      BY <3>2, <3>3
  <2>. QED
    BY <1>3, <2>1, <2>2
<1>. QED
  BY <1>2, <1>3, <1>7, <1>8

\* Whether an instruction is copied is told by the sources alone.
LEMMA CopiedKept ==
  ASSUME NEW v, NEW w, NEW k, DOMAIN w = DOMAIN v, \A p \in DOMAIN v : w[p].src = v[p].src, Copied(v, k)
  PROVE  Copied(w, k)
<1>1. PICK a, b \in DOMAIN v :
        /\ \A p \in DOMAIN v : v[p].src = code[k] <=> p \in {a, b}
        /\ a = b \/ InFrontOfLoopEnd(k)
  BY DEF Copied
<1>2. ASSUME NEW p \in DOMAIN w
      PROVE  w[p].src = code[k] <=> p \in {a, b}
  <2>1. p \in DOMAIN v /\ w[p].src = v[p].src
    OBVIOUS
  <2>2. v[p].src = code[k] <=> p \in {a, b}
    BY <1>1, <2>1
  <2>. QED
    BY <2>1, <2>2
<1>. QED
  BY <1>1, <1>2 DEF Copied

\* An instruction takes another at without harm.
LEMMA AtChanged ==
  ASSUME NEW inst \in Placed, NEW a \in Nat
  PROVE  /\ [inst EXCEPT !.at = a] \in Placed /\ [inst EXCEPT !.at = a].at = a
         /\ [inst EXCEPT !.at = a].opcode = inst.opcode /\ [inst EXCEPT !.at = a].src = inst.src
  BY DEF Placed

\* What loop_unroll left becomes base, every instruction at its own place.
LEMMA BeginAllocateKept ==
  ASSUME P1Inv, BeginAllocate
  PROVE  P1Inv'
<1>1. /\ stage = "unroll" /\ stage' = "allocate"
      /\ insts' = [i \in DOMAIN insts |-> [insts[i] EXCEPT !.at = i]] /\ base' = insts'
      /\ UNCHANGED <<prog, code, phys, held, issued, written, cycle>>
  BY DEF BeginAllocate
<1>2. HandedOn /\ insts \in Seq(Placed) /\ UnrollInv
  BY <1>1 DEF P1Inv, P1Types, Early
<1>3. DOMAIN insts = 1 .. Len(insts) /\ Len(insts) \in Nat
  BY <1>2
<1>4. /\ DOMAIN insts' = DOMAIN insts /\ insts' \in Seq(Placed) /\ Len(insts') = Len(insts)
      /\ \A i \in DOMAIN insts : /\ insts'[i].opcode = insts[i].opcode
                                 /\ insts'[i].src = insts[i].src /\ insts'[i].at = i
  <2>4. \A i \in 1 .. Len(insts) : insts[i] \in Placed /\ i \in Nat
    BY <1>2, <1>3
  <2>1. \A i \in 1 .. Len(insts) : [insts[i] EXCEPT !.at = i] \in Placed
    BY <2>4, AtChanged
  <2>2. insts' = [i \in 1 .. Len(insts) |-> [insts[i] EXCEPT !.at = i]]
    BY <1>1, <1>3
  <2>3. insts' \in Seq(Placed) /\ Len(insts') = Len(insts) /\ DOMAIN insts' = 1 .. Len(insts)
    BY <1>3, <2>1, <2>2
  <2>5. \A i \in 1 .. Len(insts) : /\ insts'[i].opcode = insts[i].opcode
                                   /\ insts'[i].src = insts[i].src /\ insts'[i].at = i
    BY <2>2, <2>4, AtChanged
  <2>. QED
    BY <1>3, <2>3, <2>5
<1>5. HandedOn'
  BY <1>1, <1>2 DEF HandedOn, Index
<1>6. P1Types'
  BY <1>1, <1>4 DEF P1Inv, P1Types
<1>7. BaseInv'
  <2>1. /\ \A k \in DOMAIN code : Copied(insts, k)
        /\ \A i \in DOMAIN insts : insts[i].opcode \in Terminator => i = Len(insts)
    BY <1>2, UnrollLeaves
  <2>2. \A k \in DOMAIN code : Copied(insts', k)
    BY <1>4, <2>1, CopiedKept
  <2>3. base' = insts' /\ code' = code /\ prog' = prog
    BY <1>1
  <2>4. \A k \in DOMAIN code' : Copied(base, k)'
    BY <2>2, <2>3 DEF Copied, InFrontOfLoopEnd
  <2>. QED
    BY <1>4, <2>1, <2>3, <2>4 DEF BaseInv
<1>8. InPlace'
  BY <1>1, <1>4 DEF InPlace
<1>9. (issued = <<>> /\ \A r \in Reg : written[r] = -1)'
  BY <1>1 DEF P1Inv
<1>. QED
  BY <1>1, <1>5, <1>6, <1>7, <1>8, <1>9 DEF P1Inv, Early, BehindTerminator

\* A register an instruction mentions is one.
LEMMA RegAtType ==
  ASSUME NEW inst \in Placed, NEW k
  PROVE  RegAt(inst, k) \in Reg \union {NoReg}
<1>1. CASE k \in DOMAIN inst.operands /\ inst.operands[k].type = "REG"
  <2>1. inst.operands \in Seq(Operand)
    BY DEF Placed
  <2>2. inst.operands[k] \in Operand
    BY <1>1, <2>1
  <2>3. inst.operands[k].reg \in Reg
    BY <1>1, <2>2 DEF Operand
  <2>. QED
    BY <1>1, <2>3 DEF RegAt
<1>. QED
  BY <1>1 DEF RegAt

\* A live range is that of a register.
LEMMA RangesType ==
  ASSUME insts \in Seq(Placed)
  PROVE  Ranges \subseteq Reg
<1>1. SUFFICES ASSUME NEW r \in Ranges PROVE r \in Reg
  OBVIOUS
<1>2. PICK i \in DOMAIN insts : r \in RegsOf(insts[i])
  BY DEF Ranges
<1>3. PICK k \in DOMAIN insts[i].operands : r = RegAt(insts[i], k) /\ r # NoReg
  BY <1>2 DEF RegsOf
<1>4. insts[i] \in Placed
  OBVIOUS
<1>. QED
  BY <1>3, <1>4, RegAtType

\* A live range gets a physical register, or is spilled.
LEMMA AllocateKept ==
  ASSUME P1Inv, Allocate
  PROVE  P1Inv'
<1>1. /\ stage = "allocate" /\ UNCHANGED <<vars, base, issued, written, cycle>>
  BY DEF Allocate
<1>2. PICK r \in Ranges :
        LET free == (0 .. MaxRegs - 1) \ {phys[q] : q \in {q \in held : LastUse(q) >= FirstUse(r)}}
        IN  IF free = {} THEN phys' = [phys EXCEPT ![r] = r % MaxRegs] /\ UNCHANGED held
            ELSE phys' = [phys EXCEPT ![r] = Min(free)] /\ held' = held \union {r}
  BY DEF Allocate
<1>3. /\ insts \in Seq(Placed) /\ phys \in [Reg -> 0 .. MaxRegs - 1 \union {NoReg}] /\ held \subseteq Reg
  BY <1>1 DEF P1Inv, P1Types, Early
<1>4. r \in Reg /\ r \in Nat /\ MaxRegs \in Nat \ {0}
  BY <1>3, RangesType, P1Assumption
<1>5. \E p \in 0 .. MaxRegs - 1 : phys' = [phys EXCEPT ![r] = p] /\ held' \subseteq held \union {r}
  <2>1. PICK free \in SUBSET (0 .. MaxRegs - 1) :
          IF free = {} THEN phys' = [phys EXCEPT ![r] = r % MaxRegs] /\ UNCHANGED held
          ELSE phys' = [phys EXCEPT ![r] = Min(free)] /\ held' = held \union {r}
    BY <1>2
  <2>2. r % MaxRegs \in 0 .. MaxRegs - 1
    BY <1>4
  <2>3. free # {} => Min(free) \in 0 .. MaxRegs - 1
    <3>1. SUFFICES ASSUME free # {} PROVE Min(free) \in free
      OBVIOUS
    <3>2. free \in SUBSET Nat
      BY <1>4
    <3>3. \E x \in free : \A y \in free : x <= y
      BY <3>1, <3>2, Least
    <3>. QED
      BY <3>3 DEF Min
  <2>. QED
    BY <2>1, <2>2, <2>3
<1>6. P1Types'
  <2>1. phys' \in [Reg -> 0 .. MaxRegs - 1 \union {NoReg}] /\ held' \subseteq Reg
    BY <1>3, <1>4, <1>5
  <2>. QED
    BY <1>1, <2>1 DEF P1Inv, P1Types, vars, p0vars, propVars
<1>7. /\ stage' = "allocate" /\ UNCHANGED <<prog, code, insts, base, issued, written>>
  BY <1>1 DEF vars, p0vars, propVars
<1>8. HandedOn' /\ BaseInv' /\ InPlace' /\ (issued = <<>> /\ \A q \in Reg : written[q] = -1)'
  BY <1>1, <1>7 DEF P1Inv, HandedOn, Index, BaseInv, InPlace, Copied, InFrontOfLoopEnd, Early
<1>. QED
  BY <1>6, <1>7, <1>8 DEF P1Inv, Early, BehindTerminator

\* A register gets another name, and an instruction stays what it is.
LEMMA RenamedShape ==
  ASSUME NEW inst \in Placed, phys \in [Reg -> 0 .. MaxRegs - 1 \union {NoReg}]
  PROVE  LET other == [inst EXCEPT !.operands = [k \in DOMAIN @ |-> Renamed(@[k])]]
         IN  other \in Placed /\ other.opcode = inst.opcode /\ other.src = inst.src /\ other.at = inst.at
<1>1. inst.operands \in Seq(Operand) /\ Len(inst.operands) \in Nat /\ DOMAIN inst.operands = 1 .. Len(inst.operands)
  BY DEF Placed
<1>2. 0 .. MaxRegs - 1 \subseteq Reg
  BY P1Assumption
<1>3. ASSUME NEW op \in Operand PROVE Renamed(op) \in Operand
  <2>1. CASE op.type = "REG" /\ phys[op.reg] # NoReg
    <3>1. op.reg \in Reg
      BY <2>1 DEF Operand
    <3>2. phys[op.reg] \in Reg
      BY <1>2, <2>1, <3>1
    <3>3. Renamed(op) = [type |-> "REG", reg |-> phys[op.reg]]
      BY <2>1 DEF Renamed
    <3>. QED
      BY <3>2, <3>3 DEF Operand
  <2>. QED
    BY <2>1 DEF Renamed
<1>4. PICK ops : ops = [k \in 1 .. Len(inst.operands) |-> Renamed(inst.operands[k])]
  OBVIOUS
<1>5. ops \in Seq(Operand)
  <2>1. \A k \in 1 .. Len(inst.operands) : Renamed(inst.operands[k]) \in Operand
    BY <1>1, <1>3
  <2>. QED
    BY <1>1, <1>4, <2>1
<1>6. [inst EXCEPT !.operands = [k \in DOMAIN @ |-> Renamed(@[k])]] = [inst EXCEPT !.operands = ops]
  BY <1>1, <1>4
<1>. QED
  BY <1>5, <1>6 DEF Placed

\* reg_allocate renames in place.
LEMMA RenameKept ==
  ASSUME P1Inv, Rename
  PROVE  P1Inv'
<1>1. /\ stage = "allocate" /\ stage' = "schedule"
      /\ insts' = [i \in DOMAIN insts |->
                     [insts[i] EXCEPT !.operands = [k \in DOMAIN @ |-> Renamed(@[k])]]]
      /\ UNCHANGED <<prog, code, base, phys, held, issued, written, cycle>>
  BY DEF Rename, p1vars
<1>2. /\ insts \in Seq(Placed) /\ phys \in [Reg -> 0 .. MaxRegs - 1 \union {NoReg}] /\ HandedOn /\ BaseInv /\ InPlace
      /\ issued = <<>> /\ \A r \in Reg : written[r] = -1
  BY <1>1 DEF P1Inv, P1Types, Early
<1>3. DOMAIN insts = 1 .. Len(insts) /\ Len(insts) \in Nat /\ \A i \in DOMAIN insts : insts[i] \in Placed
  BY <1>2
<1>4. DOMAIN insts' = DOMAIN insts
  BY <1>1
<1>5. \A i \in DOMAIN insts : /\ insts'[i] \in Placed /\ insts'[i].opcode = insts[i].opcode
                              /\ insts'[i].src = insts[i].src /\ insts'[i].at = insts[i].at
  <2>1. TAKE i \in DOMAIN insts
  <2>2. PICK other : other = [insts[i] EXCEPT !.operands = [k \in DOMAIN @ |-> Renamed(@[k])]]
    OBVIOUS
  <2>3. insts'[i] = other
    BY <1>1, <2>2
  <2>4. /\ other \in Placed /\ other.opcode = insts[i].opcode
        /\ other.src = insts[i].src /\ other.at = insts[i].at
    BY <1>2, <1>3, <2>2, RenamedShape
  <2>. QED
    BY <2>3, <2>4
<1>6. insts' \in Seq(Placed)
  <2>1. insts' \in [1 .. Len(insts) -> Placed]
    BY <1>1, <1>3, <1>5
  <2>. QED
    BY <1>3, <2>1
<1>7. P1Types'
  BY <1>1, <1>6 DEF P1Inv, P1Types
<1>8. HandedOn' /\ BaseInv'
  BY <1>1, <1>2, SourceKept
<1>9. InPlace'
  <2>1. DOMAIN insts = DOMAIN base /\ base' = base
    BY <1>1, <1>2 DEF InPlace
  <2>2. \A i \in DOMAIN base : /\ insts'[i].opcode = base[i].opcode
                              /\ insts'[i].src = base[i].src /\ insts'[i].at = i
    BY <1>2, <1>5, <2>1 DEF InPlace
  <2>. QED
    BY <1>4, <2>1, <2>2 DEF InPlace
<1>10. IssueInv'
  <2>1. issued' = <<>> /\ written' = written
    BY <1>1, <1>2
  <2>2. \A r \in Reg : ~(written'[r] >= 0)
    BY <1>2, <2>1
  <2>. QED
    BY <2>1, <2>2 DEF IssueInv
<1>. QED
  BY <1>1, <1>7, <1>8, <1>9, <1>10 DEF P1Inv, Early, BehindTerminator

\* InOrder names the members of a set of places, each once, in increasing order.
LEMMA Ordered ==
  ASSUME NEW n \in Nat, NEW S \in SUBSET (1 .. n)
  PROVE  /\ IsFiniteSet(S) /\ Cardinality(S) \in Nat
         /\ InOrder(S) \in Seq(S) /\ Len(InOrder(S)) = Cardinality(S)
         /\ \A i \in S : \E a \in 1 .. Cardinality(S) : InOrder(S)[a] = i
         /\ \A a, b \in 1 .. Cardinality(S) : a < b => InOrder(S)[a] < InOrder(S)[b]
<1>. DEFINE c == Cardinality(S)
            upTo(i) == {j \in S : j <= i}
<1>1. IsFiniteSet(S) /\ c \in Nat /\ \A i \in S : i \in Nat
  <2>1. IsFiniteSet(1 .. n)
    BY FS_Interval
  <2>2. IsFiniteSet(S)
    BY <2>1, FS_Subset
  <2>. QED
    BY <2>2, FS_CardinalityType
<1>2. \A i \in S : IsFiniteSet(upTo(i)) /\ Cardinality(upTo(i)) \in 1 .. c
  <2>1. TAKE i \in S
  <2>2. upTo(i) \in SUBSET S /\ i \in upTo(i)
    BY <1>1
  <2>3. IsFiniteSet(upTo(i)) /\ Cardinality(upTo(i)) <= c
    BY <1>1, <2>2, FS_Subset
  <2>4. Cardinality(upTo(i)) \in Nat /\ (Cardinality(upTo(i)) = 0 <=> upTo(i) = {})
    BY <2>3, FS_CardinalityType, FS_EmptySet
  <2>5. Cardinality(upTo(i)) # 0
    BY <2>2, <2>4, Zenon
  <2>. HIDE DEF upTo, c
  <2>. QED
    BY <1>1, <2>3, <2>4, <2>5
<1>3. \A i, j \in S : i < j => Cardinality(upTo(i)) < Cardinality(upTo(j))
  <2>1. TAKE i, j \in S
  <2>2. HAVE i < j
  <2>3. upTo(i) \in SUBSET upTo(j) /\ j \in upTo(j) /\ j \notin upTo(i)
    <3>1. (\A z \in S : z <= i => z <= j) /\ j <= j /\ ~(j <= i)
      BY <1>1, <2>2
    <3>. QED
      BY <3>1, Zenon
  <2>4. Cardinality(upTo(i)) <= Cardinality(upTo(j)) /\ Cardinality(upTo(i)) # Cardinality(upTo(j))
    BY <1>2, <2>3, FS_Subset
  <2>. HIDE DEF upTo, c
  <2>5. Cardinality(upTo(i)) \in 1 .. c /\ Cardinality(upTo(j)) \in 1 .. c
    BY <1>2
  <2>. QED
    BY <1>1, <2>4, <2>5
<1>. DEFINE rank == [i \in S |-> Cardinality(upTo(i))]
<1>. HIDE DEF upTo, c, rank
<1>4. rank \in [S -> 1 .. c] /\ \A i, j \in S : i < j => rank[i] < rank[j]
  BY <1>2, <1>3, Zenon DEF rank
<1>5. \A i \in S : rank[i] = Cardinality({j \in S : j <= i})
  BY DEF rank, upTo
<1>6. \A i, j \in S : rank[i] = rank[j] => i = j
  BY <1>1, <1>4
<1>7. \A k \in 1 .. c : \E i \in S : rank[i] = k
  <2>1. rank \in Injection(S, 1 .. c)
    BY <1>4, <1>6, Fun_IsInj, Zenon
  <2>2. IsFiniteSet(1 .. c) /\ Cardinality(1 .. c) = c
    BY <1>1, FS_Interval
  <2>3. rank \in Surjection(S, 1 .. c)
    BY <2>1, <2>2, FS_Injection DEF c
  <2>. QED
    BY <2>3, Zenon DEF Surjection
<1>8. PICK f : f = InOrder(S)
  OBVIOUS
<1>9. DOMAIN f = 1 .. c /\ \A k \in 1 .. c : f[k] \in S /\ rank[f[k]] = k
  <2>1. f = [k \in 1 .. c |-> CHOOSE i \in S : Cardinality({j \in S : j <= i}) = k]
    BY <1>8 DEF InOrder, c
  <2>2. ASSUME NEW k \in 1 .. c
        PROVE  f[k] \in S /\ Cardinality({j \in S : j <= f[k]}) = k
    <3>1. \E i \in S : Cardinality({j \in S : j <= i}) = k
      BY <1>5, <1>7
    <3>2. f[k] = CHOOSE i \in S : Cardinality({j \in S : j <= i}) = k
      BY <2>1
    <3>. QED
      BY <3>1, <3>2, Zenon
  <2>. QED
    BY <1>5, <2>1, <2>2
<1>10. f \in Seq(S) /\ Len(f) = c
  <2>1. f = [k \in 1 .. c |-> CHOOSE i \in S : Cardinality({j \in S : j <= i}) = k]
    BY <1>8 DEF InOrder, c
  <2>2. f \in [1 .. c -> S]
    BY <1>9, <2>1
  <2>. QED
    BY <1>1, <2>2
<1>11. \A i \in S : \E a \in 1 .. c : f[a] = i
  BY <1>4, <1>6, <1>9
<1>12. \A a, b \in 1 .. c : a < b => f[a] < f[b]
  <2>1. TAKE a, b \in 1 .. c
  <2>2. HAVE a < b
  <2>3. f[a] \in S /\ f[b] \in S /\ rank[f[a]] = a /\ rank[f[b]] = b
    BY <1>9
  <2>4. f[a] \in Nat /\ f[b] \in Nat
    BY <1>1, <2>3
  <2>5. f[b] < f[a] => b < a
    BY <1>4, <2>3
  <2>6. a \in Nat /\ b \in Nat
    BY <1>1
  <2>7. f[a] # f[b]
    BY <2>2, <2>3, <2>6
  <2>. QED
    BY <2>2, <2>4, <2>5, <2>6, <2>7
<1>. QED
  BY <1>1, <1>8, <1>10, <1>11, <1>12 DEF c

\* What waited still does when more is issued.
LEMMA AwaitedKept ==
  ASSUME NEW i, NEW m \in Nat, NEW n \in Nat, m <= n, Awaited(i, m), insts' = insts,
         \A a \in 1 .. m : issued'[a] = issued[a]
  PROVE  Awaited(i, n)'
<1>1. PICK a \in 1 .. m : Dst(insts[issued[a]]) \in RegsOf(insts[i])
  BY DEF Awaited
<1>2. a \in 1 .. n /\ issued'[a] = issued[a]
  OBVIOUS
<1>3. \E q \in 1 .. n : Dst(insts[issued'[q]]) \in RegsOf(insts[i])
  BY <1>1, <1>2
<1>. QED
  BY <1>3 DEF Awaited, Dst, RegsOf, RegAt

\* An instruction the cycle of the terminator does not pick waits for a register.
LEMMA PickedWithLast ==
  ASSUME insts \in Seq(Placed), written \in [Reg -> Int], cycle \in Nat, IssueInv, NoReg \notin Reg,
         Len(insts) \in Picked, NEW i \in Waiting, i \notin Picked
  PROVE  Awaited(i, Len(issued))
<1>1. Len(insts) \in Nat /\ DOMAIN insts = 1 .. Len(insts) /\ IsFiniteSet(1 .. Len(insts))
  <2>1. Len(insts) \in Nat /\ DOMAIN insts = 1 .. Len(insts)
    OBVIOUS
  <2>. QED
    BY <2>1, FS_Interval
<1>2. Picked \subseteq Ready /\ Ready \subseteq 1 .. Len(insts) /\ i \in 1 .. Len(insts)
  BY <1>1 DEF Picked, Ready, Waiting
<1>3. i \notin Ready
  <2>1. SUFFICES ASSUME i \in Ready PROVE FALSE
    OBVIOUS
  <2>. DEFINE before(k) == {j \in Ready : j < k}
  <2>2. \A k : IsFiniteSet(before(k)) /\ Cardinality(before(k)) \in Nat
    <3>1. \A k : before(k) \in SUBSET (1 .. Len(insts))
      BY <1>2
    <3>2. \A k : IsFiniteSet(before(k))
      BY <1>1, <3>1, FS_Subset
    <3>. QED
      BY <3>2, FS_CardinalityType
  <2>3. before(i) \in SUBSET before(Len(insts))
    <3>1. \A j \in Ready : j < i => j < Len(insts)
      BY <1>1, <1>2
    <3>. QED
      BY <3>1, Zenon
  <2>4. Cardinality(before(i)) <= Cardinality(before(Len(insts)))
    BY <2>2, <2>3, FS_Subset
  <2>5. Cardinality(before(Len(insts))) < IssueWidth /\ ~(Cardinality(before(i)) < IssueWidth)
    BY <2>1 DEF Picked
  <2>6. Cardinality(before(i)) \in Nat /\ Cardinality(before(Len(insts))) \in Nat /\ IssueWidth \in Nat
    BY <2>2, P1Assumption
  <2>. HIDE DEF before
  <2>. QED
    BY <2>4, <2>5, <2>6
<1>4. PICK r \in RegsOf(insts[i]) : ~(written[r] < 0)
  BY <1>3 DEF Ready
<1>5. r \in Reg
  <2>1. PICK k : r = RegAt(insts[i], k) /\ r # NoReg
    BY <1>4 DEF RegsOf
  <2>2. insts[i] \in Placed
    BY <1>2
  <2>. QED
    BY <2>1, <2>2, RegAtType
<1>6. written[r] >= 0
  BY <1>4, <1>5
<1>7. PICK a \in DOMAIN issued : Dst(insts[issued[a]]) = r
  BY <1>5, <1>6 DEF IssueInv
<1>8. a \in 1 .. Len(issued)
  BY DEF IssueInv
<1>. QED
  BY <1>4, <1>7, <1>8 DEF Awaited

\* A cycle issues what was not issued yet, each once and the terminator last.
LEMMA IssueShape ==
  ASSUME insts \in Seq(Placed), IssueInv, issued' = issued \o InOrder(Picked), insts' = insts
  PROVE  LET m == Len(issued)
             c == Cardinality(Picked)
         IN  /\ Len(insts) \in Nat /\ m \in Nat /\ c \in Nat /\ Picked \in SUBSET Waiting
             /\ Waiting \in SUBSET (1 .. Len(insts))
             /\ issued' \in Seq(DOMAIN insts) /\ Len(issued') = m + c /\ DOMAIN issued' = 1 .. m + c
             /\ \A a \in 1 .. m : issued'[a] = issued[a]
             /\ \A a \in 1 .. c : issued'[m + a] \in Picked
             /\ \A i \in Picked : \E a \in 1 .. c : issued'[m + a] = i
             /\ \A a, b \in 1 .. c : a < b => issued'[m + a] < issued'[m + b]
<1>1. /\ Len(insts) \in Nat /\ DOMAIN insts = 1 .. Len(insts) /\ issued \in Seq(DOMAIN insts) /\ Len(issued) \in Nat
  BY DEF IssueInv
<1>2. Picked \in SUBSET Waiting /\ Waiting \in SUBSET (1 .. Len(insts))
  BY <1>1 DEF Picked, Ready, Waiting
<1>3. PICK f : f = InOrder(Picked)
  OBVIOUS
<1>4. PICK c : c = Cardinality(Picked)
  OBVIOUS
<1>5. /\ c \in Nat /\ f \in Seq(Picked) /\ Len(f) = c
      /\ \A i \in Picked : \E a \in 1 .. c : f[a] = i
      /\ \A a, b \in 1 .. c : a < b => f[a] < f[b]
  <2>1. Picked \in SUBSET (1 .. Len(insts))
    BY <1>2
  <2>. QED
    BY <1>1, <1>3, <1>4, <2>1, Ordered
<1>6. f \in Seq(DOMAIN insts) /\ \A a \in 1 .. c : f[a] \in Picked
  <2>1. Picked \subseteq DOMAIN insts
    BY <1>1, <1>2
  <2>2. f \in Seq(DOMAIN insts)
    BY <1>5, <2>1, SeqMonotonic
  <2>. QED
    BY <1>5, <2>2
<1>7. /\ issued' \in Seq(DOMAIN insts) /\ Len(issued') = Len(issued) + c
      /\ \A a \in 1 .. Len(issued) : issued'[a] = issued[a]
      /\ \A a \in 1 .. c : issued'[Len(issued) + a] = f[a]
  <2>1. /\ issued \o f \in Seq(DOMAIN insts) /\ Len(issued \o f) = Len(issued) + Len(f)
        /\ \A a \in 1 .. Len(issued) : (issued \o f)[a] = issued[a]
        /\ \A a \in 1 .. Len(f) : (issued \o f)[Len(issued) + a] = f[a]
    BY <1>1, <1>6, TwoParts
  <2>2. issued' = issued \o f /\ Len(f) = c
    BY <1>3, <1>5
  <2>. QED
    BY <2>1, <2>2
<1>8. DOMAIN issued' = 1 .. Len(issued) + c
  BY <1>7
<1>9. /\ \A a \in 1 .. c : issued'[Len(issued) + a] \in Picked
      /\ \A i \in Picked : \E a \in 1 .. c : issued'[Len(issued) + a] = i
      /\ \A a, b \in 1 .. c : a < b => issued'[Len(issued) + a] < issued'[Len(issued) + b]
  BY <1>5, <1>6, <1>7
<1>. QED
  BY <1>1, <1>2, <1>4, <1>5, <1>7, <1>8, <1>9

\* Issuing keeps what is known of the instructions issued.
LEMMA IssueInvKept ==
  ASSUME insts \in Seq(Placed), written \in [Reg -> Int], cycle \in Nat, IssueInv, NoReg \notin Reg,
         \A i \in DOMAIN insts : insts[i].opcode \in Terminator => i = Len(insts),
         issued' = issued \o InOrder(Picked), insts' = insts,
         written' = [r \in Reg |-> IF \E i \in Picked : Dst(insts[i]) = r THEN cycle ELSE written[r]]
  PROVE  IssueInv'
<1>1. PICK n, m, c : n = Len(insts) /\ m = Len(issued) /\ c = Cardinality(Picked)
  OBVIOUS
<1>2. /\ n \in Nat /\ m \in Nat /\ c \in Nat /\ Picked \in SUBSET Waiting /\ Waiting \in SUBSET (1 .. n)
      /\ issued' \in Seq(DOMAIN insts) /\ Len(issued') = m + c /\ DOMAIN issued' = 1 .. m + c
      /\ \A a \in 1 .. m : issued'[a] = issued[a]
      /\ \A a \in 1 .. c : issued'[m + a] \in Picked
      /\ \A i \in Picked : \E a \in 1 .. c : issued'[m + a] = i
      /\ \A a, b \in 1 .. c : a < b => issued'[m + a] < issued'[m + b]
  BY <1>1, IssueShape
<1>3. DOMAIN insts = 1 .. n /\ DOMAIN issued = 1 .. m
  BY <1>1 DEF IssueInv
<1>4. \A a \in 1 .. m + c : a \in 1 .. m \/ \E b \in 1 .. c : a = m + b
  <2>1. TAKE a \in 1 .. m + c
  <2>2. a > m => a - m \in 1 .. c /\ a = m + (a - m)
    BY <1>2
  <2>. QED
    BY <1>2, <2>2
<1>5. \A a, b \in DOMAIN issued' : issued'[a] = issued'[b] => a = b
  <2>1. \A a \in 1 .. m, b \in 1 .. c : issued'[a] # issued'[m + b]
    <3>1. \A a \in 1 .. m, i \in Waiting : issued[a] # i
      BY <1>3 DEF Waiting
    <3>. QED
      BY <1>2, <3>1
  <2>2. \A a, b \in 1 .. m : issued'[a] = issued'[b] => a = b
    BY <1>2, <1>3 DEF IssueInv
  <2>3. \A a, b \in 1 .. c : issued'[m + a] = issued'[m + b] => a = b
    <3>1. TAKE a, b \in 1 .. c
    <3>2. PICK x, y : x = issued'[m + a] /\ y = issued'[m + b]
      OBVIOUS
    <3>3. x \in Picked /\ y \in Picked /\ (a < b => x < y) /\ (b < a => y < x)
      BY <1>2, <3>2
    <3>4. x \in Nat /\ y \in Nat /\ a \in Nat /\ b \in Nat
      BY <1>2, <3>3
    <3>5. x = y => a = b
      BY <3>3, <3>4
    <3>. QED
      BY <3>2, <3>5
  <2>4. SUFFICES ASSUME NEW a \in 1 .. m + c, NEW b \in 1 .. m + c, issued'[a] = issued'[b]
                 PROVE  a = b
    BY <1>2
  <2>5. CASE a \in 1 .. m
    BY <1>4, <2>1, <2>2, <2>4, <2>5
  <2>6. CASE b \in 1 .. m
    BY <1>4, <2>1, <2>2, <2>4, <2>6
  <2>7. CASE a \notin 1 .. m /\ b \notin 1 .. m
    <3>1. PICK k, l \in 1 .. c : a = m + k /\ b = m + l
      BY <1>4, <2>7
    <3>. QED
      BY <2>3, <2>4, <3>1
  <2>. QED
    BY <2>5, <2>6, <2>7
<1>6. ASSUME NEW r \in Reg, written'[r] >= 0
      PROVE  \E a \in DOMAIN issued' : Dst(insts[issued'[a]]) = r
  <2>1. CASE \E i \in Picked : Dst(insts[i]) = r
    <3>1. PICK i \in Picked : Dst(insts[i]) = r
      BY <2>1
    <3>2. PICK a \in 1 .. c : issued'[m + a] = i
      BY <1>2
    <3>3. m + a \in 1 .. m + c
      BY <1>2
    <3>. QED
      BY <1>2, <3>1, <3>2, <3>3
  <2>2. CASE ~\E i \in Picked : Dst(insts[i]) = r
    <3>1. written[r] >= 0
      BY <1>6, <2>2
    <3>2. PICK a \in 1 .. m : Dst(insts[issued[a]]) = r
      BY <1>3, <3>1 DEF IssueInv
    <3>3. a \in 1 .. m + c /\ issued'[a] = issued[a]
      BY <1>2
    <3>. QED
      BY <1>2, <3>2, <3>3
  <2>. QED
    BY <2>1, <2>2
<1>7. ASSUME NEW a \in 1 .. m + c, insts[issued'[a]].opcode \in Terminator
      PROVE  /\ \A b \in a + 1 .. m + c : Awaited(issued[b], b - 1)'
             /\ \A i \in Waiting' : Awaited(i, m + c)'
  <2>1. Waiting' \in SUBSET Waiting /\ Waiting' \intersect Picked = {}
    <3>1. Waiting' = {i \in 1 .. n : \A b \in 1 .. m + c : issued'[b] # i}
      BY <1>2, <1>3 DEF Waiting
    <3>2. \A b \in 1 .. m : b \in 1 .. m + c
      BY <1>2
    <3>3. Waiting = {i \in 1 .. n : \A b \in 1 .. m : issued[b] # i}
      BY <1>3 DEF Waiting
    <3>4. \A i \in Picked : \E b \in 1 .. m + c : issued'[b] = i
      <4>1. \A b \in 1 .. c : m + b \in 1 .. m + c
        BY <1>2
      <4>. QED
        BY <1>2, <4>1
    <3>5. ASSUME NEW i \in Waiting' PROVE i \in Waiting /\ i \notin Picked
      <4>1. i \in 1 .. n /\ \A b \in 1 .. m + c : issued'[b] # i
        BY <3>1
      <4>2. \A b \in 1 .. m : issued[b] # i
        BY <1>2, <3>2, <4>1
      <4>. QED
        BY <3>3, <3>4, <4>1, <4>2
    <3>. QED
      BY <3>5
  <2>2. CASE a \in 1 .. m
    <3>1. /\ \A b \in a + 1 .. m : Awaited(issued[b], b - 1)
          /\ \A i \in Waiting : Awaited(i, m)
      BY <1>1, <1>2, <1>3, <1>7, <2>2 DEF IssueInv
    <3>2. ASSUME NEW b \in a + 1 .. m + c PROVE Awaited(issued[b], b - 1)'
      <4>1. CASE b <= m
        <5>1. /\ b \in a + 1 .. m /\ b - 1 \in Nat /\ b - 1 <= b - 1 /\ issued'[b] = issued[b]
              /\ \A q \in 1 .. b - 1 : issued'[q] = issued[q]
          BY <1>2, <2>2, <4>1
        <5>2. Awaited(issued'[b], b - 1)
          BY <3>1, <5>1
        <5>3. \A i : Awaited(i, b - 1) => Awaited(i, b - 1)'
          BY <5>1, AwaitedKept
        <5>. QED
          BY <5>2, <5>3 DEF Awaited
      <4>2. CASE b > m
        <5>1. b - m \in 1 .. c /\ b = m + (b - m) /\ b - 1 \in Nat /\ m <= b - 1
          BY <1>2, <2>2, <4>2
        <5>2. issued'[b] \in Waiting
          BY <1>2, <5>1
        <5>3. Awaited(issued'[b], m)
          BY <3>1, <5>2
        <5>4. \A i : Awaited(i, m) => Awaited(i, b - 1)'
          BY <1>2, <5>1, AwaitedKept
        <5>. QED
          BY <5>3, <5>4 DEF Awaited
      <4>. QED
        BY <1>2, <2>2, <4>1, <4>2
    <3>3. ASSUME NEW i \in Waiting' PROVE Awaited(i, m + c)'
      <4>1. Awaited(i, m) /\ m + c \in Nat /\ m <= m + c
        BY <1>2, <2>1, <3>1
      <4>. QED
        BY <1>2, <4>1, AwaitedKept
    <3>. QED
      BY <3>2, <3>3
  <2>3. CASE a \notin 1 .. m
    <3>1. PICK k \in 1 .. c : a = m + k
      BY <1>4, <2>3
    <3>2. issued'[a] \in Picked /\ issued'[a] \in 1 .. n
      BY <1>2, <3>1
    <3>3. issued'[a] = n
      BY <1>1, <1>3, <1>7, <3>2
    <3>4. k = c
      <4>1. SUFFICES ASSUME k # c PROVE FALSE
        OBVIOUS
      <4>2. k + 1 \in 1 .. c /\ k < k + 1
        BY <1>2, <4>1
      <4>3. PICK x, y : x = issued'[m + k] /\ y = issued'[m + (k + 1)]
        OBVIOUS
      <4>4. x < y /\ y \in Picked /\ x = n
        BY <1>2, <3>1, <3>3, <4>2, <4>3
      <4>5. y \in 1 .. n
        BY <1>2, <4>4
      <4>. QED
        BY <1>2, <4>4, <4>5
    <3>5. \A b \in a + 1 .. m + c : FALSE
      BY <1>2, <3>1, <3>4
    <3>6. ASSUME NEW i \in Waiting' PROVE Awaited(i, m + c)'
      <4>1. i \in Waiting /\ i \notin Picked /\ n \in Picked
        BY <2>1, <3>2, <3>3
      <4>2. Awaited(i, m)
        BY <1>1, <4>1, PickedWithLast
      <4>3. m + c \in Nat /\ m <= m + c
        BY <1>2
      <4>. QED
        BY <1>2, <4>2, <4>3, AwaitedKept
    <3>. QED
      BY <3>5, <3>6
  <2>. QED
    BY <2>2, <2>3
<1>8. \A r \in Reg : written'[r] >= 0 => \E a \in DOMAIN issued' : Dst(insts'[issued'[a]]) = r
  BY <1>6
<1>9. Len(issued') = m + c /\ DOMAIN issued' = 1 .. m + c /\ issued' \in Seq(DOMAIN insts')
  BY <1>2
<1>10. \A a \in DOMAIN issued' : insts'[issued'[a]].opcode \in Terminator =>
         /\ \A b \in a + 1 .. Len(issued') : Awaited(issued[b], b - 1)'
         /\ \A i \in Waiting' : Awaited(i, Len(issued))'
  BY <1>7, <1>9
<1>11. (\A r \in Reg : written[r] >= 0 => \E a \in DOMAIN issued : Dst(insts[issued[a]]) = r)'
  BY <1>8 DEF Dst, RegAt
<1>. QED
  BY <1>5, <1>9, <1>10, <1>11 DEF IssueInv

\* The terminator is still the last when the allocator is done.
LEMMA LastInPlace ==
  ASSUME insts \in Seq(Placed), base \in Seq(Placed), BaseInv, InPlace
  PROVE  \A i \in DOMAIN insts : insts[i].opcode \in Terminator => i = Len(insts)
<1>1. /\ DOMAIN insts = 1 .. Len(insts) /\ DOMAIN base = 1 .. Len(base)
      /\ Len(insts) \in Nat /\ Len(base) \in Nat /\ DOMAIN insts = DOMAIN base
  BY DEF InPlace
<1>2. Len(insts) = Len(base)
  <2>1. \A m, n \in Nat : 1 .. m = 1 .. n => m = n
    OBVIOUS
  <2>. QED
    BY <1>1, <2>1, Zenon
<1>. QED
  BY <1>1, <1>2 DEF BaseInv, InPlace

\* A cycle of ilp_schedule.
LEMMA IssueKept ==
  ASSUME P1Inv, Issue
  PROVE  P1Inv'
<1>1. /\ stage = "schedule" /\ UNCHANGED <<vars, base, phys, held>>
      /\ issued' = issued \o InOrder(Picked) /\ cycle' = cycle + 1
      /\ written' = [r \in Reg |-> IF \E i \in Picked : Dst(insts[i]) = r THEN cycle ELSE written[r]]
  BY DEF Issue
<1>2. /\ insts \in Seq(Placed) /\ base \in Seq(Placed) /\ written \in [Reg -> Int] /\ cycle \in Nat
      /\ HandedOn /\ BaseInv /\ InPlace /\ IssueInv
  <2>1. stage = "schedule" /\ stage \notin Early
    BY <1>1 DEF Early
  <2>2. P1Types /\ HandedOn /\ BaseInv /\ InPlace /\ IssueInv
    BY <2>1 DEF P1Inv
  <2>. QED
    BY <2>1, <2>2 DEF P1Types
<1>3. UNCHANGED <<prog, stage, code, insts, visit, base, phys, held>>
  BY <1>1 DEF vars, p0vars, propVars
<1>4. IssueInv'
  <2>1. \A i \in DOMAIN insts : insts[i].opcode \in Terminator => i = Len(insts)
    BY <1>2, LastInPlace
  <2>. QED
    BY <1>1, <1>2, <1>3, <2>1, IssueInvKept, P0Assumption
<1>5. written' \in [Reg -> Int] /\ cycle' \in Nat
  BY <1>1, <1>2
<1>6. P1Types'
  BY <1>3, <1>5 DEF P1Inv, P1Types
<1>7. HandedOn' /\ BaseInv' /\ InPlace'
  BY <1>2, <1>3, SourceKept DEF InPlace
<1>. QED
  BY <1>1, <1>3, <1>4, <1>6, <1>7 DEF P1Inv, Early, BehindTerminator

\* Before the scheduler everything is in its place.
LEMMA InPlaceArranged ==
  ASSUME insts \in Seq(Placed), BaseInv, InPlace
  PROVE  Arranged(insts)
<1>1. DOMAIN insts = DOMAIN base /\ \A i \in DOMAIN insts : i # 0
  BY DEF InPlace
<1>2. \A i \in DOMAIN insts : insts[i].at = i /\ insts[i].src = base[i].src
  BY <1>1 DEF InPlace
<1>. QED
  BY <1>1, <1>2 DEF Arranged

\* When as many are issued as there are, every one is.
LEMMA AllIssued ==
  ASSUME insts \in Seq(Placed), IssueInv, Len(issued) = Len(insts)
  PROVE  \E to \in [DOMAIN insts -> DOMAIN issued] :
           (\A q \in DOMAIN insts : issued[to[q]] = q) /\ (\A a \in DOMAIN issued : to[issued[a]] = a)
<1>1. PICK n : n = Len(insts)
  OBVIOUS
<1>2. n \in Nat /\ DOMAIN insts = 1 .. n /\ DOMAIN issued = 1 .. n /\ issued \in [1 .. n -> 1 .. n]
  BY <1>1 DEF IssueInv
<1>3. \A a, b \in 1 .. n : issued[a] = issued[b] => a = b
  BY <1>2 DEF IssueInv
<1>4. issued \in Injection(1 .. n, 1 .. n)
  BY <1>2, <1>3, Fun_IsInj, Zenon
<1>5. issued \in Surjection(1 .. n, 1 .. n)
  BY <1>2, <1>4, FS_Interval, FS_Injection
<1>6. \A q \in 1 .. n : \E a \in 1 .. n : issued[a] = q
  BY <1>5, Zenon DEF Surjection
<1>7. PICK to : to = [q \in 1 .. n |-> CHOOSE a \in 1 .. n : issued[a] = q]
  OBVIOUS
<1>8. \A q \in 1 .. n : to[q] \in 1 .. n /\ issued[to[q]] = q
  BY <1>6, <1>7
<1>9. to \in [1 .. n -> 1 .. n]
  BY <1>7, <1>8
<1>10. \A a \in 1 .. n : to[issued[a]] = a
  BY <1>2, <1>3, <1>8
<1>. QED
  BY <1>2, <1>8, <1>9, <1>10

\* ilp_schedule hands its order on: the vector is permuted, and what is behind
\* a terminator mentions a register written in front of it.
LEMMA IssuedKept ==
  ASSUME P1Inv, Issued
  PROVE  P1Inv'
<1>1. /\ stage = "schedule" /\ stage' = "separate" /\ visit' = 1
      /\ UNCHANGED <<prog, code, base, phys, held, issued, written, cycle>>
  BY DEF Issued, p1vars
<1>2. /\ insts \in Seq(Placed) /\ base \in Seq(Placed) /\ HandedOn /\ BaseInv /\ InPlace /\ IssueInv
  BY <1>1 DEF P1Inv, P1Types, Early
<1>3. /\ Len(insts) \in Nat /\ DOMAIN insts = 1 .. Len(insts) /\ Arranged(insts)
      /\ \A i \in DOMAIN insts : insts[i].opcode \in Terminator => i = Len(insts)
  BY <1>2, LastInPlace, InPlaceArranged
<1>4. /\ insts' \in Seq(Placed) /\ Arranged(insts')
      /\ \A t, p \in DOMAIN insts' : insts'[t].opcode \in Terminator /\ t < p =>
           \E q \in 1 .. p - 1 : Dst(insts'[q]) \in RegsOf(insts'[p])
  <2>1. CASE Len(insts) < 3 /\ insts' = insts
    <3>1. \A t, p \in DOMAIN insts : ~(insts[t].opcode \in Terminator /\ t < p)
      BY <1>3
    <3>. QED
      BY <1>2, <1>3, <2>1, <3>1
  <2>2. CASE Len(issued) = Len(insts) /\ insts' = [k \in DOMAIN insts |-> insts[issued[k]]]
    <3>1. PICK to \in [DOMAIN insts -> DOMAIN issued] :
            (\A q \in DOMAIN insts : issued[to[q]] = q) /\ (\A a \in DOMAIN issued : to[issued[a]] = a)
      BY <1>2, <2>2, AllIssued
    <3>2. /\ DOMAIN issued = DOMAIN insts /\ issued \in [DOMAIN insts -> DOMAIN insts] /\ DOMAIN insts' = DOMAIN insts
      BY <1>2, <1>3, <2>2 DEF IssueInv
    <3>3. \A k \in DOMAIN insts : insts'[k] = insts[issued[k]] /\ issued[k] \in DOMAIN insts
      BY <2>2, <3>2
    <3>4. insts' \in Seq(Placed)
      <4>1. \A k \in 1 .. Len(insts) : insts[issued[k]] \in Placed
        BY <1>2, <1>3, <3>3
      <4>. QED
        BY <1>3, <2>2, <4>1
    <3>5. Arranged(insts')
      <4>1. to \in [DOMAIN insts -> DOMAIN insts'] /\ \A q \in DOMAIN insts : insts'[to[q]] = insts[q]
        BY <3>1, <3>2, <3>3
      <4>2. \A p \in DOMAIN insts' : \E q \in DOMAIN insts : to[q] = p
        BY <3>1, <3>2, <3>3
      <4>. QED
        BY <1>3, <4>1, <4>2, Rearranged
    <3>6. ASSUME NEW t \in DOMAIN insts, NEW p \in DOMAIN insts, insts'[t].opcode \in Terminator, t < p
          PROVE  \E q \in 1 .. p - 1 : Dst(insts'[q]) \in RegsOf(insts'[p])
      <4>1. insts[issued[t]].opcode \in Terminator /\ t \in DOMAIN issued /\ p \in t + 1 .. Len(issued)
        BY <1>3, <2>2, <3>2, <3>3, <3>6
      <4>2. Awaited(issued[p], p - 1)
        BY <1>2, <4>1 DEF IssueInv
      <4>3. PICK a \in 1 .. p - 1 : Dst(insts[issued[a]]) \in RegsOf(insts[issued[p]])
        BY <4>2 DEF Awaited
      <4>4. a \in DOMAIN insts
        BY <1>3
      <4>. QED
        BY <3>3, <4>3, <4>4
    <3>. QED
      BY <3>2, <3>4, <3>5, <3>6
  <2>. QED
    BY <2>1, <2>2 DEF Issued
<1>5. BehindTerminator'
  BY <1>4 DEF BehindTerminator, Dst, RegsOf, RegAt
<1>6. P1Types'
  BY <1>1, <1>4 DEF P1Inv, P1Types
<1>7. HandedOn' /\ BaseInv'
  BY <1>1, <1>2, SourceKept
<1>8. Arranged(insts)' /\ visit' \in Nat /\ visit' <= Len(insts') + 1
  <2>1. Len(insts') \in Nat
    BY <1>4
  <2>. QED
    BY <1>1, <1>4, <2>1 DEF Arranged
<1>. QED
  BY <1>1, <1>5, <1>6, <1>7, <1>8 DEF P1Inv, Early

\* The first of a set of numbers is one of them.
LEMMA MinIn ==
  ASSUME NEW T \in SUBSET Nat, T # {}
  PROVE  Min(T) \in T
<1>1. \E x \in T : \A y \in T : x <= y
  BY Least
<1>. QED
  BY <1>1 DEF Min

\* The instruction moved, those it passes, and the others.
LEMMA MovedShape ==
  ASSUME NEW S, NEW v \in Seq(S), NEW i \in 1 .. Len(v), NEW j \in i + 1 .. Len(v), NEW w, w = MovedBehind(v, i, j)
  PROVE  /\ w \in Seq(S) /\ Len(w) = Len(v) /\ w[i + 1] = v[j]
         /\ \A p \in 1 .. Len(v) : p <= i \/ p > j => w[p] = v[p]
         /\ \A p \in i + 2 .. j : w[p] = v[p - 1]
<1>1. PICK n : n = Len(v)
  OBVIOUS
<1>2. n \in Nat /\ i \in 1 .. n /\ j \in i + 1 .. n /\ j \in 1 .. n /\ \A p \in 1 .. n : v[p] \in S
  <2>1. n \in Nat /\ \A p \in 1 .. n : v[p] \in S
    BY <1>1
  <2>. QED
    BY <1>1, <2>1
<1>3. PICK x, y, z, t : /\ x = SubSeq(v, 1, i) /\ y = <<v[j]>>
                        /\ z = SubSeq(v, i + 1, j - 1) /\ t = SubSeq(v, j + 1, n)
  OBVIOUS
<1>4. x \in Seq(S) /\ Len(x) = i /\ \A p \in 1 .. i : x[p] = v[p]
  <2>1. 1 \in 1 .. n + 1 /\ i \in 1 - 1 .. n
    BY <1>2
  <2>2. x \in Seq(S) /\ Len(x) = i - 1 + 1 /\ \A p \in 1 .. i - 1 + 1 : x[p] = v[1 + p - 1]
    BY <1>1, <1>3, <2>1, Part
  <2>. QED
    BY <1>2, <2>2
<1>5. y \in Seq(S) /\ Len(y) = 1 /\ y[1] = v[j]
  BY <1>2, <1>3
<1>6. z \in Seq(S) /\ Len(z) = j - 1 - i /\ \A p \in 1 .. j - 1 - i : z[p] = v[i + p]
  <2>1. i + 1 \in 1 .. n + 1 /\ j - 1 \in (i + 1) - 1 .. n
    BY <1>2
  <2>2. z \in Seq(S) /\ Len(z) = (j - 1) - (i + 1) + 1
        /\ \A p \in 1 .. (j - 1) - (i + 1) + 1 : z[p] = v[(i + 1) + p - 1]
    BY <1>1, <1>3, <2>1, Part
  <2>. QED
    BY <1>2, <2>2
<1>7. t \in Seq(S) /\ Len(t) = n - j /\ \A p \in 1 .. n - j : t[p] = v[j + p]
  <2>1. j + 1 \in 1 .. n + 1 /\ n \in (j + 1) - 1 .. n
    BY <1>2
  <2>2. t \in Seq(S) /\ Len(t) = n - (j + 1) + 1
        /\ \A p \in 1 .. n - (j + 1) + 1 : t[p] = v[(j + 1) + p - 1]
    BY <1>1, <1>3, <2>1, Part
  <2>. QED
    BY <1>2, <2>2
<1>8. w = x \o y \o z \o t
  BY <1>1, <1>3 DEF MovedBehind
<1>9. /\ w \in Seq(S) /\ Len(w) = Len(x) + Len(y) + Len(z) + Len(t)
      /\ \A p \in 1 .. Len(x) : w[p] = x[p]
      /\ \A p \in 1 .. Len(y) : w[Len(x) + p] = y[p]
      /\ \A p \in 1 .. Len(z) : w[Len(x) + Len(y) + p] = z[p]
      /\ \A p \in 1 .. Len(t) : w[Len(x) + Len(y) + Len(z) + p] = t[p]
  <2>1. x \in Seq(S) /\ y \in Seq(S) /\ z \in Seq(S) /\ t \in Seq(S)
    BY <1>4, <1>5, <1>6, <1>7
  <2>. QED
    BY <1>8, <2>1, FourParts
<1>10. Len(w) = n
  BY <1>2, <1>4, <1>5, <1>6, <1>7, <1>9
<1>11. w[i + 1] = v[j]
  BY <1>4, <1>5, <1>9
<1>12. \A p \in 1 .. n : p <= i => w[p] = v[p]
  BY <1>2, <1>4, <1>9
<1>13. \A p \in i + 2 .. j : w[p] = v[p - 1]
  <2>1. TAKE p \in i + 2 .. j
  <2>2. PICK q : q = p - i - 1
    OBVIOUS
  <2>3. q \in 1 .. j - 1 - i /\ p = i + 1 + q /\ p - 1 = i + q
    BY <1>2, <2>2
  <2>4. w[Len(x) + Len(y) + q] = z[q] /\ z[q] = v[i + q]
    BY <1>6, <1>9, <2>3
  <2>5. Len(x) + Len(y) + q = p
    BY <1>4, <1>5, <2>3
  <2>. QED
    BY <2>3, <2>4, <2>5
<1>14. \A p \in 1 .. n : p > j => w[p] = v[p]
  <2>1. TAKE p \in 1 .. n
  <2>2. HAVE p > j
  <2>3. PICK q : q = p - j
    OBVIOUS
  <2>4. q \in 1 .. n - j /\ p = i + 1 + (j - 1 - i) + q /\ p = j + q
    BY <1>2, <2>2, <2>3
  <2>5. w[Len(x) + Len(y) + Len(z) + q] = t[q] /\ t[q] = v[j + q]
    BY <1>7, <1>9, <2>4
  <2>6. Len(x) + Len(y) + Len(z) + q = p
    BY <1>4, <1>5, <1>6, <2>4
  <2>. QED
    BY <2>4, <2>5, <2>6
<1>. QED
  BY <1>1, <1>9, <1>10, <1>11, <1>12, <1>13, <1>14

\* Moving an instruction over others rearranges them.
LEMMA MovedArranged ==
  ASSUME insts \in Seq(Placed), Arranged(insts), NEW i \in 1 .. Len(insts), NEW j \in i + 1 .. Len(insts)
  PROVE  Arranged(MovedBehind(insts, i, j))
<1>1. PICK n, w : n = Len(insts) /\ w = MovedBehind(insts, i, j)
  OBVIOUS
<1>2. /\ n \in Nat /\ i \in 1 .. n /\ j \in i + 1 .. n /\ j \in 1 .. n
      /\ DOMAIN insts = 1 .. n /\ DOMAIN w = 1 .. n /\ w[i + 1] = insts[j]
      /\ \A p \in 1 .. n : p <= i \/ p > j => w[p] = insts[p]
      /\ \A p \in i + 2 .. j : w[p] = insts[p - 1]
  <2>0. w = MovedBehind(insts, i, j)
    BY <1>1
  <2>1. /\ w \in Seq(Placed) /\ Len(w) = Len(insts) /\ w[i + 1] = insts[j]
        /\ \A p \in 1 .. Len(insts) : p <= i \/ p > j => w[p] = insts[p]
        /\ \A p \in i + 2 .. j : w[p] = insts[p - 1]
    BY <2>0, MovedShape
  <2>2. n \in Nat /\ DOMAIN insts = 1 .. n /\ DOMAIN w = 1 .. n
    BY <1>1, <2>1
  <2>. QED
    BY <1>1, <2>1, <2>2
<1>3. PICK to : to = [q \in 1 .. n |-> IF q = j THEN i + 1 ELSE IF q <= i \/ q > j THEN q ELSE q + 1]
  OBVIOUS
<1>4. \A q \in 1 .. n : to[q] \in 1 .. n /\ w[to[q]] = insts[q]
  <2>1. TAKE q \in 1 .. n
  <2>2. CASE q = j
    BY <1>2, <1>3, <2>2
  <2>3. CASE q # j /\ (q <= i \/ q > j)
    BY <1>2, <1>3, <2>3
  <2>4. CASE q # j /\ ~(q <= i \/ q > j)
    <3>1. to[q] = q + 1 /\ q + 1 \in i + 2 .. j /\ (q + 1) - 1 = q /\ q + 1 \in 1 .. n
      BY <1>2, <1>3, <2>4
    <3>. QED
      BY <1>2, <3>1
  <2>. QED
    BY <2>2, <2>3, <2>4
<1>5. to \in [1 .. n -> 1 .. n]
  BY <1>3, <1>4
<1>6. \A p \in 1 .. n : \E q \in 1 .. n : to[q] = p
  <2>1. TAKE p \in 1 .. n
  <2>2. CASE p <= i \/ p > j
    <3>1. p # j
      BY <1>2, <2>2
    <3>2. to[p] = p
      BY <1>3, <2>2, <3>1
    <3>. QED
      BY <3>2
  <2>3. CASE p = i + 1
    BY <1>2, <1>3, <2>3
  <2>4. CASE p > i + 1 /\ p <= j
    <3>1. p - 1 \in 1 .. n /\ p - 1 # j /\ ~(p - 1 <= i \/ p - 1 > j) /\ (p - 1) + 1 = p
      BY <1>2, <2>4
    <3>. QED
      BY <1>3, <3>1
  <2>. QED
    BY <1>2, <2>2, <2>3, <2>4
<1>7. Arranged(w)
  <2>1. to \in [DOMAIN insts -> DOMAIN w] /\ \A q \in DOMAIN insts : w[to[q]] = insts[q]
    BY <1>2, <1>4, <1>5
  <2>2. \A p \in DOMAIN w : \E q \in DOMAIN insts : to[q] = p
    BY <1>2, <1>6
  <2>. QED
    BY <2>1, <2>2, Rearranged
<1>. QED
  BY <1>1, <1>7

\* A visit of avoid_bank_conflicts.
LEMMA AvoidKept ==
  ASSUME P1Inv, AvoidBankConflicts
  PROVE  P1Inv'
<1>1. /\ stage = "separate" /\ visit + 1 <= Len(insts) /\ visit' = visit + 1
      /\ UNCHANGED <<prog, stage, code, base, phys, held, issued, written, cycle>>
  BY DEF AvoidBankConflicts, p0vars, p1vars
<1>2. /\ insts \in Seq(Placed) /\ base \in Seq(Placed) /\ HandedOn /\ BaseInv /\ Arranged(insts)
      /\ visit \in Nat /\ visit > 0
  BY <1>1 DEF P1Inv, P1Types, Early
<1>3. Len(insts) \in Nat /\ visit \in 1 .. Len(insts)
  BY <1>1, <1>2
<1>4. insts' \in Seq(Placed) /\ Len(insts') = Len(insts) /\ Arranged(insts')
  <2>1. CASE ConflictAt(insts, visit) /\ Movable(insts, visit) # {}
    <3>1. PICK j : j = Min(Movable(insts, visit))
      OBVIOUS
    <3>2. Movable(insts, visit) \in SUBSET Nat
      BY <1>3 DEF Movable
    <3>3. j \in Movable(insts, visit)
      BY <2>1, <3>1, <3>2, MinIn
    <3>4. j \in visit + 1 .. Len(insts)
      BY <1>3, <3>3 DEF Movable
    <3>5. insts' = MovedBehind(insts, visit, j)
      BY <2>1, <3>1 DEF AvoidBankConflicts
    <3>. QED
      BY <1>2, <1>3, <3>4, <3>5, MovedShape, MovedArranged
  <2>2. CASE ~(ConflictAt(insts, visit) /\ Movable(insts, visit) # {})
    BY <1>2, <2>2 DEF AvoidBankConflicts
  <2>. QED
    BY <2>1, <2>2
<1>5. P1Types'
  BY <1>1, <1>4 DEF P1Inv, P1Types
<1>6. HandedOn' /\ BaseInv'
  BY <1>1, <1>2, SourceKept
<1>7. Arranged(insts)' /\ visit' \in Nat /\ visit' <= Len(insts') + 1 /\ visit' > 0 /\ visit' # 1
  BY <1>1, <1>2, <1>3, <1>4 DEF Arranged
<1>. QED
  BY <1>1, <1>5, <1>6, <1>7 DEF P1Inv, Early, BehindTerminator

\* avoid_bank_conflicts hands over to insert_depbars.
LEMMA SeparatedKept ==
  ASSUME P1Inv, Separated
  PROVE  P1Inv'
<1>1. /\ stage = "separate" /\ stage' = "guard" /\ visit' = Len(insts)
      /\ UNCHANGED <<prog, code, insts, base, phys, held, issued, written, cycle>>
  BY DEF Separated, p1vars
<1>2. /\ insts \in Seq(Placed) /\ base \in Seq(Placed) /\ HandedOn /\ BaseInv /\ Arranged(insts)
  BY <1>1 DEF P1Inv, P1Types, Early
<1>3. P1Types'
  BY <1>1, <1>2 DEF P1Inv, P1Types
<1>4. HandedOn' /\ BaseInv' /\ Arranged(insts)'
  BY <1>1, <1>2 DEF HandedOn, Index, BaseInv, Copied, InFrontOfLoopEnd, Arranged
<1>5. visit' \in Nat /\ visit' <= Len(insts') /\ visit' <= Len(insts') + 1
  BY <1>1, <1>2
<1>. QED
  BY <1>1, <1>3, <1>4, <1>5 DEF P1Inv, Early, BehindTerminator

\* Bars in front of an instruction rearrange the vector.
Guarded(v, i, c) == SubSeq(v, 1, i - 1) \o [k \in 1 .. c |-> Bar] \o SubSeq(v, i, Len(v))

\* Bars in front of instruction i lose and double no instruction.
LEMMA GuardedArranged ==
  ASSUME insts \in Seq(Placed), Arranged(insts), NEW i \in 1 .. Len(insts), NEW c \in Nat
  PROVE  LET w == Guarded(insts, i, c)
         IN  w \in Seq(Placed) /\ Len(w) = Len(insts) + c /\ Arranged(w)
<1>1. PICK n, w : n = Len(insts) /\ w = Guarded(insts, i, c)
  OBVIOUS
<1>2. n \in Nat /\ i \in 1 .. n /\ DOMAIN insts = 1 .. n
  <2>1. n \in Nat /\ DOMAIN insts = 1 .. n
    BY <1>1
  <2>. QED
    BY <1>1, <2>1
<1>3. PICK x, y, z : /\ x = SubSeq(insts, 1, i - 1) /\ y = [k \in 1 .. c |-> Bar]
                     /\ z = SubSeq(insts, i, n)
  OBVIOUS
<1>4. x \in Seq(Placed) /\ Len(x) = i - 1 /\ \A p \in 1 .. i - 1 : x[p] = insts[p]
  <2>1. 1 \in 1 .. n + 1 /\ i - 1 \in 1 - 1 .. n
    BY <1>2
  <2>2. x \in Seq(Placed) /\ Len(x) = (i - 1) - 1 + 1 /\ \A p \in 1 .. (i - 1) - 1 + 1 : x[p] = insts[1 + p - 1]
    BY <1>1, <1>3, <2>1, Part
  <2>. QED
    BY <1>2, <2>2
<1>5. y \in Seq(Placed) /\ Len(y) = c /\ \A p \in 1 .. c : y[p] = Bar
  <2>1. Bar \in Placed
    <3>1. <<>> \in Seq(Operand)
      OBVIOUS
    <3>2. \A e \in Seq(Operand) : [opcode |-> "DEPBAR", operands |-> e, src |-> 0, at |-> 0] \in Placed
      BY DEF Placed
    <3>. QED
      BY <3>1, <3>2, Zenon DEF Bar
  <2>. QED
    BY <1>3, <2>1
<1>6. z \in Seq(Placed) /\ Len(z) = n - i + 1 /\ \A p \in 1 .. n - i + 1 : z[p] = insts[i + p - 1]
  <2>1. i \in 1 .. n + 1 /\ n \in i - 1 .. n
    BY <1>2
  <2>. QED
    BY <1>1, <1>3, <2>1, Part
<1>7. PICK xy : xy = x \o y
  OBVIOUS
<1>8. /\ xy \in Seq(Placed) /\ Len(xy) = Len(x) + Len(y)
      /\ \A p \in 1 .. Len(x) : xy[p] = x[p]
      /\ \A p \in 1 .. Len(y) : xy[Len(x) + p] = y[p]
  <2>1. x \in Seq(Placed) /\ y \in Seq(Placed)
    BY <1>4, <1>5
  <2>. QED
    BY <1>7, <2>1, TwoParts
<1>9. /\ w \in Seq(Placed) /\ Len(w) = Len(xy) + Len(z)
      /\ \A p \in 1 .. Len(xy) : w[p] = xy[p]
      /\ \A p \in 1 .. Len(z) : w[Len(xy) + p] = z[p]
  <2>1. xy \in Seq(Placed) /\ z \in Seq(Placed) /\ w = xy \o z
    BY <1>1, <1>3, <1>6, <1>7, <1>8 DEF Guarded
  <2>2. /\ xy \o z \in Seq(Placed) /\ Len(xy \o z) = Len(xy) + Len(z)
        /\ \A p \in 1 .. Len(xy) : (xy \o z)[p] = xy[p]
        /\ \A p \in 1 .. Len(z) : (xy \o z)[Len(xy) + p] = z[p]
    BY <2>1, TwoParts
  <2>. QED
    BY <2>1, <2>2, Zenon
<1>10. Len(xy) = i - 1 + c /\ Len(w) = n + c /\ DOMAIN w = 1 .. n + c
  <2>1. Len(xy) = i - 1 + c /\ Len(w) = n + c
    <3>1. Len(xy) = i - 1 + c
      BY <1>4, <1>5, <1>8
    <3>. QED
      BY <1>2, <1>6, <1>9, <3>1
  <2>2. DOMAIN w = 1 .. Len(w)
    BY <1>9
  <2>. QED
    BY <2>1, <2>2
<1>11. \A p \in 1 .. i - 1 : w[p] = insts[p]
  <2>1. \A p \in 1 .. i - 1 : p \in 1 .. Len(xy) /\ p \in 1 .. Len(x)
    BY <1>2, <1>4, <1>10
  <2>. QED
    BY <1>4, <1>8, <1>9, <2>1
<1>12. \A p \in i .. i - 1 + c : w[p] = Bar
  <2>1. TAKE p \in i .. i - 1 + c
  <2>2. PICK q : q = p - i + 1
    OBVIOUS
  <2>3. q \in 1 .. Len(y) /\ p = Len(x) + q /\ p \in 1 .. Len(xy)
    BY <1>2, <1>4, <1>5, <1>10, <2>2
  <2>. QED
    BY <1>5, <1>8, <1>9, <2>3
<1>13. \A q \in i .. n : w[q + c] = insts[q]
  <2>1. TAKE q \in i .. n
  <2>2. PICK k : k = q - i + 1
    OBVIOUS
  <2>3. k \in 1 .. n - i + 1 /\ i + k - 1 = q /\ Len(xy) + k = q + c
    BY <1>2, <1>10, <2>2
  <2>4. w[Len(xy) + k] = z[k] /\ z[k] = insts[i + k - 1]
    BY <1>6, <1>9, <2>3
  <2>. QED
    BY <2>3, <2>4
<1>14. PICK to : to = [q \in 1 .. n |-> IF q < i THEN q ELSE q + c]
  OBVIOUS
<1>15. \A q \in 1 .. n : to[q] \in 1 .. n + c /\ w[to[q]] = insts[q]
  <2>1. TAKE q \in 1 .. n
  <2>2. CASE q < i
    <3>1. q \in 1 .. i - 1 /\ to[q] = q /\ q \in 1 .. n + c
      BY <1>2, <1>14, <2>2
    <3>. QED
      BY <1>11, <3>1
  <2>3. CASE q >= i
    <3>1. q \in i .. n /\ to[q] = q + c /\ q + c \in 1 .. n + c
      BY <1>2, <1>14, <2>3
    <3>. QED
      BY <1>13, <3>1
  <2>. QED
    BY <1>2, <2>2, <2>3
<1>16. \A p \in 1 .. n + c : w[p] = Bar \/ \E q \in 1 .. n : to[q] = p
  <2>1. TAKE p \in 1 .. n + c
  <2>2. CASE p < i
    <3>1. p \in 1 .. n /\ to[p] = p
      BY <1>2, <1>14, <2>2
    <3>. QED
      BY <3>1
  <2>3. CASE p \in i .. i - 1 + c
    BY <1>12, <2>3
  <2>4. CASE p > i - 1 + c
    <3>1. p - c \in 1 .. n /\ ~(p - c < i) /\ (p - c) + c = p
      BY <1>2, <2>4
    <3>. QED
      BY <1>14, <3>1
  <2>. QED
    BY <1>2, <2>2, <2>3, <2>4
<1>17. to \in [DOMAIN insts -> DOMAIN w]
  BY <1>2, <1>10, <1>14, <1>15
<1>18. Arranged(w)
  <2>1. \A q \in DOMAIN insts : w[to[q]] = insts[q]
    BY <1>2, <1>15
  <2>2. \A p \in DOMAIN w : w[p] = Bar \/ \E q \in DOMAIN insts : to[q] = p
    BY <1>2, <1>10, <1>16
  <2>. QED
    BY <1>17, <2>1, <2>2, Rearranged, Zenon
<1>. QED
  BY <1>1, <1>9, <1>10, <1>18

\* A visit of insert_depbars.
LEMMA InsertKept ==
  ASSUME P1Inv, InsertDepbars
  PROVE  P1Inv'
<1>1. /\ stage = "guard" /\ visit > 0 /\ visit' = visit - 1
      /\ UNCHANGED <<prog, stage, code, base, phys, held, issued, written, cycle>>
  BY DEF InsertDepbars, p0vars, p1vars
<1>2. /\ insts \in Seq(Placed) /\ base \in Seq(Placed) /\ HandedOn /\ BaseInv /\ Arranged(insts)
      /\ visit \in Nat /\ visit <= Len(insts)
  BY <1>1 DEF P1Inv, P1Types, Early
<1>3. Len(insts) \in Nat /\ visit \in 1 .. Len(insts)
  BY <1>1, <1>2
<1>4. PICK c \in Nat : c = Cardinality(Bars(insts, visit))
  <2>1. insts[visit] \in Placed
    BY <1>2, <1>3
  <2>2. Len(insts[visit].operands) \in Nat
    BY <2>1 DEF Placed
  <2>3. IsFiniteSet(2 .. Len(insts[visit].operands))
    BY <2>2, FS_Interval
  <2>4. Bars(insts, visit) \in SUBSET (2 .. Len(insts[visit].operands))
    BY DEF Bars
  <2>5. IsFiniteSet(Bars(insts, visit))
    BY <2>3, <2>4, FS_Subset
  <2>. QED
    BY <2>5, FS_CardinalityType
<1>5. insts' \in Seq(Placed) /\ Len(insts') = Len(insts) + c /\ Arranged(insts')
  <2>1. insts' = Guarded(insts, visit, c)
    BY <1>4 DEF InsertDepbars, Guarded
  <2>. QED
    BY <1>2, <1>3, <2>1, GuardedArranged
<1>6. P1Types'
  BY <1>1, <1>5 DEF P1Inv, P1Types
<1>7. HandedOn' /\ BaseInv'
  BY <1>1, <1>2, SourceKept
<1>8. Arranged(insts)'
  <2>1. base' = base
    BY <1>1
  <2>2. Arranged(insts')
    BY <1>5
  <2>. QED
    BY <2>1, <2>2, ArrangedKept, Zenon
<1>9. visit' \in Nat /\ visit' <= Len(insts') /\ visit' <= Len(insts') + 1
  <2>1. visit' = visit - 1 /\ Len(insts') = Len(insts) + c
    BY <1>1, <1>5
  <2>. QED
    BY <1>3, <2>1
<1>. QED
  BY <1>1, <1>6, <1>7, <1>8, <1>9 DEF P1Inv, Early, BehindTerminator

\* P1Inv is inductive.
LEMMA P1Kept == P1Inv /\ [P1Next]_p1allvars => P1Inv'
<1>. SUFFICES ASSUME P1Inv, [P1Next]_p1allvars PROVE P1Inv'
  OBVIOUS
<1>1. CASE UNCHANGED p1allvars
  <2>1. UNCHANGED <<vars, p1vars>>
    BY <1>1 DEF p1allvars
  <2>2. UNCHANGED vars
    BY <2>1
  <2>3. /\ UNCHANGED <<prog, stage, code, pos, reuse, insts, visit, constVals>>
        /\ UNCHANGED <<base, phys, held, issued, written, cycle>>
    BY <2>1 DEF vars, p0vars, propVars, p1vars
  <2>4. PropInv => PropInv'
    BY <2>2, PropKept
  <2>5. /\ P1Types' <=> P1Types
        /\ HandedOn' <=> HandedOn
    BY <2>3 DEF P1Types, HandedOn, Index
  <2>6. /\ BaseInv' <=> BaseInv
        /\ InPlace' <=> InPlace
        /\ Arranged(insts)' <=> Arranged(insts)
    BY <2>3 DEF BaseInv, InPlace, Arranged, Copied, InFrontOfLoopEnd
  <2>7. UnrollInv => UnrollInv'
    <3>1. Grown' = Grown
      BY <2>3 DEF Grown
    <3>2. \A l : UntouchedFrom(l) => UntouchedFrom(l)'
      BY <2>3, <3>1 DEF UntouchedFrom, Copied, InFrontOfLoopEnd
    <3>. QED
      BY <2>3, <3>1, <3>2 DEF UnrollInv, Index
  <2>8. IssueInv => IssueInv'
    <3>1. (\A i, n : Awaited(i, n)' <=> Awaited(i, n)) /\ Waiting' = Waiting
      BY <2>3 DEF Awaited, Waiting, Dst, RegsOf, RegAt
    <3>2. \A inst : Dst(inst)' = Dst(inst)
      BY DEF Dst, RegAt
    <3>. QED
      BY <2>3, <3>1 DEF IssueInv, Dst, RegAt
  <2>9. BehindTerminator => BehindTerminator'
    BY <2>3 DEF BehindTerminator, Dst, RegsOf, RegAt
  <2>. QED
    BY <2>3, <2>4, <2>5, <2>6, <2>7, <2>8, <2>9, Zenon DEF P1Inv
<1>2. CASE P1Next
  BY <1>2, FrontKept, BeginUnrollKept, LoopUnrollKept, BeginAllocateKept, AllocateKept, RenameKept,
     IssueKept, IssuedKept, AvoidKept, SeparatedKept, InsertKept DEF P1Next
<1>. QED
  BY <1>1, <1>2

\* For every program and register set: what optimize_p1 knows of its vector at
\* each step of each pass.
THEOREM P1Invariance == P1Spec => []P1Inv
<1>1. P1Init => P1Inv
  BY P1Starts
<1>2. P1Inv /\ [P1Next]_p1allvars => P1Inv'
  BY P1Kept
<1>. QED
  BY <1>1, <1>2, PTL DEF P1Spec

\* For every program and register set: what the scheduler puts behind the
\* terminator mentions a register that an instruction in front of it writes.
THEOREM BehindTerminatorTheorem == P1Spec => []BehindTerminator
<1>1. P1Inv => BehindTerminator
  BY DEF P1Inv
<1>. QED
  BY <1>1, P1Invariance, PTL

\* Each instruction of base stands for the places it has in the vector, and the
\* copies of a live instruction of the source are in base.
LEMMA OnceEach ==
  ASSUME insts \in Seq(Placed), base \in Seq(Placed), HandedOn, BaseInv, Arranged(insts)
  PROVE  /\ \A u \in DOMAIN base : Cardinality({p \in Real : insts[p].at = u}) = 1
         /\ \A k \in DOMAIN code :
              LET copies == Cardinality({p \in Real : insts[p].src = code[k]})
              IN  copies = 1 \/ (copies = 2 /\ InFrontOfLoopEnd(k))
<1>1. /\ \A u \in DOMAIN base : u # 0 /\ \E p \in DOMAIN insts : insts[p].at = u
      /\ \A p, q \in DOMAIN insts : insts[p].at # 0 /\ insts[p].at = insts[q].at => p = q
      /\ \A p \in DOMAIN insts : IF insts[p].at = 0 THEN insts[p].src = 0
                                 ELSE insts[p].at \in DOMAIN base /\ insts[p].src = base[insts[p].at].src
  BY DEF Arranged
<1>2. \A p : p \in Real <=> p \in DOMAIN insts /\ insts[p].at # 0
  BY DEF Real
<1>3. \A u \in DOMAIN base : \E p \in Real : {q \in Real : insts[q].at = u} = {p}
  <2>1. TAKE u \in DOMAIN base
  <2>2. PICK p \in DOMAIN insts : insts[p].at = u /\ u # 0
    BY <1>1
  <2>3. p \in Real
    BY <1>2, <2>2
  <2>4. \A q : q \in Real /\ insts[q].at = u <=> q = p
    BY <1>1, <1>2, <2>2, <2>3
  <2>5. {q \in Real : insts[q].at = u} = {p}
    BY <2>4
  <2>. QED
    BY <2>3, <2>5
<1>4. ASSUME NEW k \in DOMAIN code
      PROVE  LET copies == Cardinality({p \in Real : insts[p].src = code[k]})
             IN  copies = 1 \/ (copies = 2 /\ InFrontOfLoopEnd(k))
  <2>1. PICK a, b \in DOMAIN base :
          /\ \A p \in DOMAIN base : base[p].src = code[k] <=> p \in {a, b}
          /\ a = b \/ InFrontOfLoopEnd(k)
    BY DEF BaseInv, Copied
  <2>2. PICK x \in Real : {q \in Real : insts[q].at = a} = {x}
    BY <1>3
  <2>3. PICK y \in Real : {q \in Real : insts[q].at = b} = {y}
    BY <1>3
  <2>4. \A p \in Real : insts[p].src = code[k] <=> insts[p].at \in {a, b}
    <3>1. TAKE p \in Real
    <3>2. insts[p].at \in DOMAIN base /\ insts[p].src = base[insts[p].at].src
      BY <1>1, <1>2
    <3>. QED
      BY <2>1, <3>2
  <2>5. \A p \in Real : (insts[p].at = a <=> p = x) /\ (insts[p].at = b <=> p = y)
    BY <2>2, <2>3
  <2>6. \A p : p \in Real /\ insts[p].src = code[k] <=> p = x \/ p = y
    BY <2>4, <2>5
  <2>7. PICK copied : copied = {p \in Real : insts[p].src = code[k]}
    OBVIOUS
  <2>8. PICK one : one = {x}
    OBVIOUS
  <2>9. copied = one \union {y}
    BY <2>6, <2>7, <2>8
  <2>10. IsFiniteSet(one) /\ Cardinality(one) = 1
    BY <2>8, FS_Singleton
  <2>11. ASSUME y = x PROVE Cardinality(copied) = 1
    <3>1. copied = one
      BY <2>8, <2>9, <2>11
    <3>. QED
      BY <2>10, <3>1
  <2>12. ASSUME y # x PROVE Cardinality(copied) = 2 /\ InFrontOfLoopEnd(k)
    <3>1. y \notin one
      BY <2>8, <2>12
    <3>2. a # b
      <4>. SUFFICES ASSUME a = b PROVE FALSE
        OBVIOUS
      <4>1. insts[x].at = a /\ insts[x].at = b
        BY <2>5
      <4>. QED
        BY <2>5, <2>12, <4>1
    <3>3. Cardinality(one \union {y}) = 1 + 1
      BY <2>10, <3>1, FS_AddElement, Zenon
    <3>4. Cardinality(copied) = 2
      BY <2>9, <3>3
    <3>. QED
      BY <2>1, <3>2, <3>4
  <2>13. \/ Cardinality(copied) = 1
         \/ Cardinality(copied) = 2 /\ InFrontOfLoopEnd(k)
    BY <2>11, <2>12
  <2>. QED
    BY <2>7, <2>13, Zenon
<1>5. \A u \in DOMAIN base : Cardinality({p \in Real : insts[p].at = u}) = 1
  BY <1>3, FS_Singleton
<1>. QED
  BY <1>4, <1>5

\* For every program and register set, through all passes of optimize_p1: what
\* comes out is what loop_unroll left, each instruction once, and every live
\* instruction of the source is there once, or twice in front of a loop end.
THEOREM LiveOnceTheorem == P1Spec => []LiveOnce
<1>1. P1Inv => LiveOnce
  <2>. SUFFICES ASSUME P1Inv, Ended PROVE LiveOnce
    BY DEF LiveOnce
  <2>1. insts \in Seq(Placed) /\ base \in Seq(Placed) /\ HandedOn /\ BaseInv /\ Arranged(insts)
    BY DEF Ended, P1Inv, P1Types, Early
  <2>2. /\ \A u \in DOMAIN base : Cardinality({p \in Real : insts[p].at = u}) = 1
        /\ \A k \in DOMAIN code :
             LET copies == Cardinality({p \in Real : insts[p].src = code[k]})
             IN  copies = 1 \/ (copies = 2 /\ InFrontOfLoopEnd(k))
    BY <2>1, OnceEach
  <2>. QED
    BY <2>2 DEF LiveOnce, InFrontOfLoopEnd
<1>. QED
  BY <1>1, P1Invariance, PTL


-----------------------------------------------------------------------------
(* What the instructions read, through optimize_p1. *)

\* A set of numbers up to n has a greatest member.
LEMMA MaxIn ==
  ASSUME NEW n \in Nat, NEW T \in SUBSET (1 .. n), T # {}
  PROVE  Max(T) \in T /\ \A y \in T : y <= Max(T)
<1>1. PICK M : M = {n - y : y \in T}
  OBVIOUS
<1>2. M \in SUBSET Nat /\ M # {}
  <2>1. \A y \in T : n - y \in Nat
    OBVIOUS
  <2>. QED
    BY <1>1, <2>1
<1>3. PICK m \in M : \A y \in M : m <= y
  BY <1>2, Least
<1>4. PICK x \in T : m = n - x
  BY <1>1, <1>3
<1>5. \A y \in T : x >= y
  <2>1. TAKE y \in T
  <2>2. n - y \in M
    BY <1>1
  <2>3. n - x <= n - y /\ x \in Nat /\ y \in Nat
    BY <1>3, <1>4, <2>2
  <2>. QED
    BY <2>3
<1>6. Max(T) \in T /\ \A y \in T : Max(T) >= y
  BY <1>4, <1>5, Zenon DEF Max
<1>7. \A y \in T : y \in Nat
  OBVIOUS
<1>. QED
  BY <1>6, <1>7

\* What the allocator found stays as long as base, phys and held do.
LEMMA PhysKept ==
  ASSUME base' = base, phys' = phys, held' = held
  PROVE  /\ PhysInv => PhysInv'
         /\ AllRenamed => AllRenamed'
         /\ \A inst : FromBase(inst) => FromBase(inst)'
<1>1. PhysInv => PhysInv'
  BY DEF PhysInv, RangesApart, Mentioning, RegsOf, RegAt
<1>2. AllRenamed => AllRenamed'
  BY DEF AllRenamed, RegsOf, RegAt
<1>3. ASSUME NEW inst, FromBase(inst) PROVE FromBase(inst)'
  <2>1. \A op : Renamed(op)' = Renamed(op)
    BY DEF Renamed
  <2>. QED
    BY <1>3, <2>1 DEF FromBase
<1>. QED
  BY <1>1, <1>2, <1>3

\* A vector of such entries.
LEMMA Entries ==
  ASSUME insts \in Seq(Placed)
  PROVE  (\A p \in DOMAIN insts : FromBase(insts[p])) <=> insts \in Seq({x \in Placed : FromBase(x)})
<1>1. DOMAIN insts = 1 .. Len(insts) /\ Len(insts) \in Nat /\ insts \in [1 .. Len(insts) -> Placed]
  OBVIOUS
<1>2. PICK T : T = {x \in Placed : FromBase(x)}
  OBVIOUS
<1>3. \A x : x \in T <=> x \in Placed /\ FromBase(x)
  BY <1>2
<1>4. ASSUME \A p \in DOMAIN insts : FromBase(insts[p]) PROVE insts \in Seq(T)
  <2>1. \A p \in 1 .. Len(insts) : insts[p] \in T
    BY <1>1, <1>3, <1>4
  <2>2. insts \in [1 .. Len(insts) -> T]
    BY <1>1, <2>1
  <2>. QED
    BY <1>1, <2>2
<1>5. ASSUME insts \in Seq(T) PROVE \A p \in DOMAIN insts : FromBase(insts[p])
  <2>1. \A p \in DOMAIN insts : insts[p] \in T
    BY <1>5
  <2>. QED
    BY <1>3, <2>1
<1>. QED
  BY <1>2, <1>4, <1>5

\* A vector put together from entries of the one before, and bars.
LEMMA EntriesKept ==
  ASSUME base' = base, phys' = phys, insts' \in Seq({x \in Placed : FromBase(x)})
  PROVE  (\A p \in DOMAIN insts : FromBase(insts[p]))'
<1>1. PICK T : T = {x \in Placed : FromBase(x)}
  OBVIOUS
<1>2. \A p \in DOMAIN insts' : insts'[p] \in T
  BY <1>1
<1>3. \A p \in DOMAIN insts' : FromBase(insts'[p])
  BY <1>1, <1>2
<1>4. \A op : Renamed(op)' = Renamed(op)
  BY DEF Renamed
<1>5. \A inst : FromBase(inst) => (base' = base => FromBase(inst)')
  BY <1>4 DEF FromBase
<1>6. \A p \in DOMAIN insts' : FromBase(insts[p])'
  <2>1. TAKE p \in DOMAIN insts'
  <2>2. FromBase(insts'[p])
    BY <1>3
  <2>. QED
    BY <1>4, <2>2 DEF FromBase
<1>. QED
  BY <1>6

\* Registers are renamed one by one.
LEMMA RenameFlow ==
  ASSUME P1Inv, FlowInv, Rename
  PROVE  FlowInv'
<1>1. /\ stage = "allocate" /\ stage' = "schedule"
      /\ Len(insts) < MinAllocate \/ \A r \in Ranges : phys[r] # NoReg
      /\ insts' = [i \in DOMAIN insts |->
                     [insts[i] EXCEPT !.operands = [k \in DOMAIN @ |-> Renamed(@[k])]]]
      /\ UNCHANGED <<base, phys, held>>
  BY DEF Rename, p1vars
<1>2. insts = base /\ PhysInv /\ base \in Seq(Placed) /\ BaseInv
  BY <1>1 DEF FlowInv, P1Inv, P1Types
<1>3. AllRenamed
  <2>. SUFFICES ASSUME MinAllocate <= Len(base), NEW i \in DOMAIN base, NEW r \in RegsOf(base[i]) \ {RZ}
                PROVE  phys[r] # NoReg
    BY DEF AllRenamed
  <2>1. Len(base) \in Nat /\ MinAllocate \in Nat
    BY <1>2, P1Assumption
  <2>2. r \in Ranges
    BY <1>2 DEF Ranges
  <2>. QED
    BY <1>1, <1>2, <2>1, <2>2
<1>4. ASSUME NEW p \in DOMAIN insts' PROVE FromBase(insts[p])'
  <2>0. p \in DOMAIN base
    BY <1>1, <1>2
  <2>1. p \in DOMAIN base /\ base[p].at = p /\ base[p] \in Placed
    BY <1>2, <2>0 DEF BaseInv
  <2>2. insts'[p] = [base[p] EXCEPT !.operands = [k \in DOMAIN @ |-> Renamed(@[k])]]
    BY <1>1, <1>2, <2>1
  <2>3. /\ insts'[p].at = p
        /\ insts'[p].operands = [k \in DOMAIN base[p].operands |-> Renamed(base[p].operands[k])]
    BY <2>1, <2>2 DEF Placed
  <2>4. p # 0
    BY <1>2, <2>1
  <2>5. FromBase(insts'[p])
    BY <2>1, <2>3, <2>4 DEF FromBase
  <2>6. \A op : Renamed(op)' = Renamed(op)
    BY <1>1 DEF Renamed
  <2>. QED
    BY <1>1, <2>5, <2>6 DEF FromBase
<1>. QED
  BY <1>1, <1>2, <1>3, <1>4, PhysKept DEF FlowInv, Early

\* A live range gets a register that no range it overlaps holds.
LEMMA AllocateFlow ==
  ASSUME P1Inv, FlowInv, Allocate
  PROVE  FlowInv'
<1>1. /\ stage = "allocate" /\ stage' = "allocate" /\ Len(insts) >= MinAllocate
      /\ UNCHANGED <<insts, base>>
  BY DEF Allocate, vars, p0vars, propVars
<1>2. PICK r \in Ranges :
        /\ phys[r] = NoReg
        /\ \A q \in Ranges : phys[q] = NoReg => FirstUse(r) <= FirstUse(q)
        /\ LET free == (0 .. MaxRegs - 1) \ {phys[q] : q \in {q \in held : LastUse(q) >= FirstUse(r)}}
           IN  IF free = {} THEN phys' = [phys EXCEPT ![r] = r % MaxRegs] /\ UNCHANGED held
               ELSE phys' = [phys EXCEPT ![r] = Min(free)] /\ held' = held \union {r}
  BY DEF Allocate
<1>3. /\ insts = base /\ PhysInv /\ ScannedInOrder /\ base \in Seq(Placed)
      /\ phys \in [Reg -> 0 .. MaxRegs - 1 \union {NoReg}] /\ held \subseteq Reg
  BY <1>1 DEF FlowInv, P1Inv, P1Types
<1>4. /\ Len(base) \in Nat /\ DOMAIN base = 1 .. Len(base) /\ MaxRegs \in Nat \ {0} /\ MinAllocate \in Nat
      /\ NoReg \notin 0 .. MaxRegs - 1 /\ RZ \in Reg
  BY <1>3, P0Assumption, P1Assumption
<1>5. r \in Reg /\ r # RZ /\ r \in Nat
  BY <1>3, RangesType, P1Assumption DEF Ranges
<1>6. \A q : Mentions(q) = Mentioning(q) /\ Mentioning(q) \in SUBSET (1 .. Len(base))
  BY <1>3, <1>4 DEF Mentions, Mentioning
<1>7. ASSUME NEW q, Mentioning(q) # {}
      PROVE  /\ FirstUse(q) \in Mentioning(q) /\ LastUse(q) \in Mentioning(q)
             /\ \A i \in Mentioning(q) : FirstUse(q) <= i /\ i <= LastUse(q)
  <2>1. PICK T : T = Mentioning(q)
    OBVIOUS
  <2>2. T \in SUBSET (1 .. Len(base)) /\ T \in SUBSET Nat /\ T # {}
    BY <1>4, <1>6, <1>7, <2>1
  <2>3. Max(T) \in T /\ \A i \in T : i <= Max(T)
    BY <1>4, <2>2, MaxIn
  <2>4. Min(T) \in T /\ \A i \in T : Min(T) <= i
    <3>1. \E x \in T : \A y \in T : x <= y
      BY <2>2, Least
    <3>. QED
      BY <3>1, Zenon DEF Min
  <2>5. FirstUse(q) = Min(T) /\ LastUse(q) = Max(T)
    BY <1>6, <2>1 DEF FirstUse, LastUse
  <2>. QED
    BY <2>1, <2>3, <2>4, <2>5
<1>8. Mentioning(r) # {} /\ \A q \in Reg \ {RZ} : Mentioning(q) # {} => q \in Ranges
  <2>1. \A q : q \in Ranges <=> q # RZ /\ \E i \in DOMAIN base : q \in RegsOf(base[i])
    BY <1>3 DEF Ranges
  <2>. QED
    BY <2>1 DEF Mentioning
<1>9. PICK free \in SUBSET (0 .. MaxRegs - 1) :
        /\ free = (0 .. MaxRegs - 1) \ {phys[q] : q \in {q \in held : LastUse(q) >= FirstUse(r)}}
        /\ IF free = {} THEN phys' = [phys EXCEPT ![r] = r % MaxRegs] /\ UNCHANGED held
           ELSE phys' = [phys EXCEPT ![r] = Min(free)] /\ held' = held \union {r}
  BY <1>2
<1>10. free # {} => Min(free) \in free
  BY <1>4, MinIn
<1>11. PICK x \in 0 .. MaxRegs - 1 :
         /\ phys' = [phys EXCEPT ![r] = x]
         /\ held' = held \/ (held' = held \union {r} /\ x \in free)
  <2>1. r % MaxRegs \in 0 .. MaxRegs - 1
    BY <1>4, <1>5
  <2>. QED
    BY <1>9, <1>10, <2>1
<1>12. phys'[r] = x /\ (\A q \in Reg : q # r => phys'[q] = phys[q]) /\ x # NoReg
  BY <1>3, <1>4, <1>5, <1>11
<1>13. \A q : Mentioning(q)' = Mentioning(q)
  BY <1>1 DEF Mentioning, RegsOf, RegAt
<1>14. ScannedInOrder'
  <2>. SUFFICES ASSUME NEW q \in Reg \ {RZ}, NEW p \in Reg \ {RZ}, phys'[q] # NoReg, phys'[p] = NoReg,
                       NEW j \in Mentioning(p)
                PROVE  \E i \in Mentioning(q) : i <= j
    BY <1>13 DEF ScannedInOrder
  <2>1. p # r /\ phys[p] = NoReg
    BY <1>12
  <2>2. CASE q = r
    <3>1. p \in Ranges
      BY <1>8
    <3>2. FirstUse(r) <= FirstUse(p) /\ FirstUse(p) <= j /\ FirstUse(r) \in Mentioning(r) /\ FirstUse(p) \in Mentioning(p)
      BY <1>2, <1>7, <1>8, <2>1, <3>1
    <3>3. FirstUse(r) \in Nat /\ FirstUse(p) \in Nat /\ j \in Nat
      BY <1>4, <1>6, <3>2
    <3>. QED
      BY <2>2, <3>2, <3>3
  <2>3. CASE q # r
    BY <1>3, <1>12, <2>1, <2>3 DEF ScannedInOrder
  <2>. QED
    BY <2>2, <2>3
<1>15. ASSUME NEW q \in held, q # r, phys[q] = x, x \in free
       PROVE  \A i \in Mentioning(q), j \in Mentioning(r) : i < j
  <2>1. ~(LastUse(q) >= FirstUse(r))
    BY <1>9, <1>15
  <2>. SUFFICES ASSUME NEW i \in Mentioning(q), NEW j \in Mentioning(r) PROVE i < j
    OBVIOUS
  <2>2. i <= LastUse(q) /\ FirstUse(r) <= j /\ LastUse(q) \in Mentioning(q) /\ FirstUse(r) \in Mentioning(r)
    BY <1>7
  <2>3. i \in Nat /\ j \in Nat /\ LastUse(q) \in Nat /\ FirstUse(r) \in Nat
    BY <1>4, <1>6, <2>2
  <2>. QED
    BY <2>1, <2>2, <2>3
<1>16. RangesApart'
  <2>. SUFFICES ASSUME NEW q \in held', NEW p \in held', q # p, phys'[q] = phys'[p]
                PROVE  \/ \A i \in Mentioning(q), j \in Mentioning(p) : i < j
                       \/ \A i \in Mentioning(q), j \in Mentioning(p) : j < i
    BY <1>13 DEF RangesApart
  <2>0. \A h \in held : h # r /\ h \in Reg
    BY <1>2, <1>3 DEF PhysInv
  <2>1. CASE q # r /\ p # r
    <3>1. q \in held /\ p \in held /\ phys[q] = phys[p]
      BY <1>3, <1>11, <1>12, <2>0, <2>1
    <3>. QED
      BY <1>3, <3>1 DEF PhysInv, RangesApart
  <2>2. CASE q = r
    <3>1. p \in held /\ x \in free /\ phys[p] = x
      BY <1>11, <1>12, <2>0, <2>2
    <3>. QED
      BY <1>15, <2>0, <2>2, <3>1
  <2>3. CASE p = r
    <3>1. q \in held /\ x \in free /\ phys[q] = x
      BY <1>11, <1>12, <2>0, <2>3
    <3>. QED
      BY <1>15, <2>0, <2>3, <3>1
  <2>. QED
    BY <2>1, <2>2, <2>3
<1>17. PhysInv'
  <2>1. phys'[RZ] = NoReg
    BY <1>3, <1>4, <1>5, <1>12 DEF PhysInv
  <2>2. \A q \in held' : phys'[q] # NoReg
    BY <1>3, <1>11, <1>12 DEF PhysInv
  <2>3. ~(Len(base') < MinAllocate)
    BY <1>1, <1>3, <1>4
  <2>. QED
    BY <1>16, <2>1, <2>2, <2>3 DEF PhysInv
<1>. QED
  BY <1>1, <1>3, <1>14, <1>17 DEF FlowInv, Early

\* ilp_schedule permutes the entries.
LEMMA IssuedFlow ==
  ASSUME P1Inv, FlowInv, Issued
  PROVE  FlowInv'
<1>1. /\ stage = "schedule" /\ stage' = "separate" /\ UNCHANGED <<base, phys, held>>
  BY DEF Issued, p1vars
<1>2. /\ PhysInv /\ AllRenamed /\ insts \in Seq(Placed) /\ IssueInv
      /\ \A p \in DOMAIN insts : FromBase(insts[p])
  BY <1>1 DEF FlowInv, P1Inv, P1Types, Early
<1>3. PICK T : T = {x \in Placed : FromBase(x)}
  OBVIOUS
<1>4. insts \in Seq(T) /\ Len(insts) \in Nat /\ DOMAIN insts = 1 .. Len(insts)
  BY <1>2, <1>3, Entries
<1>5. insts' \in Seq(T)
  <2>1. CASE insts' = insts
    BY <1>4, <2>1
  <2>2. CASE Len(issued) = Len(insts) /\ insts' = [k \in DOMAIN insts |-> insts[issued[k]]]
    <3>1. issued \in Seq(DOMAIN insts)
      BY <1>2 DEF IssueInv
    <3>2. \A k \in 1 .. Len(insts) : issued[k] \in DOMAIN insts
      BY <1>4, <2>2, <3>1
    <3>3. \A k \in 1 .. Len(insts) : insts[issued[k]] \in T
      BY <1>4, <3>2
    <3>. QED
      BY <1>4, <2>2, <3>3
  <2>. QED
    BY <2>1, <2>2 DEF Issued
<1>6. (\A p \in DOMAIN insts : FromBase(insts[p]))'
  BY <1>1, <1>3, <1>5, EntriesKept
<1>. QED
  BY <1>1, <1>2, <1>6, PhysKept DEF FlowInv, Early

\* avoid_bank_conflicts moves one of them.
LEMMA AvoidFlow ==
  ASSUME P1Inv, FlowInv, AvoidBankConflicts
  PROVE  FlowInv'
<1>1. /\ stage = "separate" /\ stage' = "separate" /\ visit + 1 <= Len(insts) /\ UNCHANGED <<base, phys, held>>
  BY DEF AvoidBankConflicts, p0vars, p1vars
<1>2. /\ PhysInv /\ AllRenamed /\ insts \in Seq(Placed) /\ visit \in Nat /\ visit > 0
      /\ \A p \in DOMAIN insts : FromBase(insts[p])
  BY <1>1 DEF FlowInv, P1Inv, P1Types, Early
<1>3. PICK T : T = {x \in Placed : FromBase(x)}
  OBVIOUS
<1>4. insts \in Seq(T) /\ Len(insts) \in Nat /\ visit \in 1 .. Len(insts)
  BY <1>1, <1>2, <1>3, Entries
<1>5. insts' \in Seq(T)
  <2>1. CASE ConflictAt(insts, visit) /\ Movable(insts, visit) # {}
    <3>1. PICK j : j = Min(Movable(insts, visit))
      OBVIOUS
    <3>2. Movable(insts, visit) \in SUBSET Nat
      BY <1>4 DEF Movable
    <3>3. j \in Movable(insts, visit)
      BY <2>1, <3>1, <3>2, MinIn
    <3>4. j \in visit + 1 .. Len(insts)
      BY <1>4, <3>3 DEF Movable
    <3>5. insts' = MovedBehind(insts, visit, j)
      BY <2>1, <3>1 DEF AvoidBankConflicts
    <3>. QED
      BY <1>4, <3>4, <3>5, MovedShape
  <2>2. CASE ~(ConflictAt(insts, visit) /\ Movable(insts, visit) # {})
    BY <1>4, <2>2 DEF AvoidBankConflicts
  <2>. QED
    BY <2>1, <2>2
<1>6. (\A p \in DOMAIN insts : FromBase(insts[p]))'
  BY <1>1, <1>3, <1>5, EntriesKept
<1>. QED
  BY <1>1, <1>2, <1>6, PhysKept DEF FlowInv, Early

\* insert_depbars puts bars between them.
LEMMA InsertFlow ==
  ASSUME P1Inv, FlowInv, InsertDepbars
  PROVE  FlowInv'
<1>1. /\ stage = "guard" /\ stage' = "guard" /\ visit > 0 /\ UNCHANGED <<base, phys, held>>
  BY DEF InsertDepbars, p0vars, p1vars
<1>2. /\ PhysInv /\ AllRenamed /\ insts \in Seq(Placed) /\ visit \in Nat /\ visit <= Len(insts)
      /\ \A p \in DOMAIN insts : FromBase(insts[p])
  BY <1>1 DEF FlowInv, P1Inv, P1Types, Early
<1>3. PICK T : T = {x \in Placed : FromBase(x)}
  OBVIOUS
<1>4. insts \in Seq(T) /\ Len(insts) \in Nat /\ visit \in 1 .. Len(insts) /\ insts[visit] \in Placed
  BY <1>1, <1>2, <1>3, Entries
<1>5. PICK c \in Nat : c = Cardinality(Bars(insts, visit))
  <2>2. Len(insts[visit].operands) \in Nat
    BY <1>4 DEF Placed
  <2>3. IsFiniteSet(2 .. Len(insts[visit].operands))
    BY <2>2, FS_Interval
  <2>4. Bars(insts, visit) \in SUBSET (2 .. Len(insts[visit].operands))
    BY DEF Bars
  <2>5. IsFiniteSet(Bars(insts, visit))
    BY <2>3, <2>4, FS_Subset
  <2>. QED
    BY <2>5, FS_CardinalityType
<1>6. insts' \in Seq(T)
  <2>1. PICK x, y, z : /\ x = SubSeq(insts, 1, visit - 1) /\ y = [k \in 1 .. c |-> Bar]
                       /\ z = SubSeq(insts, visit, Len(insts))
    OBVIOUS
  <2>2. insts' = x \o y \o z
    BY <1>5, <2>1 DEF InsertDepbars
  <2>3. x \in Seq(T)
    <3>1. 1 \in 1 .. Len(insts) + 1 /\ visit - 1 \in 1 - 1 .. Len(insts)
      BY <1>4
    <3>. QED
      BY <1>4, <2>1, <3>1, Part
  <2>4. z \in Seq(T)
    <3>1. visit \in 1 .. Len(insts) + 1 /\ Len(insts) \in visit - 1 .. Len(insts)
      BY <1>4
    <3>. QED
      BY <1>4, <2>1, <3>1, Part
  <2>5. Bar \in T
    <3>1. <<>> \in Seq(Operand)
      OBVIOUS
    <3>2. \A e \in Seq(Operand) : [opcode |-> "DEPBAR", operands |-> e, src |-> 0, at |-> 0] \in Placed
      BY DEF Placed
    <3>3. Bar \in Placed
      BY <3>1, <3>2, Zenon DEF Bar
    <3>4. FromBase(Bar)
      BY DEF FromBase, Bar
    <3>. QED
      BY <1>3, <3>3, <3>4
  <2>6. y \in Seq(T)
    BY <2>1, <2>5
  <2>7. x \o y \in Seq(T)
    BY <2>3, <2>6
  <2>. QED
    BY <2>2, <2>4, <2>7
<1>7. (\A p \in DOMAIN insts : FromBase(insts[p]))'
  BY <1>1, <1>3, <1>6, EntriesKept
<1>. QED
  BY <1>1, <1>2, <1>7, PhysKept DEF FlowInv, Early

\* FlowInv is inductive relative to P1Inv.
LEMMA FlowKept == P1Inv /\ FlowInv /\ [P1Next]_p1allvars => FlowInv'
<1>. SUFFICES ASSUME P1Inv, FlowInv, [P1Next]_p1allvars PROVE FlowInv'
  OBVIOUS
<1>1. ASSUME stage' = stage \/ (stage \in Early \union {"unroll"} /\ stage' \in Early \union {"unroll"}),
             insts' = insts \/ stage \in Early \union {"unroll"}, UNCHANGED <<base, phys, held>>
      PROVE  FlowInv'
  <2>1. CASE stage \in Early \union {"unroll"}
    <3>1. stage' \notin {"allocate", "schedule", "separate", "guard"} /\ held = {} /\ \A r \in Reg : phys[r] = NoReg
      BY <1>1, <2>1 DEF FlowInv, Early
    <3>. QED
      BY <1>1, <3>1 DEF FlowInv
  <2>2. CASE stage \notin Early \union {"unroll"}
    <3>1. stage' = stage /\ insts' = insts /\ base' = base /\ phys' = phys
      BY <1>1, <2>2
    <3>2. ScannedInOrder => ScannedInOrder'
      BY <3>1 DEF ScannedInOrder, Mentioning, RegsOf, RegAt
    <3>3. (\A p \in DOMAIN insts : FromBase(insts[p])) => (\A p \in DOMAIN insts : FromBase(insts[p]))'
      BY <1>1, <3>1, PhysKept
    <3>. QED
      BY <1>1, <2>2, <3>1, <3>2, <3>3, PhysKept DEF FlowInv
  <2>. QED
    BY <2>1, <2>2
<1>2. CASE UNCHANGED p1allvars
  BY <1>1, <1>2 DEF p1allvars, vars, p0vars, propVars, p1vars
<1>3. CASE FrontPasses
  <2>1. stage \in Early /\ stage' \in Early
    <3>1. CASE P0Passes
      BY <3>1 DEF P0Passes, P0Next, Order, MarkReuse, ReuseDone, EliminateDead, Early
    <3>2. CASE Begin
      BY <3>2 DEF Begin, p0vars, Early
    <3>3. CASE VisitInst
      BY <3>3 DEF VisitInst, p0vars, Early
    <3>. QED
      BY <1>3, <3>1, <3>2, <3>3 DEF FrontPasses, Next
  <2>. QED
    BY <1>1, <1>3, <2>1 DEF FrontPasses, p1vars
<1>4. CASE BeginUnroll
  BY <1>1, <1>4 DEF BeginUnroll, Early, p1vars
<1>5. CASE LoopUnroll
  BY <1>1, <1>5 DEF LoopUnroll, Early, p0vars, p1vars
<1>6. CASE BeginAllocate
  <2>1. /\ stage = "unroll" /\ stage' = "allocate" /\ base' = insts' /\ UNCHANGED <<phys, held>>
    BY <1>6 DEF BeginAllocate
  <2>2. held = {} /\ \A r \in Reg : phys[r] = NoReg
    BY <2>1 DEF FlowInv
  <2>3. PhysInv' /\ ScannedInOrder'
    BY <2>1, <2>2, P1Assumption DEF PhysInv, RangesApart, ScannedInOrder
  <2>. QED
    BY <2>1, <2>3 DEF FlowInv, Early
<1>7. CASE Allocate
  BY <1>7, AllocateFlow
<1>8. CASE Rename
  BY <1>8, RenameFlow
<1>9. CASE Issue
  BY <1>1, <1>9 DEF Issue, vars, p0vars, propVars
<1>10. CASE Issued
  BY <1>10, IssuedFlow
<1>11. CASE AvoidBankConflicts
  BY <1>11, AvoidFlow
<1>12. CASE Separated
  <2>1. /\ stage = "separate" /\ stage' = "guard" /\ UNCHANGED <<insts, base, phys, held>>
    BY <1>12 DEF Separated, p1vars
  <2>2. (\A p \in DOMAIN insts : FromBase(insts[p])) => (\A p \in DOMAIN insts : FromBase(insts[p]))'
    BY <2>1, PhysKept
  <2>. QED
    BY <2>1, <2>2, PhysKept DEF FlowInv, Early
<1>13. CASE InsertDepbars
  BY <1>13, InsertFlow
<1>. QED
  BY <1>2, <1>3, <1>4, <1>5, <1>6, <1>7, <1>8, <1>9, <1>10, <1>11, <1>12, <1>13 DEF P1Next

\* FlowInv holds at the start.
LEMMA FlowStarts == P1Init => FlowInv
  BY DEF P1Init, Init, P0Init, FlowInv, Early

\* The name a register of base has in what came out.
NameOf(r) == IF phys[r] # NoReg THEN phys[r] ELSE r

\* It is a register.
LEMMA NamesAreRegisters ==
  ASSUME phys \in [Reg -> 0 .. MaxRegs - 1 \union {NoReg}], NEW r \in Reg
  PROVE  NameOf(r) \in Reg /\ NameOf(r) # NoReg
<1>1. 0 .. MaxRegs - 1 \subseteq Reg /\ NoReg \notin Reg
  BY P0Assumption, P1Assumption
<1>2. phys[r] \in 0 .. MaxRegs - 1 \union {NoReg}
  OBVIOUS
<1>. QED
  BY <1>1, <1>2 DEF NameOf

\* A register operand has that name, and no other operand changed.
LEMMA OperandRenamed ==
  ASSUME base \in Seq(Placed), NEW inst, FromBase(inst), inst.at # 0, NEW k \in DOMAIN base[inst.at].operands
  PROVE  /\ inst.at \in DOMAIN base /\ k \in DOMAIN inst.operands /\ base[inst.at].operands[k] \in Operand
         /\ base[inst.at].operands[k].type = "REG" =>
              inst.operands[k].type = "REG" /\ inst.operands[k].reg = NameOf(base[inst.at].operands[k].reg)
         /\ base[inst.at].operands[k].type # "REG" => inst.operands[k] = base[inst.at].operands[k]
<1>1. PICK old : old = base[inst.at].operands
  OBVIOUS
<1>2. inst.at \in DOMAIN base /\ inst.operands = [n \in DOMAIN old |-> Renamed(old[n])]
  BY <1>1 DEF FromBase
<1>3. base[inst.at] \in Placed
  BY <1>2
<1>4. old \in Seq(Operand)
  BY <1>1, <1>3 DEF Placed
<1>5. k \in DOMAIN old
  BY <1>1
<1>6. inst.operands[k] = Renamed(old[k]) /\ k \in DOMAIN inst.operands /\ old[k] \in Operand
  BY <1>2, <1>4, <1>5
<1>7. old[k].type = "REG" => Renamed(old[k]).type = "REG" /\ Renamed(old[k]).reg = NameOf(old[k].reg)
  BY DEF Renamed, NameOf
<1>8. old[k].type # "REG" => Renamed(old[k]) = old[k]
  BY DEF Renamed
<1>. QED
  BY <1>1, <1>2, <1>6, <1>7, <1>8

\* So the destination and the sources of an instruction have that name.
LEMMA RegAtRenamed ==
  ASSUME base \in Seq(Placed), phys \in [Reg -> 0 .. MaxRegs - 1 \union {NoReg}],
         NEW inst, FromBase(inst), inst.at # 0, NEW k
  PROVE  IF RegAt(base[inst.at], k) = NoReg THEN RegAt(inst, k) = NoReg
         ELSE RegAt(base[inst.at], k) \in Reg /\ RegAt(inst, k) = NameOf(RegAt(base[inst.at], k))
<1>1. CASE k \in DOMAIN base[inst.at].operands
  <2>1. CASE base[inst.at].operands[k].type = "REG"
    <3>1. PICK r : r = base[inst.at].operands[k].reg
      OBVIOUS
    <3>2. r \in Reg /\ RegAt(base[inst.at], k) = r
      BY <1>1, <2>1, <3>1, OperandRenamed DEF Operand, RegAt
    <3>3. RegAt(inst, k) = NameOf(r)
      BY <1>1, <2>1, <3>1, OperandRenamed DEF RegAt
    <3>. QED
      BY <3>2, <3>3, P0Assumption
  <2>2. CASE base[inst.at].operands[k].type # "REG"
    <3>1. RegAt(base[inst.at], k) = NoReg
      BY <2>2 DEF RegAt
    <3>2. inst.operands[k].type # "REG"
      BY <1>1, <2>2, OperandRenamed
    <3>. QED
      BY <3>1, <3>2 DEF RegAt
  <2>. QED
    BY <2>1, <2>2
<1>2. CASE k \notin DOMAIN base[inst.at].operands
  <2>1. DOMAIN inst.operands = DOMAIN base[inst.at].operands
    BY DEF FromBase
  <2>. QED
    BY <1>2, <2>1 DEF RegAt
<1>. QED
  BY <1>1, <1>2

\* What an instruction reads is what it read in base, by its new name.
LEMMA SourceRenamed ==
  ASSUME base \in Seq(Placed), phys \in [Reg -> 0 .. MaxRegs - 1 \union {NoReg}], PhysInv,
         NEW inst, FromBase(inst), inst.at # 0, NEW k \in DOMAIN base[inst.at].operands,
         SourceOf(base[inst.at], k) # NoReg
  PROVE  LET r == SourceOf(base[inst.at], k)
         IN  /\ r \in Reg /\ SourceOf(inst, k) = NameOf(r)
             /\ r \in RegsOf(base[inst.at]) \/ Len(base) < MinAllocate
<1>1. PICK old : old = base[inst.at]
  OBVIOUS
<1>2. CASE k > 1 /\ RegAt(old, k) # NoReg
  <2>1. PICK r : r = RegAt(old, k)
    OBVIOUS
  <2>2. SourceOf(old, k) = r
    BY <1>2, <2>1 DEF SourceOf
  <2>3. r \in Reg /\ RegAt(inst, k) = NameOf(r)
    BY <1>1, <1>2, <2>1, RegAtRenamed
  <2>4. NameOf(r) # NoReg
    BY <2>3, NamesAreRegisters
  <2>5. SourceOf(inst, k) = NameOf(r)
    BY <1>2, <2>3, <2>4 DEF SourceOf
  <2>6. r \in RegsOf(old)
    BY <1>1, <1>2, <2>1 DEF RegsOf
  <2>. QED
    BY <1>1, <2>2, <2>3, <2>5, <2>6
<1>3. CASE ~(k > 1 /\ RegAt(old, k) # NoReg)
  <2>1. old.operands[k].type = "MEM" /\ Len(base) < MinAllocate /\ SourceOf(old, k) = old.operands[k].reg
    BY <1>1, <1>3 DEF SourceOf
  <2>2. old.operands[k] \in Operand /\ inst.operands[k] = old.operands[k]
    BY <1>1, <2>1, OperandRenamed
  <2>3. PICK r : r = old.operands[k].reg
    OBVIOUS
  <2>4. r \in Reg
    BY <2>1, <2>2, <2>3 DEF Operand
  <2>5. NameOf(r) = r
    BY <2>1, <2>4 DEF NameOf, PhysInv
  <2>6. RegAt(inst, k) = NoReg
    BY <2>1, <2>2 DEF RegAt
  <2>7. SourceOf(inst, k) = r
    BY <2>1, <2>2, <2>3, <2>6 DEF SourceOf
  <2>. QED
    BY <1>1, <2>1, <2>3, <2>4, <2>5, <2>7
<1>. QED
  BY <1>2, <1>3

\* Two registers that are live together have different names.
LEMMA NamesDiffer ==
  ASSUME base \in Seq(Placed), phys \in [Reg -> 0 .. MaxRegs - 1 \union {NoReg}], PhysInv, AllRenamed,
         \A r \in Reg : phys[r] # NoReg => r \in held,
         NEW d \in DOMAIN base, NEW e \in DOMAIN base, NEW u \in DOMAIN base, d < e, e < u,
         NEW r \in Reg, NEW q \in Reg, r \in RegsOf(base[d]), q \in RegsOf(base[e]),
         r \in RegsOf(base[u]) \/ Len(base) < MinAllocate, NameOf(q) = NameOf(r)
  PROVE  q = r
<1>1. /\ Len(base) \in Nat /\ MinAllocate \in Nat /\ d \in Nat /\ e \in Nat /\ u \in Nat
      /\ RZ \notin 0 .. MaxRegs - 1
  <2>1. Len(base) \in Nat /\ DOMAIN base = 1 .. Len(base)
    OBVIOUS
  <2>. QED
    BY <2>1, P1Assumption
<1>2. CASE Len(base) < MinAllocate
  BY <1>2 DEF NameOf, PhysInv
<1>3. CASE ~(Len(base) < MinAllocate)
  <2>1. r \in RegsOf(base[u]) /\ MinAllocate <= Len(base)
    BY <1>1, <1>3
  <2>2. (phys[r] = NoReg => r = RZ) /\ (phys[q] = NoReg => q = RZ)
    BY <2>1 DEF AllRenamed
  <2>3. \A x \in Reg : phys[x] # NoReg => phys[x] \in 0 .. MaxRegs - 1
    OBVIOUS
  <2>4. CASE phys[r] = NoReg \/ phys[q] = NoReg
    BY <1>1, <2>2, <2>3, <2>4 DEF NameOf
  <2>5. CASE phys[r] # NoReg /\ phys[q] # NoReg
    <3>1. r \in held /\ q \in held /\ phys[q] = phys[r]
      BY <2>5 DEF NameOf
    <3>2. d \in Mentioning(r) /\ u \in Mentioning(r) /\ e \in Mentioning(q)
      BY <2>1 DEF Mentioning
    <3>. SUFFICES ASSUME q # r PROVE FALSE
      OBVIOUS
    <3>3. e < d \/ u < e
      BY <3>1, <3>2 DEF PhysInv, RangesApart
    <3>. QED
      BY <1>1, <3>3
  <2>. QED
    BY <2>4, <2>5
<1>. QED
  BY <1>2, <1>3

\* The last writer in front of a place, if there is one.
LEMMA LastWriter ==
  ASSUME NEW S, NEW v \in Seq(S), NEW p \in DOMAIN v, NEW r, Writers(v, p, r) # {}
  PROVE  LET m == Max(Writers(v, p, r))
         IN  /\ m \in DOMAIN v /\ m < p /\ Dst(v[m]) = r /\ Definition(v, p, r) = v[m].at
             /\ \A j \in DOMAIN v : j < p /\ Dst(v[j]) = r => j <= m
<1>1. Len(v) \in Nat /\ DOMAIN v = 1 .. Len(v) /\ p \in Nat /\ p \in 1 .. Len(v)
  OBVIOUS
<1>2. PICK T : T = Writers(v, p, r)
  OBVIOUS
<1>3. \A j : j \in T <=> j \in 1 .. p - 1 /\ Dst(v[j]) = r
  BY <1>2 DEF Writers
<1>4. T \in SUBSET (1 .. p - 1) /\ p - 1 \in Nat
  BY <1>1, <1>3
<1>5. Max(T) \in T /\ \A j \in T : j <= Max(T)
  BY <1>2, <1>4, MaxIn
<1>6. PICK m : m = Max(T)
  OBVIOUS
<1>7. m \in 1 .. p - 1 /\ Dst(v[m]) = r
  BY <1>3, <1>5, <1>6
<1>8. ASSUME NEW j \in DOMAIN v, j < p, Dst(v[j]) = r PROVE j <= m
  <2>1. j \in T
    BY <1>1, <1>3, <1>8
  <2>. QED
    BY <1>5, <1>6, <2>1
<1>9. Definition(v, p, r) = v[m].at
  BY <1>2, <1>6 DEF Definition
<1>10. m \in DOMAIN v /\ m < p
  BY <1>1, <1>7
<1>. QED
  BY <1>2, <1>6, <1>7, <1>8, <1>9, <1>10

\* Each instruction of base has one place in what came out.
LEMMA OnePlace ==
  ASSUME insts \in Seq(Placed), base \in Seq(Placed), BaseInv, Arranged(insts), NEW u \in DOMAIN base
  PROVE  /\ Place(u) \in DOMAIN insts /\ insts[Place(u)].at = u /\ u # 0
         /\ \A p \in DOMAIN insts : insts[p].at = u => p = Place(u)
<1>1. u # 0
  OBVIOUS
<1>2. PICK p \in DOMAIN insts : insts[p].at = u
  BY DEF Arranged
<1>3. \E x \in Real : insts[x].at = u
  BY <1>1, <1>2 DEF Real
<1>4. Place(u) \in Real /\ insts[Place(u)].at = u
  BY <1>3, Zenon DEF Place
<1>5. Place(u) \in DOMAIN insts
  BY <1>4 DEF Real
<1>. QED
  BY <1>1, <1>4, <1>5 DEF Arranged

\* At the end of the passes the two facts about places and about names meet.
LEMMA Explained ==
  ASSUME P1Inv, FlowInv, Ended, \A r \in Reg : phys[r] # NoReg => r \in held,
         NEW u \in DOMAIN base, NEW k \in DOMAIN base[u].operands,
         SourceOf(base[u], k) # NoReg, Definition(base, u, SourceOf(base[u], k)) # 0
  PROVE  LET d == Definition(base, u, SourceOf(base[u], k))
             e == Definition(insts, Place(u), SourceOf(insts[Place(u)], k))
         IN  e = d \/ Place(d) > Place(u) \/ (e # 0 /\ ~(e \in d .. u))
<1>1. /\ insts \in Seq(Placed) /\ base \in Seq(Placed) /\ BaseInv /\ Arranged(insts)
      /\ phys \in [Reg -> 0 .. MaxRegs - 1 \union {NoReg}]
      /\ PhysInv /\ AllRenamed /\ \A p \in DOMAIN insts : FromBase(insts[p])
  BY DEF Ended, P1Inv, P1Types, Early, FlowInv
<1>2. /\ DOMAIN insts = 1 .. Len(insts) /\ Len(insts) \in Nat /\ DOMAIN base = 1 .. Len(base) /\ Len(base) \in Nat
      /\ \A i \in DOMAIN base : base[i].at = i
  BY <1>1 DEF BaseInv
<1>3. PICK r, d, x : r = SourceOf(base[u], k) /\ d = Definition(base, u, r) /\ x = Place(u)
  OBVIOUS
<1>4. /\ x \in DOMAIN insts /\ insts[x].at = u /\ u # 0 /\ FromBase(insts[x])
      /\ \A p \in DOMAIN insts : insts[p].at = u => p = x
  BY <1>1, <1>3, OnePlace
<1>5. /\ r \in Reg /\ SourceOf(insts[x], k) = NameOf(r)
      /\ r \in RegsOf(base[u]) \/ Len(base) < MinAllocate
  BY <1>1, <1>3, <1>4, SourceRenamed
<1>6. Writers(base, u, r) # {}
  BY <1>3 DEF Definition
<1>7. /\ d \in DOMAIN base /\ d < u /\ Dst(base[d]) = r
      /\ \A j \in DOMAIN base : j < u /\ Dst(base[j]) = r => j <= d
  <2>1. PICK m : m = Max(Writers(base, u, r))
    OBVIOUS
  <2>2. /\ m \in DOMAIN base /\ m < u /\ Dst(base[m]) = r /\ Definition(base, u, r) = base[m].at
        /\ \A j \in DOMAIN base : j < u /\ Dst(base[j]) = r => j <= m
    BY <1>1, <1>6, <2>1, LastWriter
  <2>3. d = m
    BY <1>2, <1>3, <2>2
  <2>. QED
    BY <2>2, <2>3
<1>8. PICK y, e : y = Place(d) /\ e = Definition(insts, x, NameOf(r))
  OBVIOUS
<1>9. y \in DOMAIN insts /\ insts[y].at = d /\ d # 0 /\ \A p \in DOMAIN insts : insts[p].at = d => p = y
  BY <1>1, <1>7, <1>8, OnePlace
<1>10. NameOf(r) \in Reg /\ NameOf(r) # NoReg
  BY <1>1, <1>5, NamesAreRegisters
<1>11. ASSUME NEW p \in DOMAIN insts, Dst(insts[p]) = NameOf(r)
       PROVE  /\ insts[p].at \in DOMAIN base /\ insts[p].at # 0 /\ Dst(base[insts[p].at]) \in Reg
              /\ NameOf(Dst(base[insts[p].at])) = NameOf(r)
  <2>1. FromBase(insts[p])
    BY <1>1
  <2>2. insts[p].at # 0
    <3>. SUFFICES ASSUME insts[p].at = 0 PROVE FALSE
      OBVIOUS
    <3>1. insts[p].operands = <<>>
      BY <2>1 DEF FromBase
    <3>2. Dst(insts[p]) = NoReg
      BY <3>1 DEF Dst, RegAt
    <3>. QED
      BY <1>10, <1>11, <3>2
  <2>3. insts[p].at \in DOMAIN base
    BY <2>1, <2>2 DEF FromBase
  <2>4. IF RegAt(base[insts[p].at], 1) = NoReg THEN RegAt(insts[p], 1) = NoReg
        ELSE /\ RegAt(base[insts[p].at], 1) \in Reg
             /\ RegAt(insts[p], 1) = NameOf(RegAt(base[insts[p].at], 1))
    BY <1>1, <2>1, <2>2, RegAtRenamed
  <2>. QED
    BY <1>10, <1>11, <2>2, <2>3, <2>4 DEF Dst
<1>12. Dst(insts[y]) = NameOf(r)
  <2>1. FromBase(insts[y])
    BY <1>1, <1>9
  <2>2. IF RegAt(base[insts[y].at], 1) = NoReg THEN RegAt(insts[y], 1) = NoReg
        ELSE RegAt(insts[y], 1) = NameOf(RegAt(base[insts[y].at], 1))
    BY <1>1, <1>9, <2>1, RegAtRenamed
  <2>3. RegAt(base[d], 1) = r /\ r # NoReg
    BY <1>3, <1>7 DEF Dst
  <2>. QED
    BY <1>9, <2>2, <2>3 DEF Dst
<1>13. ASSUME ~(y > x), e # d
       PROVE  e # 0 /\ ~(e \in d .. u)
  <2>1. y < x
    <3>1. y # x
      BY <1>2, <1>4, <1>7, <1>9
    <3>. QED
      BY <1>2, <1>4, <1>9, <1>13, <3>1
  <2>2. Writers(insts, x, NameOf(r)) # {}
    <3>1. y \in 1 .. x - 1
      BY <1>2, <1>4, <1>9, <2>1
    <3>. QED
      BY <1>12, <3>1 DEF Writers
  <2>3. PICK m \in DOMAIN insts : m < x /\ Dst(insts[m]) = NameOf(r) /\ e = insts[m].at
    BY <1>1, <1>4, <1>8, <2>2, LastWriter
  <2>4. e \in DOMAIN base /\ e # 0 /\ Dst(base[e]) \in Reg /\ NameOf(Dst(base[e])) = NameOf(r)
    BY <1>11, <2>3
  <2>5. e # u
    BY <1>2, <1>4, <2>3
  <2>. SUFFICES ASSUME e \in d .. u PROVE FALSE
    BY <2>4
  <2>6. d < e /\ e < u
    BY <1>2, <1>7, <1>13, <2>4, <2>5
  <2>7. \A i \in DOMAIN base : Dst(base[i]) \in Reg => Dst(base[i]) \in RegsOf(base[i])
    <3>. SUFFICES ASSUME NEW i \in DOMAIN base, Dst(base[i]) \in Reg PROVE Dst(base[i]) \in RegsOf(base[i])
      OBVIOUS
    <3>1. Dst(base[i]) # NoReg
      BY P0Assumption
    <3>2. 1 \in DOMAIN base[i].operands
      BY <3>1 DEF Dst, RegAt
    <3>. QED
      BY <3>1, <3>2 DEF Dst, RegsOf
  <2>8. Dst(base[e]) = r
    <3>1. PICK q : q = Dst(base[e])
      OBVIOUS
    <3>2. q \in Reg /\ q \in RegsOf(base[e]) /\ r \in RegsOf(base[d]) /\ NameOf(q) = NameOf(r)
      BY <1>5, <1>7, <2>4, <2>7, <3>1
    <3>3. q = r
      BY <1>1, <1>5, <1>7, <2>4, <2>6, <3>2, NamesDiffer
    <3>. QED
      BY <3>1, <3>3
  <2>9. e <= d
    BY <1>7, <2>4, <2>6, <2>8
  <2>. QED
    BY <1>2, <1>7, <2>4, <2>6, <2>9
<1>14. e = d \/ y > x \/ (e # 0 /\ ~(e \in d .. u))
  BY <1>13
<1>15. Definition(insts, x, SourceOf(insts[x], k)) = e
  BY <1>5, <1>8
<1>. QED
  BY <1>3, <1>8, <1>14, <1>15

\* For every program and register set: the allocator keeps ranges that overlap
\* apart and every pass keeps the operands it does not rename.
THEOREM FlowInvariance == P1Spec => []FlowInv
<1>1. P1Init => FlowInv
  BY FlowStarts
<1>2. P1Inv /\ FlowInv /\ [P1Next]_p1allvars => FlowInv'
  BY FlowKept
<1>. QED
  BY <1>1, <1>2, P1Invariance, PTL DEF P1Spec

\* For every program and register set, through all passes of optimize_p1: what
\* an instruction reads changes only where two instructions changed places, as
\* long as no range was spilled.
THEOREM FlowExplainedTheorem == P1Spec => []FlowExplained
<1>1. P1Inv /\ FlowInv => FlowExplained
  <2>. SUFFICES ASSUME P1Inv, FlowInv, Ended, \A r \in Reg : phys[r] # NoReg => r \in held,
                       NEW u \in DOMAIN base, NEW k \in DOMAIN base[u].operands
                PROVE  LET d == Definition(base, u, SourceOf(base[u], k))
                           e == Definition(insts, Place(u), SourceOf(insts[Place(u)], k))
                       IN  SourceOf(base[u], k) # NoReg /\ d # 0 =>
                             e = d \/ Place(d) > Place(u) \/ (e # 0 /\ ~(e \in d .. u))
    BY DEF FlowExplained
  <2>. QED
    BY Explained
<1>. QED
  BY <1>1, P1Invariance, FlowInvariance, PTL

=============================================================================
