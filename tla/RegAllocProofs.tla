--------------------------- MODULE RegAllocProofs ---------------------------
(***************************************************************************)
(* For every register set, register count and instruction vector, the      *)
(* allocator keeps the data flow of straight-line code (FlowPreserved) and *)
(* spills exactly under pressure (SpillIffPressure).                       *)
(***************************************************************************)
EXTENDS RegAlloc, FiniteSetTheorems, TLAPS

USE RegAssumption

\* Init establishes the inductive invariant.
LEMMA InitIInv == Init => IInv
  <1> SUFFICES ASSUME Init PROVE IInv
    OBVIOUS
  <1>1. prog \in Seq(SUBSET Reg)
    BY DEF Init
  <1>2. TypeOK
    BY <1>1 DEF Init, TypeOK, Phys
  <1>3. PhaseOK
    BY DEF Init, PhaseOK
  <1>4. RangesCover
    BY DEF Init, RangesCover, Scanned
  <1>5. Assigned = {}
    BY DEF Init, Assigned
  <1>6. OutOK
    BY <1>1 DEF Init, OutOK, RenamedUpTo
  <1>. QED
    BY <1>2, <1>3, <1>4, <1>5, <1>6 DEF IInv, Sorted, StillHeld, Apart

\* Each step preserves it; Assign is the step that could break Apart.
LEMMA StepTypeOK == TypeOK /\ [Next]_vars => TypeOK'
  <1> SUFFICES ASSUME TypeOK, [Next]_vars PROVE TypeOK'
    OBVIOUS
  <1> USE DEF TypeOK
  <1>0. Len(prog) \in Nat
    OBVIOUS
  <1>1. CASE Skip
    BY <1>1 DEF Skip
  <1>2. CASE Start
    BY <1>2 DEF Start
  <1>3. CASE ScanInst
    BY <1>0, <1>3 DEF ScanInst, Allocatable
  <1>4. CASE SortRanges
    BY <1>4 DEF SortRanges
  <1>5. ASSUME NEW r \in todo, Assign(r) PROVE TypeOK'
    <2>1. PICK q \in Phys : phys' = [phys EXCEPT ![r] = q]
      <3>1. SpillReg(r) \in Phys
        BY DEF SpillReg, Phys
      <3>2. FreeRegs(first[r]) \subseteq Phys
        BY DEF FreeRegs
      <3>. QED
        BY <1>5, <3>1, <3>2 DEF Assign
    <2>2. active' \in SUBSET ((0 .. Len(prog)) \X Phys)
      <3>1. Unexpired(first[r]) \subseteq active
        BY DEF Unexpired
      <3>2. \A p \in Phys : <<last[r], p>> \in (0 .. Len(prog)) \X Phys
        OBVIOUS
      <3>. QED
        BY <1>5, <3>1, <3>2 DEF Assign, FreeRegs
    <2>. QED
      BY <1>5, <2>1, <2>2 DEF Assign
  <1>6. CASE AssignDone
    BY <1>0, <1>6 DEF AssignDone
  <1>7. CASE RenameInst
    BY <1>0, <1>7 DEF RenameInst
  <1>8. CASE RenameDone
    BY <1>8 DEF RenameDone
  <1>9. CASE UNCHANGED vars
    BY <1>9 DEF vars
  <1>. QED
    BY <1>1, <1>2, <1>3, <1>4, <1>5, <1>6, <1>7, <1>8, <1>9 DEF Next

\* What the assign loop knows about the register it is about to place: its
\* range starts no earlier than any range already placed.
LEMMA AssignIInv ==
  ASSUME IInv, TypeOK', NEW r \in todo, Assign(r)
  PROVE  IInv'
  <1> USE DEF IInv
  <1>1. /\ phase = "assign" /\ phase' = "assign"
        /\ prog' = prog /\ first' = first /\ last' = last /\ out' = out
        /\ pos' = pos
        /\ todo' = todo \ {r}
        /\ r \in Reg
        /\ first[r] > 0
        /\ \A s \in todo : first[r] <= first[s]
    BY DEF Assign, IsNext, PhaseOK, Ranged, TypeOK
  <1>2. Assigned' = Assigned \union {r} /\ r \notin Assigned /\ Assigned \subseteq Reg
    BY <1>1 DEF Assigned, Ranged
  <1>3. \A p \in Assigned : p \in Reg /\ first[p] <= first[r] /\ phys'[p] = phys[p]
    BY <1>1, <1>2 DEF Sorted, Assign, TypeOK
  <1>4. PhaseOK'
    BY <1>1 DEF PhaseOK, Ranged
  <1>5. RangesCover'
    BY <1>1 DEF RangesCover, Scanned, Allocatable
  <1>6. phys'[r] \in Phys
    BY <1>1 DEF Assign, FreeRegs, SpillReg, Phys, TypeOK
  <1>7. \A p \in Assigned' : phys'[p] \in Phys
    BY <1>2, <1>3, <1>6
  <1>8. Sorted'
    BY <1>1, <1>2, <1>3 DEF Sorted
  <1>9. \A p \in Assigned \ spilled : p \notin spilled' \union {r}
    BY <1>2 DEF Assign
  <1>10. \A p \in Assigned' \ spilled' : p = r \/ p \in Assigned \ spilled
    BY <1>2 DEF Assign
  <1>11. \A p \in Assigned \ spilled :
           \/ <<last[p], phys[p]>> \in Unexpired(first[r])
           \/ last[p] < first[r]
    <2>1. TAKE p \in Assigned \ spilled
    <2>2. CASE <<last[p], phys[p]>> \in active
      BY <2>2, <1>1, <1>2 DEF Unexpired, TypeOK
    <2>3. CASE \E q \in Assigned : last[p] < first[q]
      BY <2>3, <1>1, <1>2, <1>3 DEF TypeOK
    <2>. QED
      BY <2>2, <2>3 DEF StillHeld
  <1>12. ASSUME r \notin spilled'
         PROVE  /\ phys'[r] \in FreeRegs(first[r])
                /\ active' = Unexpired(first[r]) \union {<<last[r], phys'[r]>>}
    BY <1>1, <1>12 DEF Assign, TypeOK
  <1>13. Unexpired(first[r]) \subseteq active'
    BY DEF Assign
  <1>14. StillHeld'
    BY <1>1, <1>2, <1>3, <1>10, <1>11, <1>12, <1>13 DEF StillHeld
  <1>15. Apart'
    <2>1. ASSUME NEW p \in Assigned \ spilled, r \notin spilled', phys'[p] = phys'[r]
          PROVE  last[p] < first[r]
      <3>1. phys[p] \in FreeRegs(first[r])
        BY <2>1, <1>3, <1>12
      <3>2. <<last[p], phys[p]>> \notin Unexpired(first[r])
        BY <3>1 DEF FreeRegs
      <3>. QED
        BY <3>2, <1>11
    <2>. QED
      BY <2>1, <1>1, <1>3, <1>10 DEF Apart
  <1>16. OutOK'
    BY <1>1 DEF OutOK, RenamedUpTo
  <1>. QED
    BY <1>4, <1>5, <1>7, <1>8, <1>14, <1>15, <1>16

LEMMA ScanIInv ==
  ASSUME IInv, TypeOK', ScanInst
  PROVE  IInv'
  <1> USE DEF IInv, ScanInst
  <1>1. Assigned = {} /\ Assigned' = {}
    BY DEF Assigned
  <1>2. PhaseOK'
    BY DEF PhaseOK, Ranged, TypeOK
  <1>3. RangesCover'
    <2>1. Len(prog) >= MinLen /\ Len(prog) \in Nat /\ pos \in Nat
      BY DEF PhaseOK, TypeOK
    <2>2. Scanned = pos - 1 /\ Scanned' = pos
      BY <2>1 DEF Scanned
    <2>3. \A s \in Reg : 0 < first[s] => first[s] <= last[s]
      BY DEF RangesCover
    <2>4. \A i \in 1 .. pos - 1 : \A s \in Allocatable(i) :
            0 < first[s] /\ first[s] <= i /\ i <= last[s]
      BY <2>2 DEF RangesCover
    <2>5. \A i \in 1 .. pos : prog[i] \subseteq Reg
      BY DEF TypeOK
    <2>6. \A s \in Reg : last[s] <= pos /\ last'[s] < pos'
      BY <2>1 DEF RangesCover, TypeOK
    <2>7. \A i \in 1 .. pos : \A s \in Allocatable(i)' :
            0 < first'[s] /\ first'[s] <= i /\ i <= last'[s]
      <3>1. TAKE i \in 1 .. pos
      <3>2. TAKE s \in Allocatable(i)'
      <3>3. s \in Reg /\ s \in Allocatable(i) /\ first[s] \in Nat /\ last[s] \in Nat
        <4>1. s \in Reg /\ s \in Allocatable(i)
          BY <2>5 DEF Allocatable
        <4>. QED
          BY <4>1 DEF TypeOK
      <3>4. CASE i = pos
        BY <2>1, <2>3, <2>6, <3>3, <3>4
      <3>5. CASE i \in 1 .. pos - 1
        BY <2>1, <2>4, <3>3, <3>5
      <3>. QED
        BY <2>1, <3>4, <3>5
    <2>8. \A s \in Reg : 0 < first'[s] => first'[s] <= last'[s]
      BY <2>1, <2>3, <2>6 DEF Allocatable, TypeOK
    <2>9. \A s \in Reg : s = RZ => first'[s] = 0
      BY DEF Allocatable, RangesCover
    <2>. QED
      BY <2>2, <2>6, <2>7, <2>8, <2>9 DEF RangesCover
  <1>4. OutOK'
    BY DEF OutOK, RenamedUpTo
  <1>. QED
    BY <1>1, <1>2, <1>3, <1>4 DEF Sorted, StillHeld, Apart

\* The steps that only move from one loop to the next.
LEMMA PhaseIInv ==
  ASSUME IInv, TypeOK', Start \/ Skip \/ SortRanges \/ AssignDone \/ RenameDone
  PROVE  IInv'
  <1> USE DEF IInv
  <1>0. Len(prog) \in Nat /\ pos \in 1 .. Len(prog) + 1
    BY DEF TypeOK
  <1>1. CASE Start
    <2>1. Assigned' = {}
      BY <1>1 DEF Start, Assigned
    <2>2. PhaseOK'
      BY <1>0, <1>1 DEF Start, PhaseOK, Ranged
    <2>3. RangesCover'
      <3>1. pos = 1
        BY <1>1 DEF Start, PhaseOK
      <3>2. Scanned' = 0
        BY <1>0, <1>1, <3>1 DEF Start, Scanned
      <3>. QED
        BY <1>1, <3>2 DEF Start, RangesCover, Allocatable
    <2>4. OutOK'
      BY <1>1 DEF Start, OutOK, RenamedUpTo
    <2>. QED
      BY <2>1, <2>2, <2>3, <2>4 DEF Sorted, StillHeld, Apart
  <1>2. CASE Skip
    BY <1>0, <1>2 DEF Skip, PhaseOK, RangesCover, Scanned, Allocatable, Assigned, Ranged,
                Sorted, StillHeld, Apart, OutOK, RenamedUpTo
  <1>3. CASE SortRanges
    <2>1. Assigned' = {}
      BY <1>3 DEF SortRanges, Assigned, Ranged
    <2>2. PhaseOK'
      BY <1>0, <1>3 DEF SortRanges, PhaseOK, Ranged
    <2>3. RangesCover'
      BY <1>0, <1>3 DEF SortRanges, RangesCover, Scanned, Allocatable, PhaseOK
    <2>4. OutOK'
      BY <1>3 DEF SortRanges, OutOK, RenamedUpTo
    <2>. QED
      BY <2>1, <2>2, <2>3, <2>4 DEF Sorted, StillHeld, Apart
  <1>4. CASE AssignDone
    <2>1. Assigned' = Assigned
      BY <1>4 DEF AssignDone, Assigned, Ranged
    <2>2. PhaseOK'
      BY <1>0, <1>4 DEF AssignDone, PhaseOK, Ranged
    <2>3. RangesCover'
      BY <1>0, <1>4 DEF AssignDone, RangesCover, Scanned, Allocatable
    <2>4. OutOK'
      BY <1>0, <1>4 DEF AssignDone, OutOK, RenamedUpTo
    <2>. QED
      BY <1>4, <2>1, <2>2, <2>3, <2>4 DEF AssignDone, Sorted, StillHeld, Apart
  <1>5. CASE RenameDone
    <2>1. Assigned' = Assigned
      BY <1>5 DEF RenameDone, Assigned, Ranged
    <2>2. PhaseOK'
      BY <1>0, <1>5 DEF RenameDone, PhaseOK, Ranged
    <2>3. RangesCover'
      BY <1>0, <1>5 DEF RenameDone, RangesCover, Scanned, Allocatable
    <2>4. OutOK'
      <3>1. \A i \in 1 .. Len(prog) : i <= RenamedUpTo <=> i <= RenamedUpTo'
        BY <1>0, <1>5 DEF RenameDone, RenamedUpTo, PhaseOK
      <3>. QED
        BY <1>5, <3>1 DEF RenameDone, OutOK, Renamed
    <2>. QED
      BY <1>5, <2>1, <2>2, <2>3, <2>4 DEF RenameDone, Sorted, StillHeld, Apart
  <1>. QED
    BY <1>1, <1>2, <1>3, <1>4, <1>5

LEMMA RenameIInv ==
  ASSUME IInv, TypeOK', RenameInst
  PROVE  IInv'
  <1> USE DEF IInv, RenameInst
  <1>0. Len(prog) \in Nat /\ pos \in 1 .. Len(prog)
    BY DEF TypeOK
  <1>1. Assigned' = Assigned
    BY DEF Assigned, Ranged
  <1>2. PhaseOK'
    BY DEF PhaseOK, Ranged
  <1>3. RangesCover'
    BY DEF RangesCover, Scanned, Allocatable
  <1>4. OutOK'
    <2>1. \A i \in 1 .. Len(prog) : i <= RenamedUpTo' <=> i <= RenamedUpTo \/ i = pos
      BY <1>0 DEF RenamedUpTo
    <2>. QED
      BY <1>0, <2>1 DEF OutOK, Renamed
  <1>. QED
    BY <1>1, <1>2, <1>3, <1>4 DEF Sorted, StillHeld, Apart

LEMMA StepIInv == IInv /\ [Next]_vars => IInv'
  <1> SUFFICES ASSUME IInv, [Next]_vars PROVE IInv'
    OBVIOUS
  <1>1. TypeOK'
    BY StepTypeOK DEF IInv
  <1>2. CASE UNCHANGED vars
    BY <1>2 DEF vars, IInv, TypeOK, PhaseOK, RangesCover, Sorted, StillHeld, Apart, OutOK,
                Assigned, Ranged, Scanned, Allocatable, RenamedUpTo, Renamed
  <1>3. ASSUME NEW r \in todo, Assign(r) PROVE IInv'
    BY <1>1, <1>3, AssignIInv
  <1>. QED
    BY <1>1, <1>2, <1>3, ScanIInv, PhaseIInv, RenameIInv DEF Next

\* At the end of the run the invariant says what FlowPreserved asks for.
LEMMA IInvFlow == IInv => FlowPreserved
  <1> SUFFICES ASSUME IInv, phase = "done"
               PROVE  /\ \A i, j, k \in 1 .. Len(prog) :
                           i <= k /\ k <= j =>
                             \A r \in (prog[i] \intersect prog[j]) \ spilled,
                                s \in prog[k] \ spilled :
                               /\ out[i][r] = out[j][r]
                               /\ r # s => out[k][s] # out[j][r]
                      /\ \A i \in 1 .. Len(prog) : RZ \in prog[i] => out[i][RZ] = RZ
    BY DEF FlowPreserved
  <1> USE DEF IInv
  <1>0. Len(prog) \in Nat /\ \A i \in 1 .. Len(prog) : prog[i] \subseteq Reg
    BY DEF TypeOK
  <1>1. CASE Len(prog) < MinLen
    <2>1. \A i \in 1 .. Len(prog) : \A r \in prog[i] : out[i][r] = r
      BY <1>0, <1>1 DEF OutOK, RenamedUpTo
    <2>. QED
      BY <2>1
  <1>2. CASE Len(prog) >= MinLen
    <2>1. \A i \in 1 .. Len(prog) : \A r \in prog[i] : out[i][r] = Renamed(r)
      BY <1>0, <1>2 DEF OutOK, RenamedUpTo
    <2>2. \A i \in 1 .. Len(prog) : \A r \in prog[i] \ {RZ} :
            /\ 0 < first[r] /\ first[r] <= i /\ i <= last[r]
            /\ r \in Assigned /\ Renamed(r) = phys[r] /\ phys[r] \in Phys
      <3>1. Scanned = Len(prog)
        BY <1>0, <1>2 DEF Scanned
      <3>2. todo = {}
        BY DEF PhaseOK
      <3>3. \A i \in 1 .. Len(prog) : \A r \in prog[i] \ {RZ} :
              r \in Reg /\ 0 < first[r] /\ first[r] <= i /\ i <= last[r]
        BY <1>0, <3>1 DEF RangesCover, Allocatable
      <3>4. \A r \in Reg : 0 < first[r] => r \in Assigned
        BY <3>2 DEF Assigned, Ranged
      <3>5. \A r \in Assigned : phys[r] \in Phys
        OBVIOUS
      <3>6. \A r \in Reg \ {RZ} : 0 < first[r] /\ phys[r] \in Phys => Renamed(r) = phys[r]
        BY DEF Renamed, Phys
      <3>. QED
        BY <3>3, <3>4, <3>5, <3>6
    <2>3. Renamed(RZ) = RZ /\ RZ \notin Phys
      BY DEF Renamed, Phys
    <2>4. ASSUME NEW i \in 1 .. Len(prog), NEW j \in 1 .. Len(prog), NEW k \in 1 .. Len(prog),
                 i <= k, k <= j,
                 NEW r \in (prog[i] \intersect prog[j]) \ spilled,
                 NEW s \in prog[k] \ spilled, r # s
          PROVE  Renamed(s) # Renamed(r)
      <3>1. CASE r = RZ \/ s = RZ
        BY <2>2, <2>3, <2>4, <3>1
      <3>2. CASE r # RZ /\ s # RZ
        <4>1. r \in Assigned \ spilled /\ s \in Assigned \ spilled
          BY <2>2, <3>2
        <4>2. first[r] <= i /\ j <= last[r] /\ first[s] <= k /\ k <= last[s]
          BY <2>2, <3>2
        <4>3. first[r] \in Nat /\ first[s] \in Nat /\ last[r] \in Nat /\ last[s] \in Nat
          <5>1. r \in Reg /\ s \in Reg
            BY <1>0
          <5>. QED
            BY <1>0, <5>1 DEF TypeOK
        <4>4. ~(last[r] < first[s] \/ last[s] < first[r])
          BY <1>0, <2>4, <4>2, <4>3
        <4>5. phys[r] # phys[s]
          BY <2>4, <4>1, <4>4 DEF Apart
        <4>. QED
          BY <2>2, <3>2, <4>5
      <3>. QED
        BY <3>1, <3>2
    <2>. QED
      BY <2>1, <2>3, <2>4
  <1>. QED
    BY <1>0, <1>1, <1>2

\* The invariant is inductive, so it holds in every reachable state.
THEOREM Invariance == Spec => []IInv
  BY InitIInv, StepIInv, PTL DEF Spec

\* The state always has the declared types.
THEOREM TypeCorrect == Spec => []TypeOK
  <1>1. IInv => TypeOK
    BY DEF IInv
  <1>. QED
    BY <1>1, Invariance, PTL

\* Renaming preserves the data flow of straight-line code for registers that
\* were not spilled, whatever the order std::sort gives to equal first uses.
THEOREM FlowTheorem == Spec => []FlowPreserved
  BY IInvFlow, Invariance, PTL

-----------------------------------------------------------------------------
\* The registers live at a position are finitely many.
LEMMA LiveFinite == ASSUME NEW i PROVE IsFiniteSet(LiveAt(i)) /\ LiveAt(i) \subseteq Reg
  <1>1. LiveAt(i) \in SUBSET Reg
    BY DEF LiveAt
  <1>. QED
    BY <1>1, FS_Subset

\* A register whose range spans a position is live there.
LEMMA RangedLive ==
  ASSUME TypeOK, RangesCover, RangesTight,
         NEW r \in Ranged, NEW i \in 1 .. Len(prog), first[r] <= i, i <= last[r]
  PROVE  r \in LiveAt(i)
  <1>1. r \in Reg /\ r # RZ /\ first[r] \in 1 .. i /\ last[r] \in i .. Len(prog)
    BY DEF Ranged, RangesCover, TypeOK
  <1>2. r \in prog[first[r]] /\ r \in prog[last[r]]
    BY DEF RangesTight
  <1>. QED
    BY <1>1, <1>2 DEF LiveAt

\* When the assign loop finds no free register, one range per physical
\* register is still open, and the range to be placed makes one more.
LEMMA SpillMeansPressure ==
  ASSUME IInv, Pressure, NEW r \in todo, Assign(r), FreeRegs(first[r]) = {}
  PROVE  Cardinality(LiveAt(first[r])) > MaxRegs /\ first[r] \in 1 .. Len(prog)
  <1> DEFINE i == first[r]
  <1> DEFINE Held(q) == {p \in Assigned \ spilled : phys[p] = q /\ first[p] <= i /\ i <= last[p]}
  <1>1. /\ phase = "assign" /\ r \in Ranged /\ r \in Reg /\ r \notin Assigned
        /\ i \in 1 .. Len(prog) /\ Assigned \subseteq Ranged
    BY DEF IInv, PhaseOK, Assign, Assigned, Ranged, TypeOK
  <1>2. ASSUME NEW q \in Phys PROVE Held(q) # {}
    <2>1. PICK a \in Unexpired(i) : a[2] = q
      BY DEF FreeRegs
    <2>2. a \in active /\ a[1] >= i
      BY <2>1 DEF Unexpired
    <2>3. PICK p \in Assigned \ spilled : a = <<last[p], phys[p]>>
      BY <2>2 DEF Pressure, ActiveHeld
    <2>4. phys[p] = q /\ last[p] >= i
      BY <2>1, <2>2, <2>3
    <2>5. first[p] <= i
      BY <2>3 DEF IInv, Sorted
    <2>6. last[p] \in Int /\ i \in Int
      BY <1>1, <2>3 DEF IInv, TypeOK, Ranged
    <2>7. p \in Held(q)
      BY <2>3, <2>4, <2>5, <2>6
    <2>. QED
      BY <2>7
  <1>3. ASSUME NEW q \in Phys, NEW p \in Held(q)
        PROVE  p \in LiveAt(i) \ {r}
    <2>1. p \in Ranged /\ p # r /\ first[p] <= i /\ i <= last[p]
      BY <1>1
    <2>. QED
      BY <1>1, <2>1, RangedLive DEF IInv, Pressure
  <1> DEFINE f == [q \in Phys |-> CHOOSE p \in Held(q) : TRUE]
  <1>4. \A q \in Phys : f[q] \in Held(q)
    BY <1>2
  <1>5. f \in Injection(Phys, LiveAt(i) \ {r})
    <2>1. f \in [Phys -> LiveAt(i) \ {r}]
      BY <1>3, <1>4
    <2>2. \A q \in Phys : phys[f[q]] = q
      BY <1>4
    <2>. QED
      BY <2>1, <2>2 DEF Injection, IsInjective
  <1>6. r \in LiveAt(i)
    BY <1>1, RangedLive DEF IInv, Pressure, RangesCover, Ranged, TypeOK
  <1>7. /\ IsFiniteSet(LiveAt(i) \ {r}) /\ Cardinality(LiveAt(i)) \in Nat
        /\ Cardinality(LiveAt(i) \ {r}) = Cardinality(LiveAt(i)) - 1
    BY <1>6, LiveFinite, FS_RemoveElement, FS_CardinalityType
  <1>8. Cardinality(Phys) <= Cardinality(LiveAt(i) \ {r})
    BY <1>5, <1>7, FS_Injection
  <1>9. Cardinality(Phys) = MaxRegs
    <2>1. 0 \in Int /\ MaxRegs - 1 \in Int /\ ~(0 > MaxRegs - 1)
      OBVIOUS
    <2>. QED
      BY <2>1, FS_Interval DEF Phys
  <1>. QED
    BY <1>1, <1>7, <1>8, <1>9

\* The ranges of the program, and with them the pressure, change no more once
\* the scan is over.
LEMMA AssignPressure ==
  ASSUME IInv, IInv', Pressure, NEW r \in todo, Assign(r)
  PROVE  Pressure'
  <1>1. /\ phase = "assign" /\ phase' = "assign"
        /\ prog' = prog /\ first' = first /\ last' = last
        /\ todo' = todo \ {r} /\ r \in Reg /\ r \in Ranged
    BY DEF Assign, IInv, PhaseOK, Ranged, TypeOK
  <1>2. Assigned' = Assigned \union {r} /\ r \notin Assigned /\ Ranged' = Ranged
    BY <1>1 DEF Assigned, Ranged
  <1>3. MaxLiveExceeds(MaxRegs) => MaxLiveExceeds(MaxRegs)'
    <2>1. prog' = prog
      BY <1>1
    <2>. QED
      BY <2>1 DEF LiveAt, MaxLiveExceeds
  <1>4. RangesTight'
    BY <1>1, <1>2 DEF Pressure, RangesTight
  <1>5. ActiveHeld'
    <2>1. ASSUME NEW a \in Unexpired(first[r])
          PROVE  \E p \in Assigned' \ spilled' : a = <<last'[p], phys'[p]>>
      <3>1. PICK p \in Assigned \ spilled : a = <<last[p], phys[p]>>
        BY DEF Unexpired, Pressure, ActiveHeld
      <3>2. p # r /\ p \in Assigned' \ spilled' /\ phys'[p] = phys[p]
        BY <1>2, <3>1 DEF Assign, IInv, TypeOK, Assigned, Ranged
      <3>. QED
        BY <1>1, <3>1, <3>2
    <2>2. CASE active' = Unexpired(first[r])
      BY <2>1, <2>2 DEF ActiveHeld
    <2>3. CASE \E q \in FreeRegs(first[r]) :
                 /\ phys' = [phys EXCEPT ![r] = q]
                 /\ active' = Unexpired(first[r]) \union {<<last[r], q>>}
                 /\ UNCHANGED spilled
      <3>1. PICK q : /\ phys' = [phys EXCEPT ![r] = q]
                     /\ active' = Unexpired(first[r]) \union {<<last[r], q>>}
                     /\ UNCHANGED spilled
        BY <2>3
      <3>2. r \in Assigned' \ spilled' /\ <<last[r], q>> = <<last'[r], phys'[r]>>
        BY <1>1, <1>2, <3>1 DEF IInv, TypeOK, Pressure, SpillJustified
      <3>. QED
        BY <2>1, <3>1, <3>2 DEF ActiveHeld
    <2>. QED
      BY <2>2, <2>3 DEF Assign
  <1>6. SpillJustified'
    <2>1. spilled' \subseteq Assigned'
      BY <1>2 DEF Assign, Pressure, SpillJustified
    <2>2. CASE FreeRegs(first[r]) = {}
      <3>1. Cardinality(LiveAt(first[r])) > MaxRegs /\ first[r] \in 1 .. Len(prog)
        BY <2>2, SpillMeansPressure
      <3>2. MaxLiveExceeds(MaxRegs)
        BY <3>1 DEF MaxLiveExceeds
      <3>. QED
        BY <1>3, <2>1, <3>2 DEF SpillJustified
    <2>3. CASE FreeRegs(first[r]) # {}
      <3>1. spilled' = spilled
        BY <2>3 DEF Assign
      <3>. QED
        BY <1>3, <2>1, <3>1 DEF Pressure, SpillJustified
    <2>. QED
      BY <2>2, <2>3
  <1>. QED
    BY <1>4, <1>5, <1>6 DEF Pressure

\* While scanning, a range ends at the last mention seen.
LEMMA ScanPressure ==
  ASSUME IInv, Pressure, ScanInst
  PROVE  Pressure'
  <1> USE DEF ScanInst
  <1>1. Assigned = {} /\ Assigned' = {}
    BY DEF Assigned
  <1>2. active = {} /\ spilled = {}
    BY <1>1 DEF Pressure, ActiveHeld, SpillJustified
  <1>3. RangesTight'
    <2>1. \A r \in Reg : first[r] > 0 => r \in prog[first[r]] /\ r \in prog[last[r]]
      BY DEF Pressure, RangesTight, Ranged
    <2>2. \A r \in Reg : first[r] = 0 \/ first[r] > 0
      BY DEF IInv, TypeOK
    <2>3. \A r \in Reg : r \in Allocatable(pos) => r \in prog[pos]
      BY DEF Allocatable
    <2>4. \A r \in Reg : first'[r] > 0 => r \in prog[first'[r]] /\ r \in prog[last'[r]]
      <3>1. TAKE r \in Reg
      <3>2. CASE r \in Allocatable(pos)
        BY <2>1, <2>2, <2>3, <3>2
      <3>3. CASE r \notin Allocatable(pos)
        BY <2>1, <3>3
      <3>. QED
        BY <3>2, <3>3
    <2>. QED
      BY <2>4 DEF RangesTight, Ranged
  <1>. QED
    BY <1>1, <1>2, <1>3 DEF Pressure, ActiveHeld, SpillJustified

\* The other steps leave the ranges, the active vector and the spills alone.
LEMMA PhasePressure ==
  ASSUME IInv, Pressure,
         Start \/ Skip \/ SortRanges \/ AssignDone \/ RenameInst \/ RenameDone \/ UNCHANGED vars
  PROVE  Pressure'
  <1>1. UNCHANGED <<prog, first, last, active, phys, spilled>>
    BY DEF Start, Skip, SortRanges, AssignDone, RenameInst, RenameDone, vars
  <1>2. Ranged' = Ranged /\ (MaxLiveExceeds(MaxRegs) => MaxLiveExceeds(MaxRegs)')
    <2>1. prog' = prog /\ first' = first
      BY <1>1
    <2>. QED
      BY <2>1 DEF Ranged, LiveAt, MaxLiveExceeds
  <1>3. Assigned' = Assigned \/ Assigned = {}
    <2>1. CASE Start \/ Skip \/ SortRanges
      BY <2>1 DEF Start, Skip, SortRanges, Assigned
    <2>2. CASE AssignDone \/ RenameInst \/ RenameDone
      BY <1>2, <2>2 DEF AssignDone, RenameInst, RenameDone, Assigned
    <2>3. CASE UNCHANGED vars
      BY <1>2, <2>3 DEF vars, Assigned
    <2>. QED
      BY <2>1, <2>2, <2>3
  <1>4. CASE Assigned' = Assigned
    BY <1>1, <1>2, <1>4 DEF Pressure, RangesTight, ActiveHeld, SpillJustified
  <1>5. CASE Assigned = {}
    <2>1. active = {} /\ spilled = {}
      BY <1>5 DEF Pressure, ActiveHeld, SpillJustified
    <2>. QED
      BY <1>1, <1>2, <2>1 DEF Pressure, RangesTight, ActiveHeld, SpillJustified
  <1>. QED
    BY <1>3, <1>4, <1>5

\* Every step keeps the pressure invariant, Init establishes it.
LEMMA StepPressure == IInv /\ IInv' /\ Pressure /\ [Next]_vars => Pressure'
  BY AssignPressure, ScanPressure, PhasePressure DEF Next

LEMMA InitPressure == Init => Pressure
  BY DEF Init, Pressure, RangesTight, Ranged, ActiveHeld, SpillJustified

\* Without a spill the registers live at one position hold different physical
\* registers, so no more of them are live than there are physical ones.
LEMMA PressureSpills ==
  ASSUME IInv, Pressure, phase \in {"rename", "done"}, Len(prog) >= MinLen
  PROVE  spilled # {} <=> MaxLiveExceeds(MaxRegs)
  <1>1. ASSUME spilled = {}, NEW i \in 1 .. Len(prog)
        PROVE  ~(Cardinality(LiveAt(i)) > MaxRegs)
    <2>1. Scanned = Len(prog) /\ todo = {} /\ Assigned = Ranged /\ Len(prog) \in Nat
      <3>1. Len(prog) \in Nat /\ todo = {}
        BY DEF IInv, PhaseOK, TypeOK
      <3>2. Scanned = Len(prog)
        BY <3>1 DEF Scanned
      <3>3. Assigned = Ranged
        BY <3>1 DEF Assigned
      <3>. QED
        BY <3>1, <3>2, <3>3
    <2>2. ASSUME NEW r \in LiveAt(i)
          PROVE  r \in Assigned /\ first[r] <= i /\ i <= last[r] /\ r \in Reg
      <3>1. PICK j \in 1 .. i, k \in i .. Len(prog) : r \in prog[j] /\ r \in prog[k]
        BY DEF LiveAt
      <3>2. r \in Reg /\ r # RZ
        BY DEF LiveAt
      <3>3. /\ 0 < first[r] /\ first[r] <= j
            /\ k <= last[r]
        BY <2>1, <3>1, <3>2 DEF IInv, RangesCover, Allocatable
      <3>4. first[r] \in Nat /\ last[r] \in Nat
        BY <3>2 DEF IInv, TypeOK
      <3>. QED
        BY <2>1, <3>1, <3>2, <3>3, <3>4 DEF Ranged
    <2> DEFINE f == [r \in LiveAt(i) |-> phys[r]]
    <2>3. f \in [LiveAt(i) -> Phys]
      BY <2>2 DEF IInv
    <2>4. ASSUME NEW r \in LiveAt(i), NEW s \in LiveAt(i), r # s
          PROVE  phys[r] # phys[s]
      <3>0. r \in Assigned \ spilled /\ s \in Assigned \ spilled /\ r \in Reg /\ s \in Reg
        BY <1>1, <2>2
      <3>1. first[r] \in Nat /\ last[r] \in Nat /\ first[s] \in Nat /\ last[s] \in Nat
        BY <3>0 DEF IInv, TypeOK
      <3>2. ~(last[r] < first[s] \/ last[s] < first[r])
        BY <2>2, <3>1
      <3>. QED
        BY <2>4, <3>0, <3>2 DEF IInv, Apart
    <2>5. f \in Injection(LiveAt(i), Phys)
      BY <2>3, <2>4 DEF Injection, IsInjective
    <2>6. IsFiniteSet(Phys) /\ Cardinality(Phys) = MaxRegs
      <3>1. 0 \in Int /\ MaxRegs - 1 \in Int /\ ~(0 > MaxRegs - 1)
        OBVIOUS
      <3>. QED
        BY <3>1, FS_Interval DEF Phys
    <2>7. Cardinality(LiveAt(i)) \in Nat /\ Cardinality(LiveAt(i)) <= Cardinality(Phys)
      BY <2>5, <2>6, FS_Injection, LiveFinite, FS_CardinalityType
    <2>. QED
      BY <2>6, <2>7
  <1>. QED
    BY <1>1 DEF Pressure, SpillJustified, MaxLiveExceeds

\* A register is spilled exactly when analyze() finds more registers live at
\* some position than there are physical ones, whatever the program.
THEOREM PressureTheorem == Spec => []SpillIffPressure
  <1>1. IInv /\ Pressure => SpillIffPressure
    BY PressureSpills DEF SpillIffPressure
  <1>2. Spec => [](IInv /\ Pressure)
    BY Invariance, InitPressure, StepPressure, PTL DEF Spec
  <1>. QED
    BY <1>1, <1>2, PTL

=============================================================================
