------------------------- MODULE ILPSchedulerProofs -------------------------
(***************************************************************************)
(* For every program, latency and issue width: the scheduler emits each    *)
(* instruction exactly once (it implements IssueOrder), keeps Latency      *)
(* cycles between a write and a later use of its register, lets an         *)
(* instruction overtake another only while that one is blocked, and never  *)
(* idles longer than Latency.                                              *)
(***************************************************************************)
EXTENDS ILPScheduler, TLAPS

USE SchedAssumption

\* The parts of an instruction have their types.
LEMMA InstTypes ==
  ASSUME TypeOK
  PROVE  /\ Len(prog) \in Nat
         /\ \A i \in Index : /\ prog[i].dst \in Reg \union {NoReg}
                            /\ prog[i].srcs \subseteq Reg
                            /\ Ops(i) \subseteq Reg
  <1>1. Len(prog) \in Nat /\ \A i \in Index : prog[i] \in Inst
    BY DEF TypeOK, Index
  <1>2. \A x \in Inst : x.dst \in Reg \union {NoReg} /\ x.srcs \subseteq Reg
    BY DEF Inst
  <1>. QED
    BY <1>1, <1>2 DEF Ops

\* Init establishes the inductive invariant.
LEMMA InitIInv == Init => IInv
  <1> SUFFICES ASSUME Init PROVE IInv
    OBVIOUS
  <1> USE DEF Init
  <1>1. prog \in Seq(Inst) /\ Len(prog) \in Nat
    OBVIOUS
  <1>2. TypeOK
    BY <1>1 DEF TypeOK, Index
  <1>3. Scheduled = {}
    BY DEF Scheduled
  <1>4. PhaseOK
    BY <1>3 DEF PhaseOK, Fresh
  <1>5. WritersOK
    BY <1>3 DEF WritersOK
  <1>6. ResultOK
    BY <1>3 DEF ResultOK
  <1>. QED
    BY <1>2, <1>3, <1>4, <1>5, <1>6
       DEF IInv, ClockOK, QueueOK, LatencyKept, JustifiedOvertaking, Overtakes

\* Each step keeps the types.
LEMMA StepTypeOK == TypeOK /\ [Next]_vars => TypeOK'
  <1> SUFFICES ASSUME TypeOK, [Next]_vars PROVE TypeOK'
    OBVIOUS
  <1> USE DEF TypeOK, Index
  <1>1. CASE Skip
    <2>1. [i \in 1 .. Len(prog) |-> i] \in Seq(1 .. Len(prog))
      OBVIOUS
    <2>. QED
      BY <1>1, <2>1 DEF Skip
  <1>2. CASE Start
    BY <1>2 DEF Start
  <1>3. CASE SelectReady
    BY <1>3 DEF SelectReady, Candidates
  <1>4. ASSUME NEW i \in ready, Issue(i) PROVE TypeOK'
    <2>1. prog[i].dst \in Reg \union {NoReg}
      BY InstTypes
    <2>2. lastWriter' \in [Reg -> Nat \union {-1}]
      BY <1>4, <2>1 DEF Issue
    <2>. QED
      BY <1>4, <2>2 DEF Issue, HasSlot
  <1>5. CASE NextCycle
    BY <1>5 DEF NextCycle, CycleAfter
  <1>6. CASE Finish
    BY <1>6 DEF Finish
  <1>7. CASE UNCHANGED vars
    BY <1>7 DEF vars
  <1>. QED
    BY <1>1, <1>2, <1>3, <1>4, <1>5, <1>6, <1>7 DEF Next

\* Building the queue separates the blocked instructions from the others.
LEMMA SelectIInv ==
  ASSUME IInv, TypeOK', SelectReady
  PROVE  IInv'
  <1> USE DEF IInv, SelectReady
  <1>1. /\ Index' = Index /\ Scheduled' = Scheduled
        /\ \A w, i : Writes(w, i)' <=> Writes(w, i)
    BY DEF Index, Scheduled, Writes, Ops
  <1>2. PhaseOK'
    BY <1>1 DEF PhaseOK, Candidates
  <1>3. ClockOK'
    BY <1>1 DEF ClockOK
  <1>4. WritersOK'
    BY <1>1 DEF WritersOK
  <1>5. \A i \in Index : OperandsReady(i) <=> ~Blocked(i)
    <2>1. TAKE i \in Index
    <2>2. ASSUME NEW r \in Ops(i), InFlight(r) PROVE Blocked(i)
      <3>1. r \in Reg
        BY <2>2, InstTypes
      <3>2. lastWriter[r] >= 0 /\ cycle - lastWriter[r] < Latency
        BY <2>2 DEF InFlight
      <3>3. PICK w \in Scheduled : prog[w].dst = r /\ issueCycle[w] = lastWriter[r]
        BY <3>1, <3>2 DEF WritersOK
      <3>. QED
        BY <2>2, <3>1, <3>2, <3>3 DEF Blocked, Writes, ClockOK
    <2>3. ASSUME NEW w \in Scheduled, Writes(w, i), issueCycle[w] < cycle,
                 cycle - issueCycle[w] < Latency
          PROVE  \E r \in Ops(i) : InFlight(r)
      <3>1. prog[w].dst \in Reg /\ prog[w].dst \in Ops(i)
        BY <2>3, InstTypes DEF Writes
      <3>2. issueCycle[w] <= lastWriter[prog[w].dst] /\ issueCycle[w] \in Nat
        BY <2>3 DEF WritersOK, Scheduled, TypeOK, Writes
      <3>3. lastWriter[prog[w].dst] \in Int /\ cycle \in Int
        BY <3>1 DEF TypeOK
      <3>. QED
        BY <2>3, <3>1, <3>2, <3>3 DEF InFlight
    <2>. QED
      BY <2>2, <2>3 DEF OperandsReady, Blocked
  <1>6. \A i : Blocked(i)' <=> Blocked(i)
    BY <1>1 DEF Blocked
  <1>7. QueueOK'
    BY <1>1, <1>5, <1>6 DEF QueueOK, Candidates, ClockOK, Scheduled, TypeOK
  <1>8. ResultOK' /\ LatencyKept' /\ JustifiedOvertaking'
    BY <1>1 DEF ResultOK, LatencyKept, JustifiedOvertaking, Overtakes
  <1>. QED
    BY <1>2, <1>3, <1>4, <1>7, <1>8

\* Issuing the lowest ready index in the current cycle.
LEMMA IssueIInv ==
  ASSUME IInv, TypeOK', NEW i \in ready, Issue(i)
  PROVE  IInv'
  <1> USE DEF IInv
  <1>1. /\ phase = "issue" /\ phase' = "issue" /\ cycle' = cycle
        /\ prog' = prog /\ Index' = Index
        /\ ready' = ready \ {i} /\ i \in Index
        /\ \A j \in ready : i <= j
        /\ \A w, j : Writes(w, j)' <=> Writes(w, j)
    BY DEF Issue, IsFirst, TypeOK, Index, Writes, Ops
  <1>2. cycle \in Nat /\ Index \subseteq Nat
    BY InstTypes DEF TypeOK, Index
  <1>3. /\ Scheduled' = Scheduled \union {i}
        /\ i \notin Scheduled
        /\ issueCycle'[i] = cycle
        /\ \A j \in Scheduled : issueCycle'[j] = issueCycle[j] /\ issueCycle[j] \in Nat
    BY <1>1, <1>2 DEF Issue, Scheduled, TypeOK, PhaseOK
  <1>4. PhaseOK'
    BY <1>1, <1>3 DEF PhaseOK
  <1>5. ClockOK'
    BY <1>1, <1>2, <1>3 DEF ClockOK
  <1>6. WritersOK'
    <2>1. prog[i].dst \in Reg \union {NoReg}
      BY <1>1, InstTypes
    <2>2. ASSUME NEW w \in Scheduled', prog[w].dst # NoReg
          PROVE  issueCycle'[w] <= lastWriter'[prog[w].dst]
      <3>1. prog[w].dst \in Reg
        BY <2>2, InstTypes, <1>1 DEF Scheduled
      <3>2. CASE w = i
        BY <1>2, <1>3, <2>1, <2>2, <3>1, <3>2 DEF Issue, TypeOK
      <3>3. CASE w \in Scheduled
        <4>1. issueCycle[w] <= lastWriter[prog[w].dst] /\ issueCycle[w] <= cycle
          BY <2>2, <3>3 DEF WritersOK, ClockOK
        <4>2. lastWriter'[prog[w].dst] \in {lastWriter[prog[w].dst], cycle}
          BY <2>1, <3>1 DEF Issue, TypeOK
        <4>. QED
          BY <1>3, <3>3, <4>1, <4>2
      <3>. QED
        BY <1>3, <3>2, <3>3
    <2>3. ASSUME NEW r \in Reg, lastWriter'[r] >= 0
          PROVE  \E w \in Scheduled' : prog[w].dst = r /\ issueCycle'[w] = lastWriter'[r]
      <3>1. CASE prog[i].dst = r
        <4>1. lastWriter'[r] = cycle
          BY <3>1 DEF Issue, TypeOK
        <4>. QED
          BY <1>3, <3>1, <4>1
      <3>2. CASE prog[i].dst # r
        <4>1. lastWriter'[r] = lastWriter[r]
          BY <2>1, <3>2 DEF Issue, TypeOK
        <4>2. PICK w \in Scheduled : prog[w].dst = r /\ issueCycle[w] = lastWriter[r]
          BY <2>3, <4>1 DEF WritersOK
        <4>. QED
          BY <1>3, <4>1, <4>2
      <3>. QED
        BY <3>1, <3>2
    <2>. QED
      BY <1>1, <2>2, <2>3 DEF WritersOK
  <1>7. \A j : Blocked(j)' <=> Blocked(j)
    BY <1>1, <1>2, <1>3 DEF Blocked
  <1>8. QueueOK'
    <2>1. \A j \in ready' : j \in ready /\ i < j
      BY <1>1, <1>2 DEF TypeOK
    <2>2. \A j \in Index \ (Scheduled' \union ready') : j \in Index \ (Scheduled \union ready)
      BY <1>1, <1>3
    <2>. QED
      BY <1>1, <1>3, <1>7, <2>1, <2>2 DEF QueueOK
  <1>9. ResultOK'
    <2>1. /\ Len(result) \in Nat /\ Len(result') = Len(result) + 1
          /\ \A a \in 1 .. Len(result) : result'[a] = result[a]
          /\ result'[Len(result) + 1] = i
      BY DEF Issue, TypeOK
    <2>. QED
      BY <1>1, <1>3, <2>1 DEF ResultOK
  <1>10. LatencyKept'
    <2>1. \A w \in Scheduled : Writes(w, i) /\ issueCycle[w] < cycle =>
            cycle - issueCycle[w] >= Latency
      BY <1>1, <1>2, <1>3 DEF QueueOK, Blocked
    <2>2. \A w \in Scheduled : issueCycle[w] <= cycle
      BY DEF ClockOK
    <2>. QED
      BY <1>1, <1>2, <1>3, <2>1, <2>2 DEF LatencyKept
  <1>11. JustifiedOvertaking'
    <2>1. SUFFICES ASSUME NEW h \in Index, NEW j \in Index, Overtakes(j, h)'
                   PROVE  \E w \in Scheduled' :
                            /\ Writes(w, h)
                            /\ issueCycle'[w] < issueCycle'[j]
                            /\ issueCycle'[j] - issueCycle'[w] < Latency
      BY <1>1 DEF JustifiedOvertaking
    <2>2. CASE j = i
      <3>1. h < i /\ h \notin Scheduled
        BY <1>2, <1>3, <2>1, <2>2 DEF Overtakes, ClockOK
      <3>2. h \notin ready
        BY <1>1, <1>2, <3>1
      <3>3. Blocked(h)
        BY <1>1, <3>1, <3>2 DEF QueueOK
      <3>. QED
        BY <1>3, <2>2, <3>3 DEF Blocked
    <2>3. CASE j # i
      <3>1. j \in Scheduled /\ Overtakes(j, h)
        BY <1>3, <2>1, <2>3 DEF Overtakes
      <3>2. PICK w \in Scheduled : /\ Writes(w, h)
                                   /\ issueCycle[w] < issueCycle[j]
                                   /\ issueCycle[j] - issueCycle[w] < Latency
        BY <3>1 DEF JustifiedOvertaking
      <3>. QED
        BY <1>3, <3>1, <3>2
    <2>. QED
      BY <2>2, <2>3
  <1>. QED
    BY <1>4, <1>5, <1>6, <1>8, <1>9, <1>10, <1>11

\* The steps that issue nothing.
LEMMA QuietIInv ==
  ASSUME IInv, TypeOK', Skip \/ Start \/ NextCycle \/ Finish \/ UNCHANGED vars
  PROVE  IInv'
  <1> USE DEF IInv
  <1>1. /\ prog' = prog /\ Index' = Index /\ Scheduled' = Scheduled
        /\ issueCycle' = issueCycle /\ lastWriter' = lastWriter
        /\ \A w, j : Writes(w, j)' <=> Writes(w, j)
    BY DEF Skip, Start, NextCycle, Finish, vars, Index, Scheduled, Writes, Ops
  <1>2. LatencyKept' /\ JustifiedOvertaking'
    BY <1>1 DEF LatencyKept, JustifiedOvertaking, Overtakes
  <1>3. WritersOK'
    BY <1>1 DEF WritersOK
  <1>4. Len(prog) \in Nat /\ cycle \in Nat /\ \A j \in Scheduled : issueCycle[j] \in Nat
    BY InstTypes DEF TypeOK, Scheduled
  <1>5. CASE Skip
    BY <1>1, <1>2, <1>3, <1>4, <1>5
       DEF Skip, PhaseOK, Fresh, ClockOK, QueueOK, ResultOK
  <1>6. CASE Start
    BY <1>1, <1>2, <1>3, <1>4, <1>6
       DEF Start, PhaseOK, Fresh, ClockOK, QueueOK, ResultOK
  <1>7. CASE NextCycle
    <2>1. ClockOK'
      BY <1>1, <1>4, <1>7 DEF NextCycle, CycleAfter, ClockOK
    <2>. QED
      BY <1>1, <1>2, <1>3, <1>4, <1>7, <2>1
         DEF NextCycle, CycleAfter, PhaseOK, Fresh, QueueOK, ResultOK
  <1>8. CASE Finish
    BY <1>1, <1>2, <1>3, <1>4, <1>8
       DEF Finish, PhaseOK, Fresh, ClockOK, QueueOK, ResultOK
  <1>9. CASE UNCHANGED vars
    BY <1>1, <1>2, <1>3, <1>4, <1>9
       DEF vars, PhaseOK, Fresh, ClockOK, QueueOK, ResultOK, Blocked
  <1>. QED
    BY <1>5, <1>6, <1>7, <1>8, <1>9

\* The invariant is inductive, so it holds in every reachable state.
THEOREM Invariance == Spec => []IInv
  <1>1. IInv /\ [Next]_vars => IInv'
    <2> SUFFICES ASSUME IInv, [Next]_vars PROVE IInv'
      OBVIOUS
    <2>1. TypeOK'
      BY StepTypeOK DEF IInv
    <2>2. ASSUME NEW i \in ready, Issue(i) PROVE IInv'
      BY <2>1, <2>2, IssueIInv
    <2>. QED
      BY <2>1, <2>2, SelectIInv, QuietIInv DEF Next
  <1>. QED
    BY <1>1, InitIInv, PTL DEF Spec

\* The state always has the declared types.
THEOREM TypeCorrect == Spec => []TypeOK
  <1>1. IInv => TypeOK
    BY DEF IInv
  <1>. QED
    BY <1>1, Invariance, PTL

\* Between a write and the issue of a later-cycle use of the register lie at
\* least Latency cycles.
THEOREM LatencyTheorem == Spec => []LatencyKept
  <1>1. IInv => LatencyKept
    BY DEF IInv
  <1>. QED
    BY <1>1, Invariance, PTL

\* No instruction overtakes an earlier one that was free to go.
THEOREM OvertakingTheorem == Spec => []JustifiedOvertaking
  <1>1. IInv => JustifiedOvertaking
    BY DEF IInv
  <1>. QED
    BY <1>1, Invariance, PTL

\* The scheduler implements IssueOrder: it loses, repeats and invents no
\* instruction.
THEOREM EmissionTheorem == Spec => EachOnce
  <1>1. Init => Order!Init
    BY InstTypes, InitIInv DEF Init, Order!Init, IInv
  <1>2. ASSUME IInv, IInv', [Next]_vars
        PROVE  [Order!Next]_<<Len(prog), result, phase = "done">>
    <2>1. CASE Skip
      <3>1. /\ result = <<>> /\ result' = [i \in 1 .. Len(prog) |-> i]
            /\ phase # "done" /\ phase' = "done" /\ prog' = prog /\ Len(prog) \in Nat
        BY <1>2, <2>1, InstTypes DEF Skip, IInv, PhaseOK, Fresh, Index
      <3>2. CASE Len(prog) = 0
        <4>1. result' = <<>>
          BY <3>1, <3>2
        <4>. QED
          BY <3>1, <3>2, <4>1 DEF Order!Next, Order!Finish, Order!Covers
      <3>3. CASE Len(prog) > 0
        <4>1. Len(result') = Len(prog)
          BY <3>1
        <4>2. Order!Emit
          BY <3>1, <3>3, <4>1 DEF Order!Emit, Order!Covers, Order!Distinct
        <4>. QED
          BY <4>2 DEF Order!Next
      <3>. QED
        BY <3>1, <3>2, <3>3
    <2>2. ASSUME NEW i \in ready, Issue(i)
          PROVE  Order!Next
      <3>1. /\ phase = "issue" /\ phase' = "issue" /\ prog' = prog
            /\ Len(result) \in Nat /\ Len(result') = Len(result) + 1
            /\ \A a \in 1 .. Len(result) : result'[a] = result[a]
        BY <1>2, <2>2 DEF Issue, IInv, TypeOK
      <3>2. \A a \in 1 .. Len(result') : result'[a] \in 1 .. Len(prog)
        BY <1>2, <3>1 DEF IInv, ResultOK, Scheduled, Index
      <3>3. \A a, b \in 1 .. Len(result') : a # b => result'[a] # result'[b]
        BY <1>2, <3>1 DEF IInv, ResultOK
      <3>4. Order!Emit
        BY <3>1, <3>2, <3>3 DEF Order!Emit, Order!Distinct
      <3>. QED
        BY <3>4 DEF Order!Next
    <2>3. CASE Finish
      <3>1. Order!Covers(result)
        BY <1>2, <2>3 DEF Finish, IInv, ResultOK, Order!Covers, Index
      <3>. QED
        BY <2>3, <3>1 DEF Finish, Order!Next, Order!Finish
    <2>4. CASE Start \/ SelectReady \/ NextCycle \/ UNCHANGED vars
      BY <2>4 DEF Start, SelectReady, NextCycle, vars
    <2>. QED
      BY <1>2, <2>1, <2>2, <2>3, <2>4 DEF Next
  <1>. QED
    BY <1>1, <1>2, Invariance, PTL DEF Spec, EachOnce, Order!Spec

-----------------------------------------------------------------------------
\* The newest issue cycle is a cycle number, or -1 before the first issue.
LEMMA NewestType ==
  ASSUME TypeOK
  PROVE  Newest \in Int /\ (result = <<>> => Newest = -1) /\ Newest >= -1
  <1>1. CASE result = <<>>
    BY <1>1 DEF Newest
  <1>2. CASE result # <<>>
    <2>1. Len(result) \in 1 .. Len(result) /\ result[Len(result)] \in Index
      BY <1>2 DEF TypeOK
    <2>2. issueCycle[result[Len(result)]] \in Nat \union {-1}
      BY <2>1 DEF TypeOK
    <2>. QED
      BY <1>2, <2>2 DEF Newest
  <1>. QED
    BY <1>1, <1>2

\* What is issued becomes the newest.
LEMMA IssueStall ==
  ASSUME IInv, StallInv, NEW i \in ready, Issue(i)
  PROVE  StallInv'
  <1>1. /\ phase = "issue" /\ phase' = "issue" /\ cycle' = cycle /\ cycle \in Nat
        /\ prog' = prog /\ Index' = Index /\ i \in Index
        /\ issued' = issued + 1 /\ issued \in Nat
    BY DEF Issue, Index, IInv, TypeOK
  <1>2. Newest' = cycle
    <2>1. /\ Len(result') = Len(result) + 1 /\ Len(result) \in Nat
          /\ result'[Len(result) + 1] = i /\ issueCycle'[i] = cycle
      BY <1>1 DEF Issue, IInv, TypeOK
    <2>2. result' # <<>>
      BY <2>1
    <2>. QED
      BY <2>1, <2>2 DEF Newest
  <1>3. \A w \in Scheduled' : issueCycle'[w] <= cycle
    <2>1. TAKE w \in Scheduled'
    <2>2. CASE w = i
      BY <1>1, <2>2 DEF Issue, IInv, TypeOK
    <2>3. CASE w # i
      <3>1. issueCycle'[w] = issueCycle[w] /\ w \in Scheduled
        BY <1>1, <2>3 DEF Issue, IInv, TypeOK, Scheduled
      <3>. QED
        BY <3>1 DEF IInv, ClockOK
    <2>. QED
      BY <2>2, <2>3
  <1>. QED
    BY <1>1, <1>2, <1>3 DEF StallInv, NewestIsLatest, CycleUsed, ClockNear

\* A cycle that issued nothing found every candidate blocked, so a write is
\* in flight and the newest instruction is less than Latency cycles old.
LEMMA NextCycleStall ==
  ASSUME IInv, StallInv, NextCycle
  PROVE  StallInv'
  <1>1. /\ phase = "issue" /\ phase' = "select" /\ cycle' = cycle + 1 /\ cycle \in Nat
        /\ Scheduled' = Scheduled /\ issueCycle' = issueCycle /\ Newest' = Newest
    BY DEF NextCycle, CycleAfter, Scheduled, Index, Newest, IInv, TypeOK
  <1>2. Newest \in Int
    BY NewestType DEF IInv
  <1>3. cycle - Newest < Latency
    <2>1. CASE issued = 0
      <3>1. ready = {}
        BY <2>1 DEF NextCycle, HasSlot
      <3>2. PICK i \in Index : i \notin Scheduled
        BY <1>1, <2>1 DEF StallInv, CycleUsed, Scheduled
      <3>3. Blocked(i)
        BY <1>1, <3>1, <3>2 DEF IInv, QueueOK
      <3>4. PICK w \in Scheduled : cycle - issueCycle[w] < Latency
        BY <3>3 DEF Blocked
      <3>5. issueCycle[w] <= Newest /\ issueCycle[w] \in Int
        BY <1>1 DEF StallInv, NewestIsLatest, Scheduled, IInv, TypeOK
      <3>. QED
        BY <1>1, <1>2, <3>4, <3>5
    <2>2. CASE issued # 0
      BY <1>1, <1>2, <2>2 DEF StallInv, CycleUsed
    <2>. QED
      BY <2>1, <2>2
  <1>. QED
    BY <1>1, <1>2, <1>3 DEF StallInv, NewestIsLatest, CycleUsed, ClockNear

\* Init establishes the stall invariant and the other steps keep it.
LEMMA InitStall == Init => StallInv
  <1> SUFFICES ASSUME Init PROVE StallInv
    OBVIOUS
  <1>1. Scheduled = {}
    BY DEF Init, Scheduled
  <1>. QED
    BY <1>1 DEF Init, StallInv, NewestIsLatest, CycleUsed, ClockNear

LEMMA StepStall == IInv /\ StallInv /\ [Next]_vars => StallInv'
  <1> SUFFICES ASSUME IInv, StallInv, [Next]_vars PROVE StallInv'
    OBVIOUS
  <1>1. CASE Skip
    BY <1>1 DEF Skip, StallInv, NewestIsLatest, CycleUsed, ClockNear
  <1>2. CASE Start \/ SelectReady \/ Finish \/ UNCHANGED vars
    <2>1. /\ Scheduled' = Scheduled /\ Index' = Index /\ issueCycle' = issueCycle
          /\ Newest' = Newest /\ cycle' = cycle /\ result' = result
      BY <1>2 DEF Start, SelectReady, Finish, vars, Scheduled, Index, Newest
    <2>2. CASE Start
      <3>1. Newest = -1
        BY <2>2, NewestType DEF Start, IInv, PhaseOK, Fresh
      <3>. QED
        BY <2>1, <2>2, <3>1 DEF Start, StallInv, NewestIsLatest, CycleUsed, ClockNear
    <2>3. CASE SelectReady
      BY <2>1, <2>3 DEF SelectReady, StallInv, NewestIsLatest, CycleUsed, ClockNear
    <2>4. CASE Finish
      BY <2>1, <2>4 DEF Finish, StallInv, NewestIsLatest, CycleUsed, ClockNear
    <2>5. CASE UNCHANGED vars
      BY <2>1, <2>5 DEF vars, StallInv, NewestIsLatest, CycleUsed, ClockNear
    <2>. QED
      BY <1>2, <2>2, <2>3, <2>4, <2>5
  <1>. QED
    BY <1>1, <1>2, IssueStall, NextCycleStall DEF Next

\* While instructions are left, the clock is at most Latency cycles past the
\* newest issue: a stall never outlasts the write it waits for.
THEOREM StallTheorem == Spec => []StallBounded
  <1>1. StallInv => StallBounded
    BY DEF StallInv, ClockNear, StallBounded
  <1>2. Spec => [](IInv /\ StallInv)
    BY Invariance, InitStall, StepStall, PTL DEF Spec
  <1>. QED
    BY <1>1, <1>2, PTL

=============================================================================
