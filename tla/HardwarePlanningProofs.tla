----------------------- MODULE HardwarePlanningProofs -----------------------
(***************************************************************************)
(* Proofs about the schedulers of HardwarePlanning for every set of        *)
(* devices, programs and problem sizes, whatever the latencies: a call     *)
(* ends after at most one cycle an instruction, schedule permutes its      *)
(* program within the issue width and lets an instruction overtake only    *)
(* one that waits, estimate_cycles counts without looking at dependences,  *)
(* and a plan's launches cover its problem.                                *)
(***************************************************************************)
EXTENDS HardwarePlanning, FiniteSetTheorems, SequenceTheorems, TLAPS

Entry == [inst : 1 .. Len(insts), at : 0 .. cycle]

\* Every model issues at least one instruction a cycle.
LEMMA WidthPositive == Width \in Nat /\ Width > 0
<1>1. ASSUME NEW width, NEW cores, NEW latency
      PROVE  Model(width, cores, latency).issue_width = width
  BY DEF Model
<1>2. Pascal.issue_width = 2 /\ Broadwell.issue_width = 4
  BY <1>1 DEF Pascal, Broadwell
<1>3. RDNA4.issue_width = 1 /\ CortexA78.issue_width = 4
  BY <1>1 DEF RDNA4, CortexA78
<1>4. Volta.issue_width = 2
  BY <1>1, <1>2 DEF Volta
<1>5. Ampere.issue_width = 2
  BY <1>1, <1>4 DEF Ampere
<1>6. Hopper.issue_width = 2
  BY <1>1, <1>5 DEF Hopper
<1>7. Zen4.issue_width = 6 /\ Zen5.issue_width = 8
  BY <1>1 DEF Zen4, Zen5
<1>8. ModelFor(arch) \in {Pascal, Volta, Ampere, Hopper, Broadwell, Zen4, Zen5, RDNA4, CortexA78}
  BY Zenon DEF ModelFor
<1>. QED
  BY <1>2, <1>3, <1>4, <1>5, <1>6, <1>7, <1>8 DEF Width

LEMMA StartsWell == Init => IInv
<1>. SUFFICES ASSUME Init PROVE IInv
  OBVIOUS
<1>1. SchedTypes
  BY WidthPositive, SchedulerAssumption DEF Init, SchedInit, SchedTypes
<1>2. CycleInv /\ OvertakingJustified /\ call = "idle"
  BY DEF Init, SchedInit, CycleInv, OvertakingJustified
<1>. QED
  BY <1>1, <1>2 DEF IInv

LEMMA BeginKeeps ==
  ASSUME IInv, NEW which \in {"schedule", "estimate"}, NEW program \in Programs, Begin(which, program)
  PROVE  IInv'
<1>1. program \in Seq(Inst) /\ Len(program) \in Nat
  BY SchedulerAssumption
<1>2. SchedTypes'
  BY <1>1, WidthPositive, SchedulerAssumption DEF Begin, IInv, SchedTypes, Width
<1>3. CycleInv'
  BY <1>1 DEF Begin, CycleInv
<1>4. OnceInv'
  BY FS_EmptySet DEF Begin, OnceInv
<1>5. RateInv' /\ WriterInv' /\ PassedInv' /\ OvertakingJustified'
  BY WidthPositive DEF Begin, RateInv, WriterInv, PassedInv, OvertakingJustified, Width
<1>. QED
  BY <1>2, <1>3, <1>4, <1>5 DEF Begin, IInv

\* What one instruction more leaves of the result.
LEMMA Appended ==
  ASSUME SchedTypes, NEW p \in 1 .. Len(insts), result' = Append(result, [inst |-> p, at |-> cycle])
  PROVE  /\ Len(result) \in Nat /\ Len(result') = Len(result) + 1
         /\ \A k \in 1 .. Len(result) : result'[k] = result[k] /\ result[k] \in Entry
         /\ result'[Len(result) + 1] = [inst |-> p, at |-> cycle]
         /\ result' \in Seq(Entry)
<1>1. result \in Seq(Entry) /\ [inst |-> p, at |-> cycle] \in Entry
  BY DEF SchedTypes, Entry
<1>. QED
  BY <1>1

\* Who waits for what is settled by the entries in front.
LEMMA WaitsKept ==
  ASSUME SchedTypes, NEW p \in 1 .. Len(insts), result' = Append(result, [inst |-> p, at |-> cycle]),
         insts' = insts, before' = before, arch' = arch,
         NEW j \in 1 .. Len(result) + 1, NEW c, NEW i, NEW r
  PROVE  Waits(j, c, i, r)' <=> Waits(j, c, i, r)
<1>1. Len(result) \in Nat /\ \A k \in 1 .. Len(result) : result'[k] = result[k]
  BY Appended
<1>2. \A m \in 1 .. j - 1 : m \in 1 .. Len(result) /\ result'[m] = result[m]
  BY <1>1
<1>3. WritesSeen(j, c, i, r)' = WritesSeen(j, c, i, r)
  BY <1>2 DEF WritesSeen
<1>4. \A m \in WritesSeen(j, c, i, r) : result'[m] = result[m]
  BY <1>2 DEF WritesSeen
<1>5. \A w, d : Elapsed(i, w, d)' <=> Elapsed(i, w, d)
  BY DEF Elapsed
<1>. QED
  BY <1>3, <1>4, <1>5 DEF Waits

\* Issuing p is justified when all in front of it are done or wait.
LEMMA OvertakingKept ==
  ASSUME SchedTypes, OnceInv, OvertakingJustified,
         NEW p \in 1 .. Len(insts), result' = Append(result, [inst |-> p, at |-> cycle]),
         insts' = insts, before' = before, arch' = arch,
         \A i \in 1 .. p - 1 : i \in done \/ \E r \in insts[i].srcs : Waits(Len(result) + 1, cycle, i, r)
  PROVE  OvertakingJustified'
<1>1. /\ Len(result) \in Nat /\ Len(result') = Len(result) + 1
      /\ \A k \in 1 .. Len(result) : result'[k] = result[k]
      /\ result'[Len(result) + 1].inst = p /\ result'[Len(result) + 1].at = cycle
  BY Appended
<1>2. SUFFICES ASSUME NEW j \in 1 .. Len(result) + 1, NEW i \in 1 .. result'[j].inst - 1
               PROVE  \/ \E k \in 1 .. j - 1 : result'[k].inst = i
                      \/ \E r \in insts[i].srcs : Waits(j, result'[j].at, i, r)
  <2>1. \A j \in 1 .. Len(result) + 1 : \A c, i, r : Waits(j, c, i, r)' <=> Waits(j, c, i, r)
    BY WaitsKept
  <2>. QED
    BY <1>1, <2>1 DEF OvertakingJustified
<1>3. CASE j \in 1 .. Len(result)
  <2>1. result'[j] = result[j] /\ \A k \in 1 .. j - 1 : result'[k] = result[k]
    BY <1>1, <1>3
  <2>. QED
    BY <1>3, <2>1 DEF OvertakingJustified
<1>4. CASE j = Len(result) + 1
  <2>1. i \in 1 .. p - 1 /\ result'[j].at = cycle
    BY <1>1, <1>4
  <2>2. CASE i \in done
    <3>1. PICK k \in 1 .. Len(result) : result[k].inst = i
      BY <2>2 DEF OnceInv
    <3>. QED
      BY <1>1, <1>4, <3>1
  <2>3. CASE \E r \in insts[i].srcs : Waits(Len(result) + 1, cycle, i, r)
    BY <1>4, <2>1, <2>3
  <2>. QED
    BY <2>1, <2>2, <2>3
<1>. QED
  BY <1>1, <1>3, <1>4

\* One instruction more in the done set, the result and last_writer.
LEMMA OnceKept ==
  ASSUME SchedTypes, OnceInv, NEW p \in (1 .. Len(insts)) \ done,
         result' = Append(result, [inst |-> p, at |-> cycle]),
         done' = done \union {p}, issued' = issued + 1
  PROVE  OnceInv'
<1>1. /\ Len(result) \in Nat /\ Len(result') = Len(result) + 1
      /\ \A k \in 1 .. Len(result) : result'[k] = result[k]
      /\ result'[Len(result) + 1].inst = p
  BY Appended
<1>2. IsFiniteSet(done)
  <2>1. Len(insts) \in Nat /\ done \subseteq 1 .. Len(insts)
    BY DEF SchedTypes
  <2>2. IsFiniteSet(1 .. Len(insts))
    BY <2>1, FS_Interval
  <2>. QED
    BY <2>1, <2>2, FS_Subset
<1>3. Cardinality(done') = Cardinality(done) + 1
  BY <1>2, FS_AddElement
<1>. QED
  BY <1>1, <1>3 DEF OnceInv

LEMMA RateKept ==
  ASSUME SchedTypes, RateInv, NEW p \in 1 .. Len(insts), slot_issued < Width,
         result' = Append(result, [inst |-> p, at |-> cycle]), arch' = arch
  PROVE  /\ \A k \in 2 .. Len(result') : result'[k - 1].at <= result'[k].at
         /\ \A k \in Width + 1 .. Len(result') : result'[k - Width].at < result'[k].at
         /\ \A k \in 1 .. Len(result) - slot_issued : result'[k].at < cycle
<1>1. /\ Len(result) \in Nat /\ Len(result') = Len(result) + 1
      /\ \A k \in 1 .. Len(result) : result'[k] = result[k] /\ result[k].at \in 0 .. cycle
      /\ result'[Len(result) + 1].at = cycle
  BY Appended DEF Entry
<1>2. Width \in Nat /\ Width > 0 /\ slot_issued \in Nat /\ cycle \in Nat
  BY WidthPositive DEF SchedTypes
<1>3. \A k \in 2 .. Len(result') : result'[k - 1].at <= result'[k].at
  <2>1. TAKE k \in 2 .. Len(result')
  <2>2. CASE k = Len(result) + 1
    BY <1>1, <1>2, <2>2
  <2>3. CASE k \in 2 .. Len(result)
    BY <1>1, <1>2, <2>3 DEF RateInv
  <2>. QED
    BY <1>1, <2>2, <2>3
<1>4. \A k \in Width + 1 .. Len(result') : result'[k - Width].at < result'[k].at
  <2>1. TAKE k \in Width + 1 .. Len(result')
  <2>2. CASE k = Len(result) + 1
    <3>1. k - Width \in 1 .. Len(result) - slot_issued /\ k - Width \in 1 .. Len(result)
      BY <1>1, <1>2, <2>2
    <3>. QED
      BY <1>1, <2>2, <3>1 DEF RateInv
  <2>3. CASE k \in Width + 1 .. Len(result)
    <3>1. k \in 1 .. Len(result) /\ k - Width \in 1 .. Len(result)
      BY <1>1, <1>2, <2>3
    <3>. QED
      BY <1>1, <2>3, <3>1 DEF RateInv
  <2> DEFINE n == Len(result)
             w == Width
  <2>4. n \in Nat /\ w \in Nat /\ k \in w + 1 .. n + 1
    BY <1>1, <1>2
  <2> HIDE DEF n, w
  <2>5. k = n + 1 \/ k \in w + 1 .. n
    BY <2>4
  <2>. QED
    BY <2>2, <2>3, <2>5 DEF n, w
<1>5. \A k \in 1 .. Len(result) - slot_issued : result'[k].at < cycle
  BY <1>1, <1>2 DEF RateInv
<1>. QED
  BY <1>3, <1>4, <1>5

LEMMA WriterKept ==
  ASSUME SchedTypes, WriterInv, NEW p \in 1 .. Len(insts),
         result' = Append(result, [inst |-> p, at |-> cycle]),
         last_writer' = IF insts[p].dst = NoReg THEN last_writer
                        ELSE [last_writer EXCEPT ![insts[p].dst] = cycle],
         insts' = insts, before' = before
  PROVE  WriterInv' /\ last_writer' \in [Reg -> Int]
<1>1. /\ Len(result) \in Nat /\ Len(result') = Len(result) + 1
      /\ \A k \in 1 .. Len(result) : result'[k] = result[k]
      /\ result'[Len(result) + 1] = [inst |-> p, at |-> cycle]
  BY Appended
<1>2. insts[p] \in Inst /\ last_writer \in [Reg -> Int] /\ cycle \in Int
  BY DEF SchedTypes
<1>3. insts[p].dst \in Reg \union {NoReg}
  BY <1>2 DEF Inst
<1>4. last_writer' \in [Reg -> Int]
  BY <1>2, <1>3
<1>5. ASSUME NEW r \in Reg
      PROVE  \/ last_writer'[r] = before'[r] /\ \A k \in 1 .. Len(result') : insts'[result'[k].inst].dst # r
             \/ \E m \in 1 .. Len(result') :
                  /\ insts'[result'[m].inst].dst = r /\ last_writer'[r] = result'[m].at
                  /\ \A k \in m + 1 .. Len(result') : insts'[result'[k].inst].dst # r
  <2>1. CASE insts[p].dst = r
    <3>1. last_writer'[r] = cycle
      BY <1>2, <2>1, SchedulerAssumption
    <3>2. Len(result') \in 1 .. Len(result') /\ insts[result'[Len(result')].inst].dst = r
          /\ result'[Len(result')].at = cycle
      BY <1>1, <2>1
    <3>3. \A k \in Len(result') + 1 .. Len(result') : insts[result'[k].inst].dst # r
      BY <1>1
    <3>. QED
      BY <3>1, <3>2, <3>3
  <2>2. CASE insts[p].dst # r
    <3>1. last_writer'[r] = last_writer[r]
      BY <1>2, <1>3, <2>2
    <3>2. CASE last_writer[r] = before[r] /\ \A k \in 1 .. Len(result) : insts[result[k].inst].dst # r
      BY <1>1, <2>2, <3>1, <3>2
    <3>3. CASE \E m \in 1 .. Len(result) :
                 /\ insts[result[m].inst].dst = r /\ last_writer[r] = result[m].at
                 /\ \A k \in m + 1 .. Len(result) : insts[result[k].inst].dst # r
      <4>1. PICK m \in 1 .. Len(result) :
                 /\ insts[result[m].inst].dst = r /\ last_writer[r] = result[m].at
                 /\ \A k \in m + 1 .. Len(result) : insts[result[k].inst].dst # r
        BY <3>3
      <4>2. \A k \in m + 1 .. Len(result') : insts[result'[k].inst].dst # r
        BY <1>1, <2>2, <4>1
      <4>. QED
        <5>1. m \in 1 .. Len(result') /\ result'[m] = result[m]
          BY <1>1
        <5>. QED
          BY <3>1, <4>1, <4>2, <5>1
    <3>. QED
      BY <3>2, <3>3 DEF WriterInv
  <2>. QED
    BY <2>1, <2>2
<1>. QED
  BY <1>4, <1>5 DEF WriterInv

LEMMA IssueKeeps ==
  ASSUME IInv, Issue
  PROVE  IInv'
<1>1. /\ SchedTypes /\ CycleInv /\ OvertakingJustified /\ Len(insts) \in Nat
      /\ call # "idle" /\ (pos = 1 => issued < Len(insts)) /\ slot_issued < Width
      /\ pos \in (1 .. Len(insts)) \ done
      /\ insts' = insts /\ arch' = arch /\ before' = before /\ call' = call /\ cycle' = cycle /\ calls' = calls
      /\ done' = done \union {pos} /\ slot_issued' = slot_issued + 1 /\ pos' = pos + 1 /\ issued' = issued + 1
  BY DEF IInv, SchedTypes, Issue, Scanning, More, Issued
<1>2. Width' = Width /\ Width \in Nat /\ slot_issued \in Nat
  BY <1>1, WidthPositive DEF Width, SchedTypes
<1>3. CycleInv'
  BY <1>1, <1>2 DEF CycleInv, SchedTypes
<1>4. ASSUME result' \in Seq(Entry), last_writer' \in [Reg -> Int] PROVE SchedTypes'
  BY <1>1, <1>2, <1>4 DEF SchedTypes, Entry
<1>5. CASE call = "schedule"
  <2>1. /\ OnceInv /\ RateInv /\ WriterInv /\ PassedInv
        /\ result' = Append(result, [inst |-> pos, at |-> cycle])
        /\ last_writer' = IF insts[pos].dst = NoReg THEN last_writer
                          ELSE [last_writer EXCEPT ![insts[pos].dst] = cycle]
    BY <1>5 DEF IInv, Issue, Issued
  <2>2. /\ Len(result) \in Nat /\ Len(result') = Len(result) + 1
        /\ \A k \in 1 .. Len(result) : result'[k] = result[k] /\ result[k] \in Entry
        /\ result'[Len(result) + 1] = [inst |-> pos, at |-> cycle] /\ result' \in Seq(Entry)
    BY <1>1, <2>1, Appended
  <2>3. WriterInv' /\ last_writer' \in [Reg -> Int]
    BY <1>1, <2>1, WriterKept
  <2>4. OnceInv'
    BY <1>1, <2>1, OnceKept
  <2>5. RateInv'
    <3>1. /\ \A k \in 2 .. Len(result') : result'[k - 1].at <= result'[k].at
          /\ \A k \in Width + 1 .. Len(result') : result'[k - Width].at < result'[k].at
          /\ \A k \in 1 .. Len(result) - slot_issued : result'[k].at < cycle
      BY <1>1, <2>1, RateKept
    <3>2. Len(result') - slot_issued' = Len(result) - slot_issued
      BY <1>1, <1>2, <2>2
    <3>. QED
      BY <1>1, <1>2, <3>1, <3>2 DEF RateInv
  <2>6. PassedInv'
    <3>1. \A k \in 1 .. Len(result') : result'[k].at = cycle => result'[k].inst < pos + 1
      <4>1. TAKE k \in 1 .. Len(result')
      <4>2. CASE k = Len(result) + 1
        BY <1>1, <2>2, <4>2
      <4>3. CASE k \in 1 .. Len(result)
        <5>1. result'[k] = result[k] /\ result[k] \in Entry
          BY <2>2, <4>3
        <5>2. result[k].inst \in Nat
          BY <1>1, <5>1 DEF Entry
        <5>. QED
          BY <1>1, <2>1, <4>3, <5>1, <5>2 DEF PassedInv
      <4>. QED
        BY <2>2, <4>2, <4>3
    <3>2. PICK n \in Nat, c \in Nat : n = Len(result) /\ c = cycle
      BY <1>1, <2>2 DEF SchedTypes
    <3>3. \A i \in 1 .. pos : i \in done' \/ \E r \in insts[i].srcs : Waits(n + 2, c, i, r)'
      <4>1. TAKE i \in 1 .. pos
      <4>2. CASE i = pos
        BY <1>1, <4>2
      <4>3. CASE i \in 1 .. pos - 1 /\ i \notin done
        <5>1. PICK r \in insts[i].srcs : Waits(n + 1, c, i, r)
          BY <2>1, <3>2, <4>3 DEF PassedInv
        <5>2. n + 1 \in 1 .. Len(result) + 1 /\ pos \in 1 .. Len(insts)
          BY <1>1, <3>2
        <5>3. Waits(n + 1, c, i, r)'
          BY <1>1, <2>1, <5>1, <5>2, WaitsKept
        <5>4. WritesSeen(n + 2, c, i, r)' = WritesSeen(n + 1, c, i, r)'
          <6>1. ~(result'[n + 1].at < c \/ result'[n + 1].inst < i)
            BY <1>1, <2>2, <3>2, <4>3
          <6>2. 1 .. (n + 2) - 1 = (1 .. (n + 1) - 1) \union {n + 1}
            BY <3>2
          <6>. QED
            BY <6>1, <6>2 DEF WritesSeen
        <5>5. Waits(n + 2, c, i, r)'
          BY <5>3, <5>4 DEF Waits
        <5>. QED
          BY <5>5
      <4>. QED
        BY <1>1, <4>2, <4>3
    <3>4. Len(result') + 1 = n + 2 /\ pos' - 1 = pos /\ cycle' = c
      BY <1>1, <2>2, <3>2
    <3>. QED
      BY <1>1, <3>1, <3>2, <3>3, <3>4 DEF PassedInv
  <2>7. OvertakingJustified'
    BY <1>1, <2>1, OvertakingKept DEF PassedInv
  <2>. QED
    BY <1>1, <1>3, <1>4, <1>5, <2>2, <2>3, <2>4, <2>5, <2>6, <2>7 DEF IInv
<1>6. CASE call = "estimate"
  <2>1. result = <<>> /\ result' = result /\ last_writer' = last_writer
    BY <1>6 DEF IInv, Issue, Issued
  <2>2. SchedTypes'
    BY <1>1, <1>4, <2>1 DEF SchedTypes, Entry
  <2>3. OvertakingJustified'
    BY <2>1 DEF OvertakingJustified
  <2>. QED
    BY <1>1, <1>3, <1>6, <2>1, <2>2, <2>3 DEF IInv
<1>. QED
  BY <1>1, <1>5, <1>6 DEF SchedTypes

LEMMA Entries ==
  ASSUME SchedTypes
  PROVE  /\ Len(result) \in Nat /\ Len(insts) \in Nat /\ cycle \in Nat /\ result \in Seq(Entry)
         /\ \A k \in 1 .. Len(result) : result[k].inst \in 1 .. Len(insts) /\ result[k].at \in 0 .. cycle
<1>1. result \in Seq(Entry) /\ insts \in Seq(Inst) /\ cycle \in Nat
  BY DEF SchedTypes, Entry
<1>2. \A k \in 1 .. Len(result) : result[k] \in Entry
  BY <1>1
<1>3. \A e \in Entry : e.inst \in 1 .. Len(insts) /\ e.at \in 0 .. cycle
  BY DEF Entry
<1>. QED
  BY <1>1, <1>2, <1>3

LEMMA OvertakingUnmoved ==
  ASSUME OvertakingJustified, result' = result, insts' = insts, before' = before, arch' = arch
  PROVE  OvertakingJustified'
<1>1. \A i, w, c : Elapsed(i, w, c)' <=> Elapsed(i, w, c)
  BY DEF Elapsed
<1>2. \A j, c, i, r : WritesSeen(j, c, i, r)' = WritesSeen(j, c, i, r)
  BY DEF WritesSeen
<1>3. \A j, c, i, r : Waits(j, c, i, r)' <=> Waits(j, c, i, r)
  BY <1>1, <1>2 DEF Waits
<1>. QED
  BY <1>3 DEF OvertakingJustified

\* What is passed over is done, or waits for the last write of a source.
LEMMA PassOverKeeps ==
  ASSUME IInv, PassOver
  PROVE  IInv'
<1>1. /\ SchedTypes /\ CycleInv /\ OvertakingJustified /\ Len(insts) \in Nat
      /\ call # "idle" /\ (pos = 1 => issued < Len(insts)) /\ pos \in 1 .. Len(insts)
      /\ insts' = insts /\ arch' = arch /\ before' = before /\ call' = call /\ cycle' = cycle /\ calls' = calls
      /\ done' = done /\ slot_issued' = slot_issued /\ pos' = pos + 1 /\ issued' = issued
      /\ result' = result /\ last_writer' = last_writer
  BY DEF IInv, SchedTypes, PassOver, Scanning, More
<1>2. Width' = Width
  BY <1>1 DEF Width
<1>3. SchedTypes' /\ CycleInv'
  BY <1>1, <1>2 DEF CycleInv, SchedTypes
<1>4. OvertakingJustified'
  BY <1>1, OvertakingUnmoved
<1>5. ASSUME call = "schedule"
      PROVE  OnceInv' /\ RateInv' /\ WriterInv' /\ PassedInv'
  <2>1. OnceInv /\ RateInv /\ WriterInv /\ PassedInv
    BY <1>5 DEF IInv
  <2>2. OnceInv' /\ RateInv' /\ WriterInv'
    <3>1. OnceInv'
      BY <1>1, <2>1 DEF OnceInv
    <3>2. RateInv'
      BY <1>1, <1>2, <2>1 DEF RateInv
    <3>3. WriterInv'
      BY <1>1, <2>1 DEF WriterInv
    <3>. QED
      BY <3>1, <3>2, <3>3
  <2>3. /\ Len(result) \in Nat
        /\ \A k \in 1 .. Len(result) : result[k].inst \in Nat /\ result[k].at \in 0 .. cycle
        /\ \A k \in 1 .. Len(result) : result[k].at = cycle => result[k].inst < pos
    <3>1. /\ Len(result) \in Nat /\ Len(insts) \in Nat
          /\ \A k \in 1 .. Len(result) : result[k].inst \in 1 .. Len(insts) /\ result[k].at \in 0 .. cycle
      BY <1>1, Entries
    <3>. QED
      BY <2>1, <3>1 DEF PassedInv
  <2>4. \A r : WritesSeen(Len(result) + 1, cycle, pos, r)
                = {m \in 1 .. Len(result) : insts[result[m].inst].dst = r}
    <3>1. (Len(result) + 1) - 1 = Len(result) /\ cycle \in Nat
      BY <1>1, <2>3 DEF SchedTypes
    <3>2. \A m \in 1 .. Len(result) : result[m].at < cycle \/ result[m].inst < pos
      BY <2>3, <3>1
    <3>. QED
      BY <3>1, <3>2 DEF WritesSeen
  <2>5. pos \in done \/ \E r \in insts[pos].srcs : Waits(Len(result) + 1, cycle, pos, r)
    <3>1. SUFFICES ASSUME pos \notin done
                   PROVE  \E r \in insts[pos].srcs : Waits(Len(result) + 1, cycle, pos, r)
      OBVIOUS
    <3>2. PICK r \in insts[pos].srcs : last_writer[r] >= 0 /\ ~Elapsed(pos, last_writer[r], cycle)
      BY <3>1 DEF PassOver, CanIssue, Ready
    <3>3. insts[pos] \in Inst
      BY <1>1 DEF SchedTypes
    <3>4. r \in Reg
      BY <3>2, <3>3 DEF Inst
    <3>5. CASE last_writer[r] = before[r] /\ \A k \in 1 .. Len(result) : insts[result[k].inst].dst # r
      <4>1. WritesSeen(Len(result) + 1, cycle, pos, r) = {}
        BY <2>4, <3>5
      <4>. QED
        BY <3>2, <3>5, <4>1 DEF Waits
    <3>6. CASE \E m \in 1 .. Len(result) :
                 /\ insts[result[m].inst].dst = r /\ last_writer[r] = result[m].at
                 /\ \A k \in m + 1 .. Len(result) : insts[result[k].inst].dst # r
      <4>1. PICK m \in 1 .. Len(result) :
                 /\ insts[result[m].inst].dst = r /\ last_writer[r] = result[m].at
                 /\ \A k \in m + 1 .. Len(result) : insts[result[k].inst].dst # r
        BY <3>6
      <4>2. m \in WritesSeen(Len(result) + 1, cycle, pos, r)
        BY <2>4, <4>1
      <4>3. \A k \in WritesSeen(Len(result) + 1, cycle, pos, r) : k <= m
        BY <2>3, <2>4, <4>1
      <4>. QED
        BY <3>2, <4>1, <4>2, <4>3 DEF Waits
    <3>. QED
      BY <2>1, <3>4, <3>5, <3>6 DEF WriterInv
  <2>6. PassedInv'
    <3>1. \A i \in 1 .. pos : i \in done \/ \E r \in insts[i].srcs : Waits(Len(result) + 1, cycle, i, r)
      BY <1>1, <2>1, <2>5 DEF PassedInv
    <3>2. pos' - 1 = pos /\ \A k \in 1 .. Len(result) : result[k].at = cycle => result[k].inst < pos + 1
      BY <1>1, <2>3
    <3>3. \A i, r : Waits(Len(result) + 1, cycle, i, r)' <=> Waits(Len(result) + 1, cycle, i, r)
      BY <1>1 DEF Waits, WritesSeen, Elapsed
    <3>. QED
      BY <1>1, <3>1, <3>2, <3>3 DEF PassedInv
  <2>. QED
    BY <2>2, <2>6
<1>. QED
  BY <1>1, <1>3, <1>4, <1>5 DEF IInv

LEMMA EndCycleKeeps ==
  ASSUME IInv, EndCycle
  PROVE  IInv'
<1>1. /\ SchedTypes /\ CycleInv /\ OvertakingJustified /\ Len(insts) \in Nat
      /\ call # "idle" /\ pos > 1 /\ slot_issued > 0
      /\ insts' = insts /\ arch' = arch /\ before' = before /\ call' = call /\ cycle' = cycle + 1 /\ calls' = calls
      /\ done' = done /\ slot_issued' = 0 /\ pos' = 1 /\ issued' = issued
      /\ result' = result /\ last_writer' = last_writer
  BY DEF IInv, SchedTypes, EndCycle, Scanned
<1>2. Width' = Width /\ Width \in Nat
  BY <1>1, WidthPositive DEF Width
<1>3. SchedTypes'
  <2>1. 0 .. cycle \subseteq 0 .. cycle + 1
    BY <1>1 DEF SchedTypes
  <2>2. result \in Seq([inst : 1 .. Len(insts), at : 0 .. cycle + 1])
    <3>1. [inst : 1 .. Len(insts), at : 0 .. cycle] \subseteq [inst : 1 .. Len(insts), at : 0 .. cycle + 1]
      BY <2>1
    <3>2. result \in Seq([inst : 1 .. Len(insts), at : 0 .. cycle])
      BY <1>1 DEF SchedTypes
    <3>. QED
      BY <3>1, <3>2, SeqMonotonic
  <2>. QED
    BY <1>1, <1>2, <2>2 DEF SchedTypes
<1>4. CycleInv'
  BY <1>1, <1>2 DEF CycleInv, SchedTypes
<1>5. OvertakingJustified'
  BY <1>1, OvertakingUnmoved
<1>6. ASSUME call = "schedule"
      PROVE  OnceInv' /\ RateInv' /\ WriterInv' /\ PassedInv'
  <2>1. OnceInv /\ RateInv /\ WriterInv
    BY <1>6 DEF IInv
  <2>2. Len(result) \in Nat /\ cycle \in Nat /\ \A k \in 1 .. Len(result) : result[k].at \in 0 .. cycle
    BY <1>1, Entries
  <2>3. OnceInv' /\ WriterInv'
    BY <1>1, <2>1 DEF OnceInv, WriterInv
  <2>4. \A k \in 1 .. Len(result) : result[k].at < cycle + 1
    BY <2>2
  <2>5. RateInv'
    <3>1. \A k \in 1 .. Len(result') - slot_issued' : result'[k].at < cycle'
      BY <1>1, <2>2, <2>4
    <3>. QED
      BY <1>1, <1>2, <2>1, <3>1 DEF RateInv
  <2>6. PassedInv'
    <3>1. \A k \in 1 .. Len(result') : result'[k].at # cycle'
      BY <1>1, <2>2, <2>4
    <3>2. 1 .. pos' - 1 = {}
      BY <1>1
    <3>. QED
      BY <3>1, <3>2 DEF PassedInv
  <2>. QED
    BY <2>3, <2>5, <2>6
<1>. QED
  BY <1>1, <1>3, <1>4, <1>5, <1>6 DEF IInv

\* schedule forces the first instruction that waits: all in front of it are done.
LEMMA ForceKeeps ==
  ASSUME IInv, IssueForced
  PROVE  IInv'
<1>1. /\ SchedTypes /\ CycleInv /\ OvertakingJustified /\ Len(insts) \in Nat
      /\ call # "idle" /\ pos > 1 /\ slot_issued = 0
      /\ insts' = insts /\ arch' = arch /\ before' = before /\ call' = call /\ cycle' = cycle + 1 /\ calls' = calls
      /\ slot_issued' = 0 /\ pos' = 1 /\ issued' = issued + 1
  BY DEF IInv, SchedTypes, IssueForced, Scanned, Issued
<1>2. PICK p \in 1 .. Len(insts) : Forced(p) /\ Issued(p) /\ done' = done \union {p}
  <2>1. DOMAIN insts = 1 .. Len(insts)
    BY <1>1 DEF SchedTypes
  <2>. QED
    BY <2>1, Zenon DEF IssueForced
<1>3. Width' = Width /\ Width \in Nat /\ Width > 0
  BY <1>1, WidthPositive DEF Width
<1>4. issued < Len(insts) /\ issued \in Nat /\ cycle \in Nat
  BY <1>1 DEF CycleInv, SchedTypes
<1>5. CycleInv'
  BY <1>1, <1>4 DEF CycleInv, SchedTypes
<1>6. [inst : 1 .. Len(insts), at : 0 .. cycle] \subseteq [inst : 1 .. Len(insts), at : 0 .. cycle + 1]
  BY <1>4
<1>7. ASSUME result' \in Seq(Entry), last_writer' \in [Reg -> Int]
      PROVE  SchedTypes'
  <2>1. result' \in Seq([inst : 1 .. Len(insts), at : 0 .. cycle + 1])
    BY <1>6, <1>7, SeqMonotonic DEF Entry
  <2>. QED
    BY <1>1, <1>2, <1>3, <1>4, <1>7, <2>1 DEF SchedTypes
<1>8. CASE call = "schedule"
  <2>1. OnceInv /\ RateInv /\ WriterInv
    BY <1>8 DEF IInv
  <2>2. p \in (1 .. Len(insts)) \ done /\ \A i \in 1 .. p - 1 : i \in done
    BY <1>2, <1>8 DEF Forced, FirstWaiting
  <2>3. /\ result' = Append(result, [inst |-> p, at |-> cycle])
        /\ last_writer' = IF insts[p].dst = NoReg THEN last_writer
                          ELSE [last_writer EXCEPT ![insts[p].dst] = cycle]
    BY <1>2, <1>8 DEF Issued
  <2>4. /\ Len(result) \in Nat /\ Len(result') = Len(result) + 1
        /\ \A k \in 1 .. Len(result) : result'[k] = result[k]
        /\ result'[Len(result) + 1] = [inst |-> p, at |-> cycle] /\ result' \in Seq(Entry)
    BY <1>1, <2>2, <2>3, Appended
  <2>5. WriterInv' /\ last_writer' \in [Reg -> Int]
    BY <1>1, <2>1, <2>2, <2>3, WriterKept
  <2>6. OnceInv'
    BY <1>1, <1>2, <2>1, <2>2, <2>3, OnceKept
  <2>7. \A k \in 1 .. Len(result') : result'[k].at \in 0 .. cycle
    BY <1>1, <2>4, Entries
  <2>8. RateInv'
    <3>1. /\ \A k \in 2 .. Len(result') : result'[k - 1].at <= result'[k].at
          /\ \A k \in Width + 1 .. Len(result') : result'[k - Width].at < result'[k].at
      BY <1>1, <1>3, <2>1, <2>2, <2>3, RateKept
    <3>2. \A k \in 1 .. Len(result') - slot_issued' : result'[k].at < cycle'
      BY <1>1, <1>4, <2>4, <2>7
    <3>. QED
      BY <1>3, <3>1, <3>2 DEF RateInv
  <2>9. PassedInv'
    BY <1>1, <1>4, <2>7 DEF PassedInv
  <2>10. OvertakingJustified'
    BY <1>1, <2>1, <2>2, <2>3, OvertakingKept
  <2>11. SchedTypes'
    BY <1>7, <2>2, <2>4, <2>5
  <2>. QED
    BY <1>1, <1>5, <1>8, <2>5, <2>6, <2>8, <2>9, <2>10, <2>11 DEF IInv
<1>9. CASE call = "estimate"
  <2>1. result = <<>> /\ result' = result /\ last_writer' = last_writer
    BY <1>2, <1>9 DEF IInv, Issued
  <2>2. SchedTypes'
    BY <1>1, <1>4, <1>7, <2>1 DEF SchedTypes, Entry
  <2>3. OvertakingJustified'
    BY <2>1 DEF OvertakingJustified
  <2>. QED
    BY <1>1, <1>5, <1>9, <2>1, <2>2, <2>3 DEF IInv
<1>. QED
  BY <1>1, <1>8, <1>9 DEF SchedTypes

\* Between calls the invariant says what the last call left behind.
LEMMA IdleKeeps ==
  ASSUME IInv, Return \/ UNCHANGED schedVars
  PROVE  IInv'
<1>1. /\ SchedTypes /\ CycleInv /\ OvertakingJustified
      /\ insts' = insts /\ arch' = arch /\ before' = before /\ cycle' = cycle /\ calls' = calls
      /\ done' = done /\ slot_issued' = slot_issued /\ pos' = pos /\ issued' = issued
      /\ result' = result /\ last_writer' = last_writer /\ (call' = call \/ call' = "idle")
  BY DEF IInv, Return, schedVars
<1>2. SchedTypes' /\ CycleInv'
  BY <1>1 DEF SchedTypes, CycleInv, Width
<1>3. OvertakingJustified'
  BY <1>1, OvertakingUnmoved
<1>4. ASSUME call = "schedule"
      PROVE  OnceInv' /\ RateInv' /\ WriterInv' /\ PassedInv'
  <2>1. OnceInv /\ RateInv /\ WriterInv /\ PassedInv
    BY <1>4 DEF IInv
  <2>2. OnceInv' /\ WriterInv'
    BY <1>1, <2>1 DEF OnceInv, WriterInv
  <2>3. RateInv'
    BY <1>1, <2>1 DEF RateInv, Width
  <2>4. \A j, c, i, r : Waits(j, c, i, r)' <=> Waits(j, c, i, r)
    BY <1>1 DEF Waits, WritesSeen, Elapsed
  <2>5. PassedInv'
    BY <1>1, <2>1, <2>4 DEF PassedInv
  <2>. QED
    BY <2>2, <2>3, <2>5
<1>. QED
  BY <1>1, <1>2, <1>3, <1>4 DEF IInv

\* The invariant holds for every set of devices and programs.
THEOREM SchedulerInvariance == Spec => []IInv
<1>1. Init => IInv
  BY StartsWell
<1>2. IInv /\ [Next]_vars => IInv'
  <2>. SUFFICES ASSUME IInv, [Next]_vars PROVE IInv'
    OBVIOUS
  <2>1. CASE \E which \in {"schedule", "estimate"}, program \in Programs : Begin(which, program)
    BY <2>1, BeginKeeps
  <2>2. CASE Issue
    BY <2>2, IssueKeeps
  <2>3. CASE PassOver
    BY <2>3, PassOverKeeps
  <2>4. CASE EndCycle
    BY <2>4, EndCycleKeeps
  <2>5. CASE IssueForced
    BY <2>5, ForceKeeps
  <2>6. CASE Return
    BY <2>6, IdleKeeps
  <2>7. CASE \E M, N \in Dims : PlanSwmmacInt4(M, N)
    BY <2>7, IdleKeeps DEF PlanSwmmacInt4
  <2>8. CASE UNCHANGED vars
    BY <2>8, IdleKeeps DEF vars
  <2>. QED
    BY <2>1, <2>2, <2>3, <2>4, <2>5, <2>6, <2>7, <2>8 DEF Next, SchedNext
<1>. QED
  BY <1>1, <1>2, PTL DEF Spec

\* When schedule returns it has issued every instruction once, cycle by cycle
\* and within the issue width, forced issues included.
THEOREM ScheduledOnceTheorem == Spec => []ScheduledOnce
<1>1. ASSUME IInv, call = "schedule", Finished
      PROVE  /\ Len(result) = Len(insts)
             /\ {result[k].inst : k \in DOMAIN result} = DOMAIN insts
  <2>1. /\ SchedTypes /\ OnceInv /\ Len(insts) \in Nat /\ done \subseteq 1 .. Len(insts)
        /\ DOMAIN insts = 1 .. Len(insts) /\ DOMAIN result = 1 .. Len(result)
        /\ issued >= Len(insts) /\ issued \in Nat
    BY <1>1 DEF IInv, SchedTypes, Finished
  <2>2. PICK n \in Nat : n = Len(insts)
    BY <2>1
  <2>3. IsFiniteSet(1 .. n) /\ Cardinality(1 .. n) = n
    <3>1. IsFiniteSet(1 .. n) /\ Cardinality(1 .. n) = IF 1 > n THEN 0 ELSE n - 1 + 1
      BY FS_Interval
    <3>. QED
      BY <3>1
  <2>4. issued = n /\ Len(result) = n /\ done = 1 .. n
    <3>1. done \in SUBSET (1 .. n)
      BY <2>1, <2>2
    <3>2. Cardinality(done) <= n /\ (n = Cardinality(done) => 1 .. n = done)
      BY <2>3, <3>1, FS_Subset
    <3>3. Cardinality(done) = issued /\ Len(result) = issued
      BY <2>1 DEF OnceInv
    <3>4. issued \in Nat /\ issued >= n /\ issued <= n
      BY <2>1, <2>2, <3>2, <3>3
    <3>5. issued = n
      BY <3>4
    <3>. QED
      BY <3>2, <3>3, <3>5, Zenon
  <2>5. \A i : i \in done <=> \E k \in 1 .. Len(result) : result[k].inst = i
    BY <2>1, Zenon DEF OnceInv
  <2>6. {result[k].inst : k \in 1 .. Len(result)} = done
    BY <2>5, Zenon
  <2>. QED
    BY <2>1, <2>2, <2>4, <2>6
<1>2. IInv => ScheduledOnce
  BY <1>1 DEF IInv, RateInv, ScheduledOnce
<1>. QED
  BY <1>2, SchedulerInvariance, PTL

\* schedule lets an instruction overtake only one that waits for a register.
THEOREM OvertakingTheorem == Spec => []OvertakingJustified
<1>1. IInv => OvertakingJustified
  BY DEF IInv
<1>. QED
  BY <1>1, SchedulerInvariance, PTL

\* Neither call runs longer than one cycle an instruction: the forced issue
\* leaves no cycle empty, however long a stale last_writer makes it wait.
THEOREM CallsEnd == Spec => [](cycle <= Len(insts))
<1>1. IInv => cycle <= Len(insts)
  BY DEF IInv, CycleInv
<1>. QED
  BY <1>1, SchedulerInvariance, PTL

-----------------------------------------------------------------------------
\* A cycle more is a width more.
LEMMA OneCycleMore ==
  ASSUME NEW c \in Nat, NEW w \in Nat
  PROVE  /\ c * w \in Nat /\ (c + 1) * w = c * w + w
         /\ (c - 1) * w = c * w - w
  OBVIOUS

LEMMA CountStart ==
  ASSUME NEW which \in {"schedule", "estimate"}, NEW program \in Programs, Begin(which, program)
  PROVE  CountInv'
<1>1. /\ issued' = 0 /\ cycle' = 0 /\ slot_issued' = 0 /\ pos' = 1 /\ done' = {}
      /\ last_writer' = before' /\ Width' = Width
  BY DEF Begin, Width
<1>2. 0 * Width = 0 /\ 1 .. 0 = {}
  BY WidthPositive
<1>3. issued' = cycle' * Width' + slot_issued'
  BY <1>1, <1>2
<1>4. AsListed'
  <2>1. done' = 1 .. issued'
    BY <1>1, <1>2
  <2>. QED
    BY <1>1, <1>3, <2>1 DEF AsListed
<1>5. issued' <= cycle' * Width' + slot_issued'
  BY <1>1, <1>3
<1>. QED
  BY <1>1, <1>4, <1>5 DEF CountInv

\* With nothing written every instruction may issue.
LEMMA NothingWaits ==
  ASSUME SchedTypes, last_writer = before, Unwritten, NEW i \in 1 .. Len(insts)
  PROVE  CanIssue(i)
<1>1. insts[i] \in Inst
  BY DEF SchedTypes
<1>2. insts[i].srcs \subseteq Reg
  BY <1>1 DEF Inst
<1>. QED
  BY <1>2 DEF Unwritten, CanIssue

LEMMA CountIssue ==
  ASSUME IInv, CountInv, call = "estimate", Issue
  PROVE  CountInv'
<1>1. /\ SchedTypes /\ last_writer = before /\ issued <= cycle * Width + slot_issued
      /\ (Unwritten => AsListed) /\ slot_issued < Width
      /\ Len(insts) \in Nat /\ pos \in (1 .. Len(insts)) \ done
      /\ insts' = insts /\ arch' = arch /\ before' = before /\ call' = call /\ cycle' = cycle
      /\ last_writer' = last_writer /\ done' = done \union {pos}
      /\ slot_issued' = slot_issued + 1 /\ pos' = pos + 1 /\ issued' = issued + 1
  BY DEF IInv, CountInv, SchedTypes, Issue, Issued, Scanning
<1>2. /\ Width' = Width /\ Width \in Nat /\ cycle * Width \in Nat
      /\ issued \in Nat /\ slot_issued \in Nat
  BY <1>1, WidthPositive, OneCycleMore DEF Width, SchedTypes
<1>3. issued' <= cycle' * Width' + slot_issued'
  BY <1>1, <1>2
<1>4. ASSUME Unwritten PROVE AsListed'
  <2>1. AsListed
    BY <1>1, <1>4
  <2>2. pos = issued + 1
    BY <1>1, <1>2, <2>1 DEF AsListed
  <2>3. issued < Len(insts)
    BY <1>1, <1>2, <2>2
  <2>4. issued = cycle * Width + slot_issued
    BY <1>1, <1>2, <2>1, <2>3 DEF AsListed
  <2>5. done' = 1 .. issued'
    BY <1>1, <1>2, <2>1, <2>2 DEF AsListed
  <2>6. pos' = issued' + 1 /\ issued' = cycle' * Width' + slot_issued'
    BY <1>1, <1>2, <2>2, <2>4
  <2>. QED
    BY <1>1, <1>2, <2>5, <2>6 DEF AsListed
<1>5. Unwritten' => Unwritten
  BY <1>1 DEF Unwritten
<1>. QED
  BY <1>1, <1>3, <1>4, <1>5 DEF CountInv

LEMMA CountPassOver ==
  ASSUME IInv, CountInv, call = "estimate", PassOver
  PROVE  CountInv'
<1>1. /\ SchedTypes /\ CycleInv /\ last_writer = before /\ issued <= cycle * Width + slot_issued
      /\ (Unwritten => AsListed) /\ (pos = 1 => issued < Len(insts))
      /\ Len(insts) \in Nat /\ pos \in 1 .. Len(insts) /\ (pos \in done \/ ~CanIssue(pos))
      /\ insts' = insts /\ arch' = arch /\ before' = before /\ call' = call /\ cycle' = cycle
      /\ last_writer' = last_writer /\ done' = done
      /\ slot_issued' = slot_issued /\ pos' = pos + 1 /\ issued' = issued
  BY DEF IInv, CountInv, SchedTypes, PassOver, Scanning, More
<1>2. Width' = Width /\ issued \in Nat /\ slot_issued \in Nat
  BY <1>1, WidthPositive DEF Width, SchedTypes
<1>3. ASSUME Unwritten PROVE AsListed'
  <2>1. AsListed /\ pos \in done
    BY <1>1, <1>3, NothingWaits
  <2>2. pos <= issued
    BY <1>1, <1>2, <2>1 DEF AsListed
  <2>3. slot_issued = 0 /\ issued = cycle * Width + slot_issued
    BY <1>1, <1>2, <2>1, <2>2 DEF AsListed
  <2>. QED
    BY <1>1, <1>2, <2>1, <2>2, <2>3 DEF AsListed
<1>4. Unwritten' => Unwritten
  BY <1>1 DEF Unwritten
<1>. QED
  BY <1>1, <1>2, <1>3, <1>4 DEF CountInv

LEMMA CountEndCycle ==
  ASSUME IInv, CountInv, call = "estimate", EndCycle
  PROVE  CountInv'
<1>1. /\ SchedTypes /\ last_writer = before /\ issued <= cycle * Width + slot_issued
      /\ (Unwritten => AsListed) /\ slot_issued > 0 /\ pos > 1
      /\ (pos > Len(insts) \/ slot_issued = Width)
      /\ insts' = insts /\ arch' = arch /\ before' = before /\ call' = call /\ cycle' = cycle + 1
      /\ last_writer' = last_writer /\ done' = done
      /\ slot_issued' = 0 /\ pos' = 1 /\ issued' = issued
  BY DEF IInv, CountInv, EndCycle, Scanned
<1>2. /\ Width' = Width /\ Width \in Nat /\ cycle \in Nat /\ issued \in Nat
      /\ slot_issued \in 0 .. Width /\ Len(insts) \in Nat /\ pos \in 1 .. Len(insts) + 1
      /\ done \subseteq 1 .. Len(insts)
  BY <1>1, WidthPositive DEF Width, SchedTypes
<1>3. /\ cycle * Width \in Nat /\ (cycle + 1) * Width = cycle * Width + Width
      /\ (cycle + 1 - 1) * Width = cycle * Width
  BY <1>2, OneCycleMore
<1>4. issued' <= cycle' * Width' + slot_issued'
  BY <1>1, <1>2, <1>3
<1>5. ASSUME Unwritten PROVE AsListed'
  <2>1. AsListed
    BY <1>1, <1>5
  <2>2. pos = issued + 1 /\ issued = cycle * Width + slot_issued
    BY <1>1, <1>2, <2>1 DEF AsListed
  <2>3. CASE slot_issued = Width
    <3>1. issued' = cycle' * Width' + slot_issued'
      BY <1>1, <1>2, <1>3, <2>2, <2>3
    <3>. QED
      BY <1>1, <1>2, <2>1, <3>1 DEF AsListed
  <2>4. CASE pos > Len(insts)
    <3>1. issued' = Len(insts') /\ (cycle' - 1) * Width' < issued'
      BY <1>1, <1>2, <1>3, <2>2, <2>4
    <3>. QED
      BY <1>1, <1>2, <2>1, <3>1 DEF AsListed
  <2>. QED
    BY <1>1, <2>3, <2>4
<1>6. Unwritten' => Unwritten
  BY <1>1 DEF Unwritten
<1>. QED
  BY <1>1, <1>4, <1>5, <1>6 DEF CountInv

\* A cycle without an issue is never met while nothing is written.
LEMMA CountForced ==
  ASSUME IInv, CountInv, call = "estimate", IssueForced
  PROVE  CountInv'
<1>1. /\ SchedTypes /\ CycleInv /\ last_writer = before /\ issued <= cycle * Width + slot_issued
      /\ (Unwritten => AsListed) /\ slot_issued = 0 /\ pos > 1
      /\ (pos > Len(insts) \/ slot_issued = Width)
      /\ insts' = insts /\ arch' = arch /\ before' = before /\ call' = call /\ cycle' = cycle + 1
      /\ last_writer' = last_writer
      /\ slot_issued' = 0 /\ pos' = 1 /\ issued' = issued + 1
  BY DEF IInv, CountInv, IssueForced, Issued, Scanned
<1>2. /\ Width' = Width /\ Width \in Nat /\ Width > 0 /\ cycle \in Nat /\ issued \in Nat
      /\ Len(insts) \in Nat /\ pos \in 1 .. Len(insts) + 1
  BY <1>1, WidthPositive DEF Width, SchedTypes
<1>3. cycle * Width \in Nat /\ (cycle + 1) * Width = cycle * Width + Width
  BY <1>2, OneCycleMore
<1>4. issued' <= cycle' * Width' + slot_issued'
  BY <1>1, <1>2, <1>3
<1>5. ASSUME Unwritten PROVE FALSE
  <2>1. pos <= issued + 1
    BY <1>1, <1>5 DEF AsListed
  <2>2. issued < Len(insts)
    BY <1>1 DEF CycleInv
  <2>. QED
    BY <1>1, <1>2, <2>1, <2>2
<1>6. Unwritten' => Unwritten
  BY <1>1 DEF Unwritten
<1>. QED
  BY <1>1, <1>4, <1>5, <1>6 DEF CountInv

LEMMA CountKept ==
  ASSUME IInv, CountInv, [Next]_vars
  PROVE  CountInv'
<1>1. CASE \E which \in {"schedule", "estimate"}, program \in Programs : Begin(which, program)
  BY <1>1, CountStart
<1>2. CASE call = "estimate" /\ (Issue \/ PassOver \/ EndCycle \/ IssueForced)
  BY <1>2, CountIssue, CountPassOver, CountEndCycle, CountForced
<1>3. CASE call # "estimate" /\ (Issue \/ PassOver \/ EndCycle \/ IssueForced)
  <2>1. call' = call
    BY <1>3 DEF Issue, PassOver, EndCycle, IssueForced
  <2>. QED
    BY <1>3, <2>1 DEF CountInv
<1>4. CASE Return
  BY <1>4 DEF Return, CountInv
<1>5. CASE UNCHANGED schedVars
  BY <1>5 DEF schedVars, CountInv, AsListed, Unwritten, Width
<1>6. CASE \E M, N \in Dims : PlanSwmmacInt4(M, N)
  BY <1>5, <1>6 DEF PlanSwmmacInt4
<1>7. CASE UNCHANGED vars
  BY <1>5, <1>7 DEF vars
<1>. QED
  BY <1>1, <1>2, <1>3, <1>4, <1>6, <1>7 DEF Next, SchedNext

\* estimate_cycles answers at least the instructions by the width and at most
\* one cycle an instruction; on a scheduler that has written no register it
\* answers the former, rounded up, whatever the instructions depend on.
THEOREM EstimateTheorem == Spec => []EstimateBlind
<1>1. Init => CountInv
  BY DEF Init, SchedInit, CountInv
<1>2. IInv /\ CountInv /\ [Next]_vars => CountInv'
  BY CountKept
<1>3. IInv /\ CountInv => EstimateBlind
  <2>. SUFFICES ASSUME IInv, CountInv, call = "estimate", Finished
                PROVE  /\ cycle * Width >= Len(insts)
                       /\ cycle <= Len(insts)
                       /\ (\A r \in Reg : before[r] = -1) => (cycle - 1) * Width < Len(insts)
    BY DEF EstimateBlind
  <2>1. /\ SchedTypes /\ CycleInv /\ pos = 1 /\ issued >= Len(insts)
        /\ issued <= cycle * Width + slot_issued /\ (Unwritten => AsListed)
    BY DEF IInv, CountInv, Finished
  <2>2. /\ Width \in Nat /\ Width > 0 /\ cycle \in Nat /\ issued \in Nat
        /\ Len(insts) \in Nat /\ done \subseteq 1 .. Len(insts) /\ slot_issued \in Nat
    BY <2>1, WidthPositive DEF SchedTypes
  <2>3. slot_issued = 0 /\ cycle <= Len(insts)
    BY <2>1, <2>2 DEF CycleInv
  <2>4. cycle * Width \in Nat /\ (cycle - 1) * Width = cycle * Width - Width
    BY <2>2, OneCycleMore
  <2>5. cycle * Width >= Len(insts)
    BY <2>1, <2>2, <2>3, <2>4
  <2>6. ASSUME Unwritten PROVE (cycle - 1) * Width < Len(insts)
    <3>1. AsListed
      BY <2>1, <2>6
    <3>2. issued <= Len(insts)
      <4>1. CASE issued = 0
        BY <2>2, <4>1
      <4>2. CASE issued > 0
        <5>1. issued \in done
          BY <2>2, <3>1, <4>2 DEF AsListed
        <5>. QED
          BY <2>2, <5>1
      <4>. QED
        BY <2>2, <4>1, <4>2
    <3>. QED
      BY <2>1, <2>2, <2>3, <2>4, <3>1, <3>2 DEF AsListed
  <2>. QED
    BY <2>3, <2>5, <2>6 DEF Unwritten
<1>. QED
  BY <1>1, <1>2, <1>3, SchedulerInvariance, PTL DEF Spec

-----------------------------------------------------------------------------
\* Division by truncation, and the round-up division plan_swmmac_int4 writes.
LEMMA Division ==
  ASSUME NEW a \in Nat, NEW b \in Nat \ {0}
  PROVE  /\ a \div b \in Nat
         /\ b * (a \div b) <= a /\ a < b * (a \div b) + b
<1>1. a \div b \in Int
  OBVIOUS
<1>2. b * (a \div b) <= a
  OBVIOUS
<1>3. a < b * (a \div b) + b
  OBVIOUS
<1>4. \A q \in Int : q < 0 => b * q <= -b
  OBVIOUS
<1>. QED
  BY <1>1, <1>2, <1>3, <1>4

LEMMA RoundedUp ==
  ASSUME NEW a \in Nat, NEW b \in Nat \ {0}
  PROVE  /\ CeilDiv(a, b) \in Nat
         /\ b * CeilDiv(a, b) >= a /\ (CeilDiv(a, b) - 1) * b < a
<1>1. a + b - 1 \in Nat
  OBVIOUS
<1>2. PICK q \in Nat : q = CeilDiv(a, b) /\ b * q <= a + b - 1 /\ a + b - 1 < b * q + b
  BY <1>1, Division DEF CeilDiv
<1>3. b * q \in Nat /\ (q - 1) * b = b * q - b
  OBVIOUS
<1>4. b * q >= a /\ (q - 1) * b < a
  BY <1>2, <1>3
<1>. QED
  BY <1>2, <1>4

\* A larger quotient cannot come from fewer parts: n launches of at most w waves
\* hold at most w * n.
LEMMA Parts ==
  ASSUME NEW t \in Nat, NEW n \in Nat \ {0}, NEW w \in Nat \ {0}, (n - 1) * w < t, t <= w * n
  PROVE  t \div n \in 1 .. w /\ t - (t \div n) * n \in 0 .. n - 1
<1>1. PICK q \in Nat : q = t \div n /\ n * q <= t /\ t < n * q + n
  BY Division
<1>2. q <= w
  <2>1. SUFFICES ASSUME q >= w + 1 PROVE FALSE
    OBVIOUS
  <2>2. n * q >= n * (w + 1) /\ n * (w + 1) = w * n + n
    BY <2>1
  <2>3. w * n \in Nat /\ n * q \in Nat
    OBVIOUS
  <2>. QED
    BY <1>1, <2>2, <2>3
<1>3. q >= 1
  <2>1. SUFFICES ASSUME q = 0 PROVE FALSE
    OBVIOUS
  <2>2. t < n
    BY <1>1, <2>1
  <2>3. (n - 1) * w >= n - 1
    OBVIOUS
  <2>. QED
    BY <2>2, <2>3
<1>4. q * n = n * q /\ n * q \in Nat
  OBVIOUS
<1>. QED
  BY <1>1, <1>2, <1>3, <1>4

LEMMA CoresPositive == \A sm : ModelFor(sm).sm_count \in Nat \ {0}
<1>1. ASSUME NEW width, NEW cores, NEW latency
      PROVE  Model(width, cores, latency).sm_count = cores
  BY DEF Model
<1>2. Pascal.sm_count = 10 /\ Broadwell.sm_count = 18
  BY <1>1 DEF Pascal, Broadwell
<1>3. RDNA4.sm_count = 32 /\ CortexA78.sm_count = 8
  BY <1>1 DEF RDNA4, CortexA78
<1>4. Volta.sm_count = 80 /\ Ampere.sm_count = 108 /\ Hopper.sm_count = 132
  BY <1>1 DEF Volta, Ampere, Hopper
<1>5. Zen4.sm_count = 8 /\ Zen5.sm_count = 16
  BY <1>1 DEF Zen4, Zen5
<1>. TAKE sm
<1>6. ModelFor(sm) \in {Pascal, Volta, Ampere, Hopper, Broadwell, Zen4, Zen5, RDNA4, CortexA78}
  BY Zenon DEF ModelFor
<1>. QED
  BY <1>2, <1>3, <1>4, <1>5, <1>6

\* What the planner counts is a natural number for every problem.
LEMMA WavesCounted ==
  ASSUME NEW M \in Nat, NEW N \in Nat, NEW chain \in {14, 16}, NEW sm
  PROVE  /\ GridM(M, chain) \in Nat /\ BaseTile * chain * GridM(M, chain) >= M
         /\ GridN(N) \in Nat /\ BaseTile * GridN(N) >= N
         /\ TotalWaves(M, N, chain) \in Nat /\ MaxWaves(ModelFor(sm), chain) \in Nat \ {0}
         /\ DualWave(chain)
<1>1. BaseTile * chain \in Nat \ {0} /\ BaseTile \in Nat \ {0} /\ DualWave(chain)
  BY DEF BaseTile, DualWave
<1>2. GridM(M, chain) \in Nat /\ BaseTile * chain * GridM(M, chain) >= M
  BY <1>1, RoundedUp DEF GridM
<1>3. GridN(N) \in Nat /\ BaseTile * GridN(N) >= N
  BY <1>1, RoundedUp DEF GridN
<1>4. TotalWaves(M, N, chain) \in Nat
  <2>1. \A a, b \in Nat : a * b * 4 \in Nat
    OBVIOUS
  <2>. QED
    BY <1>1, <1>2, <1>3, <2>1 DEF TotalWaves
<1>5. MaxWaves(ModelFor(sm), chain) \in Nat \ {0}
  BY <1>1, CoresPositive DEF MaxWaves
<1>. QED
  BY <1>1, <1>2, <1>3, <1>4, <1>5

\* The predicted throughput of a launch count beyond zero is at most three times
\* and at least twice the base rate, and the chain of 14 has nearly twice the base.
LEMMA ShorterChainWins ==
  ASSUME NEW m \in Nat \ {0}, NEW n \in Nat \ {0}
  PROVE  ~Better(Tops(16, n), Tops(14, m))
<1>1. DualWave(14) /\ DualWave(16)
  BY DEF DualWave
<1>2. Tops(16, n) = <<53 * 9 * (2 * n + 1), n>> /\ Tops(14, m) = <<104 * 9 * (2 * m + 1), m>>
  BY <1>1 DEF Tops
<1>3. SUFFICES ~(53 * 9 * (2 * n + 1) * m > 104 * 9 * (2 * m + 1) * n)
  BY <1>2 DEF Better
<1>4. PICK x \in Nat : x = n * m /\ x >= m /\ x >= n
  <2>1. n * m \in Nat /\ n * m >= m /\ n * m >= n
    OBVIOUS
  <2>. QED
    BY <2>1
<1>5. 53 * 9 * (2 * n + 1) * m = 954 * x + 477 * m
  BY <1>4
<1>6. 104 * 9 * (2 * m + 1) * n = 1872 * x + 936 * n
  BY <1>4
<1>. QED
  BY <1>4, <1>5, <1>6

LEMMA PlanFits ==
  ASSUME NEW M \in Nat, NEW N \in Nat, NEW sm, ~Undefined(ModelFor(sm), M, N)
  PROVE  LET best == BestPlan(ModelFor(sm), M, N)
             total == TotalWaves(M, N, 14)
             most == MaxWaves(ModelFor(sm), 14)
         IN  /\ best.tile_m = BaseTile * 14
             /\ best.grid_m * best.tile_m >= M /\ best.grid_n * BaseTile >= N
             /\ best.waves_per_launch \in 1 .. most
             /\ (best.launch_count - 1) * most < total
             /\ total - best.waves_per_launch * best.launch_count \in 0 .. best.launch_count - 1
<1>. DEFINE model == ModelFor(sm)
            total(chain) == TotalWaves(M, N, chain)
            most(chain) == MaxWaves(model, chain)
            launches(chain) == Launches(model, M, N, chain)
<1>1. \A chain \in {14, 16} : launches(chain) # 0
  <2>1. DOMAIN Chains = {1, 2} /\ Chains[1] = 14 /\ Chains[2] = 16
    BY DEF Chains
  <2>. QED
    BY <2>1 DEF Undefined
<1>2. ASSUME NEW chain \in {14, 16}
      PROVE  /\ launches(chain) \in Nat \ {0} /\ total(chain) \in Nat /\ most(chain) \in Nat \ {0}
             /\ (launches(chain) - 1) * most(chain) < total(chain)
             /\ total(chain) <= most(chain) * launches(chain)
  <2>1. total(chain) \in Nat /\ most(chain) \in Nat \ {0}
    BY WavesCounted
  <2>2. /\ launches(chain) \in Nat
        /\ most(chain) * launches(chain) >= total(chain)
        /\ (launches(chain) - 1) * most(chain) < total(chain)
    BY <2>1, RoundedUp DEF Launches
  <2>. QED
    BY <1>1, <2>1, <2>2
<1>3. BestPlan(model, M, N) = Plan(model, M, N, 14)
  <2>1. Chains[1] = 14 /\ Chains[2] = 16
    BY DEF Chains
  <2>2. \A chain : Plan(model, M, N, chain).tops = Tops(chain, launches(chain))
    BY DEF Plan
  <2>3. ~Better(Tops(16, launches(16)), Tops(14, launches(14)))
    BY <1>2, ShorterChainWins
  <2>. QED
    BY <2>1, <2>2, <2>3, Zenon DEF BestPlan
<1>4. /\ total(14) \div launches(14) \in 1 .. most(14)
      /\ total(14) - (total(14) \div launches(14)) * launches(14) \in 0 .. launches(14) - 1
  BY <1>2, Parts
<1>5. /\ GridM(M, 14) * (BaseTile * 14) >= M
      /\ GridN(N) * BaseTile >= N
  <2>1. /\ GridM(M, 14) \in Nat /\ BaseTile * 14 * GridM(M, 14) >= M
        /\ GridN(N) \in Nat /\ BaseTile * GridN(N) >= N
    BY WavesCounted
  <2>. QED
    BY <2>1 DEF BaseTile
<1>6. /\ Plan(model, M, N, 14).tile_m = BaseTile * 14 /\ Plan(model, M, N, 14).grid_m = GridM(M, 14)
      /\ Plan(model, M, N, 14).grid_n = GridN(N)
      /\ Plan(model, M, N, 14).waves_per_launch = total(14) \div launches(14)
      /\ Plan(model, M, N, 14).launch_count = launches(14)
  BY DEF Plan
<1>. QED
  BY <1>2, <1>3, <1>4, <1>5, <1>6

\* The answer on display is the planner's for the present device.
PlanInv ==
  \/ plan \in {NoPlan, Faulted, Overflowed}
  \/ \E M, N \in Dims : ~Undefined(ModelFor(arch), M, N) /\ plan = Planned(M, N)

\* The plan of every problem that has waves and fits the type int covers it: its launches fit the device
\* and are as few as fit it, all waves but a rounding rest are launched, and the
\* chain of 16 is never taken.
THEOREM PlanTheorem == Spec => []PlanCovers
<1>1. Init => PlanInv
  BY DEF Init, PlanInv
<1>2. PlanInv /\ [Next]_vars => PlanInv'
  <2>. SUFFICES ASSUME PlanInv, [Next]_vars PROVE PlanInv'
    OBVIOUS
  <2>1. CASE SchedNext /\ plan' = NoPlan
    BY <2>1 DEF PlanInv
  <2>2. CASE \E M, N \in Dims : PlanSwmmacInt4(M, N)
    <3>1. PICK M \in Dims, N \in Dims : PlanSwmmacInt4(M, N)
      BY <2>2
    <3>2. arch' = arch
      BY <3>1 DEF PlanSwmmacInt4, schedVars
    <3>3. CASE plan' \in {Faulted, Overflowed}
      BY <3>3 DEF PlanInv
    <3>4. CASE ~Undefined(ModelFor(arch), M, N) /\ plan' = Planned(M, N)
      <4>1. Planned(M, N)' = Planned(M, N)
        BY <3>2 DEF Planned
      <4>. QED
        BY <3>2, <3>4, <4>1 DEF PlanInv
    <3>. QED
      BY <3>1, <3>3, <3>4 DEF PlanSwmmacInt4
  <2>3. CASE UNCHANGED vars
    BY <2>3 DEF vars, schedVars, PlanInv, Planned, NoPlan, Faulted, Overflowed
  <2>. QED
    BY <2>1, <2>2, <2>3 DEF Next
<1>3. PlanInv => PlanCovers
  <2>. SUFFICES ASSUME PlanInv, plan.state = "planned" PROVE PlanCovers
    BY DEF PlanCovers
  <2>1. PICK M \in Dims, N \in Dims : ~Undefined(ModelFor(arch), M, N) /\ plan = Planned(M, N)
    BY DEF PlanInv, NoPlan, Faulted, Overflowed
  <2>2. M \in Nat /\ N \in Nat
    BY DimsAssumption
  <2>3. plan.M = M /\ plan.N = N /\ plan.best = BestPlan(ModelFor(arch), M, N)
    BY <2>1 DEF Planned
  <2>. QED
    BY <2>1, <2>2, <2>3, PlanFits DEF PlanCovers
<1>. QED
  BY <1>1, <1>2, <1>3, PTL DEF Spec
=============================================================================
