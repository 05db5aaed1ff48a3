--------------------------- MODULE ILPSchedulerV2 ---------------------------
(***************************************************************************)
(* ILPSchedulerV2 of src/sass/ilp_model.h: schedule and estimate_cycles on *)
(* one scheduler, whose last_writer outlives the calls while every call    *)
(* starts its clock at 0.                                                  *)
(***************************************************************************)
EXTENDS HardwareModels, Sequences, FiniteSets

CONSTANTS
  Archs,      \* the names model_for is asked for
  Reg, NoReg,
  Programs,   \* the vectors schedule and estimate_cycles may be given
  MaxCalls    \* calls in one behaviour

\* dst: operand 0 when it is a register, NoReg otherwise; srcs: the registers
\* among the other operands.
Inst == [opcode : STRING, dst : Reg \union {NoReg}, srcs : SUBSET Reg]

ASSUME SchedulerAssumption ==
  NoReg \notin Reg /\ MaxCalls \in Nat /\ Programs \subseteq Seq(Inst)

VARIABLES
  arch,
  last_writer,   \* -1 or the cycle of the last write, by register
  call,          \* "idle", "schedule" or "estimate"
  insts,         \* the program of the call
  before,        \* last_writer when the call began
  cycle, pos, slot_issued, issued,
  done,          \* positions marked done
  result,        \* what schedule has issued: positions and cycles
  calls

schedVars == <<arch, last_writer, call, insts, before, cycle, pos, slot_issued, issued, done, result, calls>>

Width == ModelFor(arch).issue_width

SchedInit ==
  /\ arch \in Archs
  /\ last_writer = [r \in Reg |-> -1] /\ before = last_writer
  /\ call = "idle" /\ insts = <<>>
  /\ cycle = 0 /\ pos = 1 /\ slot_issued = 0 /\ issued = 0 /\ done = {} /\ result = <<>>
  /\ calls = 0

\* schedule of an empty vector returns early, with the same effect.
Begin(which, program) ==
  /\ call = "idle" /\ calls < MaxCalls
  /\ call' = which /\ insts' = program /\ before' = last_writer /\ calls' = calls + 1
  /\ cycle' = 0 /\ pos' = 1 /\ slot_issued' = 0 /\ issued' = 0 /\ done' = {} /\ result' = <<>>
  /\ UNCHANGED <<arch, last_writer>>

\* The latency is that of the instruction that waits, not of the writer's.
Elapsed(i, written, c) == c - written >= LatencyFor(ModelFor(arch), Classify(insts[i].opcode))
ReadyAfter(i, r, c) == Elapsed(i, last_writer[r] + 1, c)
Ready(i, r, c) == Elapsed(i, last_writer[r], c)
CanIssue(i) == \A r \in insts[i].srcs : last_writer[r] >= 0 => Ready(i, r, cycle)

IssuedAnyway(i) ==
  /\ issued' = issued + 1
  /\ last_writer' = IF insts[i].dst = NoReg THEN last_writer
                    ELSE [last_writer EXCEPT ![insts[i].dst] = cycle]
  /\ result' = IF call = "schedule" THEN Append(result, [inst |-> i, at |-> cycle]) ELSE result

\* Only schedule writes the instruction down, in last_writer and the result.
Issued(i) ==
  /\ issued' = issued + 1
  /\ IF call = "schedule"
     THEN /\ result' = Append(result, [inst |-> i, at |-> cycle])
          /\ last_writer' = IF insts[i].dst = NoReg THEN last_writer
                            ELSE [last_writer EXCEPT ![insts[i].dst] = cycle]
     ELSE UNCHANGED <<result, last_writer>>

\* The loop condition is looked at before a scan, not within one.
More == pos = 1 => issued < Len(insts)
Scanning == call # "idle" /\ More /\ pos <= Len(insts) /\ slot_issued < Width

Issue ==
  /\ Scanning
  /\ pos \notin done /\ CanIssue(pos)
  /\ Issued(pos)
  /\ done' = done \union {pos}
  /\ slot_issued' = slot_issued + 1
  /\ pos' = pos + 1
  /\ UNCHANGED <<arch, call, insts, before, cycle, calls>>

PassOver ==
  /\ Scanning
  /\ pos \in done \/ ~CanIssue(pos)
  /\ pos' = pos + 1
  /\ UNCHANGED <<arch, last_writer, call, insts, before, cycle, slot_issued, issued, done, result, calls>>

Scanned == call # "idle" /\ pos > 1 /\ (pos > Len(insts) \/ slot_issued = Width)

\* A cycle without an issue forces one: schedule the first that is not done,
\* estimate_cycles marks the one whose number is the count, done or not.
FirstWaiting(i) == i \notin done /\ \A j \in 1 .. i - 1 : j \in done
Forced(i) == IF call = "schedule" THEN FirstWaiting(i) ELSE i = issued + 1

EndCycle ==
  /\ Scanned /\ slot_issued > 0
  /\ cycle' = cycle + 1 /\ pos' = 1 /\ slot_issued' = 0
  /\ UNCHANGED <<arch, last_writer, call, insts, before, issued, done, result, calls>>

IssueForcedUnmarked ==
  /\ Scanned /\ slot_issued = 0
  /\ \E i \in DOMAIN insts : Forced(i) /\ Issued(i)
  /\ cycle' = cycle + 1 /\ pos' = 1
  /\ UNCHANGED <<arch, call, insts, before, slot_issued, done, calls>>

IssueForced ==
  /\ Scanned /\ slot_issued = 0
  /\ \E i \in DOMAIN insts : Forced(i) /\ Issued(i) /\ done' = done \union {i}
  /\ cycle' = cycle + 1 /\ pos' = 1
  /\ UNCHANGED <<arch, call, insts, before, slot_issued, calls>>

Finished == call # "idle" /\ pos = 1 /\ issued >= Len(insts)

Return ==
  /\ Finished
  /\ call' = "idle"
  /\ UNCHANGED <<arch, last_writer, insts, before, cycle, pos, slot_issued, issued, done, result, calls>>

SchedNext ==
  \/ \E which \in {"schedule", "estimate"}, program \in Programs : Begin(which, program)
  \/ Issue \/ PassOver \/ EndCycle \/ IssueForced \/ Return

-----------------------------------------------------------------------------
\* When schedule returns, every instruction has been issued exactly once (a
\* forced one is not found again by a later scan), cycle by cycle and never
\* more in a cycle than the device issues.
ScheduledOnce ==
  call = "schedule" /\ Finished =>
    /\ Len(result) = Len(insts)
    /\ {result[k].inst : k \in DOMAIN result} = DOMAIN insts
    /\ \A k \in 2 .. Len(result) : result[k - 1].at <= result[k].at
    /\ \A k \in Width + 1 .. Len(result) : result[k - Width].at < result[k].at

\* What can_issue can know when a scan at cycle c comes to position i with j - 1
\* instructions issued: the writes of r in earlier cycles and those of this one
\* in front of i.
WritesSeen(j, c, i, r) ==
  {m \in 1 .. j - 1 : /\ insts[result[m].inst].dst = r
                      /\ result[m].at < c \/ result[m].inst < i}
Waits(j, c, i, r) ==
  LET seen == WritesSeen(j, c, i, r)
  IN  \/ seen = {} /\ before[r] >= 0 /\ ~Elapsed(i, before[r], c)
      \/ \E m \in seen : (\A k \in seen : k <= m) /\ ~Elapsed(i, result[m].at, c)

\* An instruction is issued before an earlier one only while the earlier one
\* waits for a register, written less than its latency ago by what this call
\* has issued or, the clock having started again, by what a previous call had.
OvertakingJustified ==
  \A j \in 1 .. Len(result) : \A i \in 1 .. result[j].inst - 1 :
    \/ \E k \in 1 .. j - 1 : result[k].inst = i
    \/ \E r \in insts[i].srcs : Waits(j, result[j].at, i, r)

\* estimate_cycles writes no register down, so what it answers is no schedule's
\* length: on a scheduler that has not scheduled anything it is the number of
\* instructions by the issue width, whatever depends on what.  After schedule
\* it is at least that and at most one cycle an instruction, although a forced
\* issue may count an instruction twice.
EstimateBlind ==
  call = "estimate" /\ Finished =>
    /\ cycle * Width >= Len(insts)
    /\ cycle <= Len(insts)
    /\ (\A r \in Reg : before[r] = -1) => (cycle - 1) * Width < Len(insts)

-----------------------------------------------------------------------------
\* The inductive invariant behind ScheduledOnce and OvertakingJustified.
SchedTypes ==
  /\ arch \in Archs /\ call \in {"idle", "schedule", "estimate"} /\ insts \in Seq(Inst)
  /\ last_writer \in [Reg -> Int] /\ before \in [Reg -> Int]
  /\ cycle \in Nat /\ issued \in Nat /\ slot_issued \in 0 .. Width
  /\ pos \in 1 .. Len(insts) + 1 /\ done \subseteq 1 .. Len(insts)
  /\ result \in Seq([inst : 1 .. Len(insts), at : 0 .. cycle])
  /\ calls \in 0 .. MaxCalls

\* Every cycle that has ended issued something.
CycleInv ==
  /\ cycle <= issued /\ cycle <= Len(insts)
  /\ slot_issued > 0 => pos > 1 /\ cycle < issued
  /\ pos > 1 => cycle < Len(insts)
  /\ pos > 1 /\ slot_issued = 0 => issued < Len(insts)

OnceInv ==
  /\ Len(result) = issued /\ Cardinality(done) = issued
  /\ \A k \in 1 .. Len(result) : result[k].inst \in done
  /\ \A i \in done : \E k \in 1 .. Len(result) : result[k].inst = i

\* slot_issued counts the entries of the current cycle, at the end of result.
RateInv ==
  /\ \A k \in 2 .. Len(result) : result[k - 1].at <= result[k].at
  /\ \A k \in Width + 1 .. Len(result) : result[k - Width].at < result[k].at
  /\ \A k \in 1 .. Len(result) - slot_issued : result[k].at < cycle

\* last_writer is the last write in result, or what the call found.
WriterInv ==
  \A r \in Reg :
    \/ last_writer[r] = before[r] /\ \A k \in 1 .. Len(result) : insts[result[k].inst].dst # r
    \/ \E m \in 1 .. Len(result) :
         /\ insts[result[m].inst].dst = r /\ last_writer[r] = result[m].at
         /\ \A k \in m + 1 .. Len(result) : insts[result[k].inst].dst # r

\* The scan has left behind only what is done or still waits.
PassedInv ==
  /\ \A k \in 1 .. Len(result) : result[k].at = cycle => result[k].inst < pos
  /\ \A i \in 1 .. pos - 1 :
       i \in done \/ \E r \in insts[i].srcs : Waits(Len(result) + 1, cycle, i, r)

IInv ==
  /\ SchedTypes /\ CycleInv
  /\ call = "schedule" => OnceInv /\ RateInv /\ WriterInv /\ PassedInv
  /\ call = "estimate" => result = <<>>
  /\ OvertakingJustified

\* Behind EstimateBlind: no cycle counts more than its width, and as long as no
\* register has a cycle to wait for, positions are issued in the order of the
\* program, every cycle but the last of a call issuing its width.
Unwritten == \A r \in Reg : before[r] = -1
AsListed ==
  /\ done = 1 .. issued
  /\ pos <= issued + 1 /\ (slot_issued > 0 => pos = issued + 1)
  /\ \/ issued = cycle * Width + slot_issued
     \/ pos = 1 /\ issued = Len(insts) /\ (cycle - 1) * Width < issued
CountInv ==
  call = "estimate" =>
    /\ last_writer = before
    /\ issued <= cycle * Width + slot_issued
    /\ Unwritten => AsListed
=============================================================================
