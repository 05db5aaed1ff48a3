---------------------------- MODULE ILPScheduler ----------------------------
(***************************************************************************)
(* The scoreboard scheduler of src/sass/ilp_scheduler.h, pass P1-1 of the  *)
(* Pascal optimizer.  Every cycle it collects the unscheduled instructions *)
(* whose registers have no write in flight and issues up to issue_width of *)
(* them, lowest index first.  An instruction is the register its first     *)
(* operand names (NoReg when that is no REG operand) and the registers the *)
(* other operands name.                                                    *)
(***************************************************************************)
EXTENDS Integers, Sequences, FiniteSets

CONSTANTS
  Reg, NoReg,
  Latency,    \* fp_latency, the one latency operands_ready uses
  Width,      \* issue_width
  MinLen,     \* schedule leaves shorter vectors alone
  Programs    \* the vectors schedule may be called with

Inst == [dst : Reg \union {NoReg}, srcs : SUBSET Reg]

ASSUME SchedAssumption ==
  /\ NoReg \notin Reg
  /\ Latency \in Nat \ {0}
  /\ Width \in Nat \ {0}
  /\ MinLen \in Nat
  /\ Programs \subseteq Seq(Inst)

VARIABLES
  prog,        \* insts
  phase,       \* "start", "select", "issue" or "done"
  cycle,
  lastWriter,  \* regs[r].last_writer, a cycle number or -1
  ready,       \* indices still in the ready queue of this cycle
  issued,      \* how many were issued in this cycle
  issueCycle,  \* issue_cycle of every index, -1 while unscheduled
  result       \* source indices in the order they were issued

vars == <<prog, phase, cycle, lastWriter, ready, issued, issueCycle, result>>

Index == 1 .. Len(prog)
Ops(i) == prog[i].srcs \union ({prog[i].dst} \ {NoReg})
Scheduled == {i \in Index : issueCycle[i] >= 0}

\* A write is in flight until Latency cycles have passed.
InFlightAtEnd(r) == lastWriter[r] >= 0 /\ cycle - lastWriter[r] <= Latency
InFlight(r) == lastWriter[r] >= 0 /\ cycle - lastWriter[r] < Latency

\* operands_ready: the destination has to be free as well.
SourcesReady(i) == \A r \in prog[i].srcs : ~InFlight(r)
OperandsReady(i) == \A r \in Ops(i) : ~InFlight(r)

-----------------------------------------------------------------------------
Init ==
  /\ prog \in Programs
  /\ phase = "start"
  /\ cycle = 0
  /\ lastWriter = [r \in Reg |-> -1]
  /\ ready = {}
  /\ issued = 0
  /\ issueCycle = [i \in Index |-> -1]
  /\ result = <<>>

\* Too few instructions: the vector is returned as it came.
Skip ==
  /\ phase = "start"
  /\ Len(prog) < MinLen
  /\ phase' = "done"
  /\ result' = [i \in Index |-> i]
  /\ UNCHANGED <<prog, cycle, lastWriter, ready, issued, issueCycle>>

Start ==
  /\ phase = "start"
  /\ Len(prog) >= MinLen
  /\ phase' = "select"
  /\ UNCHANGED <<prog, cycle, lastWriter, ready, issued, issueCycle, result>>

AllIndices == Index
Candidates == Index \ Scheduled

\* The ready queue is built once per cycle, before anything is issued.
SelectReady ==
  /\ phase = "select"
  /\ Scheduled # Index
  /\ ready' = {i \in Candidates : OperandsReady(i)}
  /\ issued' = 0
  /\ phase' = "issue"
  /\ UNCHANGED <<prog, cycle, lastWriter, issueCycle, result>>

\* The queue is sorted by index.
AnyReady(i) == i \in ready
IsFirst(i) == i \in ready /\ \A j \in ready : i <= j

HasSlot == issued < Width

Issue(i) ==
  /\ phase = "issue"
  /\ HasSlot
  /\ IsFirst(i)
  /\ result' = Append(result, i)
  /\ issueCycle' = [issueCycle EXCEPT ![i] = cycle]
  /\ lastWriter' = IF prog[i].dst = NoReg THEN lastWriter
                   ELSE [lastWriter EXCEPT ![prog[i].dst] = cycle]
  /\ ready' = ready \ {i}
  /\ issued' = issued + 1
  /\ UNCHANGED <<prog, phase, cycle>>

CycleAfterIssue == IF issued > 0 THEN cycle + 1 ELSE cycle
CycleAfter == cycle + 1

NextCycle ==
  /\ phase = "issue"
  /\ ~HasSlot \/ ready = {}
  /\ cycle' = CycleAfter
  /\ phase' = "select"
  /\ ready' = {}
  /\ issued' = 0
  /\ UNCHANGED <<prog, lastWriter, issueCycle, result>>

Finish ==
  /\ phase = "select"
  /\ Scheduled = Index
  /\ phase' = "done"
  /\ UNCHANGED <<prog, cycle, lastWriter, ready, issued, issueCycle, result>>

Next ==
  \/ Skip
  \/ Start
  \/ SelectReady
  \/ \E i \in ready : Issue(i)
  \/ NextCycle
  \/ Finish

Spec == Init /\ [][Next]_vars

\* schedule is one sequential loop that waits for nothing outside it.
FairSpec == Spec /\ WF_vars(Next)

-----------------------------------------------------------------------------
TypeOK ==
  /\ prog \in Seq(Inst)
  /\ phase \in {"start", "select", "issue", "done"}
  /\ cycle \in Nat
  /\ lastWriter \in [Reg -> Nat \union {-1}]
  /\ ready \in SUBSET Index
  /\ issued \in 0 .. Width
  /\ issueCycle \in [Index -> Nat \union {-1}]
  /\ result \in Seq(Index)

Writes(w, i) == prog[w].dst # NoReg /\ prog[w].dst \in Ops(i)

\* An instruction that names a register written in an earlier cycle is issued
\* at least Latency cycles after that write, source or destination alike.
LatencyKept ==
  \A w, i \in Scheduled :
    Writes(w, i) /\ issueCycle[w] < issueCycle[i] =>
      issueCycle[i] - issueCycle[w] >= Latency

\* An instruction overtakes an earlier one only while a write to a register of
\* the earlier one is in flight (the comment above schedule: once ready, the
\* lower index goes first).
Overtakes(j, i) ==
  i < j /\ j \in Scheduled /\ (i \in Scheduled => issueCycle[j] < issueCycle[i])
JustifiedOvertaking ==
  \A i, j \in Index :
    Overtakes(j, i) =>
      \E w \in Scheduled :
        /\ Writes(w, i)
        /\ issueCycle[w] < issueCycle[j]
        /\ issueCycle[j] - issueCycle[w] < Latency

\* The scheduler never idles longer than the latency it waits for.
Newest == IF result = <<>> THEN -1 ELSE issueCycle[result[Len(result)]]
StallBounded ==
  phase \in {"select", "issue"} /\ Scheduled # Index => cycle - Newest <= Latency

\* Every instruction of the input comes out exactly once, none is lost when
\* schedule returns, and what was issued stays issued.
Order == INSTANCE IssueOrder
  WITH size <- Len(prog), emitted <- result, finished <- (phase = "done")
EachOnce == Order!Spec

\* schedule returns.
Terminates == <>(phase = "done")

-----------------------------------------------------------------------------
\* The inductive invariant behind LatencyKept, JustifiedOvertaking and EachOnce.
Fresh ==
  /\ result = <<>> /\ ready = {} /\ Scheduled = {}
  /\ lastWriter = [r \in Reg |-> -1]

PhaseOK ==
  /\ phase = "start" => Fresh
  /\ phase \in {"select", "issue"} => Len(prog) >= MinLen
  /\ phase # "issue" => ready = {}
  /\ ready \intersect Scheduled = {}
  /\ phase = "done" /\ Len(prog) >= MinLen => Scheduled = Index
  /\ Len(prog) < MinLen => Scheduled = {}

\* Nothing is issued ahead of the clock.
ClockOK == \A i \in Scheduled :
  /\ issueCycle[i] <= cycle
  /\ phase = "select" => issueCycle[i] < cycle

\* last_writer is the latest cycle a writer of the register was issued in.
WritersOK ==
  /\ \A w \in Scheduled :
       prog[w].dst # NoReg => issueCycle[w] <= lastWriter[prog[w].dst]
  /\ \A r \in Reg : lastWriter[r] >= 0 =>
       \E w \in Scheduled : prog[w].dst = r /\ issueCycle[w] = lastWriter[r]

\* A write to a register of instruction i is in flight in the current cycle.
Blocked(i) == \E w \in Scheduled :
  Writes(w, i) /\ issueCycle[w] < cycle /\ cycle - issueCycle[w] < Latency

\* While a cycle is issuing, the queue holds every unscheduled instruction that
\* is not blocked, and what was issued in this cycle has a lower index.
QueueOK ==
  phase = "issue" =>
    /\ \A i \in ready : ~Blocked(i)
    /\ \A i \in Index \ (Scheduled \union ready) : Blocked(i)
    /\ \A j \in Scheduled : issueCycle[j] = cycle => \A i \in ready : j < i

\* The output lists the scheduled instructions, none twice.
ResultOK ==
  IF phase = "done" /\ Len(prog) < MinLen
  THEN result = [i \in Index |-> i]
  ELSE /\ \A a \in 1 .. Len(result) : result[a] \in Scheduled
       /\ \A i \in Scheduled : \E a \in 1 .. Len(result) : result[a] = i
       /\ \A a, b \in 1 .. Len(result) : a # b => result[a] # result[b]

IInv ==
  /\ TypeOK
  /\ PhaseOK
  /\ ClockOK
  /\ WritersOK
  /\ QueueOK
  /\ ResultOK
  /\ LatencyKept
  /\ JustifiedOvertaking

-----------------------------------------------------------------------------
\* The inductive invariant behind StallBounded, next to IInv.

\* The last instruction of the output was issued no earlier than any other.
NewestIsLatest == phase # "done" => \A w \in Scheduled : issueCycle[w] <= Newest

\* A cycle is opened only while something is left to issue, and what it has
\* issued is the newest.
CycleUsed ==
  phase = "issue" => IF issued = 0 THEN Scheduled # Index ELSE Newest = cycle

\* The clock is never further than Latency ahead of the newest instruction.
ClockNear ==
  /\ phase = "start" => cycle = 0
  /\ phase \in {"select", "issue"} => cycle - Newest <= Latency

StallInv == NewestIsLatest /\ CycleUsed /\ ClockNear
=============================================================================
