------------------------------ MODULE RegAlloc ------------------------------
(***************************************************************************)
(* The linear-scan register allocator of src/sass/reg_allocator.h, pass    *)
(* P1-2 of the Pascal optimizer.  RegisterAllocator::allocate runs in      *)
(* three phases over one instruction vector:                               *)
(*   "scan"    computes the live range of every register that appears,     *)
(*   "assign"  walks the ranges in the order of their first use,           *)
(*   "rename"  rewrites the operands of every instruction.                 *)
(* An instruction is the set of the registers its REG operands name:       *)
(* allocate treats every operand position alike and looks at nothing else. *)
(* Positions count from 1.                                                 *)
(***************************************************************************)
EXTENDS Integers, Sequences, FiniteSets

CONSTANTS
  Reg,        \* register numbers an operand can name
  RZ,         \* the zero register, never allocated
  MaxRegs,    \* MAX_REGS, the number of physical registers handed out
  MinLen,     \* shorter programs are left alone
  Programs    \* the instruction vectors allocate may be called with

ASSUME RegAssumption ==
  /\ Reg \subseteq Nat /\ IsFiniteSet(Reg)
  /\ MaxRegs \in Nat \ {0}
  /\ RZ \in Nat /\ RZ >= MaxRegs
  /\ MinLen \in Nat
  /\ Programs \subseteq Seq(SUBSET Reg)

VARIABLES
  prog,      \* the input vector
  phase,     \* "start", "scan", "assign", "rename" or "done"
  pos,       \* the instruction the scan or rename loop is at
  first,     \* first_use of every register, 0 when it has no range
  last,      \* last_use of every register
  todo,      \* registers whose range the assign loop has not reached
  active,    \* the <<last_use, phys_reg>> pairs of the active vector
  phys,      \* phys_reg of every register, -1 while unassigned
  spilled,   \* registers that found no free physical register
  out        \* per instruction, the new number of each register it names

vars == <<prog, phase, pos, first, last, todo, active, phys, spilled, out>>

Allocatable(i) == prog[i] \ {RZ}
Phys == 0 .. MaxRegs - 1

-----------------------------------------------------------------------------
Init ==
  /\ prog \in Programs
  /\ phase = "start"
  /\ pos = 1
  /\ first = [r \in Reg |-> 0]
  /\ last = [r \in Reg |-> 0]
  /\ phys = [r \in Reg |-> -1]
  /\ todo = {}
  /\ active = {}
  /\ spilled = {}
  /\ out = [i \in 1 .. Len(prog) |-> [r \in prog[i] |-> r]]

\* A short program is returned as it is.
Skip ==
  /\ phase = "start"
  /\ Len(prog) < MinLen
  /\ phase' = "done"
  /\ UNCHANGED <<prog, pos, first, last, todo, active, phys, spilled, out>>

Start ==
  /\ phase = "start"
  /\ Len(prog) >= MinLen
  /\ phase' = "scan"
  /\ UNCHANGED <<prog, pos, first, last, todo, active, phys, spilled, out>>

\* One iteration of the range loop: a register seen for the first time opens
\* a range, every mention extends it.
ScanInst ==
  /\ phase = "scan"
  /\ pos <= Len(prog)
  /\ first' = [r \in Reg |-> IF r \in Allocatable(pos) /\ first[r] = 0
                             THEN pos ELSE first[r]]
  /\ last' = [r \in Reg |-> IF r \in Allocatable(pos) THEN pos ELSE last[r]]
  /\ pos' = pos + 1
  /\ UNCHANGED <<prog, phase, todo, active, phys, spilled, out>>

\* The ranges are copied out of the hash map, to be taken in sorted order.
SortRanges ==
  /\ phase = "scan"
  /\ pos > Len(prog)
  /\ phase' = "assign"
  /\ todo' = {r \in Reg : first[r] > 0}
  /\ UNCHANGED <<prog, pos, first, last, active, phys, spilled, out>>

\* std::sort compares first_use alone and its input order is the hash map's,
\* so any register with the smallest first use may come next.
IsNext(r) == r \in todo /\ \A s \in todo : first[r] <= first[s]

\* Active pairs whose range has not ended before position p.
ReleasedAtEnd(p) == {a \in active : a[1] > p}
NeverReleased(p) == active
Unexpired(p) == {a \in active : a[1] >= p}

FreeRegs(p) == Phys \ {a[2] : a \in Unexpired(p)}

\* The overflow branch.
SpillReg(r) == r % MaxRegs

Assign(r) ==
  /\ phase = "assign"
  /\ IsNext(r)
  /\ LET free == FreeRegs(first[r])
     IN  \/ \E q \in free :
              /\ \A x \in free : q <= x
              /\ phys' = [phys EXCEPT ![r] = q]
              /\ active' = Unexpired(first[r]) \union {<<last[r], q>>}
              /\ UNCHANGED spilled
         \/ /\ free = {}
            /\ phys' = [phys EXCEPT ![r] = SpillReg(r)]
            /\ active' = Unexpired(first[r])
            /\ spilled' = spilled \union {r}
  /\ todo' = todo \ {r}
  /\ UNCHANGED <<prog, phase, pos, first, last, out>>

AssignDone ==
  /\ phase = "assign"
  /\ todo = {}
  /\ phase' = "rename"
  /\ pos' = 1
  /\ UNCHANGED <<prog, first, last, todo, active, phys, spilled, out>>

\* The number an operand that named r carries after the rename.
Renamed(r) == IF r # RZ /\ first[r] > 0 /\ phys[r] >= 0 THEN phys[r] ELSE r

RenameInst ==
  /\ phase = "rename"
  /\ pos <= Len(prog)
  /\ out' = [out EXCEPT ![pos] = [r \in prog[pos] |-> Renamed(r)]]
  /\ pos' = pos + 1
  /\ UNCHANGED <<prog, phase, first, last, todo, active, phys, spilled>>

RenameDone ==
  /\ phase = "rename"
  /\ pos > Len(prog)
  /\ phase' = "done"
  /\ UNCHANGED <<prog, pos, first, last, todo, active, phys, spilled, out>>

Next ==
  \/ Skip
  \/ Start
  \/ ScanInst
  \/ SortRanges
  \/ \E r \in todo : Assign(r)
  \/ AssignDone
  \/ RenameInst
  \/ RenameDone

Spec == Init /\ [][Next]_vars

\* The loops run to their end: nothing they wait for is outside the function.
FairSpec == Spec /\ WF_vars(Next)

-----------------------------------------------------------------------------
\* RegisterAllocator::analyze: the registers live at position i, and the
\* largest number of them at any position.
LiveAt(i) ==
  {r \in Reg \ {RZ} : \E j \in 1 .. i : r \in prog[j]
                     /\ \E k \in i .. Len(prog) : r \in prog[k]}

MaxLiveExceeds(n) == \E i \in 1 .. Len(prog) : Cardinality(LiveAt(i)) > n

TypeOK ==
  /\ prog \in Seq(SUBSET Reg)
  /\ phase \in {"start", "scan", "assign", "rename", "done"}
  /\ pos \in 1 .. Len(prog) + 1
  /\ first \in [Reg -> 0 .. Len(prog)]
  /\ last \in [Reg -> 0 .. Len(prog)]
  /\ todo \in SUBSET Reg
  /\ active \in SUBSET ((0 .. Len(prog)) \X Phys)
  /\ phys \in [Reg -> Phys \union {-1}]
  /\ spilled \in SUBSET Reg

\* Renaming keeps the data flow of straight-line code: between two mentions of
\* a register, no instruction names another register under the same new number,
\* and both mentions carry the same new number.  Registers that were spilled
\* are excepted (see ZeroConflict).
FlowPreserved ==
  phase = "done" =>
    \A i, j, k \in 1 .. Len(prog) :
      i <= k /\ k <= j =>
        \A r \in (prog[i] \intersect prog[j]) \ spilled, s \in prog[k] \ spilled :
          /\ out[i][r] = out[j][r]
          /\ r # s => out[k][s] # out[j][r]

\* The scan spills exactly when the report of analyze() says that more
\* registers are live at once than there are physical ones.
SpillIffPressure ==
  phase \in {"rename", "done"} /\ Len(prog) >= MinLen =>
    (spilled # {} <=> MaxLiveExceeds(MaxRegs))

-----------------------------------------------------------------------------
\* The inductive invariant behind FlowPreserved, part by part.
Ranged == {r \in Reg : first[r] > 0}
Assigned == IF phase \in {"assign", "rename", "done"} THEN Ranged \ todo ELSE {}
Scanned == IF phase = "start" \/ Len(prog) < MinLen THEN 0
           ELSE IF phase = "scan" THEN pos - 1 ELSE Len(prog)

\* A range spans every mention scanned so far, and RZ never has one.
RangesCover ==
  /\ \A i \in 1 .. Scanned : \A r \in Allocatable(i) :
       0 < first[r] /\ first[r] <= i /\ i <= last[r]
  /\ \A r \in Reg : 0 < first[r] => first[r] <= last[r]
  /\ \A r \in Reg : r = RZ => first[r] = 0
  /\ phase \in {"start", "scan"} => \A r \in Reg : last[r] < pos

PhaseOK ==
  /\ phase \in {"start", "scan"} => \A r \in Reg : phys[r] = -1
  /\ phase = "start" => pos = 1 /\ \A r \in Reg : first[r] = 0
  /\ phase \in {"scan", "assign", "rename"} => Len(prog) >= MinLen
  /\ Len(prog) < MinLen => \A r \in Reg : first[r] = 0
  /\ phase # "assign" => todo = {}
  /\ todo \subseteq Ranged

\* Ranges are taken in the order of their first use.
Sorted == \A p \in Assigned, t \in todo : first[p] <= first[t]

\* A range taken earlier is either still active or over before a later one.
StillHeld ==
  \A p \in Assigned \ spilled :
    \/ <<last[p], phys[p]>> \in active
    \/ \E q \in Assigned : last[p] < first[q]

\* Ranges that share a physical register do not overlap.
Apart ==
  \A p, q \in Assigned \ spilled :
    p # q /\ phys[p] = phys[q] => last[p] < first[q] \/ last[q] < first[p]

\* How far the rename loop has come.
RenamedUpTo ==
  IF phase = "done" /\ Len(prog) >= MinLen THEN Len(prog)
  ELSE IF phase = "rename" THEN pos - 1 ELSE 0
OutOK ==
  out = [i \in 1 .. Len(prog) |->
           [r \in prog[i] |-> IF i <= RenamedUpTo THEN Renamed(r) ELSE r]]

IInv ==
  /\ TypeOK
  /\ PhaseOK
  /\ RangesCover
  /\ \A r \in Assigned : phys[r] \in Phys
  /\ Sorted
  /\ StillHeld
  /\ Apart
  /\ OutOK

-----------------------------------------------------------------------------
\* The inductive invariant behind SpillIffPressure, next to IInv.

\* A range begins and ends at a mention.
RangesTight ==
  \A r \in Ranged : r \in prog[first[r]] /\ r \in prog[last[r]]

\* The active vector holds nothing but ranges that were given a register.
ActiveHeld ==
  \A a \in active : \E p \in Assigned \ spilled : a = <<last[p], phys[p]>>

\* Only ranges that were placed spill, and only under pressure.
SpillJustified ==
  /\ spilled \subseteq Assigned
  /\ spilled # {} => MaxLiveExceeds(MaxRegs)

Pressure == RangesTight /\ ActiveHeld /\ SpillJustified
=============================================================================
