----------------------------- MODULE OptimizeP1 -----------------------------
(***************************************************************************)
(* optimize_p1 of src/sass/optimizer.h: the passes one after another on    *)
(* one vector, each on what the one before left.  One step visits one      *)
(* instruction or one live range, or issues one cycle.                     *)
(* predicate_optimize only changes a score no pass reads.                  *)
(***************************************************************************)
EXTENDS ConstProp, SequencesExt

CONSTANTS
  RZ,            \* the register that is never renamed
  MaxBody,       \* instructions copied in front of a loop end
  MaxRegs,       \* physical registers
  MinAllocate,   \* vectors shorter than this keep their registers
  IssueWidth, Latency,
  LoadLatency    \* of LDG and LDC in the scoreboard

ASSUME P1Assumption ==
  /\ RZ \in Reg /\ Reg \subseteq Nat /\ 0 .. MaxRegs - 1 \subseteq Reg \ {RZ}
  /\ {MaxBody, MinAllocate, Latency, LoadLatency} \subseteq Nat
  /\ {MaxRegs, IssueWidth} \subseteq Nat \ {0}

VARIABLES
  base,      \* the vector loop_unroll left
  phys,      \* phys_reg of each range, NoReg before it has one
  held,      \* the ranges that were not spilled
  issued,    \* the instructions ilp_schedule has issued, in order
  written,   \* last_writer: the cycle each register was last written in
  cycle

p1vars == <<base, phys, held, issued, written, cycle>>
p1allvars == <<vars, p1vars>>

P1Init ==
  /\ Init
  /\ base = <<>> /\ phys = [r \in Reg |-> NoReg] /\ held = {}
  /\ issued = <<>> /\ written = [r \in Reg |-> -1] /\ cycle = 0

FrontPasses == Next /\ UNCHANGED p1vars

Dst(inst) == RegAt(inst, 1)
RegsOf(inst) == {RegAt(inst, k) : k \in DOMAIN inst.operands} \ {NoReg}

-----------------------------------------------------------------------------
\* loop_unroll: a straight body in front of IADD; ISETP; BRA is copied there.
\* From here on src is the position in the source, and at the position in base,
\* 0 in a bar.
Traced == [k \in DOMAIN insts |->
             [opcode |-> insts[k].opcode, operands |-> insts[k].operands, src |-> code[k], at |-> 0]]
Bar == [opcode |-> "DEPBAR", operands |-> <<>>, src |-> 0, at |-> 0]

BeginUnroll ==
  /\ stage = "done" /\ visit > Len(insts)
  /\ stage' = "unroll" /\ visit' = 1 /\ insts' = Traced
  /\ UNCHANGED <<prog, code, pos, reuse, constVals, p1vars>>

BodySize == IF visit - 1 <= MaxBody THEN visit - 1 ELSE MaxBody
LoopEnd == <<insts[visit].opcode, insts[visit + 1].opcode, insts[visit + 2].opcode>> = <<"IADD", "ISETP", "BRA">>
Straight == \A j \in visit - BodySize .. visit - 1 : insts[j].opcode \notin {"BRA", "BRX"}
Unrolls == LoopEnd /\ BodySize > 0 /\ Straight
StepDoubled(inst) ==
  IF Len(inst.operands) >= 3 /\ inst.operands[3].type = "IMM"
  THEN [inst EXCEPT !.operands[3].val = 2 * @] ELSE inst

Unrolled ==
  SubSeq(insts, 1, visit - 1) \o SubSeq(insts, visit - BodySize, visit - 1)
    \o <<StepDoubled(insts[visit])>> \o SubSeq(insts, visit + 1, Len(insts))

LoopUnroll ==
  /\ stage = "unroll" /\ visit + 2 <= Len(insts)
  /\ IF Unrolls THEN insts' = Unrolled /\ visit' = visit + BodySize + 3
     ELSE visit' = visit + 1 /\ UNCHANGED insts
  /\ UNCHANGED <<p0vars, constVals, p1vars>>

-----------------------------------------------------------------------------
\* reg_allocate: a linear scan over the live ranges, by first mention.
Mentions(r) == {i \in DOMAIN insts : r \in RegsOf(insts[i])}
Ranges == (UNION {RegsOf(insts[i]) : i \in DOMAIN insts}) \ {RZ}

FirstUse(r) == Min(Mentions(r))
LastUseNotExtended(r) == Min(Mentions(r))
LastUse(r) == Max(Mentions(r))

BeginAllocate ==
  /\ stage = "unroll" /\ visit + 2 > Len(insts) /\ stage' = "allocate"
  /\ insts' = [i \in DOMAIN insts |-> [insts[i] EXCEPT !.at = i]] /\ base' = insts'
  /\ UNCHANGED <<prog, code, pos, reuse, visit, constVals, phys, held, issued, written, cycle>>

\* std::sort and the hash map leave the order of ranges that begin together
\* open.  A range that finds no register free is spilled, and holds none.
Allocate ==
  /\ stage = "allocate" /\ Len(insts) >= MinAllocate
  /\ \E r \in {r \in Ranges : phys[r] = NoReg} :
       /\ \A q \in Ranges : phys[q] = NoReg => FirstUse(r) <= FirstUse(q)
       /\ LET free == (0 .. MaxRegs - 1) \ {phys[q] : q \in {q \in held : LastUse(q) >= FirstUse(r)}}
          IN  IF free = {} THEN phys' = [phys EXCEPT ![r] = r % MaxRegs] /\ UNCHANGED held
              ELSE phys' = [phys EXCEPT ![r] = Min(free)] /\ held' = held \union {r}
  /\ UNCHANGED <<vars, base, issued, written, cycle>>

Renamed(op) ==
  IF op.type = "REG" /\ phys[op.reg] # NoReg THEN [type |-> "REG", reg |-> phys[op.reg]] ELSE op

Rename ==
  /\ stage = "allocate" /\ stage' = "schedule"
  /\ Len(insts) < MinAllocate \/ \A r \in Ranges : phys[r] # NoReg
  /\ insts' = [i \in DOMAIN insts |->
                 [insts[i] EXCEPT !.operands = [k \in DOMAIN @ |-> Renamed(@[k])]]]
  /\ UNCHANGED <<prog, code, pos, reuse, visit, constVals, p1vars>>

-----------------------------------------------------------------------------
\* ilp_schedule: a cycle issues the first ready ones, by the written cycles at
\* its start; a terminator is an instruction like any other.
Waiting == {i \in DOMAIN insts : \A a \in DOMAIN issued : issued[a] # i}
Ready == {i \in Waiting : \A r \in RegsOf(insts[i]) : written[r] < 0 \/ cycle - written[r] >= Latency}
PickedFromBack == {i \in Ready : Cardinality({j \in Ready : j > i}) < IssueWidth}
Picked == {i \in Ready : Cardinality({j \in Ready : j < i}) < IssueWidth}

\* The numbers of a set in increasing order.
InOrder(S) == [k \in 1 .. Cardinality(S) |-> CHOOSE i \in S : Cardinality({j \in S : j <= i}) = k]

Issue ==
  /\ stage = "schedule" /\ Len(insts) >= 3 /\ Len(issued) < Len(insts)
  /\ issued' = issued \o InOrder(Picked)
  /\ written' = [r \in Reg |-> IF \E i \in Picked : Dst(insts[i]) = r THEN cycle ELSE written[r]]
  /\ cycle' = cycle + 1
  /\ UNCHANGED <<vars, base, phys, held>>

Issued ==
  /\ stage = "schedule" /\ stage' = "separate" /\ visit' = 1
  /\ \/ Len(insts) < 3 /\ UNCHANGED insts
     \/ Len(issued) = Len(insts) /\ insts' = [k \in DOMAIN insts |-> insts[issued[k]]]
  /\ UNCHANGED <<prog, code, pos, reuse, constVals, p1vars>>

-----------------------------------------------------------------------------
\* avoid_bank_conflicts: the next movable instruction goes between two accesses
\* of one bank.
Shared(inst) == inst.opcode \in {"LDS", "STS"}
Addresses(inst) == {k \in DOMAIN inst.operands : inst.operands[k].type = "MEM"}
\* C++ rounds towards zero, and the remainder has the sign of the offset.
BankOf(offset) == IF offset >= 0 THEN (offset \div 4) % 32 ELSE -(((-offset) \div 4) % 32)
Bank(inst) == IF Addresses(inst) = {} THEN -1 ELSE BankOf(inst.operands[Min(Addresses(inst))].offset)
ConflictAt(v, i) == Shared(v[i]) /\ Shared(v[i + 1]) /\ Bank(v[i]) >= 0 /\ Bank(v[i]) = Bank(v[i + 1])
Movable(v, i) ==
  {j \in i + 2 .. i + 5 : j <= Len(v) /\ ~Shared(v[j]) /\ v[j].opcode \notin {"BRA", "BRX", "ISETP", "EXIT"}}

CopiedBehind(v, i, j) ==
  SubSeq(v, 1, i) \o <<v[j]>> \o SubSeq(v, i + 1, j) \o SubSeq(v, j + 2, Len(v))
MovedBehind(v, i, j) ==
  SubSeq(v, 1, i) \o <<v[j]>> \o SubSeq(v, i + 1, j - 1) \o SubSeq(v, j + 1, Len(v))

AvoidBankConflicts ==
  /\ stage = "separate" /\ visit + 1 <= Len(insts)
  /\ insts' = IF ConflictAt(insts, visit) /\ Movable(insts, visit) # {}
              THEN MovedBehind(insts, visit, Min(Movable(insts, visit))) ELSE insts
  /\ visit' = visit + 1
  /\ UNCHANGED <<p0vars, constVals, p1vars>>

Separated ==
  /\ stage = "separate" /\ visit + 1 > Len(insts)
  /\ stage' = "guard" /\ visit' = Len(insts)
  /\ UNCHANGED <<prog, code, pos, reuse, insts, constVals, p1vars>>

-----------------------------------------------------------------------------
\* insert_depbars: the consumers are taken from the back, so a bar moves no
\* consumer still to come: each gets one per source whose writer is too near.
Writers(v, i, r) == {j \in 1 .. i - 1 : Dst(v[j]) = r}
TooNear(v, j, i) == i - j < (IF v[j].opcode \in {"LDG", "LDC"} THEN LoadLatency ELSE Latency) \div 2
Bars(v, i) ==
  {k \in 2 .. Len(v[i].operands) :
     LET r == RegAt(v[i], k)
     IN  r # NoReg /\ Writers(v, i, r) # {} /\ TooNear(v, Max(Writers(v, i, r)), i)}

InsertDepbars ==
  /\ stage = "guard" /\ visit > 0
  /\ insts' = SubSeq(insts, 1, visit - 1) \o [k \in 1 .. Cardinality(Bars(insts, visit)) |-> Bar]
                \o SubSeq(insts, visit, Len(insts))
  /\ visit' = visit - 1
  /\ UNCHANGED <<p0vars, constVals, p1vars>>

P1Next ==
  \/ FrontPasses \/ BeginUnroll \/ LoopUnroll \/ BeginAllocate \/ Allocate \/ Rename
  \/ Issue \/ Issued \/ AvoidBankConflicts \/ Separated \/ InsertDepbars

P1Spec == P1Init /\ [][P1Next]_p1allvars

-----------------------------------------------------------------------------
Ended == stage = "guard" /\ visit = 0
Real == {p \in DOMAIN insts : insts[p].at # 0}
Place(u) == CHOOSE p \in Real : insts[p].at = u
InFrontOfLoopEnd(k) == \E j \in k + 1 .. k + MaxBody : j <= Len(code) /\ prog[code[j]].opcode = "IADD"

\* Through all passes no instruction is lost and none appears twice: what comes
\* out is what loop_unroll left, and that holds every live instruction of the
\* source once, or twice when it is in front of a loop end.
LiveOnce ==
  Ended =>
    /\ \A u \in DOMAIN base : Cardinality({p \in Real : insts[p].at = u}) = 1
    /\ \A k \in DOMAIN code :
         LET copies == Cardinality({p \in Real : insts[p].src = code[k]})
         IN  copies = 1 \/ (copies = 2 /\ InFrontOfLoopEnd(k))

\* The register source operand k of the base instruction u reads, and the base
\* instruction it is read from, in base and in what came out.  The allocator
\* does not rename an address register, so one counts only if it did not run.
SourceOf(inst, k) ==
  IF k > 1 /\ RegAt(inst, k) # NoReg THEN RegAt(inst, k)
  ELSE IF inst.operands[k].type = "MEM" /\ Len(base) < MinAllocate THEN inst.operands[k].reg
  ELSE NoReg
Definition(v, p, r) == IF Writers(v, p, r) = {} THEN 0 ELSE v[Max(Writers(v, p, r))].at

\* From loop_unroll on, a value that was computed reaches another reader only
\* where two instructions changed places: the reader passed the instruction that
\* computes it, or another writer came between the two.  Renaming and inserting
\* alone never change what an instruction reads, unless registers ran out.
FlowExplained ==
  Ended /\ (\A r \in Reg : phys[r] # NoReg => r \in held) =>
    \A u \in DOMAIN base : \A k \in DOMAIN base[u].operands :
      LET d == Definition(base, u, SourceOf(base[u], k))
          e == Definition(insts, Place(u), SourceOf(insts[Place(u)], k))
      IN  SourceOf(base[u], k) # NoReg /\ d # 0 =>
            \/ e = d
            \/ Place(d) > Place(u)
            \/ e # 0 /\ ~(e \in d .. u)

\* ilp_schedule takes the terminator, which has no register to wait for, out of
\* its last place.  All it puts behind it, where nothing is executed, was waiting:
\* it mentions a register that an instruction in front of it writes.
BehindTerminator ==
  stage = "separate" /\ visit = 1 =>
    \A t, p \in DOMAIN insts :
      insts[t].opcode \in Terminator /\ t < p =>
        \E q \in 1 .. p - 1 : Dst(insts[q]) \in RegsOf(insts[p])

-----------------------------------------------------------------------------
(* The inductive invariant behind LiveOnce and BehindTerminator.           *)
Early == {"order", "reuse", "dce", "done"}
\* The bar's opcode is named: the provers take no literal for a STRING.
Placed == [opcode : STRING \union {"DEPBAR"}, operands : Seq(Operand), src : Nat, at : Nat]

\* What the front passes leave and nothing changes again.
HandedOn ==
  /\ prog \in Seq(Inst) /\ code \in Seq(Index)
  /\ \A k, l \in DOMAIN code : code[k] = code[l] => k = l
  /\ \A k \in 1 .. Len(code) - 1 : prog[code[k]].opcode \notin Terminator

\* Instruction k of what optimize_p0 left is in v once, or twice and in front of
\* a loop end.
Copied(v, k) ==
  \E a, b \in DOMAIN v :
    /\ \A p \in DOMAIN v : v[p].src = code[k] <=> p \in {a, b}
    /\ a = b \/ InFrontOfLoopEnd(k)

\* loop_unroll has not touched what lies behind the last copy, of which a branch
\* is the end: no body reaches in front of it.
Grown == Len(insts) - Len(code)
UntouchedFrom(l) ==
  /\ \A i \in l .. Len(insts) : insts[i].src = code[i - Grown]
  /\ \A i \in 1 .. l - 1 : \E k \in 1 .. l - 1 - Grown : insts[i].src = code[k]
  /\ \A k \in 1 .. l - 1 - Grown : Copied(insts, k)
  /\ l > 1 => /\ l - 1 > Grown
              /\ insts[l - 1].opcode = "BRA" /\ insts[l - 1].src = code[l - 1 - Grown]
UnrollInv ==
  /\ Grown \in Nat /\ visit \in 1 .. Len(insts) + 1
  /\ \A i \in DOMAIN insts : insts[i].src \in Index /\ insts[i].opcode = prog[insts[i].src].opcode
  /\ \E l \in Grown + 1 .. visit : UntouchedFrom(l)

BaseInv ==
  /\ \A i \in DOMAIN base : base[i].at = i
  /\ \A k \in DOMAIN code : Copied(base, k)
  /\ \A i \in DOMAIN base : base[i].opcode \in Terminator => i = Len(base)

\* Registers get other names, and everything stays in its place.
InPlace ==
  /\ DOMAIN insts = DOMAIN base
  /\ \A i \in DOMAIN base :
       insts[i].opcode = base[i].opcode /\ insts[i].src = base[i].src /\ insts[i].at = i

\* Behind a terminator comes only what waits for something in front of it.
Awaited(i, n) == \E a \in 1 .. n : Dst(insts[issued[a]]) \in RegsOf(insts[i])
IssueInv ==
  /\ issued \in Seq(DOMAIN insts)
  /\ \A a, b \in DOMAIN issued : issued[a] = issued[b] => a = b
  /\ \A r \in Reg : written[r] >= 0 => \E a \in DOMAIN issued : Dst(insts[issued[a]]) = r
  /\ \A a \in DOMAIN issued : insts[issued[a]].opcode \in Terminator =>
       /\ \A b \in a + 1 .. Len(issued) : Awaited(issued[b], b - 1)
       /\ \A i \in Waiting : Awaited(i, Len(issued))

\* Each instruction of base is somewhere, once, and the rest are bars.
Arranged(v) ==
  /\ \A u \in DOMAIN base : \E p \in DOMAIN v : v[p].at = u
  /\ \A p, q \in DOMAIN v : v[p].at # 0 /\ v[p].at = v[q].at => p = q
  /\ \A p \in DOMAIN v : IF v[p].at = 0 THEN v[p].src = 0
                         ELSE v[p].at \in DOMAIN base /\ v[p].src = base[v[p].at].src

P1Types ==
  /\ stage \in Early \union {"unroll", "allocate", "schedule", "separate", "guard"}
  /\ stage \notin Early => insts \in Seq(Placed)
  /\ base \in Seq(Placed) /\ phys \in [Reg -> 0 .. MaxRegs - 1 \union {NoReg}] /\ held \subseteq Reg
  /\ written \in [Reg -> Int] /\ cycle \in Nat

P1Inv ==
  /\ P1Types
  /\ IF stage \in Early THEN PropInv ELSE HandedOn
  /\ stage = "unroll" => UnrollInv
  /\ stage \in {"allocate", "schedule", "separate", "guard"} => BaseInv
  /\ stage \in {"allocate", "schedule"} => InPlace
  /\ IF stage = "schedule" THEN IssueInv
     ELSE stage \in {"separate", "guard"} \/ (issued = <<>> /\ \A r \in Reg : written[r] = -1)
  /\ stage \in {"separate", "guard"} => Arranged(insts) /\ visit \in Nat /\ visit <= Len(insts) + 1
  /\ stage = "separate" => visit > 0
  /\ stage = "guard" => visit <= Len(insts)
  /\ BehindTerminator

-----------------------------------------------------------------------------
(* What FlowExplained needs besides: the live ranges, as the allocator saw *)
(* them in base, and the operands that came of it.                         *)
Mentioning(r) == {i \in DOMAIN base : r \in RegsOf(base[i])}

\* Two ranges that hold one register follow each other.
RangesApart ==
  \A q, r \in held : q # r /\ phys[q] = phys[r] =>
    \/ \A i \in Mentioning(q), j \in Mentioning(r) : i < j
    \/ \A i \in Mentioning(q), j \in Mentioning(r) : j < i

\* The scan goes by first mention.
ScannedInOrder ==
  \A q, r \in Reg \ {RZ} : phys[q] # NoReg /\ phys[r] = NoReg =>
    \A j \in Mentioning(r) : \E i \in Mentioning(q) : i <= j

PhysInv ==
  /\ phys[RZ] = NoReg /\ \A r \in held : phys[r] # NoReg
  /\ Len(base) < MinAllocate => \A r \in Reg : phys[r] = NoReg
  /\ RangesApart

AllRenamed ==
  MinAllocate <= Len(base) => \A i \in DOMAIN base : \A r \in RegsOf(base[i]) \ {RZ} : phys[r] # NoReg

\* A bar, or an instruction of base with its registers renamed.
FromBase(inst) ==
  IF inst.at = 0 THEN inst.operands = <<>>
  ELSE /\ inst.at \in DOMAIN base
       /\ inst.operands = [k \in DOMAIN base[inst.at].operands |-> Renamed(base[inst.at].operands[k])]

FlowInv ==
  /\ stage \in Early \union {"unroll"} => held = {} /\ \A r \in Reg : phys[r] = NoReg
  /\ stage = "allocate" => insts = base /\ PhysInv /\ ScannedInOrder
  /\ stage \in {"schedule", "separate", "guard"} =>
       PhysInv /\ AllRenamed /\ \A p \in DOMAIN insts : FromBase(insts[p])
=============================================================================
