------------------------------ MODULE ConstProp ------------------------------
(***************************************************************************)
(* const_propagation of src/sass/optimizer.h, pass P1-3, on the vector     *)
(* optimize_p0 leaves: one walk over the instructions that remembers the   *)
(* immediate of each MOV into a register and replaces the register         *)
(* operands it finds in the table, in place.                               *)
(***************************************************************************)
EXTENDS OptimizeP0

CONSTANT None   \* "not in const_vals"

ASSUME PropAssumption == None \notin Int

VARIABLES
  insts,      \* the vector being edited
  visit,      \* the instruction the loop is at, 0 before the pass
  constVals   \* const_vals, None where the map has no entry

propVars == <<insts, visit, constVals>>
vars == <<p0vars, propVars>>

Init ==
  /\ P0Init
  /\ insts = <<>> /\ visit = 0
  /\ constVals = [r \in Reg |-> None]

P0Passes == P0Next /\ UNCHANGED propVars

\* What optimize_p0 hands over.
Live == [k \in 1 .. Len(code) |-> prog[code[k]]]

Begin ==
  /\ stage = "done" /\ visit = 0
  /\ insts' = Live /\ visit' = 1
  /\ UNCHANGED <<p0vars, constVals>>

\* MOV R, #imm.
IsImmMove(inst) ==
  /\ inst.opcode \in {"MOV", "MOV32I"}
  /\ Len(inst.operands) >= 2
  /\ inst.operands[1].type = "REG"
  /\ inst.operands[2].type = "IMM"

KeepFirst(inst) ==
  IF IsImmMove(inst) /\ constVals[inst.operands[1].reg] = None
  THEN [constVals EXCEPT ![inst.operands[1].reg] = inst.operands[2].val]
  ELSE constVals
Recorded(inst) ==
  IF IsImmMove(inst)
  THEN [constVals EXCEPT ![inst.operands[1].reg] = inst.operands[2].val]
  ELSE constVals

Replace(op, known) ==
  IF op.type = "REG" /\ known[op.reg] # None
  THEN [type |-> "IMM", val |-> known[op.reg]]
  ELSE op

\* Every operand is looked up, the destination included.
Rewrite(inst, known) ==
  [inst EXCEPT !.operands = [k \in DOMAIN inst.operands |-> Replace(inst.operands[k], known)]]

VisitInst ==
  /\ stage = "done" /\ visit \in 1 .. Len(insts)
  /\ constVals' = Recorded(insts[visit])
  /\ insts' = [insts EXCEPT ![visit] = Rewrite(@, constVals')]
  /\ visit' = visit + 1
  /\ UNCHANGED p0vars

Next == P0Passes \/ Begin \/ VisitInst

Spec == Init /\ [][Next]_vars

-----------------------------------------------------------------------------
TypeOK ==
  /\ Live \in Seq(Inst)
  /\ visit \in 0 .. Len(Live) + 1 /\ (visit > 0 => stage = "done")
  /\ insts \in Seq(Inst) /\ Len(insts) = IF visit = 0 THEN 0 ELSE Len(Live)
  /\ constVals \in [Reg -> Int \union {None}]

\* Instruction w is the last in front of i to write r.
Defines(w, r, i) ==
  /\ w < i /\ RegAt(Live[w], 1) = r
  /\ \A v \in w + 1 .. i - 1 : RegAt(Live[v], 1) # r

Sources(i) == {k \in DOMAIN Live[i].operands \ {1} : Live[i].operands[k].type = "REG"}

\* A source register whose last writer moved an immediate into it becomes that
\* immediate, although the destination of that move was itself overwritten as
\* the walk went by, and a source register no immediate was ever moved into
\* stays.  Left open is what the comment in the code does not want and the code
\* does: a register overwritten since the move is replaced all the same, and so
\* is a destination.  A move of an immediate has no register source.
KnownReplaced ==
  stage = "done" =>
    \A i \in 1 .. visit - 1 : \A k \in Sources(i) :
      LET r == Live[i].operands[k].reg
      IN  ~IsImmMove(Live[i]) =>
            /\ \A w \in 1 .. i - 1 :
                 Defines(w, r, i) /\ IsImmMove(Live[w]) => insts[i].operands[k] = Live[w].operands[2]
            /\ (\A m \in 1 .. i - 1 : IsImmMove(Live[m]) => Live[m].operands[1].reg # r) =>
                 insts[i].operands[k] = Live[i].operands[k]

-----------------------------------------------------------------------------
(* The inductive invariant behind KnownReplaced, part by part.             *)

\* The last MOV of an immediate into r at or before instruction i.
LastMove(m, r, i) ==
  /\ m <= i
  /\ IsImmMove(Live[m]) /\ Live[m].operands[1].reg = r
  /\ \A n \in m + 1 .. i : ~(IsImmMove(Live[n]) /\ Live[n].operands[1].reg = r)

\* What the walk does with any register operand, destinations included.
ReplacedByLatest ==
  \A i \in 1 .. visit - 1 : \A k \in DOMAIN Live[i].operands :
    LET op == Live[i].operands[k]
    IN  op.type = "REG" =>
          /\ \A m \in 1 .. i :
               LastMove(m, op.reg, i) => insts[i].operands[k] = Live[m].operands[2]
          /\ (\A m \in 1 .. i : ~LastMove(m, op.reg, i)) => insts[i].operands[k] = op

MovesInto(n, r) == IsImmMove(Live[n]) /\ Live[n].operands[1].reg = r

\* The walk has not touched what is in front of it.
AheadUntouched == visit > 0 => \A i \in visit .. Len(Live) : insts[i] = Live[i]

\* const_vals holds the immediate of the latest move, or nothing without one.
TableInv ==
  \A r \in Reg :
    /\ constVals[r] = None => \A m \in 1 .. visit - 1 : ~MovesInto(m, r)
    /\ constVals[r] # None =>
         \E m \in 1 .. visit - 1 : /\ MovesInto(m, r)
                                   /\ \A n \in m + 1 .. visit - 1 : ~MovesInto(n, r)
                                   /\ Live[m].operands[2].val = constVals[r]

\* Only operands are replaced.
OpcodesKept == \A i \in DOMAIN insts : insts[i].opcode = Live[i].opcode

PropInv == P0Inv /\ TypeOK /\ AheadUntouched /\ TableInv /\ OpcodesKept /\ ReplacedByLatest
=============================================================================
