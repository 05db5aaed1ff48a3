----------------------------- MODULE OptimizeP0 -----------------------------
(***************************************************************************)
(* optimize_p0 of src/sass/optimizer.h: sort by scheduled_cycle, mark      *)
(* register reuse, cut behind the first terminator.                        *)
(***************************************************************************)
EXTENDS Integers, Sequences, FiniteSets

CONSTANTS
  Reg, NoReg,
  Lookahead,   \* LOOKAHEAD
  Programs     \* the vectors the optimizer may be called with

\* Operand 1 is the destination when it is a register; cycle: scheduled_cycle.
Operand == [type : {"REG"}, reg : Reg] \union [type : {"IMM"}, val : Int]
             \union [type : {"MEM"}, reg : Reg, offset : Int]
Inst == [opcode : STRING, cycle : Nat, operands : Seq(Operand)]

ASSUME P0Assumption ==
  /\ NoReg \notin Reg
  /\ Lookahead \in Nat
  /\ Programs \subseteq Seq(Inst)

\* The register operand k is, if it is one.
RegAt(inst, k) ==
  IF k \in DOMAIN inst.operands /\ inst.operands[k].type = "REG" THEN inst.operands[k].reg ELSE NoReg

VARIABLES
  prog,    \* the vector as it came
  stage,   \* "order", "reuse", "dce" or "done" for optimize_p0
  code,    \* the vector being edited, as source positions
  pos,     \* the instruction auto_reuse is at
  reuse    \* <<source position, operand>> pairs whose reuse flag is set

p0vars == <<prog, stage, code, pos, reuse>>

Index == 1 .. Len(prog)

P0Init ==
  /\ prog \in Programs
  /\ stage = "order"
  /\ code = [i \in Index |-> i]
  /\ pos = 1
  /\ reuse = {}

\* std::stable_sort by cycle: equal cycles stay in source order.
ByCycle(i, j) == prog[i].cycle < prog[j].cycle \/ (prog[i].cycle = prog[j].cycle /\ i < j)

Rank(i) == Cardinality({j \in Index : ByCycle(j, i)})

Order ==
  /\ stage = "order"
  /\ code' = [k \in Index |-> CHOOSE i \in Index : Rank(i) = k - 1]
  /\ stage' = "reuse"
  /\ UNCHANGED <<prog, pos, reuse>>

\* Only operands 2 and 3 are looked at.
Source(i, k) == RegAt(prog[i], k)
ReadsAt(j, r) == \E k \in 2 .. 3 : Source(code[j], k) = r
WritesAt(j, r) == Source(code[j], 1) = r

\* The instructions behind position i that are looked at.
Ahead(i) == {j \in i + 1 .. i + Lookahead - 1 : j <= Len(code)}

\* The inner loop stops at the first reader or writer; a reader, even one that
\* also writes, sets the flag.
FoundIgnoringWrites(i, r) == \E j \in Ahead(i) : ReadsAt(j, r)
Found(i, r) ==
  \E j \in Ahead(i) :
    /\ ReadsAt(j, r)
    /\ \A v \in i + 1 .. j - 1 : ~ReadsAt(v, r) /\ ~WritesAt(v, r)

NextPos == pos + 1

MarkReuse ==
  /\ stage = "reuse"
  /\ pos <= Len(code)
  /\ reuse' = reuse \union
       {<<code[pos], k>> : k \in {k \in 2 .. 3 :
          /\ Source(code[pos], k) # NoReg
          /\ Found(pos, Source(code[pos], k))}}
  /\ pos' = NextPos
  /\ UNCHANGED <<prog, stage, code>>

ReuseDone ==
  /\ stage = "reuse"
  /\ pos > Len(code)
  /\ stage' = "dce"
  /\ UNCHANGED <<prog, code, pos, reuse>>

\* Everything behind the first terminator in the sorted order is cut.
Terminator == {"EXIT", "RET", "KILL"}
Stops == {k \in 1 .. Len(code) : prog[code[k]].opcode \in Terminator}
CutBeforeStop == IF Stops = {} THEN Len(code) ELSE (CHOOSE k \in Stops : \A l \in Stops : k <= l) - 1
CutLength == IF Stops = {} THEN Len(code) ELSE CHOOSE k \in Stops : \A l \in Stops : k <= l

EliminateDead ==
  /\ stage = "dce"
  /\ code' = SubSeq(code, 1, CutLength)
  /\ stage' = "done"
  /\ UNCHANGED <<prog, pos, reuse>>

P0Next == Order \/ MarkReuse \/ ReuseDone \/ EliminateDead

P0Spec == P0Init /\ [][P0Next]_p0vars

-----------------------------------------------------------------------------
At(i) == CHOOSE k \in 1 .. Len(code) : code[k] = i

\* The instruction at place p reads r, and the value is read again at most n
\* instructions on, before anything overwrites it (a reader may overwrite it
\* itself).
ReadAgain(p, r, n) ==
  \E j \in p + 1 .. Len(code) :
    /\ j - p <= n
    /\ ReadsAt(j, r)
    /\ \A v \in p + 1 .. j - 1 : ~WritesAt(v, r)

\* A source register read again before the last instruction of the lookahead is
\* flagged, and a flag stands only for a value read again within the lookahead.
\* Of a value read again at the very end of the lookahead nothing is said: the
\* code leaves it unflagged, where its comment counts that instruction in.
ReuseAgreed ==
  stage = "dce" =>
    \A i \in Index, k \in 2 .. 3 :
      LET r == Source(i, k)
      IN  /\ r # NoReg /\ ReadAgain(At(i), r, Lookahead - 1) => <<i, k>> \in reuse
          /\ <<i, k>> \in reuse => r # NoReg /\ ReadAgain(At(i), r, Lookahead)

Removed == Index \ {code[k] : k \in 1 .. Len(code)}
Dead(i) == \E t \in 1 .. i - 1 : prog[t].opcode \in Terminator

\* When the cycles follow the source order, only code behind a terminator of
\* the source is cut, and all of it is.
DeadWhenInOrder ==
  stage = "done" /\ (\A i, j \in Index : i < j => prog[i].cycle <= prog[j].cycle) =>
    Removed = {i \in Index : Dead(i)}

\* What the comment at dead_code_elimination says of what it removes: it never
\* runs, because a terminator stands in front of it.
OnlyUnreachableCut ==
  stage = "done" => \A i \in Removed : Dead(i)

-----------------------------------------------------------------------------
(* The inductive invariant behind them, part by part.                      *)

\* The sorted vector, or what is left of it: its k-th entry has k - 1 in front.
Sorted ==
  IF stage = "order" THEN code = [i \in Index |-> i] /\ pos = 1 /\ reuse = {}
  ELSE /\ code \in Seq(Index) /\ Len(code) <= Len(prog)
       /\ \A k \in 1 .. Len(code) : Rank(code[k]) = k - 1

\* Each instruction the walk has passed was marked by what lies behind it.
MarkedSoFar ==
  stage \in {"reuse", "dce"} =>
    /\ Len(code) = Len(prog) /\ (stage = "dce" => pos = Len(prog) + 1)
    /\ \A p \in 1 .. Len(code), k \in 2 .. 3 :
         <<code[p], k>> \in reuse <=>
           p < pos /\ Source(code[p], k) # NoReg /\ Found(p, Source(code[p], k))

\* The vector ends with the first terminator, or with the last instruction.
CutAtStop ==
  stage = "done" =>
    /\ \A k \in 1 .. Len(code) - 1 : prog[code[k]].opcode \notin Terminator
    /\ Len(code) < Len(prog) => Len(code) > 0 /\ prog[code[Len(code)]].opcode \in Terminator

P0Inv ==
  /\ prog \in Seq(Inst) /\ stage \in {"order", "reuse", "dce", "done"}
  /\ pos \in 1 .. Len(prog) + 1
  /\ Sorted /\ MarkedSoFar /\ CutAtStop
=============================================================================
