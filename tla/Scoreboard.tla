----------------------------- MODULE Scoreboard -----------------------------
(***************************************************************************)
(* DEPBAR insertion of src/sass/scoreboard_analysis.h, the last pass of    *)
(* the Pascal optimizer: collect the read-after-write dependences, then    *)
(* insert a barrier in front of the consumer of every dependence that is   *)
(* too close, from the last consumer to the first so that the recorded     *)
(* positions stay valid.  Positions count from 1.                          *)
(***************************************************************************)
EXTENDS Integers, Sequences, FiniteSets

CONSTANTS
  Reg, NoReg,
  FmaLatency,   \* min_cycles of an ordinary producer
  LoadLatency,  \* min_cycles of LDG and LDC
  Programs      \* the vectors insert_depbars may be called with

\* load: the opcode is LDG or LDC; srcs: the REG operands after the first,
\* in operand order, a register twice if it is named twice.
Inst == [load : BOOLEAN, dst : Reg \union {NoReg}, srcs : Seq(Reg)]

ASSUME BoardAssumption ==
  /\ NoReg \notin Reg
  /\ FmaLatency \in Nat
  /\ LoadLatency \in Nat
  /\ Programs \subseteq Seq(Inst)

Bar == 0   \* a DEPBAR in the output; other entries are source positions

VARIABLES
  prog,        \* the input vector
  phase,       \* "analyze", "insert" or "done"
  pos,         \* the instruction analyze_dependencies is at
  lastWriter,  \* last_writer, 0 for none
  found,       \* every DepInfo of the program, told apart by its operand
  deps,        \* the DepInfos the insertion loop has still to visit
  code         \* the vector being edited

vars == <<prog, phase, pos, lastWriter, found, deps, code>>

Index == 1 .. Len(prog)

-----------------------------------------------------------------------------
Init ==
  /\ prog \in Programs
  /\ phase = "analyze"
  /\ pos = 1
  /\ lastWriter = [r \in Reg |-> 0]
  /\ found = {}
  /\ deps = {}
  /\ code = [i \in Index |-> i]

MinCycles(w) == IF prog[w].load THEN LoadLatency ELSE FmaLatency

Dep(w, i, k) == [prod |-> w, cons |-> i, op |-> k, min |-> MinCycles(w)]

\* The sources are looked up before the destination is recorded, so an
\* instruction that reads and writes one register depends on the earlier write.
RecordWriter(i) == IF prog[i].dst = NoReg THEN lastWriter
                  ELSE [lastWriter EXCEPT ![prog[i].dst] = i]
WritersSeen(i) == lastWriter

AnalyzeInst ==
  /\ phase = "analyze"
  /\ pos <= Len(prog)
  /\ found' = found \union
       {Dep(WritersSeen(pos)[prog[pos].srcs[k]], pos, k) :
          k \in {k \in DOMAIN prog[pos].srcs : WritersSeen(pos)[prog[pos].srcs[k]] > 0}}
  /\ lastWriter' = RecordWriter(pos)
  /\ pos' = pos + 1
  /\ UNCHANGED <<prog, phase, deps, code>>

SortDeps ==
  /\ phase = "analyze"
  /\ pos > Len(prog)
  /\ phase' = "insert"
  /\ deps' = found
  /\ UNCHANGED <<prog, pos, lastWriter, found, code>>

\* std::sort orders by consumer alone; dependences of one consumer come in any
\* order.
IsNext(d) == \A e \in deps : e.cons <= d.cons

Critical(d) == d.cons - d.prod < d.min \div 2

InsertBefore(k) == SubSeq(code, 1, k - 1) \o <<Bar>> \o SubSeq(code, k, Len(code))
InsertAfter(k) == SubSeq(code, 1, k) \o <<Bar>> \o SubSeq(code, k + 1, Len(code))
OverwriteAt(k) == SubSeq(code, 1, k - 1) \o <<Bar>> \o SubSeq(code, k + 1, Len(code))
InsertBar(k) == InsertBefore(k)

Visit(d) ==
  /\ phase = "insert"
  /\ IsNext(d)
  /\ code' = IF Critical(d) THEN InsertBar(d.cons) ELSE code
  /\ deps' = deps \ {d}
  /\ UNCHANGED <<prog, phase, pos, lastWriter, found>>

Finish ==
  /\ phase = "insert"
  /\ deps = {}
  /\ phase' = "done"
  /\ UNCHANGED <<prog, pos, lastWriter, found, deps, code>>

Next == AnalyzeInst \/ SortDeps \/ (\E d \in deps : Visit(d)) \/ Finish

Spec == Init /\ [][Next]_vars

-----------------------------------------------------------------------------
DepInfo == [prod : Index, cons : Index, op : Nat, min : Nat]

TypeOK ==
  /\ prog \in Seq(Inst)
  /\ phase \in {"analyze", "insert", "done"}
  /\ pos \in 1 .. Len(prog) + 1
  /\ lastWriter \in [Reg -> 0 .. Len(prog)]
  /\ found \in SUBSET DepInfo
  /\ deps \in SUBSET found
  /\ code \in Seq(0 .. Len(prog))

\* The analysis finds the reaching definitions: a source operand depends on the
\* closest earlier instruction that writes its register, and on no other.
Reaches(w, i, k) ==
  /\ w < i
  /\ prog[w].dst = prog[i].srcs[k]
  /\ \A v \in w + 1 .. i - 1 : prog[v].dst # prog[i].srcs[k]
ReachingDefs ==
  phase # "analyze" =>
    /\ \A i \in Index : \A k \in DOMAIN prog[i].srcs, w \in Index :
         Dep(w, i, k) \in found <=> Reaches(w, i, k)
    /\ \A d \in found : /\ d.op \in DOMAIN prog[d.cons].srcs
                        /\ d = Dep(d.prod, d.cons, d.op)

\* The instructions keep their order and none is lost while bars go in.
OrderKept ==
  /\ \A a, b \in 1 .. Len(code) : a < b /\ code[a] # Bar /\ code[b] # Bar => code[a] < code[b]
  /\ \A i \in Index : \E a \in 1 .. Len(code) : code[a] = i

\* The bars in the run of bars right in front of instruction i.
BarsBefore(i) ==
  {a \in 1 .. Len(code) :
     \E b \in a + 1 .. Len(code) : code[b] = i /\ \A c \in a .. b - 1 : code[c] = Bar}

\* A position recorded before the edits still leads to its instruction when the
\* insertion for it is made: it holds the consumer or a bar put there for it,
\* and everything in front of it is untouched.
PositionsValid ==
  phase = "insert" =>
    \A d \in deps :
      /\ \A a \in 1 .. d.cons - 1 : code[a] = a
      /\ code[d.cons] = d.cons \/ d.cons \in BarsBefore(d.cons)

\* What the comment at the comparison calls too near: closer than the latency.
\* The code asks for less than half of it.
TooNear(d) == d.cons - d.prod < d.min

\* At the end as many bars are right in front of an instruction as it has
\* critical dependences; together they are all the bars there are.  The proof
\* of BarsPlaced goes through this count.
BarsCounted ==
  phase = "done" =>
    /\ \A i \in Index : Cardinality(BarsBefore(i)) = Cardinality({d \in found : d.cons = i /\ Critical(d)})
    /\ Len(code) = Len(prog) + Cardinality({d \in found : Critical(d)})

\* The edits shift the vector under the recorded positions, and yet every bar
\* ends in front of the right consumer: a dependence closer than half its
\* latency has a bar of its own in the run right in front of its consumer, no
\* bar stands there without a dependence closer than its latency, and there is
\* no bar elsewhere.  What lies between the two limits is left open: the code
\* leaves it unguarded, where its comment calls it too near.
BarsPlaced ==
  phase = "done" =>
    /\ \A i \in Index :
         /\ Cardinality({d \in found : d.cons = i /\ Critical(d)}) <= Cardinality(BarsBefore(i))
         /\ Cardinality(BarsBefore(i)) <= Cardinality({d \in found : d.cons = i /\ TooNear(d)})
    /\ Len(code) <= Len(prog) + Cardinality({d \in found : TooNear(d)})
=============================================================================
