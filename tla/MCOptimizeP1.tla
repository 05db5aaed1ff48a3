---------------------------- MODULE MCOptimizeP1 ----------------------------
(***************************************************************************)
(* Finite instances of OptimizeP1. Moved: every program of up to MaxMoved  *)
(* instructions that move an immediate or a register, read one, or exit;   *)
(* one move has a cycle of its own, so that optimize_p0 may bring it       *)
(* behind the others. Short: every program of up to three instructions of  *)
(* one register and two cycles, which is all optimize_p0 compares. Long: a *)
(* chosen instruction in every place of a program with a loop end, shared  *)
(* memory accesses and a terminator.                                       *)
(***************************************************************************)
EXTENDS OptimizeP1

CONSTANTS MaxMoved, MaxLen

R(r) == [type |-> "REG", reg |-> r]
I(n) == [type |-> "IMM", val |-> n]
M(r, n) == [type |-> "MEM", reg |-> r, offset |-> n]
Of(opcode, c, operands) == [opcode |-> opcode, cycle |-> c, operands |-> operands]

Exit == Of("EXIT", 0, <<>>)
Moving == {R(1), R(2)}
Moved ==
  {Of("MOV", 0, <<r, I(n)>>) : r \in Moving, n \in {7, 8}}
    \union {Of("MOV", 1, <<R(1), I(7)>>)}
    \union {Of("MOV32I", 0, <<a, b>>) : a, b \in Moving}
    \union {Of("IADD3", 0, <<a, b, R(1)>>) : a, b \in Moving}
    \union {Exit}

\* Not a move: it has no value to propagate.
Lists == {<<d, s, t>> : d, s, t \in {I(1), R(0)}}
Short == {Of("FADD", c, o) : c \in 0 .. 1, o \in Lists} \union {Of("EXIT", c, <<>>) : c \in 0 .. 1}

Middle ==
  {Of("MOV", 0, <<R(0), I(7)>>), Of("FADD", 0, <<R(0), R(1), R(2)>>), Of("FADD", 0, <<R(1), R(0), R(0)>>),
   Of("FADD", 0, <<R(2), R(1), R(9)>>), Of("LDG", 0, <<R(2), M(1, 0)>>),
   Of("LDS", 0, <<R(1), M(2, -128)>>), Of("LDS", 0, <<R(0), M(0, 0)>>)}
Closing == <<Of("IADD", 0, <<R(1), R(1), I(1)>>), Of("ISETP", 0, <<I(0), R(1), R(2)>>), Of("BRA", 0, <<I(0)>>)>>

Long ==
  {Append(p, Exit) : p \in UNION {[1 .. n -> Middle] : n \in 2 .. MaxLen}}
    \union {p \o Closing \o <<Exit>> : p \in UNION {[1 .. n -> Middle] : n \in 1 .. 3}}

MCPrograms ==
  UNION {[1 .. n -> Moved] : n \in 0 .. MaxMoved} \union UNION {[1 .. n -> Short] : n \in 0 .. 3}
    \union Long
=============================================================================
