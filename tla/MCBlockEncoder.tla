--------------------------- MODULE MCBlockEncoder ---------------------------
(***************************************************************************)
(* Finite instances of BlockEncoder.  Words of two instructions (eight in  *)
(* the code) let fused words, and a vector instruction at the cycle of the *)
(* group size, occur in programs of three; operand values lie on both      *)
(* sides of every limit of the format.                                     *)
(***************************************************************************)
EXTENDS BlockEncoder

CONSTANT MaxLen

R(r) == [type |-> "REG", reg |-> r]
I(n) == [type |-> "IMM", val |-> n]
M(b, o) == [type |-> "MEM", base |-> b, offset |-> o]
L(t) == [type |-> "LABEL", target |-> t]
V == [type |-> "VAVX3"]
Op(o, s) == [opcode |-> o, operands |-> s]

Insts ==
  {Op("IADD3", <<R(1), R(2), s>>) : s \in {R(2), I(5), I(300), I(-1)}}
    \union {Op("FFMA", <<R(2), R(1), R(200)>>), Op("XMAD", <<R(2), R(1), R(2), R(3)>>)}
    \union {Op("MOV32I", <<R(2), I(n)>>) : n \in {-8193, 8191, 65536}}
    \union {Op("LDG", <<R(1), M(2, -4)>>), Op("STG", <<M(2, 4), R(1)>>), Op("STG", <<M(0, -200), R(1)>>)}
    \union {Op("BRA", <<L(t)>>) : t \in {Unresolved, 0, 1, 2}}
    \union {Op("VAVX3_MMA_512", <<V, V, V, V>>), Op("TMAD", <<V, V, V, V>>), Op("EXIT", <<>>)}

MCPrograms == UNION {[1 .. n -> Insts] : n \in 0 .. MaxLen}
=============================================================================
