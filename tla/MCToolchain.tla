---------------------------- MODULE MCToolchain ----------------------------
(***************************************************************************)
(* Finite instance of Toolchain: one name per class of the factory and one *)
(* it does not know; every opcode alone with four lists of operands; every *)
(* program of up to three of seven instructions that take the different    *)
(* ways through the encoders; pairs that differ in registers.  Four fused instructions become two, and the *)
(* cubins have up to six rows of text.                                     *)
(***************************************************************************)
EXTENDS Toolchain

R(n) == [type |-> "REG", reg |-> n]
I(n) == [type |-> "IMM", val |-> n]
Of(opcode, operands) == [opcode |-> opcode, operands |-> operands]

Operands == {<<>>, <<R(5), R(40), R(63), R(7)>>, <<R(200), I(-9)>>, <<I(8), R(255), R(64)>>}
Alone == {<<Of(o, ops)>> : o \in Opcode, ops \in Operands}
Refusals ==
  {<<>>, <<Of("MOV", <<R(1), [type |-> "VAVX3_REG", id |-> 200]>>)>>,
   <<Of("EXIT", <<>>), Of("IADD", <<R(1), R(2), R(3), R(4), R(5)>>)>>}

FFMA == Of("FFMA", <<R(0), R(1), R(8), R(2)>>)
Several ==
  {FFMA, Of("XMAD", <<R(3), R(31), R(2)>>), Of("EXIT", <<>>), Of("FADD", <<R(49), R(2), R(3)>>),
   Of("VAVX3_ADD_512", <<R(1), R(2)>>), Of("MOV", <<R(2), I(4112)>>), Of("BRA", <<I(-24)>>)}

\* A register whose bit lies in the family of a fused word.
High == {<<Of("XMAD", <<R(60)>>), Of("XMAD", <<R(3), R(61)>>)>>}

\* Two instructions of one opcode with registers at either end of their fields.
Narrow ==
  LET Lists == {<<R(x), R(y), R(z)>> : x, y, z \in {1, 32}}
  IN  {<<Of("FADD", a), Of("FADD", b)>> : a, b \in Lists}

MCPrograms == Alone \union Refusals \union High \union Narrow \union UNION {[1 .. n -> Several] : n \in 2 .. 3}

\* optimize_p1 may reorder, and cuts behind a terminator.
MCOptimized(p) ==
  {p} \union {[k \in DOMAIN p |-> p[Len(p) + 1 - k]]}
      \union {SubSeq(p, 1, k) : k \in {k \in DOMAIN p : p[k].opcode \in {"EXIT", "RET", "KILL"}}}

Free == {}
Debug1f == {0, 8, 9, 10, 11, 12}
Debug08 == {11, 40}
Cubin(rows, text) == [elf |-> TRUE, rows |-> rows, text |-> text]
At1(size) == [offset |-> 1, size |-> size]
MCTemplates ==
  {Cubin(<<Free, Free, Debug1f, Free, Debug08, Free, Free>>, <<At1(5)>>),
   Cubin(<<Free, Debug1f, Free, Free>>, <<At1(1), [offset |-> 2, size |-> 2]>>),
   Cubin(<<Free, Free>>, <<>>),
   [elf |-> FALSE, rows |-> <<Free>>, text |-> <<>>]}

MCPatching ==
  {<<FFMA>>, <<Of("FADD", <<R(49), R(2), R(3)>>), Of("EXIT", <<>>)>>,
   <<FFMA, Of("MOV", <<R(2), I(4112)>>), FFMA>>}
=============================================================================
