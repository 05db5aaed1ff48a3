------------------------------ MODULE SASSWord ------------------------------
(***************************************************************************)
(* The 64-bit word of the portable format: how BlockEncoder puts an        *)
(* instruction into it (src/sass/block_encoder.cpp, operand_codec.h) and   *)
(* what disassemble reads back (src/sass/disassembler.cpp).  A word is the *)
(* set of its one bits, so that "|" is a union and fields that overlap do  *)
(* so here as well.                                                        *)
(***************************************************************************)
EXTENDS BitField, Integers, Sequences, FiniteSets, FiniteSetsExt

CONSTANT Group   \* instructions in one fused word, 8 in the code

ASSUME GroupAssumption == Group \in 2 .. 255

-----------------------------------------------------------------------------
(* Instructions.  A LABEL holds the index the label stands for, counted    *)
(* from 0 as in the symbol table, or Unresolved; "VAVX3" stands for the    *)
(* vector and ternary register operands.                                   *)
Unresolved == -1
ResolvedOperand ==
  [type : {"REG"}, reg : 0 .. 255]
    \union [type : {"IMM"}, val : Int]
    \union [type : {"MEM"}, base : 0 .. 255, offset : -2^15 .. 2^15 - 1]
    \union [type : {"LABEL"}, target : Nat \union {Unresolved}]
    \union [type : {"VAVX3"}]

\* One opcode of each form the encoder or the disassembler treats differently.
Code == [IADD3 |-> 2, LDG |-> 23, STG |-> 25, BRA |-> 28, EXIT |-> 32, MOV32I |-> 39,
         XMAD |-> 78, FFMA |-> 89, VAVX3_MMA_512 |-> 243, TMAD |-> 248]
OperandCount == [IADD3 |-> 3, LDG |-> 2, STG |-> 2, BRA |-> 1, EXIT |-> 0, MOV32I |-> 2,
                 XMAD |-> 3, FFMA |-> 3, VAVX3_MMA_512 |-> 3, TMAD |-> 3]
ResolvedInst == [opcode : DOMAIN Code, operands : Seq(ResolvedOperand)]

-----------------------------------------------------------------------------
(* Encoding.                                                               *)
ClampShort(n) == IF n > 4095 THEN 4095 ELSE IF n < -4096 THEN -4096 ELSE n
Clamp(n) == IF n > 8191 THEN 8191 ELSE IF n < -8192 THEN -8192 ELSE n

EncodeReg(reg) == Bits(reg, 8)
EncodeImm(n) == {14} \union Bits(Clamp(n), 14)
EncodeMem(base, offset) == {15} \union Shifted(Bits(base, 6), 8) \union Bits(offset, 8)
EncodeMems(offset) == {14, 15} \union Bits(Clamp(offset), 14)

\* A label as an offset in bytes from the instruction at position idx (from 0).
LabelOffsetNext(target, idx) == Int16((target - idx - 1) * 8)
LabelOffset(target, idx) == Int16((target - idx) * 8)

\* Operand k of the instruction at position idx (from 0) of the sequence.
EncodeOperand(inst, k, idx) ==
  LET op == inst.operands[k]
  IN  CASE op.type = "REG" -> EncodeReg(op.reg)
        [] op.type = "IMM" -> EncodeImm(Int16(op.val))
        [] op.type = "MEM" /\ k = 1 /\ inst.opcode = "STG" -> EncodeMems(op.offset)
        [] op.type = "MEM" /\ ~(k = 1 /\ inst.opcode = "STG") -> EncodeMem(op.base, op.offset)
        [] op.type = "LABEL" /\ op.target # Unresolved -> EncodeImm(LabelOffset(op.target, idx))
        [] op.type = "LABEL" /\ op.target = Unresolved -> EncodeImm(0)
        [] OTHER -> EncodeReg(0)

Encoded(inst) == 1 .. (IF Len(inst.operands) < 3 THEN Len(inst.operands) ELSE 3)

\* encode_std: reuse is the set of operands marked for reuse.
EncodeStd(inst, reuse, cycle, idx) ==
  Shifted(Bits(Code[inst.opcode], 8), 56)
    \union Shifted(Bits(cycle, 8), 48)
    \union Shifted({k - 1 : k \in reuse \intersect Encoded(inst)}, 40)
    \union UNION {Shifted(EncodeOperand(inst, k, idx), 16 * (k - 1)) : k \in Encoded(inst)}

FusedCode(opcode) ==
  CASE opcode = "FFMA" -> 241
    [] opcode = "XMAD" -> 242
    [] OTHER           -> 245

\* encode_vavx3.  The mask is 1ULL << reg_id; for 64 and more that is undefined
\* in C++, and the shift of x86-64 takes the count modulo 64.
MaskOf(insts) ==
  UNION {{i.operands[k].reg % 64 : k \in {k \in DOMAIN i.operands : i.operands[k].type = "REG"}}
           : i \in insts}
EncodeFusedSwapped(insts, opcode, cycle) ==
  Shifted(Bits(FusedCode(opcode), 8), 56)
    \union Shifted(Bits(cycle, 8), 48)
    \union Shifted(Bits(Group, 8), 40)
    \union (MaskOf(insts) \intersect 0 .. 39)
EncodeFused(insts, opcode, cycle) ==
  Shifted(Bits(FusedCode(opcode), 8), 56)
    \union Shifted(Bits(Group, 8), 48)
    \union Shifted(Bits(cycle, 8), 40)
    \union (MaskOf(insts) \intersect 0 .. 39)

-----------------------------------------------------------------------------
(* Decoding: what disassemble shows of a word.                             *)
DecodeOperand(e) ==
  CASE {14, 15} \intersect e = {}       -> [type |-> "REG", reg |-> Unsigned(Field(e, 0, 8))]
    [] {14, 15} \intersect e = {14}     -> [type |-> "IMM", val |-> Signed(Field(e, 0, 14), 14)]
    [] {14, 15} \intersect e = {15}     -> [type |-> "MEM", base |-> Unsigned(Field(e, 8, 6)),
                                            offset |-> Signed(Field(e, 0, 8), 8)]
    [] {14, 15} \intersect e = {14, 15} -> [type |-> "MEM", base |-> 0,
                                            offset |-> Signed(Field(e, 0, 14), 14)]

Slot(w, k) == Field(w, 16 * (k - 1), 16)
IsPureOffset(e) == {14, 15} \subseteq e
Shown(w, k) == DecodeOperand(Slot(w, k))

\* Which of the operand slots 1 .. n are printed, by the form of the opcode.
Printed(w, opcode) ==
  LET n == 1 .. OperandCount[opcode]
  IN  CASE opcode = "STG" -> {k \in n : k = 1 \/ Shown(w, k).type = "REG"}
        [] opcode = "LDG" -> {k \in n : k = 2 \/ Shown(w, k).type = "REG"}
        [] opcode = "BRA" -> {k \in n : Shown(w, k).type \in {"IMM", "REG"}}
        [] opcode = "VAVX3_MMA_512" -> {k \in n : Shown(w, k).type = "REG"}
        [] opcode = "TMAD" -> {}
        [] OTHER -> {k \in n : ~IsPureOffset(Slot(w, k))}

\* Only the generic and the vector form print ".reuse", behind registers.
PrintedReuse(w, opcode) ==
  IF opcode \in {"STG", "LDG", "BRA"} THEN {}
  ELSE {k \in Printed(w, opcode) : Shown(w, k).type = "REG" /\ 40 + k - 1 \in w}

ShowsFused(w) == Unsigned(Field(w, 56, 8)) \in 240 .. 247 /\ Unsigned(Field(w, 48, 8)) = Group

ShownOpcode(w) == CHOOSE o \in DOMAIN Code : Code[o] = Unsigned(Field(w, 56, 8))
=============================================================================
