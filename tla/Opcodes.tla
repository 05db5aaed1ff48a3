------------------------------ MODULE Opcodes ------------------------------
(***************************************************************************)
(* The instructions of include/sass/instruction.h as the device backends   *)
(* see them: the whole enum, and the registers and immediates they ask an  *)
(* instruction for.  Operands count from 1.                                *)
(***************************************************************************)
EXTENDS BitField, Sequences, TLC

\* A table before another one: where both have a row, the first one counts.  It
\* is @@ of TLC, which has no meaning in proofs.
Over(f, g) == [o \in DOMAIN f \union DOMAIN g |-> IF o \in DOMAIN f THEN f[o] ELSE g[o]]

\* The values of a run of enumerators that count from a number on; the runs of
\* the enum are below.
Numbered(from, names) ==
  [o \in {names[k] : k \in DOMAIN names} |-> from - 1 + CHOOSE k \in DOMAIN names : names[k] = o]

Basic ==
  <<"IADD", "IADD3", "IADD_X", "ISCADD", "ISUB", "IMAD", "IMUL", "IMNMX", "SHL", "SHR", "BFE", "BFI",
    "LOP3", "LOP32I", "BREV", "FADD", "FMUL", "FSET", "FMNMX", "FSEL", "FRCP", "FSQRT", "LDG", "LDS",
    "STG", "STS", "LDC", "BRA", "BRX", "CAL", "RET", "EXIT", "KILL", "YIELD", "BAR", "DEPBAR",
    "MEMBAR", "MOV", "MOV32I", "SEL", "S2R", "CVT", "ISET", "ISETP", "FSETP", "SETP", "DADD", "DMUL",
    "DFMA", "DMNMX", "DSET", "DSETP", "FCMP", "FSWZ", "FCHK", "RRO", "MUFU", "ISAD", "FLO", "ICMP",
    "SHF", "POPC", "VABSDIFF", "F2F", "F2I", "I2F", "I2I", "FRND", "PRMT", "SHFL", "PLOP3", "P2R",
    "R2P", "CSET", "CSETP", "LDL", "STL", "XMAD", "XMAD_MRG", "XMAD_CHI">>
Extended ==
  <<"XMAD_PSL", "ATOM", "RED", "JMP", "JCAL", "BRK", "CONT", "SSY", "PBK", "PCNT", "PRET", "BPT",
    "LONGJMP", "B2R", "LEPC", "TEX", "TLD", "TLD4", "TXQ", "SULD", "SULEA", "SUST", "SURED", "SUQ",
    "LD", "ST", "JMX", "I2IP", "SGXT", "CCTL", "CCTLL">>
Matrix ==
  <<"WGMMA_ARRIVE", "WGMMA_COMMIT", "WGMMA_WAIT", "TMA_LOAD", "TMA_STORE", "MBARRIER_ARRIVE",
    "TENSORMAP_REPLACE", "FENCE_TENSORMAP", "SWMMAC_F32_F16", "SWMMAC_F32_BF16", "SWMMAC_F32_FP8",
    "SWMMAC_I32_IU4", "SWMMAC_I32_IU8", "SWMMAC_F16_F16", "SWMMAC_BF16_BF16", "WMMA_F32_F16",
    "WMMA_F32_BF16", "WMMA_F16_F16", "WMMA_BF16_BF16", "WMMA_I32_IU8", "WMMA_I32_IU4",
    "WMMA_F32_FP8_FP8", "V_DPP_ADD", "V_DPP_MUL", "V_DPP_FMA", "V_PERMLANE16", "V_PERMLANEX16",
    "IMAGE_SAMPLE", "IMAGE_LOAD", "IMAGE_STORE", "EXPORT_MRTZ", "INTERP_P1_P2", "V_BFE_U32",
    "V_BFI_U32", "V_PERM_B32", "V_SWAP_B32", "V_PACK_LL", "V_PACK_LH", "V_ALIGNBIT", "V_ALIGNBYTE",
    "V_SAD_U32", "V_QSAD_U32", "V_MQSAD_U32", "V_DOT4_I32_I8", "V_DOT8_I32_I4", "BITOP3_B32">>
Scalar ==
  <<"S_GETPC_B64", "S_SETPC_B64", "S_CBRANCH", "S_SLEEP", "S_SETPRIO", "S_SENDMSG", "DS_PERMUTE_B32",
    "DS_SWIZZLE_B32", "DS_BPERMUTE_B32", "V_CMPSX_F32", "V_CNDMASK_B32", "V_READLANE_B32",
    "V_WRITELANE_B32">>
Vector ==
  <<"VAVX3_ADD_512", "VAVX3_MUL_512", "VAVX3_MAD_512", "VAVX3_MMA_512", "VAVX3_GEOM", "VAVX3_SHUFFLE",
    "VAVX3_BRAID", "VAVX3_LAPLACIAN", "TMAD", "TMUL", "TCONV", "TRYTE_OP">>

Value ==
  Over(Numbered(\h01, Basic), Over(Numbered(\h59, <<"FFMA">>), Over(Numbered(\h5b, Extended),
    Over(Numbered(\h80, Matrix), Over(Numbered(\hb0, Scalar), Over(Numbered(\hf0, Vector),
      Numbered(\hffff, <<"UNKNOWN">>)))))))
Opcode == DOMAIN Value

\* "LABEL" stands for the kinds no backend looks into: MEM, TRIT_REG and LABEL.
Operand ==
  [type : {"REG"}, reg : 0 .. 255]
    \union [type : {"IMM"}, val : Int]
    \union [type : {"VAVX3_REG"}, id : 0 .. 255]
    \union [type : {"LABEL"}]
Inst == [opcode : Opcode, operands : Seq(Operand)]

HasReg(inst, n) == n <= Len(inst.operands) /\ inst.operands[n].type = "REG"
HasImm(inst, n) == n <= Len(inst.operands) /\ inst.operands[n].type = "IMM"
RegOr(inst, n, default) == IF HasReg(inst, n) THEN inst.operands[n].reg ELSE default
Reg(inst, n) == RegOr(inst, n, 0)
Imm(inst, n) == IF HasImm(inst, n) THEN inst.operands[n].val ELSE 0

RegAt(inst, n, low) == Shifted(Bits(Reg(inst, n), 8), low)
=============================================================================
