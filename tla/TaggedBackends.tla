--------------------------- MODULE TaggedBackends ---------------------------
(***************************************************************************)
(* The backends that leave encoding to an external assembler: x86-64 and   *)
(* AMD RDNA4 (src/sass/backends).  A word is a tag and the opcode; an      *)
(* opcode without a row gets no word at all.                               *)
(***************************************************************************)
EXTENDS PascalBackend

X86Table ==
  [FFMA |-> "VFMADD231PS ymm", FADD |-> "VADDPS ymm", FMUL |-> "VMULPS ymm", FSQRT |-> "VSQRTPS ymm",
   FRCP |-> "VRCPPS ymm", FMNMX |-> "VMAXPS ymm/VMINPS ymm", FSEL |-> "VBLENDVPS ymm",
   FCMP |-> "VCMPPS ymm", IADD |-> "VPADDD ymm", ISUB |-> "VPSUBD ymm", IMUL |-> "VPMULLD ymm",
   SHL |-> "VPSLLVD ymm", SHR |-> "VPSRLVD ymm", IMNMX |-> "VPMAXSD ymm/VPMINSD ymm",
   POPC |-> "VPOPCNTD ymm", BREV |-> "VPSHUFB ymm", LOP3 |-> "VPXORD ymm (3-op)", MOV |-> "VMOVUPS ymm",
   MOV32I |-> "VMOVDQA ymm", STG |-> "VMOVUPS [mem]", LDG |-> "VMOVUPS ymm,[mem]",
   STS |-> "VMOVAPS [mem]", LDS |-> "VMOVAPS ymm,[mem]", SULD |-> "VBROADCASTSS ymm",
   PRMT |-> "VPERMILPS ymm", SHFL |-> "VSHUFPS ymm", CVT |-> "VCVTDQ2PS ymm", I2F |-> "VCVTDQ2PS ymm",
   F2I |-> "VCVTTPS2DQ ymm", EXIT |-> "ret", RET |-> "ret", BRA |-> "jmp label", CAL |-> "call label",
   ISET |-> "VPCMPEQD ymm", ISETP |-> "VPCMPGTD ymm", FSET |-> "VCMPPS ymm", FSETP |-> "VCMPPS ymm",
   BAR |-> "mfence", MEMBAR |-> "sfence", BPT |-> "int3", MUFU |-> "call expf", DMUL |-> "VMULSD xmm",
   DADD |-> "VADDSD xmm", DFMA |-> "VFMADD231SD xmm", BRX |-> "je/jne/jg/jl/etc", SSY |-> "push",
   KILL |-> "ud2"]

\* The first row of an opcode counts: the second one of IMAD is never found.
HunToAmd ==
  [FFMA |-> "v_fmac_f32", FADD |-> "v_add_f32", FMUL |-> "v_mul_f32", FSQRT |-> "v_sqrt_f32",
   FRCP |-> "v_rcp_f32", FMNMX |-> "v_max_f32", FCMP |-> "v_cmp_gt_f32", DFMA |-> "v_fma_f64",
   DADD |-> "v_mov_b32", DMUL |-> "v_mul_f32", IADD |-> "v_add_u32", IADD3 |-> "v_add_u32",
   ISUB |-> "v_sub_u32", IMAD |-> "v_mad_i32_i24", IMUL |-> "v_mul_lo_u32", SHL |-> "v_lshlrev_b32",
   SHR |-> "v_lshrrev_b32", SHF |-> "v_alignbyte_b32", PRMT |-> "v_perm_b32", IMNMX |-> "v_max_i32",
   MOV |-> "v_mov_b32", MOV32I |-> "s_movk_i32", SEL |-> "v_cndmask_b32", LDG |-> "global_load_dword",
   STG |-> "global_store_dword", LDS |-> "ds_read_b32", STS |-> "ds_write_b32", LDC |-> "s_mov_b32",
   LDL |-> "ds_read_b32", STL |-> "ds_write_b32", EXIT |-> "s_endpgm", RET |-> "s_setpc_b64",
   BRA |-> "s_branch", CAL |-> "s_swappc_b64", BAR |-> "s_barrier", DEPBAR |-> "s_waitcnt vmcnt(0)",
   MEMBAR |-> "s_waitcnt lgkmcnt(0)", YIELD |-> "s_sleep 1", ATOM |-> "global_atomic_add",
   I2F |-> "v_cvt_f32_i32", F2I |-> "v_cvt_i32_f32", CVT |-> "v_cvt_f32_f16", TEX |-> "image_sample",
   TLD |-> "image_load", TLD4 |-> "image_gather4", SULD |-> "image_load", SUST |-> "image_store",
   DSET |-> "v_cmp_gt_f64", DSETP |-> "v_cmp_ge_f64", BPT |-> "s_trap 2"]

X86Tag == \hf0
AmdTag == \he0

TaggedWord(tag, inst) == Shifted(Bits(tag, 8), 56) \union Shifted(Bits(Value[inst.opcode], 16), 48)
TagOf(w) == FamilyByte(w)

\* The opcode is masked to eight bits before it is looked up.
TaggedName(tag, table, w) ==
  LET found == {o \in DOMAIN table : Value[o] = Unsigned(Field(w, 48, 8))}
  IN  CASE TagOf(w) # tag -> PascalName(w)
        [] TagOf(w) = tag /\ found = {} -> "???"
        [] OTHER -> table[CHOOSE o \in found : TRUE]

\* The words of a program: what is not in the table is dropped.
TaggedWords(tag, table, inst) ==
  IF inst.opcode \in DOMAIN table THEN <<TaggedWord(tag, inst)>> ELSE <<>>
=============================================================================
