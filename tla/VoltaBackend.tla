---------------------------- MODULE VoltaBackend ----------------------------
(***************************************************************************)
(* The backends of 128-bit instructions: Volta and Turing, Ampere and Ada, *)
(* Hopper and Blackwell (src/sass/backends).  Each instruction becomes an  *)
(* operation word and a control word.                                      *)
(***************************************************************************)
EXTENDS Opcodes, Functions

\* A table by its rows, a code and the opcodes it stands for.
Coded(rows) == [o \in UNION {row[2] : row \in rows} |-> (CHOOSE row \in rows : o \in row[2])[1]]

\* volta_opcode_table, which only the JIT compiler of Volta uses.
JitTable ==
  Coded({<<\h0a10, {"FCMP"}>>, <<\h0f00, {"MUFU"}>>, <<\h6900, {"TEX"}>>,
    <<\h1000, {"FFMA", "FRCP", "FSQRT", "DFMA", "FCHK", "RRO"}>>, <<\h7305, {"F2I"}>>,
    <<\h7308, {"CVT", "I2F", "F2F", "I2I", "I2IP", "FRND"}>>, <<\h7381, {"LDG", "LD"}>>,
    <<\h7386, {"STG", "ATOM", "RED", "ST"}>>, <<\h7388, {"STS", "STL"}>>, <<\h7984, {"LDS", "LDL"}>>,
    <<\h7424, {"FADD", "FMUL", "FMNMX", "FSEL", "DADD", "DMUL", "FSWZ", "DMNMX"}>>,
    <<\h7624, {"IMAD", "IMUL", "BFI", "LOP3", "LOP32I", "XMAD", "POPC", "PLOP3"}>>,
    <<\h7625, {"XMAD_MRG", "XMAD_PSL", "XMAD_CHI", "IMNMX"}>>, <<\h7806, {"SHL", "SGXT"}>>,
    <<\h780c, {"ISET", "ISETP", "SETP", "CSET", "ICMP"}>>, <<\h7810, {"IADD3"}>>,
    <<\h7812, {"IADD", "ISUB", "ISAD", "VABSDIFF", "IADD_X"}>>,
    <<\h7819, {"SHR", "BFE", "BREV", "FLO", "SHF"}>>, <<\h7824, {"ISCADD"}>>,
    <<\h7918, {"CONT", "YIELD"}>>, <<\h7919, {"S2R", "B2R", "LEPC", "P2R", "R2P"}>>,
    <<\h7944, {"SSY"}>>, <<\h7946, {"BRX"}>>,
    <<\h7947, {"BRA", "JMP", "PBK", "PCNT", "LONGJMP", "JMX"}>>, <<\h7948, {"CAL", "JCAL"}>>,
    <<\h794d, {"EXIT", "BRK", "KILL"}>>, <<\h7950, {"RET", "PRET"}>>, <<\h7a02, {"MOV"}>>,
    <<\h7a24, {"MOV32I"}>>, <<\h7a0a, {"FSET", "DSET"}>>, <<\h7a0b, {"FSETP", "CSETP", "DSETP"}>>,
    <<\h7a0c, {"SEL"}>>, <<\h7a10, {"PRMT"}>>, <<\h7b06, {"DEPBAR"}>>, <<\h7b1d, {"BAR"}>>,
    <<\h7b98, {"MEMBAR"}>>, <<\h7b82, {"LDC", "CCTL", "CCTLL"}>>, <<\he0ff, {"BPT"}>>,
    <<\hf389, {"SHFL"}>>, <<\he900, {"SULD", "SUST", "SULEA", "SURED", "SUQ"}>>,
    <<\hf000, {"TLD", "TLD4", "TXQ"}>>, <<\h7f00, {"WGMMA_ARRIVE"}>>, <<\h7f01, {"WGMMA_COMMIT"}>>,
    <<\h7f02, {"WGMMA_WAIT"}>>, <<\h7f10, {"TMA_LOAD"}>>, <<\h7f11, {"TMA_STORE"}>>,
    <<\h7f20, {"MBARRIER_ARRIVE"}>>, <<\h7f30, {"TENSORMAP_REPLACE"}>>,
    <<\h7f40, {"FENCE_TENSORMAP"}>>})

Tensor == {"WGMMA_ARRIVE", "WGMMA_COMMIT", "WGMMA_WAIT", "TMA_LOAD", "TMA_STORE", "MBARRIER_ARRIVE",
           "TENSORMAP_REPLACE", "FENCE_TENSORMAP"}

\* opcode_map, kept apart from the table above: it has fewer opcodes, and of
\* those it has it gives some another code.
Unmapped == {"IADD_X", "ISCADD", "KILL", "YIELD", "SETP", "XMAD", "XMAD_MRG", "XMAD_PSL", "PBK", "SUST"}
OpMap ==
  Over(Coded({<<\h0200, {"SHFL"}>>, <<\h1000, {"FSET", "DSET"}>>, <<\h7212, {"PRMT"}>>,
              <<\h780c, {"FSETP", "DSETP", "CSETP"}>>}),
       Restrict(JitTable, DOMAIN JitTable \ (Unmapped \union Tensor)))

\* What follows the second assignment to IMUL stands.
AmpereOwn ==
  [FADD |-> \h0804, FMUL |-> \h080e, FFMA |-> \h0812, IMAD |-> \h1800, IADD3 |-> \h8212, IMUL |-> \h8224,
   BAR |-> \hc0ff, MEMBAR |-> \hd000, DEPBAR |-> \hd200, STG |-> \h7986, LDG |-> \h7981, STS |-> \h7988,
   LDS |-> \h7984]
AmpereMap == Over(AmpereOwn, Over(Restrict(JitTable, Tensor), OpMap))
HopperMap == Over(Restrict(JitTable, Tensor), AmpereMap)

-----------------------------------------------------------------------------
NoPair == <<{}, {}>>
Control == {8, 9, 10, 11, 42} \union 45 .. 51   \* 0x000fe40000000f00

\* The registers have fields six bits apart and are eight bits wide.
RegistersClose(inst) == RegAt(inst, 1, 20) \union RegAt(inst, 2, 25) \union RegAt(inst, 3, 30)
Registers(inst) == RegAt(inst, 1, 20) \union RegAt(inst, 2, 26) \union RegAt(inst, 3, 32)

\* JITCompiler::compile on one instruction; immediates do not reach the word.
JitPair(inst) ==
  IF inst.opcode \in DOMAIN JitTable
  THEN <<Bits(JitTable[inst.opcode], 16) \union Registers(inst), Control>>
  ELSE NoPair

\* An offset of 16 bits, extended to 20 and put at bit 12, where the opcode
\* still has four bits.
BranchWord(inst) ==
  36 .. 63 \union Bits(\h7947, 16) \union Shifted(Bits(Int16(Imm(inst, 1)), 20), 12)

MovWord(inst) ==
  RegAt(inst, 1, 20) \union
    CASE HasImm(inst, 2) -> {34} \union Bits(\h7802, 16) \union Shifted(Bits(Imm(inst, 2), 16), 32)
      [] HasReg(inst, 2) -> Bits(\h7202, 16) \union RegAt(inst, 2, 26)
      [] OTHER -> {16, 41, 43} \union Bits(\h7a02, 16)

Mov32iWord(inst) == Bits(\h7a24, 16) \union RegAt(inst, 1, 20) \union Shifted(Bits(Imm(inst, 2), 16), 32)

\* volta_enc::encode with one of the maps.
Operation(inst, map) ==
  CASE inst.opcode = "EXIT" -> Bits(\h794d, 16)
    [] inst.opcode = "RET" -> Bits(\h7950, 16)
    [] inst.opcode \in {"BRA", "BRX"} -> BranchWord(inst)
    [] inst.opcode = "S2R" -> {18} \union Bits(\h7919, 16) \union RegAt(inst, 1, 20)
    [] inst.opcode = "MOV" -> MovWord(inst)
    [] inst.opcode = "MOV32I" -> Mov32iWord(inst)
    [] OTHER -> Bits(map[inst.opcode], 16) \union Registers(inst)
MappedPair(inst, map) ==
  IF inst.opcode \in DOMAIN map THEN <<Operation(inst, map), Control>> ELSE NoPair

\* default_ctrl shifts a 64-bit word by 110 and 113, which is undefined: the
\* shift of x86-64 takes the count modulo 64, and a compiler may fold it to 0.
DefaultCtrl == {{}, 46 .. 51}

\* encode_ampere.  STG, LDG and MOV get no opcode at all.
PrecisePair(inst, ctrl) ==
  CASE inst.opcode = "EXIT" -> <<Bits(\h794d, 16), Control>>
    [] inst.opcode = "RET" -> <<Bits(\h7950, 16), Control>>
    [] inst.opcode = "FFMA" ->
         <<Bits(\h223, 11) \union RegAt(inst, 1, 16) \union RegAt(inst, 2, 24) \union RegAt(inst, 3, 32),
           ctrl \union RegAt(inst, 4, 0)>>
    [] inst.opcode = "STG" -> <<RegAt(inst, 1, 24) \union RegAt(inst, 2, 32), ctrl>>
    [] inst.opcode = "LDG" -> <<RegAt(inst, 2, 24) \union RegAt(inst, 1, 32), ctrl>>
    [] inst.opcode = "MOV" -> <<RegAt(inst, 1, 16) \union Shifted(Bits(Imm(inst, 2), 24), 40), ctrl>>
    [] OTHER -> NoPair

\* An all-zero pair is taken for a missing one, whatever it stands for.
AmperePair(inst, ctrl) ==
  LET pair == PrecisePair(inst, ctrl)
  IN  IF pair = NoPair THEN MappedPair(inst, AmpereMap) ELSE pair

HopperPair(inst) ==
  LET pair == MappedPair(inst, HopperMap)
  IN  IF pair = NoPair THEN MappedPair(inst, AmpereMap) ELSE pair

VoltaSupports(opcode) == Value[opcode] <= Value["SUQ"]

-----------------------------------------------------------------------------
(* volta_disasm, and what Hopper shows in its place.                       *)
VoltaNames ==
  \h7386 :> "STG" @@ \h7986 :> "STG.E" @@ \h7381 :> "LDG" @@ \h7981 :> "LDG.E" @@ \h7388 :> "STS"
  @@ \h7988 :> "STS" @@ \h7984 :> "LDS" @@ \h7b82 :> "LDC" @@ \h7624 :> "IMAD" @@ \h7625 :> "IMAD.WIDE"
  @@ \h7630 :> "HADD2" @@ \h7631 :> "HFMA2" @@ \h7802 :> "MOV" @@ \h780c :> "ISETP" @@ \h7812 :> "IADD"
  @@ \h7810 :> "IADD3" @@ \h7819 :> "SHF" @@ \h7806 :> "SHL" @@ \h7824 :> "IMAD.SHL" @@ \h7919 :> "S2R"
  @@ \h7918 :> "NOP" @@ \h7947 :> "BRA" @@ \h794d :> "EXIT" @@ \h7950 :> "RET" @@ \h7944 :> "SSY"
  @@ \h7948 :> "CAL" @@ \h7946 :> "BRX" @@ \h7a02 :> "MOV" @@ \h7a24 :> "MOV32I" @@ \h7a0c :> "SEL"
  @@ \h7a0a :> "FSET" @@ \h7a0b :> "FSETP" @@ \h7a08 :> "MOV" @@ \h7a10 :> "PRMT" @@ \h7b1d :> "BAR.SYNC"
  @@ \h7b98 :> "MEMBAR" @@ \h7b06 :> "DEPBAR" @@ \h7424 :> "FADD" @@ \h1000 :> "FFMA" @@ \h0a10 :> "FCMP"
  @@ \h0f00 :> "MUFU" @@ \h7308 :> "I2F" @@ \h7305 :> "F2I" @@ \he900 :> "SULD" @@ \h6900 :> "TEX"
  @@ \hf000 :> "TLD" @@ \hf389 :> "SHFL" @@ \he0ff :> "BPT" @@ \h0804 :> "HADD2" @@ \h080e :> "HMUL2"
  @@ \h0812 :> "HFMA2" @@ \h1800 :> "MMA.SYNC" @@ \h1904 :> "MMA.SYNC.ALIGNED" @@ \h8212 :> "IADD3"
  @@ \h8224 :> "IMAD" @@ \hc0ff :> "BAR" @@ \hd000 :> "MEMBAR" @@ \hd200 :> "DEPBAR"
  @@ \h7f00 :> "WGMMA.FENCE" @@ \h7f01 :> "WGMMA.COMMIT" @@ \h7f02 :> "WGMMA.WAIT"
  @@ \h7f10 :> "TMA.LOAD" @@ \h7f11 :> "TMA.STORE"
HopperNames ==
  \h7f00 :> "wgmma.fence" @@ \h7f01 :> "wgmma.commit" @@ \h7f02 :> "wgmma.wait" @@ \h7f10 :> "tma.load"
  @@ \h7f11 :> "tma.store" @@ \h7f20 :> "mbarrier.arrive" @@ \h7f30 :> "tensormap.replace"
  @@ \h7f40 :> "fence.tensormap" @@ VoltaNames

HardwareCode(w) == Unsigned(Field(w, 0, 16))
NameIn(names, w) == IF HardwareCode(w) \in DOMAIN names THEN names[HardwareCode(w)] ELSE "UNKNOWN"
=============================================================================
