--------------------------- MODULE PascalBackend ---------------------------
(***************************************************************************)
(* The backend of 64-bit Pascal words (src/sass/pascal_backend.h): what it *)
(* refuses and warns about, the words of its families, and what its        *)
(* disassembler makes of them.                                             *)
(***************************************************************************)
EXTENDS Opcodes

CONSTANT Group   \* instructions of a fused word, 8 in the code

ASSUME GroupAssumption == Group \in Nat \ {0, 1}

-----------------------------------------------------------------------------
(* safe::validate and the diagnostics of encode.  A register number has    *)
(* eight bits, so it cannot be above 255.                                  *)
ValidInst(inst) ==
  /\ Len(inst.operands) <= 4
  /\ \A n \in DOMAIN inst.operands :
       inst.operands[n].type = "VAVX3_REG" => inst.operands[n].id <= 127
Valid(seq) == \A k \in DOMAIN seq : ValidInst(seq[k])

HasTerminator(seq) == \E k \in DOMAIN seq : seq[k].opcode \in {"EXIT", "RET"}

\* R255 is RZ and does not count.
Seen(seq) == {Reg(seq[k], n) : k \in DOMAIN seq, n \in 1 .. 4} \ {255}

Diagnostics(seq) ==
  CASE seq = <<>> -> {"empty program"}
    [] seq # <<>> /\ ~Valid(seq) -> {"invalid instruction"}
    [] seq # <<>> /\ Valid(seq) ->
         {"no terminator" : k \in IF HasTerminator(seq) THEN {} ELSE {0}}
           \union {"high register pressure" : r \in {r \in Seen(seq) : r >= 48}}

-----------------------------------------------------------------------------
(* Words.  A family has its byte, constant bits, where the registers go    *)
(* and which numbers stand for registers that are not there.               *)
Family(byte, const, low, default) ==
  [byte |-> byte, const |-> const, low |-> low, default |-> default]
Zeros == <<0, 0, 0, 0>>

Alu == Family(\h4c, {}, <<0, 16, 8>>, Zeros)
Pred == Family(\h4b, {}, <<16, 0>>, Zeros)
Cvt == Family(\h5c, {}, <<16, 0>>, Zeros)
Mem == Family(\hee, {}, <<0, 8>>, Zeros)
Mem2 == Family(\hef, {}, <<0, 8>>, Zeros)
Float == Family(\hf0, {}, <<0, 16, 8>>, Zeros)
Branch == Family(\he2, {54} \union 31 .. 51 \union 24 .. 26, <<>>, Zeros)

FamilyOf(opcode) ==
  CASE opcode = "EXIT" -> Family(\he3, 0 .. 3 \union 16 .. 18, <<>>, Zeros)
    [] opcode = "RET" -> Family(\he3, 0 .. 3 \union 16 .. 18 \union {53}, <<>>, Zeros)
    [] opcode \in {"BRK", "CONT"} -> Family(\he3, 0 .. 3 \union 16 .. 18 \union {54}, <<>>, Zeros)
    [] opcode \in {"BRA", "BRX", "CAL", "JMP", "JCAL", "SSY", "PBK", "PCNT", "PRET", "BPT", "LONGJMP",
                   "JMX"} -> Branch
    [] opcode = "FFMA" -> Family(\h59, {55}, <<0, 16, 24, 32>>, <<0, 0, 255, 255>>)
    [] opcode = "XMAD" -> Family(\h4e, {}, <<0, 16, 24, 32>>, <<0, 0, 0, 255>>)
    [] opcode = "XMAD_MRG" -> Family(\h4f, 23 .. 30 \union {36}, <<0, 8, 16>>, Zeros)
    [] opcode = "XMAD_PSL" -> Family(\h5b, {19, 20, 36, 37}, <<0, 8, 16, 32>>, Zeros)
    [] opcode = "MOV32I" -> Family(\h01, {}, <<0>>, Zeros)
    [] opcode \in {"LOP32I", "BREV"} -> Family(\h04, {}, <<8, 0>>, Zeros)
    [] opcode = "LOP3" -> Family(\h3c, {}, <<16, 8, 0>>, Zeros)
    [] opcode = "BFI" -> Family(\h36, {}, <<16, 0>>, Zeros)
    [] opcode \in {"SHR", "BFE"} -> Family(\h38, {}, <<16, 0>>, Zeros)
    [] opcode \in {"MOV", "IADD", "IADD3", "IADD_X", "ISCADD", "ISUB", "IMAD", "IMUL", "IMNMX", "SHL",
                   "SEL", "DADD", "DMUL", "POPC", "FLO", "SHF", "ISAD", "VABSDIFF", "PRMT", "SGXT"} -> Alu
    [] opcode \in {"ISET", "ISETP", "FSETP", "SETP", "DSETP", "CSETP", "DSET", "PLOP3", "CSET"} -> Pred
    [] opcode = "FSET" -> Family(\h48, {}, <<16, 0>>, Zeros)
    [] opcode \in {"CVT", "F2F", "F2I", "I2F", "I2I", "FRND", "FSWZ", "RRO", "I2IP"} -> Cvt
    [] opcode \in {"STG", "STS", "ST"} -> Mem
    [] opcode \in {"LDG", "LDS", "LDC", "MEMBAR", "SHFL", "LDL", "STL", "LD", "CCTL", "CCTLL"} -> Mem2
    [] opcode \in {"FADD", "FMUL", "FSQRT", "FRCP", "FMNMX", "FSEL", "S2R", "BAR", "DEPBAR", "DMNMX",
                   "FCMP", "FCHK", "P2R", "R2P", "B2R", "LEPC"} -> Float
    [] opcode = "MUFU" -> Family(\h50, {}, <<8, 0>>, Zeros)
    [] opcode = "DFMA" -> Family(\h53, {}, <<16, 8, 0>>, Zeros)
    [] opcode \in {"ATOM", "RED"} -> Family(\hed, {}, <<0, 8>>, Zeros)
    [] opcode = "TEX" -> Family(\hd8, {}, <<0>>, Zeros)
    [] opcode \in {"TLD", "TLD4", "TXQ"} -> Family(\hda, {}, <<0>>, Zeros)
    [] opcode \in {"SULD", "SULEA", "SUST", "SURED", "SUQ"} -> Family(\heb, {}, <<16, 0>>, Zeros)
    [] OTHER -> Family(Value[opcode] % 256, {}, <<0, 16, 32>>, Zeros)

FieldOf(inst, n) ==
  Shifted(Bits(RegOr(inst, n, FamilyOf(inst.opcode).default[n]), 8), FamilyOf(inst.opcode).low[n])
BranchOffset(inst) == Shifted(Bits(Imm(inst, 1), 16), 8)

PascalWord(inst) ==
  LET family == FamilyOf(inst.opcode)
  IN  Shifted(Bits(family.byte, 8), 56) \union family.const
        \union (IF family = Branch THEN BranchOffset(inst) ELSE {})
        \union UNION {FieldOf(inst, n) : n \in DOMAIN family.low}

\* can_fuse and encode_vavx3, which every call gives the cycle 0.
FusesMixed(seq, k) ==
  /\ k + Group - 1 <= Len(seq)
  /\ \A j \in k .. k + Group - 1 : seq[j].opcode \in {"FFMA", "XMAD"}
Fuses(seq, k) ==
  /\ k + Group - 1 <= Len(seq)
  /\ seq[k].opcode \in {"FFMA", "XMAD"}
  /\ \A j \in k .. k + Group - 1 : seq[j].opcode = seq[k].opcode
RegsOf(inst) == {inst.operands[n].reg : n \in {n \in DOMAIN inst.operands : HasReg(inst, n)}}
FusedWord(seq, k) ==
  Shifted(Bits(IF seq[k].opcode = "FFMA" THEN \hf1 ELSE \hf2, 8), 56)
    \union Shifted(Bits(8, 8), 48)
    \union {r \in UNION {RegsOf(seq[j]) : j \in k .. k + Group - 1} : r < 64}

-----------------------------------------------------------------------------
(* pascal_disasm: name, number of operands and whether they end in an      *)
(* immediate; operands are read from the lowest bytes on.                  *)
PascalNames ==
  \he3 :> <<"EXIT", 0, FALSE>> @@ \he2 :> <<"BRA", 1, TRUE>> @@ \h59 :> <<"FFMA", 4, FALSE>>
  @@ \h4e :> <<"XMAD", 4, FALSE>> @@ \h4f :> <<"XMAD.MRG", 3, FALSE>> @@ \h5b :> <<"XMAD.PSL", 4, FALSE>>
  @@ \h4c :> <<"MOV", 2, TRUE>> @@ \h01 :> <<"MOV32I", 2, TRUE>> @@ \h5c :> <<"I2F", 2, FALSE>>
  @@ \hee :> <<"STG.E", 2, FALSE>> @@ \hef :> <<"LDG.E", 2, FALSE>> @@ \hf0 :> <<"FADD", 3, FALSE>>
  @@ \h50 :> <<"MUFU", 2, FALSE>> @@ \h53 :> <<"DFMA", 4, FALSE>> @@ \h4b :> <<"ISETP", 3, FALSE>>
  @@ \h48 :> <<"FSET", 2, FALSE>> @@ \h36 :> <<"BFI", 3, FALSE>> @@ \h38 :> <<"SHR", 2, FALSE>>
  @@ \h3c :> <<"LOP3", 3, FALSE>> @@ \h04 :> <<"LOP32I", 2, TRUE>> @@ \hed :> <<"ATOM", 2, FALSE>>
  @@ \heb :> <<"SULD", 2, FALSE>> @@ \hd8 :> <<"TEX", 1, FALSE>> @@ \hda :> <<"TLD", 1, FALSE>>

FamilyByte(w) == Unsigned(Field(w, 56, 8))
ByteAt(w, n) == Unsigned(Field(w, 8 * (n - 1), 8))
PascalName(w) == IF FamilyByte(w) \in DOMAIN PascalNames THEN PascalNames[FamilyByte(w)][1] ELSE "UNKNOWN"

\* The registers that are printed.
PascalShown(w) ==
  LET info == PascalNames[FamilyByte(w)]
  IN  IF FamilyByte(w) \notin DOMAIN PascalNames THEN <<>>
      ELSE [n \in 1 .. (IF info[3] THEN info[2] - 1 ELSE info[2]) |-> ByteAt(w, n)]

PascalByte(opcode) == FamilyByte(PascalWord([opcode |-> opcode, operands |-> <<>>]))
=============================================================================
