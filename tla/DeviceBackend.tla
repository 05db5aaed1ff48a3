--------------------------- MODULE DeviceBackend ---------------------------
(***************************************************************************)
(* DeviceBackend::create and the IDeviceBackend it returns                 *)
(* (src/sass/device_backend.cpp): a program goes through encode or         *)
(* encode_with_labels, and the words through disassemble_block.            *)
(***************************************************************************)
EXTENDS VoltaBackend, TaggedBackends, SequencesExt

CONSTANTS
  Archs,          \* the names create is asked for
  Programs,       \* the programs that are encoded
  Optimized(_)    \* what optimize_p1 may leave of a program

SupportedArchs ==
  {"sm_60", "sm_61", "sm_62", "sm_70", "sm_72", "sm_75", "sm_80", "sm_86", "sm_89", "sm_90", "sm_100",
   "sm_101", "sm_120", "x86_64", "cpu", "broadwell", "zen3", "zen4", "zen5", "amd64", "amd", "gfx1200",
   "rdna4", "rx9060"}

Create(sm) ==
  CASE sm \in {"sm_60", "sm_61", "sm_62"} -> "Pascal"
    [] sm \in {"sm_70", "sm_72"} -> "Volta"
    [] sm = "sm_75" -> "Turing"
    [] sm \in {"sm_80", "sm_86"} -> "Ampere"
    [] sm = "sm_89" -> "Ada"
    [] sm = "sm_90" -> "Hopper"
    [] sm \in {"sm_100", "sm_101", "sm_120"} -> "Blackwell"
    [] sm \in {"x86_64", "cpu", "broadwell", "zen3", "zen4", "zen5", "amd64", "amd"} -> "X86"
    [] sm \in {"gfx1200", "rdna4", "rx9060"} -> "AmdRDNA4"
    [] OTHER -> "nullptr"

ASSUME DeviceAssumption ==
  /\ \A sm \in SupportedArchs : Create(sm) # "nullptr"
  /\ \A p \in Programs : p \in Seq(Inst) /\ Optimized(p) \subseteq Seq(Inst)

Wide == {"Volta", "Turing", "Ampere", "Ada", "Hopper", "Blackwell"}

VARIABLES
  backend,   \* the class create returned
  entry,     \* "encode" or "encode_with_labels"
  prog,      \* the optimized_sequence of the caller
  seq,       \* what is encoded: Pascal optimizes its copy
  pos,       \* the instruction the encoder is at
  code, diags, listing,
  origin,    \* history: the instruction the encoder was at for each word
  stage      \* "encode", "disassemble", "done", or "none" without a backend

deviceVars == <<backend, entry, prog, seq, pos, code, diags, listing, origin, stage>>

\* Pascal looks at the program and optimizes it before the first word.
RefusedEmpty(p) == Diagnostics(p) = {"empty program"}
Refused(p) == Diagnostics(p) \in {{"empty program"}, {"invalid instruction"}}

DeviceInit ==
  /\ backend \in {Create(sm) : sm \in Archs}
  /\ entry \in {"encode", "encode_with_labels"}
  /\ prog \in Programs
  /\ stage = IF backend = "nullptr" THEN "none" ELSE "encode"
  /\ diags = IF backend = "Pascal" THEN Diagnostics(prog) ELSE {}
  /\ seq \in IF backend # "Pascal" THEN {prog} ELSE IF Refused(prog) THEN {<<>>} ELSE Optimized(prog)
  /\ pos = 1 /\ code = <<>> /\ listing = <<>> /\ origin = <<>>

-----------------------------------------------------------------------------
Emit(words) ==
  /\ code' = code \o words
  /\ origin' = origin \o [k \in DOMAIN words |-> pos]
  /\ pos' = pos + 1
  /\ UNCHANGED <<backend, entry, prog, seq, diags, listing, stage>>

At(classes) == stage = "encode" /\ pos <= Len(seq) /\ backend \in classes

\* Both entry points of Volta run the JIT templates.
EncodeVolta == At({"Volta", "Turing"}) /\ Emit(JitPair(seq[pos]))

\* Hopper overrides encode only; encode_with_labels is Ampere's.
AmpereEntry ==
  \/ At({"Ampere", "Ada"})
  \/ At({"Hopper", "Blackwell"}) /\ entry = "encode_with_labels"
EncodeAmpere == AmpereEntry /\ \E ctrl \in DefaultCtrl : Emit(AmperePair(seq[pos], ctrl))

\* VoltaBackend::encode calls a virtual function that is Ampere's here, and
\* gives it the whole program.
FallbackOne(ctrls) == AmperePair(seq[pos], ctrls[pos])
Fallback(ctrls) == FlattenSeq([k \in DOMAIN seq |-> AmperePair(seq[k], ctrls[k])])

EncodeHopper ==
  /\ At({"Hopper", "Blackwell"}) /\ entry = "encode"
  /\ IF HopperPair(seq[pos]) # NoPair
     THEN Emit(HopperPair(seq[pos]))
     ELSE \E ctrls \in [DOMAIN seq -> DefaultCtrl] : Emit(Fallback(ctrls))

EncodePascal ==
  /\ At({"Pascal"})
  /\ code' = Append(code, IF Fuses(seq, pos) THEN FusedWord(seq, pos) ELSE PascalWord(seq[pos]))
  /\ origin' = Append(origin, pos)
  /\ pos' = pos + (IF Fuses(seq, pos) THEN Group ELSE 1)
  /\ UNCHANGED <<backend, entry, prog, seq, diags, listing, stage>>

EncodeTagged ==
  \/ At({"X86"}) /\ Emit(TaggedWords(X86Tag, X86Table, seq[pos]))
  \/ At({"AmdRDNA4"}) /\ Emit(TaggedWords(AmdTag, HunToAmd, seq[pos]))

Encoded ==
  /\ stage = "encode" /\ pos > Len(seq)
  /\ stage' = "disassemble"
  /\ UNCHANGED <<backend, entry, prog, seq, pos, code, diags, listing, origin>>

-----------------------------------------------------------------------------
(* disassemble_block.  The loop of the wide backends adds two, and one      *)
(* more while there is a next word.                                         *)
ShownName(w) ==
  CASE backend \in {"Hopper", "Blackwell"} -> NameIn(HopperNames, w)
    [] backend \in Wide \ {"Hopper", "Blackwell"} -> NameIn(VoltaNames, w)
    [] backend = "X86" -> TaggedName(X86Tag, X86Table, w)
    [] backend = "AmdRDNA4" -> TaggedName(AmdTag, HunToAmd, w)
    [] OTHER -> PascalName(w)

StrideOfPairs == IF backend \in Wide THEN 2 ELSE 1
Stride == IF backend \in Wide THEN 3 ELSE 1
NextListed == Stride * Len(listing) + 1

Disassemble ==
  /\ stage = "disassemble"
  /\ NextListed <= Len(code)
  /\ listing' = Append(listing, [at |-> NextListed, name |-> ShownName(code[NextListed]),
                                 regs |-> IF backend = "Pascal" THEN PascalShown(code[NextListed]) ELSE <<>>])
  /\ UNCHANGED <<backend, entry, prog, seq, pos, code, diags, origin, stage>>

Disassembled ==
  /\ stage = "disassemble"
  /\ NextListed > Len(code)
  /\ stage' = "done"
  /\ UNCHANGED <<backend, entry, prog, seq, pos, code, diags, listing, origin>>

DeviceNext ==
  \/ EncodeVolta \/ EncodeAmpere \/ EncodeHopper \/ EncodePascal \/ EncodeTagged \/ Encoded
  \/ Disassemble \/ Disassembled

-----------------------------------------------------------------------------
IsEncoded == stage \in {"disassemble", "done"}

\* encode of Hopper on opcodes its maps lack: each of the u among n stands for
\* the words of the whole program, so the words are 2(n - u) + 2nu, and only
\* without such opcodes is instruction k found at word 2k - 1.
Lacking == {k \in DOMAIN seq : seq[k].opcode \notin DOMAIN AmpereMap}
HopperLength ==
  IsEncoded /\ backend \in {"Hopper", "Blackwell"} /\ entry = "encode" =>
    LET n == Len(seq)
        u == Cardinality(Lacking)
    IN  Len(code) = 2 * (n - u) + 2 * n * u

\* What a reader of the words finds, wherever the registers stand in them.
\* Volta: a non-zero operation word for every opcode supports() admits, with its
\* code, and words that are equal only where the registers are, as long as these
\* are below 64.  Ampere: the same opcodes but Unmapped have words.  x86 and
\* AMD: the opcodes of the table, in order.
VoltaReadBack(inst, w) ==
  /\ VoltaSupports(inst.opcode) => w # {}
  /\ w # {} => HardwareCode(w) = JitTable[inst.opcode]
Below(inst, limit) == \A n \in 1 .. 3 : Reg(inst, n) < limit
SameRegisters(i, j) == \A n \in 1 .. 3 : Reg(i, n) = Reg(j, n)
Differ(i, j, limit) == Below(i, limit) /\ Below(j, limit) /\ ~SameRegisters(i, j)
ToldApart(limit) ==
  \A k, l \in DOMAIN seq :
    Differ(seq[k], seq[l], limit) => code[2 * k - 1] # code[2 * l - 1] \/ code[2 * k - 1] = {}
Rows == IF backend = "X86" THEN X86Table ELSE HunToAmd
Kept == {k \in DOMAIN seq : seq[k].opcode \in DOMAIN Rows}
ReadBack ==
  IsEncoded =>
    /\ backend \in {"Volta", "Turing"} =>
         /\ Len(code) = 2 * Len(seq)
         /\ \A k \in DOMAIN seq : VoltaReadBack(seq[k], code[2 * k - 1])
         /\ ToldApart(64)
    /\ backend \in {"Ampere", "Ada"} =>
         /\ Len(code) = 2 * Len(seq)
         /\ \A k \in DOMAIN seq :
              VoltaSupports(seq[k].opcode) /\ seq[k].opcode \notin {"STG", "LDG", "MOV"} =>
                (code[2 * k - 1] = {} <=> seq[k].opcode \in Unmapped)
    /\ backend \in {"X86", "AmdRDNA4"} =>
         /\ DOMAIN origin = DOMAIN code
         /\ \A v, w \in DOMAIN code : v < w => origin[v] < origin[w]
         /\ {origin[w] : w \in DOMAIN code} = Kept
         /\ \A w \in DOMAIN code : Unsigned(Field(code[w], 48, 8)) = Value[seq[origin[w]].opcode]

\* A word of Pascal and the instruction behind those it stands for.
EndOf(w) == IF w < Len(code) THEN origin[w + 1] ELSE Len(seq) + 1
FusedAt(w) == EndOf(w) # origin[w] + 1

\* The listing in full: x86 and AMD name every word with the mnemonic of its
\* instruction; Pascal has a line for every word, with the registers of an
\* instruction for the families that keep them in the lowest bytes, where no
\* constant bit lies in the byte; on the others only the operation words of
\* every third instruction get a line.
LowBytes == {<<0>>, <<0, 8>>, <<0, 8, 16>>}
ShowsRegisters(inst, shown) ==
  LET family == FamilyOf(inst.opcode)
  IN  \A n \in DOMAIN shown \intersect DOMAIN family.low :
        family.low \in LowBytes /\ family.const \intersect (8 * n - 8 .. 8 * n - 1) = {} =>
          shown[n] = Reg(inst, n)
ListingShows ==
  stage = "done" =>
    /\ backend \in {"X86", "AmdRDNA4"} =>
         /\ Len(listing) = Len(code)
         /\ \A w \in DOMAIN code : listing[w].name = Rows[seq[origin[w]].opcode]
    /\ backend = "Pascal" =>
         /\ Len(listing) = Len(code)
         /\ \A w \in DOMAIN code :
              ~FusedAt(w) => ShowsRegisters(seq[origin[w]], listing[w].regs)
    /\ backend \in Wide /\ Len(code) = 2 * Len(seq) =>
         \A k \in DOMAIN seq : (\E l \in DOMAIN listing : listing[l].at = 2 * k - 1) <=> k % 3 = 1

\* Pascal refuses exactly what is empty or invalid, with no words and nothing
\* else to say; the words of the rest tile the instructions.  A word of its own
\* has the family of its opcode.  A fused word has FFMA or XMAD instructions of
\* one opcode only, and its family says which, unless one of them has a register
\* from 56 on, whose bit lies in the family.
HighRegisters(k) == {r \in UNION {RegsOf(seq[j]) : j \in k .. k + Group - 1} : r \in 56 .. 63}
Covers(w) ==
  LET k == origin[w]
  IN  \/ /\ EndOf(w) = k + 1
         /\ FamilyByte(code[w]) = PascalByte(seq[k].opcode)
      \/ /\ EndOf(w) = k + Group
         /\ \E row \in {<<"FFMA", \hf1>>, <<"XMAD", \hf2>>} :
              /\ \A j \in k .. k + Group - 1 : seq[j].opcode = row[1]
              /\ FamilyByte(code[w]) = row[2] \/ HighRegisters(k) # {}
PascalTiles ==
  IsEncoded /\ backend = "Pascal" =>
    /\ ((prog = <<>> \/ ~Valid(prog)) <=> diags \in {{"empty program"}, {"invalid instruction"}})
    /\ (prog = <<>> \/ ~Valid(prog)) => code = <<>>
    /\ DOMAIN origin = DOMAIN code
    /\ IF code = <<>> THEN seq = <<>> ELSE origin[1] = 1
    /\ \A w \in DOMAIN code : Covers(w)
=============================================================================
