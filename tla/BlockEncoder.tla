---------------------------- MODULE BlockEncoder ----------------------------
(***************************************************************************)
(* The back half of Assembler::assemble: ManifoldScheduler::optimize       *)
(* reorders the parsed instructions and BlockEncoder::encode_with_labels   *)
(* walks over the result, turning Group equal opcodes in a row into one    *)
(* fused word and every other instruction into a word of its own.          *)
(* Sequences count from 1; the index i of the code is epos - 1.            *)
(***************************************************************************)
EXTENDS SASSWord

CONSTANTS
  Lookahead,   \* LOOKAHEAD of auto_insert_reuse, 4 in the code
  Weight,      \* energies the manifold may give to a slot
  Programs     \* the parsed programs

ASSUME EncoderAssumption ==
  /\ Lookahead \in Nat
  /\ Weight \subseteq Int
  /\ Programs \subseteq Seq(ResolvedInst)

VARIABLES
  prog,    \* the parsed instructions
  estage,  \* "schedule", "reuse", "encode" or "done"
  seq,     \* optimized_sequence, as positions in prog
  reuse,   \* the operands of each instruction of seq marked for reuse
  epos,    \* where the encoding loop is
  cycle,   \* its cycle counter
  code,    \* the words pushed so far
  first    \* history: where in seq the instructions of each word begin

encodeVars == <<prog, estage, seq, reuse, epos, cycle, code, first>>

Index == 1 .. Len(prog)
At(k) == prog[seq[k]]

EncodeInit ==
  /\ prog \in Programs
  /\ estage = "schedule"
  /\ seq = [i \in Index |-> i]
  /\ reuse = [i \in Index |-> {}]
  /\ epos = 1 /\ cycle = 0 /\ code = <<>> /\ first = <<>>

\* The order of the manifold: heavier slots first, equal ones as they came.  The
\* weights come out of floating-point geometry and may be any.
Heavier(weight, i, j) == weight[i] > weight[j] \/ (weight[i] = weight[j] /\ i < j)

Schedule ==
  /\ estage = "schedule"
  /\ \E weight \in [Index -> Weight] :
       seq' = [k \in Index |->
                 CHOOSE i \in Index : Cardinality({j \in Index : Heavier(weight, j, i)}) = k - 1]
  /\ estage' = "reuse"
  /\ UNCHANGED <<prog, reuse, epos, cycle, code, first>>

\* auto_insert_reuse.  Only operands 2 and 3 are sources.
IsReg(op, r) == op.type = "REG" /\ op.reg = r
Reads(k, r) == \E n \in {2, 3} \intersect DOMAIN At(k).operands : IsReg(At(k).operands[n], r)
Writes(k, r) == At(k).operands # <<>> /\ IsReg(At(k).operands[1], r)
ReadAgain(k, r) ==
  \E j \in k + 1 .. k + Lookahead - 1 :
    /\ j <= Len(seq)
    /\ Reads(j, r)
    /\ \A v \in k + 1 .. j - 1 : ~Reads(v, r) /\ ~Writes(v, r)

Marked(k) ==
  {n \in {2, 3} \intersect DOMAIN At(k).operands :
     At(k).operands[n].type = "REG" /\ ReadAgain(k, At(k).operands[n].reg)}

InsertReuse ==
  /\ estage = "reuse"
  /\ reuse' = [k \in Index |-> Marked(k)]
  /\ estage' = "encode"
  /\ UNCHANGED <<prog, seq, epos, cycle, code, first>>

CanFuseMixed(k) == k + Group - 1 <= Len(seq)
CanFuse(k) ==
  /\ k + Group - 1 <= Len(seq)
  /\ \A j \in k .. k + Group - 1 : At(j).opcode = At(k).opcode

EncodeWord ==
  /\ estage = "encode"
  /\ epos <= Len(seq)
  /\ IF CanFuse(epos)
     THEN /\ code' = Append(code, EncodeFused({At(j) : j \in epos .. epos + Group - 1}, At(epos).opcode, cycle))
          /\ epos' = epos + Group
     ELSE /\ code' = Append(code, EncodeStd(At(epos), reuse[epos], cycle, epos - 1))
          /\ epos' = epos + 1
  /\ cycle' = cycle + 1
  /\ first' = Append(first, epos)
  /\ UNCHANGED <<prog, estage, seq, reuse>>

EncodeDone ==
  /\ estage = "encode"
  /\ epos > Len(seq)
  /\ estage' = "done"
  /\ UNCHANGED <<prog, seq, reuse, epos, cycle, code, first>>

EncodeNext == Schedule \/ InsertReuse \/ EncodeWord \/ EncodeDone

EncodeSpec == EncodeInit /\ [][EncodeNext]_encodeVars

-----------------------------------------------------------------------------
OrderOK ==
  /\ seq \in [Index -> Index]
  /\ reuse \in [Index -> SUBSET {2, 3}]
EncodeTypeOK ==
  /\ prog \in Seq(ResolvedInst)
  /\ estage \in {"schedule", "reuse", "encode", "done"}
  /\ OrderOK
  /\ epos \in 1 .. Len(prog) + 1
  /\ cycle \in 0 .. Len(prog)
  /\ code \in Seq(SUBSET (0 .. 63))
  /\ first \in Seq(Index)

Covers(w) == first[w] .. (IF w = Len(code) THEN epos ELSE first[w + 1]) - 1
IsFused(w) == Cardinality(Covers(w)) > 1

\* The words cover the scheduled instructions without gap or overlap, those of
\* a fused word all have one opcode, and the cycle field counts words.
WordsTile ==
  /\ UNION {Covers(w) : w \in DOMAIN code} = 1 .. epos - 1
  /\ \A w \in DOMAIN code :
       /\ Cardinality(Covers(w)) \in {1, Group}
       /\ \A j \in Covers(w) : At(j).opcode = At(first[w]).opcode
       /\ Unsigned(Field(code[w], IF IsFused(w) THEN 40 ELSE 48, 8)) = (w - 1) % 256

\* The kinds of operands the form of the opcode prints at k.
KindsPrinted(opcode, k) ==
  CASE opcode = "STG" /\ k > 1 -> {"REG"}
    [] opcode = "LDG" /\ k = 1 -> {"REG"}
    [] opcode = "VAVX3_MMA_512" -> {"REG"}
    [] opcode = "BRA" -> {"REG", "IMM"}
    [] opcode = "TMAD" -> {}
    [] OTHER -> {"REG", "IMM", "MEM"}

\* What the format can hold and print: immediates of 14 bits, base registers of
\* six bits with offsets of eight, no base under the first operand of STG, no
\* vector or label operand, and at most as many operands as are printed.
Fits(inst) ==
  /\ Len(inst.operands) <= OperandCount[inst.opcode]
  /\ \A k \in DOMAIN inst.operands :
       LET op == inst.operands[k]
       IN  /\ op.type \in KindsPrinted(inst.opcode, k)
           /\ op.type = "IMM" => -8192 <= op.val /\ op.val < 8192
           /\ op.type = "MEM" =>
                /\ op.base < 64 /\ op.offset \in -128 .. 127
                /\ inst.opcode = "STG" /\ k = 1 => op.base = 0

\* The third operand shares its upper byte with the reuse flags.
Disjoint(inst, marked) ==
  \/ Len(inst.operands) < 3
  \/ inst.operands[3].type = "REG"
  \/ marked = {} /\ \A b \in 8 .. 10 : b \notin EncodeOperand(inst, 3, 0)

\* A word that stands for one instruction and fits is printed with the opcode
\* and the operands of that instruction, and where reuse marks are printed at
\* all, with its marks.
RoundTrip ==
  \A w \in DOMAIN code :
    LET inst == At(first[w])
    IN  ~IsFused(w) /\ Fits(inst) /\ Disjoint(inst, reuse[first[w]]) =>
          /\ ShownOpcode(code[w]) = inst.opcode
          /\ \A k \in DOMAIN inst.operands :
               k \in Printed(code[w], inst.opcode) /\ Shown(code[w], k) = inst.operands[k]
          /\ inst.opcode \notin {"LDG", "STG", "BRA"} =>
               PrintedReuse(code[w], inst.opcode) \intersect DOMAIN inst.operands = reuse[first[w]]

\* The disassembler takes a word for a fused one exactly when it is one or when
\* it is a vector instruction whose cycle happens to be the group size.
FusedShown ==
  \A w \in DOMAIN code :
    ShowsFused(code[w]) <=>
      \/ IsFused(w)
      \/ At(first[w]).opcode = "VAVX3_MMA_512" /\ (w - 1) % 256 = Group

\* What a comment of the encoder says of a label, resolved to an offset from the
\* program counter (block_encoder.cpp:141): a branch in a word of its own shows
\* the distance to the word that holds the instruction its label stood before.
\* It does not hold: the label keeps its place in the parsed order.
BranchLands ==
  \A w \in DOMAIN code :
    LET inst == At(first[w])
    IN  ~IsFused(w) /\ inst.opcode = "BRA" =>
          \A k \in DOMAIN inst.operands : \A x \in DOMAIN code :
            /\ inst.operands[k].type = "LABEL"
            /\ \E j \in Covers(x) : seq[j] - 1 = inst.operands[k].target
            => Shown(code[w], k) = [type |-> "IMM", val |-> 8 * (x - w)]

-----------------------------------------------------------------------------
(* The inductive invariant behind these: each word is the one its place in *)
(* the order calls for, and the places follow each other.                  *)
Size(k) == IF CanFuse(k) THEN Group ELSE 1
WordOf(k, n) ==
  IF CanFuse(k)
  THEN EncodeFused({At(j) : j \in k .. k + Group - 1}, At(k).opcode, n)
  ELSE EncodeStd(At(k), reuse[k], n, k - 1)

PlacesFollow ==
  /\ first \in Seq(Index) /\ Len(first) = Len(code) /\ cycle = Len(code)
  /\ epos \in 1 .. Len(prog) + 1
  /\ IF first = <<>> THEN epos = 1 ELSE first[1] = 1
  /\ \A w \in 1 .. Len(first) :
       /\ first[w] + Size(first[w]) = IF w = Len(first) THEN epos ELSE first[w + 1]
       /\ w <= first[w] /\ first[w] + Size(first[w]) <= epos
WordsOfPlaces ==
  /\ code \in Seq(SUBSET (0 .. 63))
  /\ \A w \in 1 .. Len(code) : code[w] = WordOf(first[w], w - 1)
EncoderInv ==
  /\ OrderOK /\ PlacesFollow /\ WordsOfPlaces
  /\ IF estage \in {"encode", "done"} THEN \A k \in Index : reuse[k] = Marked(k) ELSE code = <<>>
  /\ estage = "done" => epos = Len(prog) + 1
=============================================================================
