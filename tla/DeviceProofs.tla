---------------------------- MODULE DeviceProofs ----------------------------
(***************************************************************************)
(* Proofs about the device backends, for every program, every result of    *)
(* the optimizer and every way through the factory: how many words the     *)
(* encoders make, what a reader finds in them, and what the listing shows. *)
(***************************************************************************)
EXTENDS Toolchain, WordProofs

-----------------------------------------------------------------------------
(* Tables.                                                                 *)

\* A table over another one has the rows of both.
LEMMA OverRows ==
  ASSUME NEW f, NEW g
  PROVE  /\ DOMAIN Over(f, g) = DOMAIN f \union DOMAIN g
         /\ \A o \in DOMAIN f : Over(f, g)[o] = f[o]
         /\ \A o \in DOMAIN g : o \notin DOMAIN f => Over(f, g)[o] = g[o]
  BY DEF Over

\* A table restricted to some of its rows keeps their values.
LEMMA RestrictRows ==
  ASSUME NEW f, NEW S
  PROVE  DOMAIN Restrict(f, S) = S /\ \A o \in S : Restrict(f, S)[o] = f[o]
  BY DEF Restrict

\* What a table by rows holds is the code of a row that names the opcode.
LEMMA CodedRows ==
  ASSUME NEW rows, NEW o \in DOMAIN Coded(rows)
  PROVE  \E row \in rows : o \in row[2] /\ Coded(rows)[o] = row[1]
<1>1. \E row \in rows : o \in row[2]
  BY DEF Coded
<1>. DEFINE r == CHOOSE row \in rows : o \in row[2]
<1>2. r \in rows /\ o \in r[2]
  BY <1>1
<1>3. Coded(rows)[o] = r[1]
  BY <1>1 DEF Coded
<1>. QED
  BY <1>2, <1>3

\* Ampere's map has the opcodes of Hopper's: the tensor opcodes are in both.
LEMMA AmpereDomain ==
  /\ DOMAIN AmpereMap = DOMAIN AmpereOwn \union Tensor \union DOMAIN OpMap
  /\ DOMAIN HopperMap = DOMAIN AmpereMap
<1>1. DOMAIN Restrict(JitTable, Tensor) = Tensor
  BY RestrictRows
<1>2. DOMAIN Over(Restrict(JitTable, Tensor), OpMap) = Tensor \union DOMAIN OpMap
  BY <1>1, OverRows
<1>3. DOMAIN AmpereMap = DOMAIN AmpereOwn \union (Tensor \union DOMAIN OpMap)
  BY <1>2, OverRows DEF AmpereMap
<1>4. DOMAIN HopperMap = Tensor \union DOMAIN AmpereMap
  BY <1>1, OverRows DEF HopperMap
<1>. QED
  BY <1>3, <1>4

-----------------------------------------------------------------------------
(* Pairs.                                                                  *)

\* A pair is missing exactly for an opcode the map lacks, as a control word is not 0.
LEMMA MappedPairs ==
  ASSUME NEW inst, NEW map
  PROVE  /\ \E w, c : MappedPair(inst, map) = <<w, c>>
         /\ MappedPair(inst, map) # NoPair <=> inst.opcode \in DOMAIN map
<1>1. 8 \in Control
  BY DEF Control
<1>2. CASE inst.opcode \in DOMAIN map
  <2>1. MappedPair(inst, map) = <<Operation(inst, map), Control>>
    BY <1>2 DEF MappedPair
  <2>2. <<Operation(inst, map), Control>> # NoPair
    BY <1>1 DEF NoPair
  <2>. QED
    BY <1>2, <2>1, <2>2
<1>3. CASE inst.opcode \notin DOMAIN map
  BY <1>3 DEF MappedPair, NoPair
<1>. QED
  BY <1>2, <1>3

-----------------------------------------------------------------------------
(* Every word has 64 bits.                                                 *)

\* The bits of a number, moved inside a word, are a word.
LEMMA BitsRow ==
  ASSUME NEW n, NEW width \in Nat, NEW low \in Nat, low + width <= 64
  PROVE  Shifted(Bits(n, width), low) \in Row
<1>1. \A b \in Bits(n, width) : b \in Int /\ 0 <= b /\ b < width
  BY BitsInside
<1>2. \A b \in Bits(n, width) : b + low \in 0 .. 63
  BY <1>1
<1>. QED
  BY <1>2 DEF Shifted, Row

\* The lowest bits of a number are a word.
LEMMA LowRow ==
  ASSUME NEW n, NEW width \in 0 .. 64
  PROVE  Bits(n, width) \in Row
  BY BitsInside DEF Row

\* A register field that starts below bit 57 is a word.
LEMMA RegRow ==
  ASSUME NEW inst, NEW n, NEW low \in 0 .. 56
  PROVE  RegAt(inst, n, low) \in Row
  BY BitsRow DEF RegAt

\* The three register fields of Volta stay inside a word.
LEMMA RegistersRow == ASSUME NEW inst PROVE Registers(inst) \in Row
<1>1. RegAt(inst, 1, 20) \in Row /\ RegAt(inst, 2, 26) \in Row /\ RegAt(inst, 3, 32) \in Row
  BY RegRow
<1>. QED
  BY <1>1 DEF Registers, Row

\* Every operation word of the maps is a word.
LEMMA OperationRow ==
  ASSUME NEW inst, NEW map
  PROVE  Operation(inst, map) \in Row
<1>1. \A n : Bits(n, 16) \in Row
  BY LowRow
<1>2. \A n : Shifted(Bits(n, 20), 12) \in Row /\ Shifted(Bits(n, 16), 32) \in Row
  BY BitsRow
<1>3. RegAt(inst, 1, 20) \in Row /\ RegAt(inst, 2, 26) \in Row
  BY RegRow
<1>4. 36 .. 63 \in Row /\ {18} \in Row /\ {34} \in Row /\ {16, 41, 43} \in Row
  BY DEF Row
<1>6. BranchWord(inst) \in Row
  BY <1>1, <1>2, <1>4 DEF BranchWord, Row
<1>7. MovWord(inst) \in Row
  <2>1. CASE HasImm(inst, 2)
    <3>1. MovWord(inst) = RegAt(inst, 1, 20) \union ({34} \union Bits(\h7802, 16) \union Shifted(Bits(Imm(inst, 2), 16), 32))
      BY <2>1 DEF MovWord, HasImm, HasReg
    <3>. QED
      BY <1>1, <1>2, <1>3, <1>4, <3>1 DEF Row
  <2>2. CASE HasReg(inst, 2)
    <3>1. MovWord(inst) = RegAt(inst, 1, 20) \union (Bits(\h7202, 16) \union RegAt(inst, 2, 26))
      BY <2>2 DEF MovWord, HasImm, HasReg
    <3>. QED
      BY <1>1, <1>2, <1>3, <1>4, <3>1 DEF Row
  <2>3. CASE ~HasImm(inst, 2) /\ ~HasReg(inst, 2)
    <3>1. MovWord(inst) = RegAt(inst, 1, 20) \union ({16, 41, 43} \union Bits(\h7a02, 16))
      BY <2>3 DEF MovWord
    <3>. QED
      BY <1>1, <1>2, <1>3, <1>4, <3>1 DEF Row
  <2>. QED
    BY <2>1, <2>2, <2>3
<1>8. Mov32iWord(inst) \in Row
  BY <1>1, <1>2, <1>3 DEF Mov32iWord, Row
<1>9. {18} \union Bits(\h7919, 16) \union RegAt(inst, 1, 20) \in Row
  BY <1>1, <1>3, <1>4 DEF Row
<1>10. Bits(map[inst.opcode], 16) \union Registers(inst) \in Row
  BY <1>1, RegistersRow DEF Row
<1>. QED
  BY <1>1, <1>6, <1>7, <1>8, <1>9, <1>10 DEF Operation

\* What a map makes of an instruction is a pair of words.
LEMMA MappedRow ==
  ASSUME NEW inst, NEW map
  PROVE  \E w, c \in Row : MappedPair(inst, map) = <<w, c>>
<1>1. {} \in Row /\ Control \in Row
  BY DEF Row, Control
<1>. QED
  BY <1>1, OperationRow DEF MappedPair, NoPair

\* What the JIT templates make of an instruction is a pair of words.
LEMMA JitRow ==
  ASSUME NEW inst
  PROVE  \E w, c \in Row : JitPair(inst) = <<w, c>>
<1>1. {} \in Row /\ Control \in Row
  BY DEF Row, Control
<1>2. Bits(JitTable[inst.opcode], 16) \union Registers(inst) \in Row
  BY LowRow, RegistersRow DEF Row
<1>. QED
  BY <1>1, <1>2 DEF JitPair, NoPair

\* What Hopper makes of an instruction is a pair of words.
LEMMA HopperRow ==
  ASSUME NEW inst
  PROVE  \E w, c \in Row : HopperPair(inst) = <<w, c>>
  BY MappedRow DEF HopperPair

\* What the precise encoder makes of an instruction is a pair of words.
LEMMA PreciseRow ==
  ASSUME NEW inst, NEW ctrl \in Row
  PROVE  \E w, c \in Row : PrecisePair(inst, ctrl) = <<w, c>>
<1>1. {} \in Row /\ Control \in Row
  BY DEF Row, Control
<1>2. \A n : Bits(n, 16) \in Row /\ Bits(n, 11) \in Row
  BY LowRow
<1>3. \A n : /\ RegAt(inst, n, 16) \in Row /\ RegAt(inst, n, 24) \in Row
             /\ RegAt(inst, n, 32) \in Row /\ RegAt(inst, n, 0) \in Row
  BY RegRow
<1>4. \A n : Shifted(Bits(n, 24), 40) \in Row
  BY BitsRow
<1>5. \A v, w \in Row : v \union w \in Row
  BY DEF Row
<1>. DEFINE Pair(p) == \E w, c \in Row : p = <<w, c>>
<1>6. Pair(<<Bits(\h794d, 16), Control>>) /\ Pair(<<Bits(\h7950, 16), Control>>) /\ Pair(NoPair)
  BY <1>1, <1>2 DEF NoPair
<1>7. Pair(<<Bits(\h223, 11) \union RegAt(inst, 1, 16) \union RegAt(inst, 2, 24) \union RegAt(inst, 3, 32),
             ctrl \union RegAt(inst, 4, 0)>>)
  <2>1. Bits(\h223, 11) \union RegAt(inst, 1, 16) \in Row
    BY <1>2, <1>3, <1>5, Zenon
  <2>2. Bits(\h223, 11) \union RegAt(inst, 1, 16) \union RegAt(inst, 2, 24) \in Row
    BY <2>1, <1>3, <1>5, Zenon
  <2>3. Bits(\h223, 11) \union RegAt(inst, 1, 16) \union RegAt(inst, 2, 24) \union RegAt(inst, 3, 32) \in Row
    BY <2>2, <1>3, <1>5, Zenon
  <2>4. ctrl \union RegAt(inst, 4, 0) \in Row
    BY <1>3, <1>5, Zenon
  <2>. QED
    BY <2>3, <2>4, Zenon
<1>8. /\ Pair(<<RegAt(inst, 1, 24) \union RegAt(inst, 2, 32), ctrl>>)
      /\ Pair(<<RegAt(inst, 2, 24) \union RegAt(inst, 1, 32), ctrl>>)
  BY <1>3, <1>5
<1>9. Pair(<<RegAt(inst, 1, 16) \union Shifted(Bits(Imm(inst, 2), 24), 40), ctrl>>)
  BY <1>3, <1>4, <1>5
<1>. HIDE DEF Pair
<1>10. Pair(PrecisePair(inst, ctrl))
  BY <1>6, <1>7, <1>8, <1>9 DEF PrecisePair
<1>. QED
  BY <1>10 DEF Pair

\* What Ampere makes of an instruction is a pair of words.
LEMMA AmpereRow ==
  ASSUME NEW inst, NEW ctrl \in DefaultCtrl
  PROVE  \E w, c \in Row : AmperePair(inst, ctrl) = <<w, c>>
<1>1. ctrl \in Row
  BY DEF DefaultCtrl, Row
<1>. QED
  BY <1>1, PreciseRow, MappedRow DEF AmperePair

-----------------------------------------------------------------------------
(* The families of Pascal.                                                 *)

\* A family has its constant bits below its byte, keeps registers below bit 40,
\* and where they are in the lowest bytes, a missing one reads as 0.
Lows == {<<>>, <<0>>, <<0, 8>>, <<0, 8, 16>>, <<0, 16, 8>>, <<16, 0>>, <<0, 16, 24, 32>>, <<8, 0>>,
         <<16, 8, 0>>, <<0, 8, 16, 32>>, <<0, 16, 32>>}
Plain(family) ==
  /\ family.const \in SUBSET (0 .. 55)
  /\ family.low \in Lows
  /\ family.low \in LowBytes => family.default = Zeros

\* A family with no defaults of its own is plain.
LEMMA PlainFamily ==
  ASSUME NEW byte, NEW const \in SUBSET (0 .. 55), NEW low \in Lows
  PROVE  Plain(Family(byte, const, low, Zeros))
  BY DEF Plain, Family

\* Every family is plain.
LEMMA Families == ASSUME NEW opcode PROVE Plain(FamilyOf(opcode))
<1>1. /\ <<>> \in Lows /\ <<0>> \in Lows /\ <<0, 8>> \in Lows /\ <<0, 8, 16>> \in Lows /\ <<0, 16, 8>> \in Lows
      /\ <<16, 0>> \in Lows /\ <<8, 0>> \in Lows /\ <<16, 8, 0>> \in Lows /\ <<0, 8, 16, 32>> \in Lows
      /\ <<0, 16, 32>> \in Lows
  BY DEF Lows
<1>2. /\ {} \in SUBSET (0 .. 55) /\ {54} \union 31 .. 51 \union 24 .. 26 \in SUBSET (0 .. 55)
      /\ 0 .. 3 \union 16 .. 18 \in SUBSET (0 .. 55) /\ 0 .. 3 \union 16 .. 18 \union {53} \in SUBSET (0 .. 55)
      /\ 0 .. 3 \union 16 .. 18 \union {54} \in SUBSET (0 .. 55) /\ 23 .. 30 \union {36} \in SUBSET (0 .. 55)
      /\ {19, 20, 36, 37} \in SUBSET (0 .. 55)
  OBVIOUS
<1>3. /\ Plain(Alu) /\ Plain(Pred) /\ Plain(Cvt) /\ Plain(Mem) /\ Plain(Mem2) /\ Plain(Float) /\ Plain(Branch)
  BY <1>1, <1>2, PlainFamily DEF Alu, Pred, Cvt, Mem, Mem2, Float, Branch
<1>4. /\ Plain(Family(\he3, 0 .. 3 \union 16 .. 18, <<>>, Zeros))
      /\ Plain(Family(\he3, 0 .. 3 \union 16 .. 18 \union {53}, <<>>, Zeros))
      /\ Plain(Family(\he3, 0 .. 3 \union 16 .. 18 \union {54}, <<>>, Zeros))
  BY <1>1, <1>2, PlainFamily
<1>5. /\ Plain(Family(\h59, {55}, <<0, 16, 24, 32>>, <<0, 0, 255, 255>>))
      /\ Plain(Family(\h4e, {}, <<0, 16, 24, 32>>, <<0, 0, 0, 255>>))
  <2>1. <<0, 16, 24, 32>> \in Lows /\ <<0, 16, 24, 32>> \notin LowBytes
    BY DEF Lows, LowBytes
  <2>2. \A byte, const, default :
          const \in SUBSET (0 .. 55) => Plain(Family(byte, const, <<0, 16, 24, 32>>, default))
    BY <2>1 DEF Plain, Family
  <2>3. {55} \in SUBSET (0 .. 55) /\ {} \in SUBSET (0 .. 55)
    OBVIOUS
  <2>. QED
    BY <2>2, <2>3
<1>6. /\ Plain(Family(\h4f, 23 .. 30 \union {36}, <<0, 8, 16>>, Zeros))
      /\ Plain(Family(\h5b, {19, 20, 36, 37}, <<0, 8, 16, 32>>, Zeros))
  BY <1>1, <1>2, PlainFamily
<1>7. \A byte : Plain(Family(byte, {}, <<0>>, Zeros))
  BY <1>1, <1>2, PlainFamily
<1>8. \A byte : Plain(Family(byte, {}, <<8, 0>>, Zeros))
  BY <1>1, <1>2, PlainFamily
<1>9. \A byte : Plain(Family(byte, {}, <<16, 8, 0>>, Zeros))
  BY <1>1, <1>2, PlainFamily
<1>10. \A byte : Plain(Family(byte, {}, <<16, 0>>, Zeros))
  BY <1>1, <1>2, PlainFamily
<1>11. \A byte : Plain(Family(byte, {}, <<0, 8>>, Zeros))
  BY <1>1, <1>2, PlainFamily
<1>12. \A byte : Plain(Family(byte, {}, <<0, 16, 32>>, Zeros))
  BY <1>1, <1>2, PlainFamily
<1>. QED
  BY <1>3, <1>4, <1>5, <1>6, <1>7, <1>8, <1>9, <1>10, <1>11, <1>12, ZenonT(90) DEF FamilyOf

\* A family has four registers at most, each at bit 32 or below.
LEMMA LowBounds ==
  ASSUME NEW low \in Lows, NEW n \in DOMAIN low
  PROVE  n \in 1 .. 4 /\ low[n] \in 0 .. 32
<1>. DEFINE Bounded(l) == \A m \in DOMAIN l : m \in 1 .. 4 /\ l[m] \in 0 .. 32
<1>1. Bounded(<<>>) /\ Bounded(<<0>>)
  OBVIOUS
<1>2. ASSUME NEW a \in 0 .. 32, NEW b \in 0 .. 32 PROVE Bounded(<<a, b>>)
  OBVIOUS
<1>3. ASSUME NEW a \in 0 .. 32, NEW b \in 0 .. 32, NEW c \in 0 .. 32 PROVE Bounded(<<a, b, c>>)
  OBVIOUS
<1>4. ASSUME NEW a \in 0 .. 32, NEW b \in 0 .. 32, NEW c \in 0 .. 32, NEW d \in 0 .. 32
      PROVE  Bounded(<<a, b, c, d>>)
  OBVIOUS
<1>5. 0 \in 0 .. 32 /\ 8 \in 0 .. 32 /\ 16 \in 0 .. 32 /\ 24 \in 0 .. 32 /\ 32 \in 0 .. 32
  OBVIOUS
<1>. HIDE DEF Bounded
<1>6. Bounded(<<0, 8>>) /\ Bounded(<<16, 0>>) /\ Bounded(<<8, 0>>)
  BY <1>2, <1>5
<1>7. Bounded(<<0, 8, 16>>) /\ Bounded(<<0, 16, 8>>) /\ Bounded(<<16, 8, 0>>) /\ Bounded(<<0, 16, 32>>)
  BY <1>3, <1>5
<1>8. Bounded(<<0, 16, 24, 32>>) /\ Bounded(<<0, 8, 16, 32>>)
  BY <1>4, <1>5
<1>9. Bounded(low)
  BY <1>1, <1>6, <1>7, <1>8, Zenon DEF Lows
<1>. QED
  BY <1>9 DEF Bounded

-----------------------------------------------------------------------------
(* The words of Pascal.                                                    *)

\* A field holds what the word has at its places: six bits, eight and sixteen.
LEMMA SixIs ==
  ASSUME NEW w \in Row, NEW low \in Int, NEW s \in SUBSET (0 .. 5),
         \A x \in 0 .. 5 : x + low \in w <=> x \in s
  PROVE  Field(w, low, 6) = s
<1>1. w \in SUBSET Int
  BY DEF Row
<1>2. \A x \in 0 .. 5 : x \in Field(w, low, 6) <=> x + low \in w
  BY <1>1, FieldMembers
<1>3. Field(w, low, 6) \in SUBSET (0 .. 5)
  BY <1>1, FieldInside
<1>. QED
  BY <1>2, <1>3

\* Eight bits.
LEMMA ByteIs ==
  ASSUME NEW w \in Row, NEW low \in Int, NEW s \in SUBSET (0 .. 7),
         \A x \in 0 .. 7 : x + low \in w <=> x \in s
  PROVE  Field(w, low, 8) = s
<1>1. w \in SUBSET Int
  BY DEF Row
<1>2. \A x \in 0 .. 7 : x \in Field(w, low, 8) <=> x + low \in w
  BY <1>1, FieldMembers
<1>3. Field(w, low, 8) \in SUBSET (0 .. 7)
  BY <1>1, FieldInside
<1>. QED
  BY <1>2, <1>3

\* Sixteen bits.
LEMMA HalfIs ==
  ASSUME NEW w \in Row, NEW low \in Int, NEW s \in SUBSET (0 .. 15),
         \A x \in 0 .. 15 : x + low \in w <=> x \in s
  PROVE  Field(w, low, 16) = s
<1>1. w \in SUBSET Int
  BY DEF Row
<1>2. \A x \in 0 .. 15 : x \in Field(w, low, 16) <=> x + low \in w
  BY <1>1, FieldMembers
<1>3. Field(w, low, 16) \in SUBSET (0 .. 15)
  BY <1>1, FieldInside
<1>. QED
  BY <1>2, <1>3

\* A register field of a family stays inside its eight bits.
LEMMA RegisterBits ==
  ASSUME NEW inst, NEW n \in DOMAIN FamilyOf(inst.opcode).low
  PROVE  /\ n \in 1 .. 4 /\ FamilyOf(inst.opcode).low[n] \in 0 .. 32
         /\ \A b \in FieldOf(inst, n) :
              /\ b \in Int
              /\ FamilyOf(inst.opcode).low[n] <= b /\ b < FamilyOf(inst.opcode).low[n] + 8
<1>1. FamilyOf(inst.opcode).low \in Lows
  BY Families DEF Plain
<1>2. n \in 1 .. 4 /\ FamilyOf(inst.opcode).low[n] \in 0 .. 32
  BY <1>1, LowBounds
<1>3. \A m : \A b \in Bits(m, 8) : b \in Int /\ 0 <= b /\ b < 8
  BY BitsInside
<1>. QED
  BY <1>2, <1>3 DEF FieldOf, Shifted

\* The bits of a word of Pascal, by what sets them.
LEMMA PascalBits ==
  ASSUME NEW inst, NEW b \in Int
  PROVE  b \in PascalWord(inst) <=>
           \/ b - 56 \in Bits(FamilyOf(inst.opcode).byte, 8)
           \/ b \in FamilyOf(inst.opcode).const
           \/ FamilyOf(inst.opcode) = Branch /\ b - 8 \in Bits(Imm(inst, 1), 16)
           \/ \E n \in DOMAIN FamilyOf(inst.opcode).low : b \in FieldOf(inst, n)
<1>. DEFINE family == FamilyOf(inst.opcode)
<1>1. b \in Shifted(Bits(family.byte, 8), 56) <=> b - 56 \in Bits(family.byte, 8)
  BY BitsInside, ShiftedMembers
<1>2. b \in BranchOffset(inst) <=> b - 8 \in Bits(Imm(inst, 1), 16)
  BY BitsInside, ShiftedMembers DEF BranchOffset
<1>. HIDE DEF family
<1>3. PascalWord(inst) = Shifted(Bits(family.byte, 8), 56) \union family.const
        \union (IF family = Branch THEN BranchOffset(inst) ELSE {})
        \union UNION {FieldOf(inst, n) : n \in DOMAIN family.low}
  BY Zenon DEF PascalWord, family
<1>. QED
  BY <1>1, <1>2, <1>3 DEF family

\* Every word of Pascal is a word.
LEMMA PascalRow == ASSUME NEW inst PROVE PascalWord(inst) \in Row
<1>1. FamilyOf(inst.opcode).const \in SUBSET (0 .. 55)
  BY Families DEF Plain
<1>2. Shifted(Bits(FamilyOf(inst.opcode).byte, 8), 56) \in Row /\ BranchOffset(inst) \in Row
  BY BitsRow DEF BranchOffset
<1>3. \A n \in DOMAIN FamilyOf(inst.opcode).low : FieldOf(inst, n) \in Row
  <2>1. TAKE n \in DOMAIN FamilyOf(inst.opcode).low
  <2>2. FamilyOf(inst.opcode).low[n] \in 0 .. 32 /\ \A b \in FieldOf(inst, n) :
          b \in Int /\ FamilyOf(inst.opcode).low[n] <= b /\ b < FamilyOf(inst.opcode).low[n] + 8
    BY RegisterBits
  <2>. QED
    BY <2>2 DEF Row
<1>. QED
  BY <1>1, <1>2, <1>3 DEF PascalWord, Row

\* The byte on top is that of the family, whatever the operands.
LEMMA PascalTop ==
  ASSUME NEW inst
  PROVE  Field(PascalWord(inst), 56, 8) = Bits(FamilyOf(inst.opcode).byte, 8)
<1>. DEFINE family == FamilyOf(inst.opcode)
<1>1. family.const \in SUBSET (0 .. 55)
  BY Families DEF Plain
<1>2. ASSUME NEW x \in 0 .. 7
      PROVE  x + 56 \in PascalWord(inst) <=> x \in Bits(family.byte, 8)
  <2>1. PICK b \in Int : b = x + 56 /\ b - 56 = x
    OBVIOUS
  <2>2. b \notin family.const
    BY <1>1, <2>1
  <2>3. b - 8 \notin Bits(Imm(inst, 1), 16)
    BY <2>1, BitsInside
  <2>4. \A n \in DOMAIN family.low : b \notin FieldOf(inst, n)
    BY <2>1, RegisterBits
  <2>5. b \in PascalWord(inst) <=>
           \/ b - 56 \in Bits(family.byte, 8)
           \/ b \in family.const
           \/ family = Branch /\ b - 8 \in Bits(Imm(inst, 1), 16)
           \/ \E n \in DOMAIN family.low : b \in FieldOf(inst, n)
    BY PascalBits
  <2>. HIDE DEF family
  <2>. QED
    BY <2>1, <2>2, <2>3, <2>4, <2>5
<1>3. Bits(family.byte, 8) \in SUBSET (0 .. 7) /\ PascalWord(inst) \in Row
  BY BitsInside, PascalRow
<1>. HIDE DEF family
<1>4. Field(PascalWord(inst), 56, 8) = Bits(family.byte, 8)
  BY <1>2, <1>3, ByteIs
<1>. QED
  BY <1>4 DEF family

\* So the family of a word is that of its opcode.
LEMMA PascalBytes ==
  ASSUME NEW inst
  PROVE  FamilyByte(PascalWord(inst)) = PascalByte(inst.opcode)
<1>. DEFINE bare == [opcode |-> inst.opcode, operands |-> <<>>]
<1>1. Field(PascalWord(bare), 56, 8) = Bits(FamilyOf(bare.opcode).byte, 8)
  BY PascalTop
<1>2. bare.opcode = inst.opcode
  OBVIOUS
<1>3. PascalByte(inst.opcode) = FamilyByte(PascalWord(bare))
  BY DEF PascalByte
<1>. HIDE DEF bare
<1>4. Field(PascalWord(inst), 56, 8) = Field(PascalWord(bare), 56, 8)
  BY <1>1, <1>2, PascalTop
<1>. QED
  BY <1>3, <1>4 DEF FamilyByte

FusedByte(opcode) == IF opcode = "FFMA" THEN \hf1 ELSE \hf2

\* A fused word is a word, whatever registers its group has.
LEMMA FusedRow ==
  ASSUME NEW s, NEW k, \A j \in k .. k + Group - 1 : RegsOf(s[j]) \in SUBSET Nat
  PROVE  FusedWord(s, k) \in Row
<1>1. \A n : Shifted(Bits(n, 8), 56) \in Row /\ Shifted(Bits(n, 8), 48) \in Row
  BY BitsRow
<1>2. {r \in UNION {RegsOf(s[j]) : j \in k .. k + Group - 1} : r < 64} \in Row
  BY DEF Row
<1>. QED
  BY <1>1, <1>2 DEF FusedWord, Row

\* Its byte on top is its family, if no register of the group lies there.
LEMMA FusedTop ==
  ASSUME NEW s, NEW k, \A j \in k .. k + Group - 1 : RegsOf(s[j]) \in SUBSET Nat,
         {r \in UNION {RegsOf(s[j]) : j \in k .. k + Group - 1} : r \in 56 .. 63} = {}
  PROVE  FamilyByte(FusedWord(s, k)) = FusedByte(s[k].opcode)
<1>. DEFINE named == {r \in UNION {RegsOf(s[j]) : j \in k .. k + Group - 1} : r < 64}
            top == Bits(FusedByte(s[k].opcode), 8)
            w == FusedWord(s, k)
<1>1. w = Shifted(top, 56) \union Shifted(Bits(8, 8), 48) \union named
  BY DEF FusedWord, FusedByte
<1>2. \A x \in 0 .. 7 : x + 56 \notin named
  <2>1. TAKE x \in 0 .. 7
  <2>2. x + 56 \in 56 .. 63
    OBVIOUS
  <2>. QED
    BY <2>2
<1>3. top \in SUBSET (0 .. 7)
  BY BitsInside
<1>4. w \in Row
  BY FusedRow
<1>5. \A x \in 0 .. 7 : x + 56 \in Shifted(top, 56) <=> x \in top
  <2>1. TAKE x \in 0 .. 7
  <2>2. PICK b \in Int : b = x + 56 /\ b - 56 = x
    OBVIOUS
  <2>3. \A c \in top : c \in Int
    BY <1>3
  <2>. HIDE DEF top
  <2>4. b \in Shifted(top, 56) <=> b - 56 \in top
    BY <2>3, ShiftedMembers
  <2>. QED
    BY <2>2, <2>4
<1>6. \A x \in 0 .. 7 : x + 56 \notin Shifted(Bits(8, 8), 48)
  <2>1. TAKE x \in 0 .. 7
  <2>2. \A c \in Bits(8, 8) : c \in Int /\ 0 <= c /\ c < 8
    BY BitsInside
  <2>. QED
    BY <2>2 DEF Shifted
<1>. HIDE DEF top, w, named
<1>7. Field(w, 56, 8) = top
  BY <1>1, <1>2, <1>3, <1>4, <1>5, <1>6, ByteIs
<1>8. FusedByte(s[k].opcode) \in Int /\ FusedByte(s[k].opcode) % 256 = FusedByte(s[k].opcode)
  <2>1. FusedByte(s[k].opcode) = 241 \/ FusedByte(s[k].opcode) = 242
    BY DEF FusedByte
  <2>. QED
    BY <2>1
<1>9. Unsigned(top) = FusedByte(s[k].opcode)
  BY <1>8, Unsigned8 DEF top
<1>. QED
  BY <1>7, <1>9 DEF FamilyByte, w

-----------------------------------------------------------------------------
(* The words of a whole program.                                           *)

\* Pairs one after another are words, two of every pair.
LEMMA PairsInRow ==
  ASSUME NEW n \in Nat, n > 0, NEW pairs \in [1 .. n -> Row \X Row]
  PROVE  FlattenSeq(pairs) \in Seq(Row) /\ Len(FlattenSeq(pairs)) = 2 * n
<1>. DEFINE Grown(f) == [i \in 1 .. n |-> IF i = 1 THEN pairs[i] ELSE f[i - 1] \o pairs[i]]
            g == CHOOSE f : f = Grown(f)
            word(j) == IF j % 2 = 1 THEN pairs[(j + 1) \div 2][1] ELSE pairs[j \div 2][2]
            rows(i) == [j \in 1 .. 2 * i |-> word(j)]
            h == [i \in 1 .. n |-> rows(i)]
<1>1. Len(pairs) = n
  BY DEF Row
<1>2. \A i \in 1 .. n : /\ pairs[i] \in Row \X Row /\ pairs[i] \in Seq(Row) /\ Len(pairs[i]) = 2
                        /\ pairs[i] = <<pairs[i][1], pairs[i][2]>>
  <2>1. TAKE i \in 1 .. n
  <2>2. PICK a \in Row, b \in Row : pairs[i] = <<a, b>>
    OBVIOUS
  <2>3. <<a, b>> \in Row \X Row /\ <<a, b>> \in Seq(Row) /\ Len(<<a, b>>) = 2 /\ <<a, b>>[1] = a /\ <<a, b>>[2] = b
    OBVIOUS
  <2>. QED
    BY <2>2, <2>3, Zenon
<1>3. \A i \in 1 .. n : word(2 * i - 1) = pairs[i][1] /\ word(2 * i) = pairs[i][2]
  <2>1. TAKE i \in 1 .. n
  <2>2. (2 * i - 1) % 2 = 1 /\ ((2 * i - 1) + 1) \div 2 = i /\ (2 * i) % 2 = 0 /\ (2 * i) \div 2 = i
    OBVIOUS
  <2>. QED
    BY <2>2
<1>. HIDE DEF word
<1>4. h = Grown(h)
  <2>1. ASSUME NEW i \in 1 .. n
        PROVE  h[i] = IF i = 1 THEN pairs[i] ELSE h[i - 1] \o pairs[i]
    <3>1. CASE i = 1
      <4>1. rows(1) = <<word(1), word(2)>>
        OBVIOUS
      <4>2. word(1) = pairs[1][1] /\ word(2) = pairs[1][2]
        BY <1>3
      <4>. QED
        BY <1>2, <3>1, <4>1, <4>2
    <3>2. CASE i # 1
      <4>1. i - 1 \in 1 .. n /\ h[i - 1] = rows(i - 1) /\ h[i] = rows(i)
        BY <3>2
      <4>2. rows(i) = rows(i - 1) \o <<word(2 * i - 1), word(2 * i)>>
        <5>1. 2 * i \in Nat /\ 2 * (i - 1) \in Nat /\ 2 * i = 2 * (i - 1) + 2 /\ 2 * i - 1 = 2 * (i - 1) + 1
          BY <4>1
        <5>. DEFINE both == rows(i - 1) \o <<word(2 * i - 1), word(2 * i)>>
        <5>2. both = [j \in 1 .. 2 * i |-> IF j <= 2 * (i - 1) THEN word(j) ELSE <<word(2 * i - 1), word(2 * i)>>[j - 2 * (i - 1)]]
          BY <5>1
        <5>. HIDE DEF both
        <5>3. \A j \in 1 .. 2 * i : ~(j <= 2 * (i - 1)) =>
                (j = 2 * i - 1 /\ j - 2 * (i - 1) = 1) \/ (j = 2 * i /\ j - 2 * (i - 1) = 2)
          BY <5>1
        <5>4. \A j \in 1 .. 2 * i : both[j] = word(j)
          <6>1. TAKE j \in 1 .. 2 * i
          <6>2. CASE j <= 2 * (i - 1)
            BY <5>2, <6>2
          <6>3. CASE ~(j <= 2 * (i - 1))
            <7>1. both[j] = <<word(2 * i - 1), word(2 * i)>>[j - 2 * (i - 1)]
              BY <5>2, <6>3
            <7>2. <<word(2 * i - 1), word(2 * i)>>[1] = word(2 * i - 1) /\ <<word(2 * i - 1), word(2 * i)>>[2] = word(2 * i)
              OBVIOUS
            <7>. QED
              BY <5>3, <6>3, <7>1, <7>2, Zenon
          <6>. QED
            BY <6>2, <6>3
        <5>. QED
          BY <5>2, <5>4 DEF both
      <4>. QED
        BY <1>2, <1>3, <3>2, <4>1, <4>2
    <3>. QED
      BY <3>1, <3>2
  <2>. HIDE DEF rows
  <2>2. h = [i \in 1 .. n |-> h[i]]
    OBVIOUS
  <2>. HIDE DEF h
  <2>. QED
    BY <2>1, <2>2
<1>. HIDE DEF h
<1>5. g = Grown(g)
  BY <1>4
<1>6. FlattenSeq(pairs) = g[n]
  BY <1>1 DEF FlattenSeq
<1>. HIDE DEF g
<1>7. \A i \in 1 .. n : g[i] = IF i = 1 THEN pairs[i] ELSE g[i - 1] \o pairs[i]
  <2>1. ASSUME NEW f, f = Grown(f)
        PROVE  \A i \in 1 .. n : f[i] = IF i = 1 THEN pairs[i] ELSE f[i - 1] \o pairs[i]
    BY <2>1
  <2>. QED
    BY <1>5, <2>1
<1>. DEFINE Fails == {i \in 1 .. n : ~(g[i] \in Seq(Row) /\ Len(g[i]) = 2 * i)}
<1>8. Fails = {}
  <2>. SUFFICES ASSUME Fails # {} PROVE FALSE
    OBVIOUS
  <2>1. Fails \in SUBSET Nat
    OBVIOUS
  <2>2. PICK i \in Fails : \A j \in Fails : i <= j
    BY <2>1, Least
  <2>3. i \in 1 .. n /\ i \in Nat /\ ~(g[i] \in Seq(Row) /\ Len(g[i]) = 2 * i)
    OBVIOUS
  <2>4. pairs[i] \in Seq(Row) /\ Len(pairs[i]) = 2
    BY <1>2, <2>3
  <2>5. ASSUME i = 1 PROVE FALSE
    <3>1. g[1] = pairs[1] /\ Len(pairs[1]) = 2 /\ pairs[1] \in Seq(Row)
      BY <1>7, <2>3, <2>4, <2>5
    <3>. QED
      BY <2>3, <2>5, <3>1
  <2>6. i - 1 \in 1 .. n /\ i - 1 \notin Fails
    BY <2>2, <2>3, <2>5
  <2>7. g[i - 1] \in Seq(Row) /\ Len(g[i - 1]) = 2 * (i - 1)
    BY <2>6
  <2>8. g[i] = g[i - 1] \o pairs[i]
    BY <1>7, <2>3, <2>5
  <2>9. g[i - 1] \o pairs[i] \in Seq(Row) /\ Len(g[i - 1] \o pairs[i]) = 2 * (i - 1) + 2
    <3>1. \A s, t \in Seq(Row) : s \o t \in Seq(Row) /\ Len(s \o t) = Len(s) + Len(t)
      BY ConcatProperties
    <3>. QED
      BY <2>4, <2>7, <3>1, Zenon
  <2>10. 2 * (i - 1) + 2 = 2 * i
    BY <2>3
  <2>. QED
    BY <2>3, <2>8, <2>9, <2>10, Zenon
<1>9. n \in 1 .. n
  OBVIOUS
<1>. QED
  BY <1>6, <1>8, <1>9

\* A pair of words has two of them.
LEMMA PairWords ==
  ASSUME NEW p, \E w, c \in Row : p = <<w, c>>
  PROVE  p \in Seq(Row) /\ Len(p) = 2 /\ p \in Row \X Row /\ p[1] \in Row
<1>1. PICK w \in Row, c \in Row : p = <<w, c>>
  OBVIOUS
<1>2. <<w, c>> \in Seq(Row) /\ Len(<<w, c>>) = 2 /\ <<w, c>> \in Row \X Row /\ <<w, c>>[1] = w
  OBVIOUS
<1>. QED
  BY <1>1, <1>2, Zenon

\* The words of the whole program, as the fallback of Hopper makes them.
LEMMA FallbackWords ==
  ASSUME seq \in Seq(Inst), Len(seq) > 0, NEW ctrls \in [DOMAIN seq -> DefaultCtrl]
  PROVE  Fallback(ctrls) \in Seq(Row) /\ Len(Fallback(ctrls)) = 2 * Len(seq)
<1>. DEFINE pairs == [k \in DOMAIN seq |-> AmperePair(seq[k], ctrls[k])]
<1>1. Len(seq) \in Nat /\ DOMAIN seq = 1 .. Len(seq)
  OBVIOUS
<1>2. \A k \in DOMAIN seq : AmperePair(seq[k], ctrls[k]) \in Row \X Row
  BY AmpereRow, PairWords
<1>3. pairs \in [1 .. Len(seq) -> Row \X Row]
  BY <1>1, <1>2
<1>4. FlattenSeq(pairs) \in Seq(Row) /\ Len(FlattenSeq(pairs)) = 2 * Len(seq)
  BY <1>1, <1>3, PairsInRow
<1>. QED
  BY <1>4 DEF Fallback

\* An instruction of x86 or AMD has one word or none.
LEMMA TaggedSeq ==
  ASSUME NEW tag, NEW table, NEW inst
  PROVE  TaggedWords(tag, table, inst) \in Seq(Row)
<1>1. Shifted(Bits(tag, 8), 56) \in Row /\ Shifted(Bits(Value[inst.opcode], 16), 48) \in Row
  BY BitsRow
<1>2. TaggedWord(tag, inst) \in Row
  BY <1>1 DEF TaggedWord, Row
<1>. QED
  BY <1>2 DEF TaggedWords

\* Registers have eight bits.
LEMMA RegsInside ==
  ASSUME NEW inst \in Inst
  PROVE  RegsOf(inst) \in SUBSET (0 .. 255) /\ \A n \in 1 .. 4 : Reg(inst, n) \in 0 .. 255
<1>1. \A n \in DOMAIN inst.operands : inst.operands[n].type = "REG" => inst.operands[n].reg \in 0 .. 255
  <2>1. TAKE n \in DOMAIN inst.operands
  <2>2. inst.operands[n] \in Operand
    BY DEF Inst
  <2>. QED
    BY <2>2 DEF Operand
<1>2. RegsOf(inst) \in SUBSET (0 .. 255)
  BY <1>1 DEF RegsOf, HasReg
<1>3. \A n \in 1 .. 4 : HasReg(inst, n) => n \in DOMAIN inst.operands /\ inst.operands[n].type = "REG"
  BY DEF HasReg, Inst
<1>. QED
  BY <1>1, <1>2, <1>3 DEF Reg, RegOr

-----------------------------------------------------------------------------
(* Every step of a run.                                                    *)

\* What every state has: the words of rows, one origin for each, and an encoder
\* inside its program, at the end of it once the words are complete.
DeviceTypes ==
  /\ stage \in {"none", "encode", "disassemble", "done"} /\ prog \in Programs
  /\ seq \in Seq(Inst) /\ pos \in 1 .. Len(seq) + 1
  /\ code \in Seq(Row) /\ origin \in Seq(1 .. Len(seq)) /\ Len(origin) = Len(code)
  /\ IsEncoded => pos = Len(seq) + 1

\* The steps of Toolchain that are none of the device's leave its state.
LEMMA DeviceSteps == Spec => DeviceInit /\ [][DeviceNext]_deviceVars
<1>1. Init => DeviceInit
  BY DEF Init
<1>2. [Next]_vars => [DeviceNext]_deviceVars
  BY DEF Next, Compile, PatchCubin, vars
<1>. QED
  BY <1>1, <1>2, PTL DEF Spec

\* The two ways an instruction, or a group of them, leaves words behind.
Encode(words, n) ==
  /\ stage = "encode" /\ pos <= Len(seq) /\ n \in 1 .. Len(seq) + 1 - pos
  /\ code' = code \o words
  /\ origin' = origin \o [k \in DOMAIN words |-> pos]
  /\ pos' = pos + n
  /\ UNCHANGED <<backend, entry, prog, seq, diags, listing, stage>>

\* A step that leaves words behind keeps the types.
LEMMA EncodeTypes ==
  ASSUME DeviceTypes, NEW words \in Seq(Row), NEW n, Encode(words, n)
  PROVE  DeviceTypes'
<1>. DEFINE here == [k \in DOMAIN words |-> pos]
<1>1. pos \in 1 .. Len(seq) /\ Len(seq) \in Nat
  BY DEF DeviceTypes, Encode
<1>2. here \in Seq(1 .. Len(seq)) /\ Len(here) = Len(words)
  <2>1. DOMAIN words = 1 .. Len(words) /\ Len(words) \in Nat
    OBVIOUS
  <2>. QED
    BY <1>1, <2>1
<1>. HIDE DEF here
<1>3. code \o words \in Seq(Row) /\ Len(code \o words) = Len(code) + Len(words)
  BY ConcatProperties DEF DeviceTypes
<1>4. origin \o here \in Seq(1 .. Len(seq)) /\ Len(origin \o here) = Len(origin) + Len(here)
  BY <1>2, ConcatProperties DEF DeviceTypes
<1>5. code' \in Seq(Row) /\ origin' \in Seq(1 .. Len(seq')) /\ Len(origin') = Len(code')
  <2>1. code' = code \o words /\ origin' = origin \o here /\ seq' = seq
    BY DEF Encode, here
  <2>2. Len(origin) = Len(code)
    BY DEF DeviceTypes
  <2>. QED
    BY <1>2, <1>3, <1>4, <2>1, <2>2, Zenon
<1>6. pos' \in 1 .. Len(seq') + 1
  BY <1>1 DEF Encode
<1>. QED
  BY <1>5, <1>6 DEF DeviceTypes, Encode, IsEncoded

\* Every action of an encoder is one of these, and says with which words.
LEMMA EncodeCases ==
  ASSUME DeviceTypes, DeviceNext
  PROVE  \/ /\ backend \in {"Volta", "Turing"}
            /\ Encode(JitPair(seq[pos]), 1)
         \/ /\ AmpereEntry
            /\ \E ctrl \in DefaultCtrl : Encode(AmperePair(seq[pos], ctrl), 1)
         \/ /\ backend \in {"Hopper", "Blackwell"} /\ entry = "encode" /\ HopperPair(seq[pos]) # NoPair
            /\ Encode(HopperPair(seq[pos]), 1)
         \/ /\ backend \in {"Hopper", "Blackwell"} /\ entry = "encode" /\ HopperPair(seq[pos]) = NoPair
            /\ \E ctrls \in [DOMAIN seq -> DefaultCtrl] : Encode(Fallback(ctrls), 1)
         \/ /\ backend = "Pascal"
            /\ IF Fuses(seq, pos) THEN Encode(<<FusedWord(seq, pos)>>, Group) ELSE Encode(<<PascalWord(seq[pos])>>, 1)
         \/ /\ backend = "X86"
            /\ Encode(TaggedWords(X86Tag, X86Table, seq[pos]), 1)
         \/ /\ backend = "AmdRDNA4"
            /\ Encode(TaggedWords(AmdTag, HunToAmd, seq[pos]), 1)
         \/ Encoded \/ Disassemble \/ Disassembled
<1>. DEFINE AtOne(words) == Emit(words) /\ stage = "encode" /\ pos <= Len(seq)
<1>1. ASSUME NEW words, AtOne(words) PROVE Encode(words, 1)
  BY <1>1 DEF Emit, Encode, DeviceTypes
<1>2. CASE EncodeVolta
  BY <1>1, <1>2 DEF EncodeVolta, At
<1>3. CASE EncodeAmpere
  <2>1. PICK ctrl \in DefaultCtrl : Emit(AmperePair(seq[pos], ctrl))
    BY <1>3 DEF EncodeAmpere
  <2>2. AmpereEntry /\ stage = "encode" /\ pos <= Len(seq)
    BY <1>3 DEF EncodeAmpere, AmpereEntry, At
  <2>. QED
    BY <1>1, <2>1, <2>2, Zenon
<1>4. CASE EncodeHopper
  <2>1. backend \in {"Hopper", "Blackwell"} /\ entry = "encode" /\ stage = "encode" /\ pos <= Len(seq)
    BY <1>4 DEF EncodeHopper, At
  <2>2. CASE HopperPair(seq[pos]) # NoPair
    BY <1>1, <1>4, <2>1, <2>2, Zenon DEF EncodeHopper
  <2>3. CASE HopperPair(seq[pos]) = NoPair
    BY <1>1, <1>4, <2>1, <2>3, Zenon DEF EncodeHopper
  <2>. QED
    BY <2>2, <2>3
<1>5. CASE EncodePascal
  <2>. DEFINE w == IF Fuses(seq, pos) THEN FusedWord(seq, pos) ELSE PascalWord(seq[pos])
              n == IF Fuses(seq, pos) THEN Group ELSE 1
  <2>1. Append(code, w) = code \o <<w>> /\ Append(origin, pos) = origin \o <<pos>>
    <3>1. \A S, x : \A s \in Seq(S) : Append(s, x) = s \o <<x>>
      OBVIOUS
    <3>. QED
      BY <3>1, Zenon DEF DeviceTypes
  <2>2. [k \in DOMAIN <<w>> |-> pos] = <<pos>>
    OBVIOUS
  <2>3. backend = "Pascal" /\ stage = "encode" /\ pos <= Len(seq) /\ code' = Append(code, w) /\ origin' = Append(origin, pos) /\ pos' = pos + n
        /\ UNCHANGED <<backend, entry, prog, seq, diags, listing, stage>>
    BY <1>5 DEF EncodePascal, At
  <2>4. pos \in Nat /\ Len(seq) \in Nat /\ Group \in Nat /\ Group > 1
    BY GroupAssumption DEF DeviceTypes
  <2>5. n \in 1 .. Len(seq) + 1 - pos
    BY <2>3, <2>4 DEF Fuses
  <2>. HIDE DEF w, n
  <2>6. Encode(<<w>>, n)
    BY <2>1, <2>2, <2>3, <2>5 DEF Encode
  <2>. QED
    BY <2>3, <2>6 DEF w, n
<1>6. CASE EncodeTagged
  BY <1>1, <1>6 DEF EncodeTagged, At
<1>. QED
  BY <1>2, <1>3, <1>4, <1>5, <1>6 DEF DeviceNext

\* The registers of a program.
LEMMA GroupRegs ==
  ASSUME NEW s \in Seq(Inst), NEW k \in Nat, k > 0, k + Group - 1 <= Len(s)
  PROVE  \A j \in k .. k + Group - 1 : j \in DOMAIN s /\ RegsOf(s[j]) \in SUBSET Nat
<1>1. \A j \in k .. k + Group - 1 : j \in DOMAIN s
  BY GroupAssumption
<1>2. \A j \in DOMAIN s : s[j] \in Inst
  OBVIOUS
<1>3. 0 .. 255 \in SUBSET Nat
  OBVIOUS
<1>4. \A j \in DOMAIN s : RegsOf(s[j]) \in SUBSET (0 .. 255)
  BY <1>2, RegsInside
<1>. QED
  BY <1>1, <1>3, <1>4

\* The types hold at the start, for every result of the optimizer.
LEMMA DeviceInitTypes == DeviceInit => DeviceTypes
<1>. SUFFICES ASSUME DeviceInit PROVE DeviceTypes
  OBVIOUS
<1>1. code = <<>> /\ origin = <<>> /\ pos = 1 /\ prog \in Programs /\ stage \in {"none", "encode"}
  BY DEF DeviceInit
<1>2. seq \in Seq(Inst)
  <2>1. prog \in Seq(Inst) /\ Optimized(prog) \in SUBSET Seq(Inst) /\ <<>> \in Seq(Inst)
    BY <1>1, DeviceAssumption
  <2>. QED
    BY <2>1 DEF DeviceInit
<1>3. pos \in 1 .. Len(seq) + 1 /\ code \in Seq(Row) /\ origin \in Seq(1 .. Len(seq)) /\ Len(origin) = Len(code)
  BY <1>1, <1>2
<1>. QED
  BY <1>1, <1>2, <1>3 DEF DeviceTypes, IsEncoded

\* Every step keeps the types.
LEMMA DeviceTypesStep == DeviceTypes /\ [DeviceNext]_deviceVars => DeviceTypes'
<1>. SUFFICES ASSUME DeviceTypes, [DeviceNext]_deviceVars PROVE DeviceTypes'
  OBVIOUS
<1>1. CASE UNCHANGED deviceVars
  BY <1>1 DEF DeviceTypes, deviceVars, IsEncoded
<1>2. ASSUME NEW words \in Seq(Row), NEW n, Encode(words, n) PROVE DeviceTypes'
  BY <1>2, EncodeTypes
<1>3. CASE Encoded \/ Disassemble \/ Disassembled
  BY <1>3 DEF Encoded, Disassemble, Disassembled, DeviceTypes, IsEncoded
<1>4. CASE DeviceNext /\ ~(Encoded \/ Disassemble \/ Disassembled)
  <2>1. ASSUME NEW p, \E w, c \in Row : p = <<w, c>> PROVE p \in Seq(Row)
    BY <2>1, PairWords
  <2>2. JitPair(seq[pos]) \in Seq(Row) /\ HopperPair(seq[pos]) \in Seq(Row)
    BY <2>1, JitRow, HopperRow
  <2>3. \A ctrl \in DefaultCtrl : AmperePair(seq[pos], ctrl) \in Seq(Row)
    BY <2>1, AmpereRow
  <2>4. \A ctrls \in [DOMAIN seq -> DefaultCtrl] : pos <= Len(seq) => Fallback(ctrls) \in Seq(Row)
    BY FallbackWords DEF DeviceTypes
  <2>5. <<PascalWord(seq[pos])>> \in Seq(Row)
    BY PascalRow
  <2>6. Fuses(seq, pos) => <<FusedWord(seq, pos)>> \in Seq(Row)
    BY GroupRegs, FusedRow DEF Fuses, DeviceTypes
  <2>7. TaggedWords(X86Tag, X86Table, seq[pos]) \in Seq(Row) /\ TaggedWords(AmdTag, HunToAmd, seq[pos]) \in Seq(Row)
    BY TaggedSeq
  <2>8. \A words, n : Encode(words, n) => pos <= Len(seq)
    BY DEF Encode
  <2>9. \A words, n : words \in Seq(Row) /\ Encode(words, n) => DeviceTypes'
    BY <1>2
  <2>. QED
    BY <1>4, <2>2, <2>3, <2>4, <2>5, <2>6, <2>7, <2>8, <2>9, EncodeCases, Zenon
<1>. QED
  BY <1>1, <1>3, <1>4

\* For all programs and every result of the optimizer: words of 64 bits, each with
\* the instruction it was encoded at, and an encoder inside its program.
THEOREM DeviceTypeTheorem == Spec => []DeviceTypes
<1>1. DeviceInit => DeviceTypes
  BY DeviceInitTypes
<1>2. DeviceTypes /\ [DeviceNext]_deviceVars => DeviceTypes'
  BY DeviceTypesStep
<1>. QED
  BY <1>1, <1>2, DeviceSteps, PTL

-----------------------------------------------------------------------------
(* The words of Hopper.                                                    *)

\* The opcodes missing in front of the encoder.
LackingBefore == {k \in Lacking : k < pos}

\* An instruction in front of the encoder has left two words, or two for every
\* instruction of the program.
HopperWords ==
  backend \in {"Hopper", "Blackwell"} /\ entry = "encode" =>
    Len(code) = 2 * (pos - 1 - Cardinality(LackingBefore)) + 2 * (Len(seq) * Cardinality(LackingBefore))

\* The encoder passes one more missing opcode exactly when it is at one.
LEMMA LackingCount ==
  ASSUME DeviceTypes, pos <= Len(seq)
  PROVE  /\ Cardinality(LackingBefore) \in Nat
         /\ Cardinality({k \in Lacking : k < pos + 1}) =
              Cardinality(LackingBefore) + (IF pos \in Lacking THEN 1 ELSE 0)
<1>1. Len(seq) \in Nat /\ Lacking \in SUBSET (1 .. Len(seq)) /\ pos \in 1 .. Len(seq)
  BY DEF DeviceTypes, Lacking
<1>. DEFINE upTo == {k \in Lacking : k < pos + 1}
<1>. HIDE DEF upTo
<1>5. /\ \A k : k \in LackingBefore <=> k \in Lacking /\ k < pos
      /\ \A k : k \in upTo <=> k \in Lacking /\ k < pos + 1
      /\ \A k \in Lacking : k \in Nat
  BY <1>1 DEF LackingBefore, upTo
<1>6. /\ \A k \in Lacking : k < pos + 1 <=> k < pos \/ k = pos
      /\ ~(pos < pos)
  BY <1>1, <1>5
<1>2. IsFiniteSet(LackingBefore) /\ Cardinality(LackingBefore) \in Nat
  <2>1. LackingBefore \in SUBSET (1 .. Len(seq)) /\ IsFiniteSet(1 .. Len(seq))
    <3>1. IsFiniteSet(1 .. Len(seq))
      BY <1>1, FS_Interval
    <3>. QED
      BY <1>1, <1>5, <3>1, Zenon
  <2>. QED
    BY <2>1, FS_Subset, FS_CardinalityType
<1>3. ASSUME pos \in Lacking PROVE Cardinality(upTo) = Cardinality(LackingBefore) + 1
  <2>1. upTo = LackingBefore \union {pos} /\ pos \notin LackingBefore
    BY <1>3, <1>5, <1>6, Zenon
  <2>. QED
    BY <1>2, <1>3, <2>1, FS_AddElement
<1>4. ASSUME pos \notin Lacking PROVE Cardinality(upTo) = Cardinality(LackingBefore) + 0
  <2>1. upTo = LackingBefore
    BY <1>4, <1>5, <1>6, Zenon
  <2>. QED
    BY <1>2, <1>4, <2>1
<1>. QED
  BY <1>2, <1>3, <1>4, Zenon DEF upTo

\* Every step keeps the count of Hopper's words.
LEMMA HopperWordsStep == DeviceTypes /\ HopperWords /\ [DeviceNext]_deviceVars => HopperWords'
<1>. SUFFICES ASSUME DeviceTypes, HopperWords, [DeviceNext]_deviceVars,
                     backend' \in {"Hopper", "Blackwell"}, entry' = "encode"
              PROVE  HopperWords'
  BY DEF HopperWords
<1>1. CASE UNCHANGED deviceVars
  BY <1>1 DEF HopperWords, LackingBefore, Lacking, deviceVars
<1>2. CASE Encoded \/ Disassemble \/ Disassembled
  BY <1>2 DEF HopperWords, LackingBefore, Lacking, Encoded, Disassemble, Disassembled
<1>3. ASSUME NEW words \in Seq(Row), Encode(words, 1),
             Len(words) = IF pos \in Lacking THEN 2 * Len(seq) ELSE 2
      PROVE  HopperWords'
  <2>. DEFINE u == Cardinality(LackingBefore)
              v == Cardinality({k \in Lacking : k < pos + 1})
              n == Len(seq)
  <2>1. backend' = backend /\ entry' = entry /\ seq' = seq /\ pos' = pos + 1 /\ code' = code \o words /\ pos <= n
    BY <1>3 DEF Encode
  <2>2. u \in Nat /\ v = u + (IF pos \in Lacking THEN 1 ELSE 0) /\ n \in Nat /\ pos \in Nat /\ Len(words) \in Nat
    BY <2>1, LackingCount DEF DeviceTypes
  <2>3. Cardinality(LackingBefore)' = v
    BY <2>1 DEF LackingBefore, Lacking
  <2>4. Len(code) = 2 * (pos - 1 - u) + 2 * (n * u)
    BY <2>1 DEF HopperWords
  <2>5. Len(code') = Len(code) + Len(words)
    BY <2>1, ConcatProperties DEF DeviceTypes
  <2>. HIDE DEF u, v, n
  <2>6. n * (u + 1) = n * u + n /\ n * u \in Nat
    BY <2>2
  <2>7. Len(code') = 2 * ((pos + 1) - 1 - v) + 2 * (n * v)
    <3>1. CASE pos \in Lacking
      BY <1>3, <2>2, <2>4, <2>5, <2>6, <3>1 DEF n
    <3>2. CASE pos \notin Lacking
      BY <1>3, <2>2, <2>4, <2>5, <2>6, <3>2
    <3>. QED
      BY <3>1, <3>2
  <2>8. Cardinality(LackingBefore') = v /\ Len(seq') = n /\ pos' = pos + 1
    BY <2>1, <2>3 DEF n
  <2>9. Len(code') = 2 * (pos' - 1 - Cardinality(LackingBefore')) + 2 * (Len(seq') * Cardinality(LackingBefore'))
    BY <2>7, <2>8, Zenon
  <2>. QED
    BY <2>9 DEF HopperWords
<1>4. CASE DeviceNext /\ ~(Encoded \/ Disassemble \/ Disassembled)
  <2>1. backend \in {"Hopper", "Blackwell"} /\ entry = "encode" /\ pos <= Len(seq)
    <3>1. \A words, n : Encode(words, n) => backend' = backend /\ entry' = entry /\ pos <= Len(seq)
      BY DEF Encode
    <3>. QED
      BY <1>4, <3>1, EncodeCases
  <2>2. \/ HopperPair(seq[pos]) # NoPair /\ Encode(HopperPair(seq[pos]), 1)
        \/ /\ HopperPair(seq[pos]) = NoPair
           /\ \E ctrls \in [DOMAIN seq -> DefaultCtrl] : Encode(Fallback(ctrls), 1)
    BY <1>4, <2>1, EncodeCases DEF AmpereEntry, At
  <2>3. HopperPair(seq[pos]) # NoPair <=> pos \notin Lacking
    <3>1. pos \in DOMAIN seq
      BY <2>1 DEF DeviceTypes
    <3>. QED
      BY <3>1, MappedPairs, AmpereDomain DEF HopperPair, Lacking
  <2>4. HopperPair(seq[pos]) \in Seq(Row) /\ Len(HopperPair(seq[pos])) = 2
    BY HopperRow, PairWords
  <2>5. \A ctrls \in [DOMAIN seq -> DefaultCtrl] : Fallback(ctrls) \in Seq(Row) /\ Len(Fallback(ctrls)) = 2 * Len(seq)
    BY <2>1, FallbackWords DEF DeviceTypes
  <2>6. \A words \in Seq(Row) :
          Encode(words, 1) /\ Len(words) = (IF pos \in Lacking THEN 2 * Len(seq) ELSE 2) => HopperWords'
    BY <1>3
  <2>. QED
    BY <2>2, <2>3, <2>4, <2>5, <2>6
<1>. QED
  BY <1>1, <1>2, <1>4

\* For every program, encode of Hopper and Blackwell leaves two words for an
\* opcode the maps have and the words of the whole program for one they lack.
THEOREM HopperLengthTheorem == Spec => []HopperLength
<1>1. DeviceInit => HopperWords
  <2>. SUFFICES ASSUME DeviceInit PROVE HopperWords
    OBVIOUS
  <2>1. pos = 1 /\ code = <<>> /\ DeviceTypes
    BY DeviceInitTypes DEF DeviceInit
  <2>2. LackingBefore = {}
    BY <2>1 DEF LackingBefore, Lacking, DeviceTypes
  <2>3. Cardinality(LackingBefore) = 0 /\ Len(seq) \in Nat
    BY <2>1, <2>2, FS_EmptySet DEF DeviceTypes
  <2>. QED
    BY <2>1, <2>3 DEF HopperWords
<1>2. DeviceTypes /\ HopperWords /\ [DeviceNext]_deviceVars => HopperWords'
  BY HopperWordsStep
<1>3. DeviceTypes /\ HopperWords => HopperLength
  <2>. SUFFICES ASSUME DeviceTypes, HopperWords, IsEncoded, backend \in {"Hopper", "Blackwell"}, entry = "encode"
                PROVE  Len(code) = 2 * (Len(seq) - Cardinality(Lacking)) + 2 * Len(seq) * Cardinality(Lacking)
    BY DEF HopperLength
  <2>1. pos = Len(seq) + 1 /\ Len(seq) \in Nat /\ Lacking \in SUBSET (1 .. Len(seq))
    BY DEF DeviceTypes, Lacking
  <2>2. LackingBefore = Lacking
    <3>1. \A k \in Lacking : k < pos
      BY <2>1
    <3>. QED
      BY <3>1 DEF LackingBefore
  <2>3. Cardinality(Lacking) \in Nat
    <3>1. IsFiniteSet(1 .. Len(seq))
      BY <2>1, FS_Interval
    <3>. QED
      BY <2>1, <3>1, FS_Subset, FS_CardinalityType
  <2>. QED
    BY <2>1, <2>2, <2>3 DEF HopperWords
<1>. QED
  BY <1>1, <1>2, <1>3, DeviceTypeTheorem, DeviceSteps, PTL

\* What an encoder adds stands behind the words that were there.
LEMMA EncodeAppends ==
  ASSUME DeviceTypes, NEW words \in Seq(Row), NEW n, Encode(words, n)
  PROVE  /\ Len(code') = Len(code) + Len(words) /\ DOMAIN code' = 1 .. Len(code')
         /\ DOMAIN code = 1 .. Len(code) /\ Len(code) \in Nat /\ Len(words) \in Nat
         /\ \A w \in 1 .. Len(code) : code'[w] = code[w] /\ origin'[w] = origin[w]
         /\ \A j \in 1 .. Len(words) : code'[Len(code) + j] = words[j] /\ origin'[Len(code) + j] = pos
<1>. DEFINE here == [k \in DOMAIN words |-> pos]
<1>1. /\ code \in Seq(Row) /\ origin \in Seq(1 .. Len(seq)) /\ Len(origin) = Len(code) /\ Len(code) \in Nat
      /\ Len(words) \in Nat /\ DOMAIN words = 1 .. Len(words) /\ pos \in 1 .. Len(seq)
  BY DEF DeviceTypes, Encode
<1>2. here \in Seq(1 .. Len(seq)) /\ Len(here) = Len(words) /\ \A j \in 1 .. Len(words) : here[j] = pos
  BY <1>1
<1>3. code' = code \o words /\ origin' = origin \o here
  BY DEF Encode
<1>. HIDE DEF here
<1>4. /\ code' \in Seq(Row) /\ Len(code') = Len(code) + Len(words)
      /\ \A w \in 1 .. Len(code) : code'[w] = code[w]
      /\ \A j \in 1 .. Len(words) : code'[Len(code) + j] = words[j]
  BY <1>1, <1>3
<1>5. /\ \A w \in 1 .. Len(code) : origin'[w] = origin[w]
      /\ \A j \in 1 .. Len(words) : origin'[Len(code) + j] = pos
  <2>1. /\ \A w \in 1 .. Len(origin) : (origin \o here)[w] = origin[w]
        /\ \A j \in 1 .. Len(here) : (origin \o here)[Len(origin) + j] = here[j]
    BY <1>1, <1>2
  <2>. QED
    BY <1>1, <1>2, <1>3, <2>1
<1>6. DOMAIN code' = 1 .. Len(code') /\ DOMAIN code = 1 .. Len(code)
  BY <1>1, <1>4
<1>. QED
  BY <1>1, <1>4, <1>5, <1>6, Zenon

-----------------------------------------------------------------------------
(* The words of Pascal.                                                    *)

\* The instruction behind those a word stands for, and what the word is.
NextOf(w) == IF w < Len(code) THEN origin[w + 1] ELSE pos
Stands(w) ==
  \/ NextOf(w) = origin[w] + 1 /\ code[w] = PascalWord(seq[origin[w]])
  \/ /\ Fuses(seq, origin[w]) /\ NextOf(w) = origin[w] + Group
     /\ code[w] = FusedWord(seq, origin[w])
PascalWords ==
  backend = "Pascal" =>
    /\ diags = Diagnostics(prog) /\ (Refused(prog) => seq = <<>>)
    /\ IF code = <<>> THEN pos = 1 ELSE origin[1] = 1
    /\ \A w \in DOMAIN code : Stands(w)

\* Every step keeps what the words of Pascal stand for.
LEMMA PascalWordsStep == DeviceTypes /\ PascalWords /\ [DeviceNext]_deviceVars => PascalWords'
<1>. SUFFICES ASSUME DeviceTypes, PascalWords, [DeviceNext]_deviceVars, backend' = "Pascal"
              PROVE  PascalWords'
  BY DEF PascalWords
<1>1. CASE UNCHANGED deviceVars
  BY <1>1 DEF PascalWords, Stands, NextOf, deviceVars
<1>2. CASE Encoded \/ Disassemble \/ Disassembled
  BY <1>2 DEF PascalWords, Stands, NextOf, Encoded, Disassemble, Disassembled
<1>3. ASSUME NEW word \in Row, NEW n, Encode(<<word>>, n),
             \/ n = 1 /\ word = PascalWord(seq[pos])
             \/ n = Group /\ Fuses(seq, pos) /\ word = FusedWord(seq, pos)
      PROVE  PascalWords'
  <2>. DEFINE m == Len(code)
  <2>1. <<word>> \in Seq(Row) /\ Len(<<word>>) = 1 /\ <<word>>[1] = word
    OBVIOUS
  <2>2. /\ Len(code') = m + 1 /\ m \in Nat /\ DOMAIN code = 1 .. m /\ DOMAIN code' = 1 .. m + 1
        /\ \A w \in 1 .. m : code'[w] = code[w] /\ origin'[w] = origin[w]
        /\ code'[m + 1] = word /\ origin'[m + 1] = pos
    <3>1. 1 \in 1 .. Len(<<word>>)
      BY <2>1
    <3>. QED
      BY <1>3, <2>1, <3>1, EncodeAppends, Zenon
  <2>3. backend' = backend /\ diags' = diags /\ prog' = prog /\ seq' = seq /\ pos' = pos + n
    BY <1>3 DEF Encode
  <2>4. code \in Seq(Row) /\ (code = <<>> <=> m = 0)
    BY DEF DeviceTypes
  <2>. HIDE DEF m
  <2>5. ASSUME NEW w \in 1 .. m + 1 PROVE Stands(w)'
    <3>1. CASE w = m + 1
      <4>1. origin'[w] = pos /\ code'[w] = word /\ NextOf(w)' = pos + n
        BY <2>2, <2>3, <3>1 DEF NextOf
      <4>. QED
        BY <1>3, <2>3, <4>1 DEF Stands
    <3>2. CASE w # m + 1
      <4>1. w \in 1 .. m
        BY <2>2, <3>2
      <4>2. NextOf(w)' = NextOf(w)
        <5>1. CASE w < m
          BY <2>2, <4>1, <5>1 DEF NextOf, m
        <5>2. CASE w = m
          BY <2>2, <4>1, <5>2 DEF NextOf, m
        <5>. QED
          BY <2>2, <4>1, <5>1, <5>2
      <4>3. origin'[w] = origin[w] /\ code'[w] = code[w] /\ Stands(w)
        BY <2>2, <2>3, <4>1 DEF PascalWords
      <4>. QED
        BY <2>3, <4>2, <4>3 DEF Stands
    <3>. QED
      BY <3>1, <3>2
  <2>6. code' # <<>> /\ origin'[1] = 1
    <3>1. Len(<<>>) = 0 /\ Len(code') # 0
      BY <2>2
    <3>2. CASE m = 0
      BY <2>2, <2>3, <2>4, <3>1, <3>2 DEF PascalWords
    <3>3. CASE m # 0
      <4>1. 1 \in 1 .. m
        BY <2>2, <3>3
      <4>. QED
        BY <2>2, <2>3, <2>4, <3>1, <3>3, <4>1 DEF PascalWords
    <3>. QED
      BY <3>2, <3>3
  <2>. QED
    BY <2>2, <2>3, <2>5, <2>6 DEF PascalWords
<1>4. CASE DeviceNext /\ ~(Encoded \/ Disassemble \/ Disassembled)
  <2>1. backend = "Pascal" /\ pos <= Len(seq)
    <3>1. \A words, n : Encode(words, n) => backend' = backend /\ pos <= Len(seq)
      BY DEF Encode
    <3>. QED
      BY <1>4, <3>1, EncodeCases
  <2>2. IF Fuses(seq, pos) THEN Encode(<<FusedWord(seq, pos)>>, Group) ELSE Encode(<<PascalWord(seq[pos])>>, 1)
    BY <1>4, <2>1, EncodeCases DEF AmpereEntry, At
  <2>3. PascalWord(seq[pos]) \in Row
    BY PascalRow
  <2>4. Fuses(seq, pos) => FusedWord(seq, pos) \in Row
    BY GroupRegs, FusedRow DEF Fuses, DeviceTypes
  <2>. QED
    BY <1>3, <2>2, <2>3, <2>4
<1>. QED
  BY <1>1, <1>2, <1>4

\* What Pascal refuses, by what it says.
LEMMA Refusals ==
  /\ Refused(prog) <=> prog = <<>> \/ ~Valid(prog)
  /\ Diagnostics(prog) \in {{"empty program"}, {"invalid instruction"}} <=> prog = <<>> \/ ~Valid(prog)
<1>1. CASE prog = <<>> \/ ~Valid(prog)
  BY <1>1 DEF Refused, Diagnostics
<1>2. CASE prog # <<>> /\ Valid(prog)
  <2>1. "empty program" \notin Diagnostics(prog) /\ "invalid instruction" \notin Diagnostics(prog)
    BY <1>2 DEF Diagnostics
  <2>. QED
    BY <1>2, <2>1 DEF Refused
<1>. QED
  BY <1>1, <1>2

\* The words of Pascal at the start: none, and none to come if it refuses.
LEMMA PascalWordsInit == DeviceInit => PascalWords
<1>. SUFFICES ASSUME DeviceInit, backend = "Pascal" PROVE PascalWords
  BY DEF PascalWords
<1>1. pos = 1 /\ code = <<>> /\ diags = Diagnostics(prog)
  BY DEF DeviceInit
<1>2. Refused(prog) => seq = <<>>
  BY DEF DeviceInit
<1>. QED
  BY <1>1, <1>2 DEF PascalWords

\* For every program and result of the optimizer, Pascal refuses what is empty or
\* invalid, and the words of the rest tile the instructions.
THEOREM PascalTilesTheorem == Spec => []PascalTiles
<1>1. DeviceTypes /\ PascalWords => PascalTiles
  <2>. SUFFICES ASSUME DeviceTypes, PascalWords, IsEncoded, backend = "Pascal" PROVE PascalTiles
    BY DEF PascalTiles
  <2>1. /\ code \in Seq(Row) /\ origin \in Seq(1 .. Len(seq)) /\ Len(origin) = Len(code) /\ pos = Len(seq) + 1
        /\ seq \in Seq(Inst) /\ Len(seq) \in Nat
    BY DEF DeviceTypes
  <2>2. diags = Diagnostics(prog) /\ (Refused(prog) => seq = <<>>)
    BY DEF PascalWords
  <2>3. IF code = <<>> THEN seq = <<>> ELSE origin[1] = 1
    BY <2>1 DEF PascalWords
  <2>4. ASSUME prog = <<>> \/ ~Valid(prog) PROVE code = <<>>
    <3>1. seq = <<>> /\ Len(seq) = 0
      BY <2>2, <2>4, Refusals
    <3>2. Len(origin) = 0
      <4>1. 1 .. Len(seq) = {}
        BY <3>1
      <4>2. \A s \in Seq({}) : Len(s) = 0
        OBVIOUS
      <4>. QED
        BY <2>1, <4>1, <4>2, Zenon
    <3>3. \A s \in Seq(Row) : Len(s) = 0 => s = <<>>
      OBVIOUS
    <3>. QED
      BY <2>1, <3>2, <3>3, Zenon
  <2>5. ASSUME NEW w \in DOMAIN code PROVE Covers(w)
    <3>. DEFINE k == origin[w]
    <3>1. k \in 1 .. Len(seq) /\ EndOf(w) = NextOf(w)
      BY <2>1 DEF EndOf, NextOf
    <3>2. CASE EndOf(w) = k + 1 /\ code[w] = PascalWord(seq[k])
      BY <3>2, PascalBytes DEF Covers
    <3>3. CASE Fuses(seq, k) /\ EndOf(w) = k + Group /\ code[w] = FusedWord(seq, k)
      <4>1. \A j \in k .. k + Group - 1 : RegsOf(seq[j]) \in SUBSET Nat
        BY <2>1, <3>1, <3>3, GroupRegs DEF Fuses
      <4>2. HighRegisters(k) = {} => FamilyByte(code[w]) = FusedByte(seq[k].opcode)
        BY <3>3, <4>1, FusedTop DEF HighRegisters
      <4>3. seq[k].opcode \in {"FFMA", "XMAD"} /\ \A j \in k .. k + Group - 1 : seq[j].opcode = seq[k].opcode
        BY <3>3 DEF Fuses
      <4>. HIDE DEF k
      <4>4. PICK row \in {<<"FFMA", \hf1>>, <<"XMAD", \hf2>>} :
                row[1] = seq[k].opcode /\ row[2] = FusedByte(seq[k].opcode)
        <5>1. \A o \in {"FFMA", "XMAD"} : \E row \in {<<"FFMA", \hf1>>, <<"XMAD", \hf2>>} :
                row[1] = o /\ row[2] = FusedByte(o)
          BY DEF FusedByte
        <5>. QED
          BY <4>3, <5>1, Zenon
      <4>5. /\ EndOf(w) = k + Group
            /\ \A j \in k .. k + Group - 1 : seq[j].opcode = row[1]
            /\ FamilyByte(code[w]) = row[2] \/ HighRegisters(k) # {}
        BY <3>3, <4>2, <4>3, <4>4, Zenon
      <4>. QED
        BY <4>5, Zenon DEF Covers, k
    <3>. QED
      BY <3>1, <3>2, <3>3 DEF PascalWords, Stands
  <2>6. DOMAIN origin = DOMAIN code
    BY <2>1
  <2>. QED
    BY <2>2, <2>3, <2>4, <2>5, <2>6, Refusals DEF PascalTiles
<1>2. DeviceTypes /\ PascalWords /\ [DeviceNext]_deviceVars => PascalWords'
  BY PascalWordsStep
<1>. QED
  BY <1>1, <1>2, PascalWordsInit, DeviceTypeTheorem, DeviceSteps, PTL

-----------------------------------------------------------------------------
(* Opcodes.                                                                *)

\* A table whose values lie between two bounds and tell their rows apart.
Apart(f, first, last) ==
  /\ \A o \in DOMAIN f : f[o] \in Int /\ first <= f[o] /\ f[o] <= last
  /\ \A o, p \in DOMAIN f : f[o] = f[p] => o = p

\* A row of one of two tables.
LEMMA OverCases ==
  ASSUME NEW f, NEW g, NEW o \in DOMAIN Over(f, g)
  PROVE  (o \in DOMAIN f /\ Over(f, g)[o] = f[o]) \/ (o \in DOMAIN g /\ Over(f, g)[o] = g[o])
  BY DEF Over

\* The rows of the second of two tables are rows of both together.
LEMMA OverSecond == ASSUME NEW f, NEW g, NEW o \in DOMAIN g PROVE o \in DOMAIN Over(f, g)
  BY DEF Over

\* Enumerators that count from a number on.
Run(names, n) == DOMAIN names = 1 .. n
\* The values of a run stay within its numbers and tell its names apart.
LEMMA NumberedApart ==
  ASSUME NEW from \in Int, NEW names, NEW n \in Nat, Run(names, n), NEW last \in Int, from + n - 1 = last
  PROVE  Apart(Numbered(from, names), from, last)
<1>. USE DEF Run
<1>. DEFINE index(o) == CHOOSE k \in DOMAIN names : names[k] = o
            f == Numbered(from, names)
<1>1. \A o \in DOMAIN f : index(o) \in 1 .. n /\ names[index(o)] = o /\ f[o] = from - 1 + index(o)
  <2>1. TAKE o \in DOMAIN f
  <2>2. \E k \in DOMAIN names : names[k] = o
    BY DEF Numbered
  <2>3. index(o) \in DOMAIN names /\ names[index(o)] = o
    BY <2>2
  <2>4. f[o] = from - 1 + index(o)
    BY <2>2 DEF Numbered
  <2>. QED
    BY <2>3, <2>4
<1>. HIDE DEF index, f
<1>2. \A o \in DOMAIN f : f[o] \in Int /\ from <= f[o] /\ f[o] <= last
  BY <1>1
<1>3. \A o, p \in DOMAIN f : f[o] = f[p] => o = p
  <2>1. TAKE o, p \in DOMAIN f
  <2>2. HAVE f[o] = f[p]
  <2>3. index(o) = index(p)
    BY <1>1, <2>2
  <2>. QED
    BY <1>1, <2>3
<1>. QED
  BY <1>2, <1>3 DEF Apart, f

\* A table in front of one with higher values.
LEMMA OverApart ==
  ASSUME NEW f, NEW g, NEW a \in Int, NEW b \in Int, NEW c \in Int, NEW d \in Int,
         Apart(f, a, b), Apart(g, c, d), a <= b, b < c, c <= d
  PROVE  Apart(Over(f, g), a, d)
<1>. DEFINE h == Over(f, g)
<1>1. /\ \A o \in DOMAIN f : f[o] \in Int /\ a <= f[o] /\ f[o] <= b
      /\ \A o \in DOMAIN g : g[o] \in Int /\ c <= g[o] /\ g[o] <= d
  BY DEF Apart
<1>2. /\ \A o, p \in DOMAIN f : f[o] = f[p] => o = p
      /\ \A o, p \in DOMAIN g : g[o] = g[p] => o = p
  BY DEF Apart
<1>3. \A o \in DOMAIN h : (o \in DOMAIN f /\ h[o] = f[o]) \/ (o \in DOMAIN g /\ h[o] = g[o])
  BY OverCases
<1>. HIDE DEF h
<1>4. \A o \in DOMAIN h : h[o] \in Int /\ a <= h[o] /\ h[o] <= d
  BY <1>1, <1>3
<1>5. \A o \in DOMAIN f, p \in DOMAIN g : f[o] # g[p]
  BY <1>1
<1>6. \A o, p \in DOMAIN h : h[o] = h[p] => o = p
  <2>1. TAKE o, p \in DOMAIN h
  <2>2. HAVE h[o] = h[p]
  <2>. QED
    BY <1>2, <1>3, <1>5, <2>2, Zenon
<1>. QED
  BY <1>4, <1>6 DEF Apart, h

\* The runs of the enum, from the last one on.
Runs3 == Over(Numbered(\h80, Matrix), Over(Numbered(\hb0, Scalar), Over(Numbered(\hf0, Vector),
           Numbered(\hffff, <<"UNKNOWN">>))))
Runs1 == Over(Numbered(\h59, <<"FFMA">>), Over(Numbered(\h5b, Extended), Runs3))

\* The runs of the enum and the values they end with.
LEMMA RunsApart ==
  /\ Apart(Numbered(\h01, Basic), 1, 80) /\ Apart(Numbered(\h59, <<"FFMA">>), 89, 89)
  /\ Apart(Numbered(\h5b, Extended), 91, 121) /\ Apart(Numbered(\h80, Matrix), 128, 173)
  /\ Apart(Numbered(\hb0, Scalar), 176, 188) /\ Apart(Numbered(\hf0, Vector), 240, 251)
  /\ Apart(Numbered(\hffff, <<"UNKNOWN">>), 65535, 65535)
<1>1. Run(Basic, 80)
  BY DEF Run, Basic
<1>2. Run(Extended, 31)
  BY DEF Run, Extended
<1>3. Run(Matrix, 46)
  BY DEF Run, Matrix
<1>4. Run(Scalar, 13)
  BY DEF Run, Scalar
<1>5. Run(Vector, 12)
  BY DEF Run, Vector
<1>6. Run(<<"FFMA">>, 1) /\ Run(<<"UNKNOWN">>, 1)
  BY DEF Run
<1>. QED
  BY <1>1, <1>2, <1>3, <1>4, <1>5, <1>6, NumberedApart

\* Values tell opcodes apart, and have eight bits except that of UNKNOWN.
LEMMA ValueApart ==
  /\ Apart(Value, 1, 65535) /\ Apart(Runs3, 128, 65535)
  /\ \A o \in Opcode : o # "UNKNOWN" => Value[o] \in 0 .. 255
<1>1. Apart(Over(Numbered(\hf0, Vector), Numbered(\hffff, <<"UNKNOWN">>)), 240, 65535)
  BY RunsApart, OverApart
<1>2. Apart(Over(Numbered(\hb0, Scalar), Over(Numbered(\hf0, Vector), Numbered(\hffff, <<"UNKNOWN">>))), 176, 65535)
  BY <1>1, RunsApart, OverApart
<1>3. Apart(Runs3, 128, 65535)
  BY <1>2, RunsApart, OverApart DEF Runs3
<1>4. Apart(Over(Numbered(\h5b, Extended), Runs3), 91, 65535)
  BY <1>3, RunsApart, OverApart
<1>5. Apart(Runs1, 89, 65535)
  BY <1>4, RunsApart, OverApart DEF Runs1
<1>6. Value = Over(Numbered(\h01, Basic), Runs1)
  BY DEF Value, Runs1, Runs3
<1>7. Apart(Value, 1, 65535)
  BY <1>5, <1>6, RunsApart, OverApart
<1>. DEFINE Small(f) == \A o \in DOMAIN f : o # "UNKNOWN" => f[o] \in Int /\ 0 <= f[o] /\ f[o] <= 255
<1>8. \A f, g : Small(f) /\ Small(g) => Small(Over(f, g))
  <2>1. TAKE f, g
  <2>2. \A o \in DOMAIN Over(f, g) :
          (o \in DOMAIN f /\ Over(f, g)[o] = f[o]) \/ (o \in DOMAIN g /\ Over(f, g)[o] = g[o])
    BY OverCases
  <2>. QED
    BY <2>2, Zenon
<1>9. \A f, a, b : Apart(f, a, b) /\ a \in Nat /\ b \in Int /\ b <= 255 => Small(f)
  BY DEF Apart
<1>10. /\ Small(Numbered(\h01, Basic)) /\ Small(Numbered(\h59, <<"FFMA">>)) /\ Small(Numbered(\h5b, Extended))
       /\ Small(Numbered(\h80, Matrix)) /\ Small(Numbered(\hb0, Scalar)) /\ Small(Numbered(\hf0, Vector))
  <2>. HIDE DEF Small
  <2>. QED
    BY <1>9, RunsApart
<1>11. Small(Numbered(\hffff, <<"UNKNOWN">>))
  <2>1. \A o \in DOMAIN Numbered(\hffff, <<"UNKNOWN">>) : o = "UNKNOWN"
    BY DEF Numbered
  <2>. QED
    BY <2>1
<1>. HIDE DEF Small
<1>12. Small(Value)
  BY <1>8, <1>10, <1>11 DEF Value
<1>. QED
  BY <1>3, <1>7, <1>12 DEF Small, Opcode

\* The table of the JIT compiler has every opcode that supports() admits.
LEMMA SupportedRows == ASSUME NEW o \in Opcode, VoltaSupports(o) PROVE o \in DOMAIN JitTable
<1>1. \A p \in DOMAIN Numbered(\h01, Basic) : p \in DOMAIN JitTable
  BY DEF Numbered, Basic, JitTable, Coded
<1>2. \A p \in DOMAIN Numbered(\h5b, Extended) : p \in DOMAIN JitTable
  BY DEF Numbered, Extended, JitTable, Coded
<1>3. \A p \in DOMAIN Numbered(\h59, <<"FFMA">>) : p \in DOMAIN JitTable
  BY DEF Numbered, JitTable, Coded
<1>4. Value = Over(Numbered(\h01, Basic), Over(Numbered(\h59, <<"FFMA">>), Over(Numbered(\h5b, Extended), Runs3)))
  BY DEF Value, Runs3
<1>5. Value["SUQ"] \in Int /\ Value["SUQ"] <= 121
  <2>. DEFINE Low(f) == "SUQ" \in DOMAIN f => f["SUQ"] \in Int /\ f["SUQ"] <= 121
  <2>1. "SUQ" \in DOMAIN Numbered(\h5b, Extended)
    BY DEF Numbered, Extended
  <2>2. \A f, a, b : Apart(f, a, b) /\ b \in Int /\ b <= 121 => Low(f)
    BY DEF Apart
  <2>3. Low(Numbered(\h01, Basic)) /\ Low(Numbered(\h59, <<"FFMA">>)) /\ Low(Numbered(\h5b, Extended))
    <3>. HIDE DEF Low
    <3>. QED
      BY <2>2, RunsApart
  <2>4. "SUQ" \in DOMAIN Over(Numbered(\h5b, Extended), Runs3) /\ Low(Over(Numbered(\h5b, Extended), Runs3))
    <3>1. \A f, g : "SUQ" \in DOMAIN f /\ Low(f) => "SUQ" \in DOMAIN Over(f, g) /\ Low(Over(f, g))
      BY DEF Over
    <3>. HIDE DEF Low
    <3>. QED
      BY <2>1, <2>3, <3>1, Zenon
  <2>5. \A f, g : Low(f) /\ "SUQ" \in DOMAIN g /\ Low(g) => "SUQ" \in DOMAIN Over(f, g) /\ Low(Over(f, g))
    BY OverSecond, OverCases
  <2>6. "SUQ" \in DOMAIN Value /\ Low(Value)
    <3>. HIDE DEF Low
    <3>. QED
      BY <1>4, <2>3, <2>4, <2>5, Zenon
  <2>. QED
    BY <2>6
<1>6. \/ o \in DOMAIN Numbered(\h01, Basic) \/ o \in DOMAIN Numbered(\h59, <<"FFMA">>)
      \/ o \in DOMAIN Numbered(\h5b, Extended) \/ (o \in DOMAIN Runs3 /\ Value[o] = Runs3[o])
  <2>1. \A f, g : \A p \in DOMAIN Over(f, g) : p \in DOMAIN f \/ (p \in DOMAIN g /\ Over(f, g)[p] = g[p])
    BY OverCases
  <2>. QED
    BY <1>4, <2>1 DEF Opcode
<1>7. o \in DOMAIN Runs3 => Runs3[o] \in Int /\ 128 <= Runs3[o]
  BY ValueApart DEF Apart
<1>. QED
  BY <1>1, <1>2, <1>3, <1>5, <1>6, <1>7 DEF VoltaSupports

\* Codes have sixteen bits and are not zero, and tables of two rows.
LEMMA JitCodes == ASSUME NEW o \in DOMAIN JitTable PROVE JitTable[o] \in Int /\ 0 < JitTable[o] /\ JitTable[o] < 65536
<1>. DEFINE Code(n) == n \in Int /\ 0 < n /\ n < 65536
<1>. PICK rows : JitTable = Coded(rows) /\ \A row \in rows : Code(row[1])
  BY DEF JitTable
<1>. QED
  BY CodedRows

-----------------------------------------------------------------------------
(* What a reader finds in a word of Volta.                                 *)

\* The bits of a word of the JIT templates, by what sets them.
LEMMA JitBits ==
  ASSUME NEW inst, inst.opcode \in DOMAIN JitTable, NEW b \in Int
  PROVE  b \in JitPair(inst)[1] <=>
           \/ b \in Bits(JitTable[inst.opcode], 16)
           \/ b - 20 \in Bits(Reg(inst, 1), 8) \/ b - 26 \in Bits(Reg(inst, 2), 8)
           \/ b - 32 \in Bits(Reg(inst, 3), 8)
<1>1. \A n, low \in Int : b \in RegAt(inst, n, low) <=> b - low \in Bits(Reg(inst, n), 8)
  <2>1. TAKE n, low \in Int
  <2>2. \A c \in Bits(Reg(inst, n), 8) : c \in Int
    BY BitsInside
  <2>. QED
    BY <2>2, ShiftedMembers DEF RegAt
<1>2. JitPair(inst)[1] = Bits(JitTable[inst.opcode], 16) \union Registers(inst)
  BY DEF JitPair
<1>. QED
  BY <1>1, <1>2 DEF Registers

\* A register below 64 has six bits.
LEMMA SmallRegister ==
  ASSUME NEW r \in Int, 0 <= r, r < 64
  PROVE  Bits(r, 8) = Bits(r, 6)
<1>1. (r \div 2^6) % 2 = 0 /\ (r \div 2^7) % 2 = 0
  <2>1. r \div 64 = 0 /\ r \div 128 = 0
    OBVIOUS
  <2>. QED
    BY <2>1, Powers
<1>2. \A b \in 0 .. 8 - 1 : b \in 0 .. 6 - 1 \/ b = 6 \/ b = 7
  OBVIOUS
<1>3. \A b \in 0 .. 6 - 1 : b \in 0 .. 8 - 1
  OBVIOUS
<1>4. ~(0 = 1)
  OBVIOUS
<1>. QED
  BY <1>1, <1>2, <1>3, <1>4, Zenon DEF Bits

\* A word without bits.
LEMMA NoBits == Unsigned(Field({}, 0, 16)) = 0
<1>1. Field({}, 0, 16) = {}
  BY DEF Field
<1>2. {} \in SUBSET (0 .. 15) /\ Total({}) = 0
  BY DEF Total, Four, One
<1>. QED
  BY <1>1, <1>2, UnsignedIsTotal

\* The word of an instruction holds its code, and its registers where they have
\* six bits.
SixBits(w, low) == Unsigned(Field(w, low, 6))
RegistersShown(inst, w) ==
  SixBits(w, 20) = Reg(inst, 1) /\ SixBits(w, 26) = Reg(inst, 2) /\ SixBits(w, 32) = Reg(inst, 3)
LEMMA JitReadBack ==
  ASSUME NEW inst \in Inst
  PROVE  /\ VoltaReadBack(inst, JitPair(inst)[1])
         /\ JitPair(inst)[1] # {} /\ Below(inst, 64) => RegistersShown(inst, JitPair(inst)[1])
<1>. DEFINE w == JitPair(inst)[1]
            code16 == Bits(JitTable[inst.opcode], 16)
            regs(n) == Bits(Reg(inst, n), 8)
<1>1. w \in Row /\ inst.opcode \in Opcode
  BY JitRow, PairWords DEF Inst
<1>2. CASE inst.opcode \notin DOMAIN JitTable
  <2>1. w = {} /\ ~VoltaSupports(inst.opcode)
    BY <1>1, <1>2, SupportedRows DEF JitPair, NoPair
  <2>. QED
    BY <2>1 DEF VoltaReadBack
<1>3. CASE inst.opcode \in DOMAIN JitTable
  <2>1. \A b \in Int : b \in w <=> b \in code16 \/ b - 20 \in regs(1) \/ b - 26 \in regs(2) \/ b - 32 \in regs(3)
    BY <1>3, JitBits
  <2>2. /\ \A b \in code16 : b \in Int /\ 0 <= b /\ b < 16
        /\ \A n : \A b \in regs(n) : b \in Int /\ 0 <= b /\ b < 8
    BY BitsInside
  <2>. HIDE DEF w, code16, regs
  <2>3. Field(w, 0, 16) = code16
    <3>1. \A x \in 0 .. 15 : x + 0 \in w <=> x \in code16
      BY <2>1, <2>2
    <3>2. code16 \in SUBSET (0 .. 15)
      BY <2>2
    <3>. QED
      BY <1>1, <3>1, <3>2, HalfIs
  <2>4. HardwareCode(w) = JitTable[inst.opcode] /\ w # {}
    <3>1. JitTable[inst.opcode] \in Int /\ 0 < JitTable[inst.opcode] /\ JitTable[inst.opcode] < 65536
      BY <1>3, JitCodes
    <3>2. HardwareCode(w) = JitTable[inst.opcode] % 65536
      BY <2>3, <3>1, Unsigned16 DEF HardwareCode, code16
    <3>3. HardwareCode({}) = 0
      BY NoBits DEF HardwareCode
    <3>. QED
      BY <3>1, <3>2, <3>3
  <2>5. ASSUME \A n \in 1 .. 3 : Reg(inst, n) < 64
        PROVE  RegistersShown(inst, w)
    <3>1. \A n \in 1 .. 3 : Reg(inst, n) \in Int /\ 0 <= Reg(inst, n) /\ Reg(inst, n) < 64
      <4>1. \A n \in 1 .. 4 : Reg(inst, n) \in 0 .. 255
        BY RegsInside
      <4>. QED
        BY <2>5, <4>1
    <3>2. \A n \in 1 .. 3 : regs(n) = Bits(Reg(inst, n), 6)
      BY <3>1, SmallRegister DEF regs
    <3>3. \A n \in 1 .. 3 : regs(n) \in SUBSET (0 .. 5)
      <4>1. \A n : \A b \in Bits(Reg(inst, n), 6) : b \in Int /\ 0 <= b /\ b < 6
        BY BitsInside
      <4>. QED
        BY <3>2, <4>1
    <3>4. \A n \in 1 .. 3 : Unsigned(regs(n)) = Reg(inst, n)
      <4>1. \A n \in 1 .. 3 : Reg(inst, n) % 64 = Reg(inst, n)
        BY <3>1
      <4>. QED
        BY <3>1, <3>2, <4>1, Unsigned6
    <3>5. 1 \in 1 .. 3 /\ 2 \in 1 .. 3 /\ 3 \in 1 .. 3
      OBVIOUS
    <3>6. regs(1) \in SUBSET (0 .. 5) /\ regs(2) \in SUBSET (0 .. 5) /\ regs(3) \in SUBSET (0 .. 5)
      BY <3>3, <3>5
    <3>7. /\ \A x \in 0 .. 5 : x + 20 \in w <=> x \in regs(1)
          /\ \A x \in 0 .. 5 : x + 26 \in w <=> x \in regs(2)
          /\ \A x \in 0 .. 5 : x + 32 \in w <=> x \in regs(3)
      BY <2>1, <2>2, <3>6
    <3>8. Field(w, 20, 6) = regs(1) /\ Field(w, 26, 6) = regs(2) /\ Field(w, 32, 6) = regs(3)
      BY <1>1, <3>6, <3>7, SixIs
    <3>. QED
      BY <3>4, <3>5, <3>8 DEF SixBits, RegistersShown
  <2>6. VoltaReadBack(inst, w)
    BY <2>4 DEF VoltaReadBack
  <2>7. Below(inst, 64) => RegistersShown(inst, w)
    BY <2>5 DEF Below
  <2>. QED
    BY <2>6, <2>7 DEF w
<1>. QED
  BY <1>2, <1>3

-----------------------------------------------------------------------------
(* What a reader finds in a word of Ampere.                                *)

\* The bits of a code.
LEMMA CodeBits == ASSUME NEW n \in Int, 0 < n, n < 65536 PROVE Bits(n, 16) # {}
<1>1. Unsigned(Bits(n, 16)) = n
  BY Unsigned16
<1>2. Field({}, 0, 16) = {}
  BY DEF Field
<1>. QED
  BY <1>1, <1>2, NoBits

\* The codes of Ampere are codes.
LEMMA AmpereCodes ==
  ASSUME NEW o \in DOMAIN AmpereMap
  PROVE  AmpereMap[o] \in Int /\ 0 < AmpereMap[o] /\ AmpereMap[o] < 65536
<1>. DEFINE Codes(f) == \A p \in DOMAIN f : f[p] \in Int /\ 0 < f[p] /\ f[p] < 65536
            few == Coded({<<\h0200, {"SHFL"}>>, <<\h1000, {"FSET", "DSET"}>>, <<\h7212, {"PRMT"}>>,
                          <<\h780c, {"FSETP", "DSETP", "CSETP"}>>})
<1>1. ASSUME NEW f, NEW g, Codes(f), Codes(g) PROVE Codes(Over(f, g))
  BY <1>1, OverCases
<1>2. ASSUME NEW S, S \in SUBSET (DOMAIN JitTable) PROVE Codes(Restrict(JitTable, S))
  BY <1>2, JitCodes, RestrictRows
<1>3. Codes(few)
  <2>1. PICK rows : few = Coded(rows) /\ \A row \in rows : row[1] \in Int /\ 0 < row[1] /\ row[1] < 65536
    OBVIOUS
  <2>. QED
    BY <2>1, CodedRows
<1>4. Codes(AmpereOwn)
  BY DEF AmpereOwn
<1>5. Tensor \in SUBSET (DOMAIN JitTable)
  BY DEF Tensor, JitTable, Coded
<1>. HIDE DEF Codes, few
<1>6. Codes(OpMap)
  <2>1. Codes(Restrict(JitTable, DOMAIN JitTable \ (Unmapped \union Tensor)))
    BY <1>2
  <2>. QED
    BY <1>1, <1>3, <2>1 DEF OpMap, few
<1>7. Codes(AmpereMap)
  BY <1>1, <1>2, <1>4, <1>5, <1>6 DEF AmpereMap
<1>. QED
  BY <1>7 DEF Codes

\* Ampere has no code for the opcodes of Unmapped only.
LEMMA AmpereMapped ==
  ASSUME NEW o \in DOMAIN JitTable
  PROVE  o \in DOMAIN AmpereMap <=> o \notin Unmapped
<1>. DEFINE few == Coded({<<\h0200, {"SHFL"}>>, <<\h1000, {"FSET", "DSET"}>>, <<\h7212, {"PRMT"}>>,
                          <<\h780c, {"FSETP", "DSETP", "CSETP"}>>})
<1>1. \A u \in Unmapped : u \notin DOMAIN AmpereOwn /\ u \notin Tensor
  BY DEF Unmapped, AmpereOwn, Tensor
<1>2. \A u \in Unmapped : u \notin DOMAIN few
  BY DEF Unmapped, Coded
<1>. HIDE DEF few
<1>3. DOMAIN OpMap = DOMAIN few \union (DOMAIN JitTable \ (Unmapped \union Tensor))
  <2>. DEFINE others == DOMAIN JitTable \ (Unmapped \union Tensor)
  <2>1. DOMAIN Restrict(JitTable, others) = others
    BY RestrictRows
  <2>2. OpMap = Over(few, Restrict(JitTable, others))
    BY DEF OpMap, few
  <2>. HIDE DEF others
  <2>3. DOMAIN OpMap = DOMAIN few \union DOMAIN Restrict(JitTable, others)
    BY <2>2, OverRows
  <2>. QED
    BY <2>1, <2>3, Zenon DEF others
<1>. QED
  BY <1>1, <1>2, <1>3, AmpereDomain

\* The operation word of an opcode that Ampere has a code for.
LEMMA OperationBits ==
  ASSUME NEW inst, inst.opcode \in DOMAIN AmpereMap, inst.opcode # "MOV"
  PROVE  Operation(inst, AmpereMap) # {}
<1>. DEFINE o == inst.opcode
<1>1. Bits(\h794d, 16) # {} /\ Bits(\h7950, 16) # {} /\ Bits(\h7a24, 16) # {} /\ Bits(AmpereMap[o], 16) # {}
  BY CodeBits, AmpereCodes
<1>2. BranchWord(inst) # {}
  BY DEF BranchWord
<1>3. Mov32iWord(inst) # {}
  <2>1. PICK b : b \in Bits(\h7a24, 16)
    BY <1>1
  <2>2. b \in Mov32iWord(inst)
    BY <2>1 DEF Mov32iWord
  <2>. QED
    BY <2>2
<1>4. CASE o \in {"EXIT", "RET", "BRA", "BRX"}
  BY <1>1, <1>2, <1>4 DEF Operation
<1>5. CASE o = "S2R"
  BY <1>5 DEF Operation
<1>6. CASE o = "MOV32I"
  BY <1>3, <1>6 DEF Operation
<1>7. CASE o \notin {"EXIT", "RET", "BRA", "BRX", "S2R", "MOV", "MOV32I"}
  <2>1. Operation(inst, AmpereMap) = Bits(AmpereMap[o], 16) \union Registers(inst)
    BY <1>7 DEF Operation
  <2>. QED
    BY <1>1, <2>1
<1>. QED
  BY <1>4, <1>5, <1>6, <1>7

\* The words of Ampere.
LEMMA AmpereReadBack ==
  ASSUME NEW inst \in Inst, NEW ctrl \in DefaultCtrl, VoltaSupports(inst.opcode),
         inst.opcode \notin {"STG", "LDG", "MOV"}
  PROVE  AmperePair(inst, ctrl)[1] = {} <=> inst.opcode \in Unmapped
<1>. DEFINE o == inst.opcode
<1>1. o \in DOMAIN JitTable
  BY SupportedRows DEF Inst
<1>2. Bits(\h794d, 16) # {} /\ Bits(\h7950, 16) # {}
  BY CodeBits
<1>3. Bits(\h223, 11) # {}
  <2>1. 0 \in 0 .. 11 - 1 /\ (\h223 \div 2^0) % 2 = 1
    BY Powers
  <2>. QED
    BY <2>1 DEF Bits
<1>4. CASE o \in {"EXIT", "RET", "FFMA"}
  <2>1. o \notin Unmapped
    BY <1>4 DEF Unmapped
  <2>2. \A x, y, c : x # {} => <<x, c>> # NoPair /\ <<x, c>>[1] = x
    BY DEF NoPair
  <2>3. \E x, c : x # {} /\ PrecisePair(inst, ctrl) = <<x, c>>
    <3>1. CASE o = "EXIT"
      BY <1>2, <3>1 DEF PrecisePair
    <3>2. CASE o = "RET"
      BY <1>2, <3>2 DEF PrecisePair
    <3>3. CASE o = "FFMA"
      <4>1. Bits(\h223, 11) \union RegAt(inst, 1, 16) \union RegAt(inst, 2, 24) \union RegAt(inst, 3, 32) # {}
        BY <1>3
      <4>2. PrecisePair(inst, ctrl) =
              <<Bits(\h223, 11) \union RegAt(inst, 1, 16) \union RegAt(inst, 2, 24) \union RegAt(inst, 3, 32),
                ctrl \union RegAt(inst, 4, 0)>>
        BY <3>3 DEF PrecisePair
      <4>. QED
        BY <4>1, <4>2, Zenon
    <3>. QED
      BY <1>4, <3>1, <3>2, <3>3
  <2>. QED
    BY <2>1, <2>2, <2>3, Zenon DEF AmperePair
<1>5. CASE o \notin {"EXIT", "RET", "FFMA"}
  <2>1. PrecisePair(inst, ctrl) = NoPair
    BY <1>5 DEF PrecisePair
  <2>2. AmperePair(inst, ctrl) = MappedPair(inst, AmpereMap)
    BY <2>1, Zenon DEF AmperePair
  <2>3. CASE o \in Unmapped
    <3>1. o \notin DOMAIN AmpereMap
      BY <1>1, <2>3, AmpereMapped
    <3>. QED
      BY <2>2, <2>3, <3>1 DEF MappedPair, NoPair
  <2>4. CASE o \notin Unmapped
    <3>1. o \in DOMAIN AmpereMap
      BY <1>1, <2>4, AmpereMapped
    <3>2. Operation(inst, AmpereMap) # {}
      BY <3>1, OperationBits
    <3>. QED
      BY <2>2, <2>4, <3>1, <3>2 DEF MappedPair
  <2>. QED
    BY <2>3, <2>4
<1>. QED
  BY <1>4, <1>5

-----------------------------------------------------------------------------
(* What a reader finds in a word of x86 or AMD.                            *)

\* The tables of x86 and AMD have opcodes of the enum, and not UNKNOWN.
LEMMA KnownRows ==
  /\ \A o \in DOMAIN X86Table : o \in Opcode /\ o # "UNKNOWN"
  /\ \A o \in DOMAIN HunToAmd : o \in Opcode /\ o # "UNKNOWN"
<1>. DEFINE Listed(o) == \/ o \in DOMAIN Numbered(\h01, Basic) \/ o \in DOMAIN Numbered(\h59, <<"FFMA">>)
                         \/ o \in DOMAIN Numbered(\h5b, Extended)
<1>1. \A o \in DOMAIN X86Table : Listed(o)
  BY DEF X86Table, Basic, Extended, Numbered
<1>2. \A o \in DOMAIN HunToAmd : Listed(o)
  BY DEF HunToAmd, Basic, Extended, Numbered
<1>3. \A o : Listed(o) => o \in Opcode
  <2>1. \A f, g, o : o \in DOMAIN f => o \in DOMAIN Over(f, g)
    BY DEF Over
  <2>2. Value = Over(Numbered(\h01, Basic), Over(Numbered(\h59, <<"FFMA">>), Over(Numbered(\h5b, Extended), Runs3)))
    BY DEF Value, Runs3
  <2>. QED
    BY <2>1, <2>2, OverSecond DEF Opcode
<1>4. "UNKNOWN" \notin DOMAIN X86Table /\ "UNKNOWN" \notin DOMAIN HunToAmd
  BY DEF X86Table, HunToAmd
<1>. HIDE DEF Listed
<1>. QED
  BY <1>1, <1>2, <1>3, <1>4

\* A value of eight bits has no others.
LEMMA SmallValue ==
  ASSUME NEW v \in Int, 0 <= v, v < 256
  PROVE  Bits(v, 16) = Bits(v, 8) /\ Bits(v, 8) \in SUBSET (0 .. 7)
<1>1. \A b \in 0 .. 15 : b \in 0 .. 7 \/ b \in {8, 9, 10, 11, 12, 13, 14, 15}
  OBVIOUS
<1>2. /\ (v \div 2^8) % 2 = 0 /\ (v \div 2^9) % 2 = 0 /\ (v \div 2^10) % 2 = 0 /\ (v \div 2^11) % 2 = 0
      /\ (v \div 2^12) % 2 = 0 /\ (v \div 2^13) % 2 = 0 /\ (v \div 2^14) % 2 = 0 /\ (v \div 2^15) % 2 = 0
  <2>1. /\ v \div 256 = 0 /\ v \div 512 = 0 /\ v \div 1024 = 0 /\ v \div 2048 = 0
        /\ v \div 4096 = 0 /\ v \div 8192 = 0 /\ v \div 16384 = 0 /\ v \div 32768 = 0
    OBVIOUS
  <2>. QED
    BY <2>1, Powers
<1>3. \A b \in {8, 9, 10, 11, 12, 13, 14, 15} : (v \div 2^b) % 2 = 0
  BY <1>2, Zenon
<1>4. /\ \A b \in 0 .. 16 - 1 : b \in 0 .. 15
      /\ \A b \in 0 .. 7 : b \in 0 .. 8 - 1 /\ b \in 0 .. 16 - 1
      /\ \A b \in 0 .. 8 - 1 : b \in 0 .. 7
      /\ ~(0 = 1)
  OBVIOUS
<1>5. \A b : b \in Bits(v, 16) <=> b \in 0 .. 7 /\ (v \div 2^b) % 2 = 1
  BY <1>1, <1>3, <1>4, Zenon DEF Bits
<1>6. \A b : b \in Bits(v, 8) <=> b \in 0 .. 7 /\ (v \div 2^b) % 2 = 1
  BY <1>4, Zenon DEF Bits
<1>. QED
  BY <1>5, <1>6, Zenon

\* The word holds the tag in its highest byte and the opcode below it.
LEMMA TaggedFields ==
  ASSUME NEW tag \in 0 .. 255, NEW inst, Value[inst.opcode] \in 0 .. 255
  PROVE  /\ TaggedWord(tag, inst) \in Row
         /\ Unsigned(Field(TaggedWord(tag, inst), 48, 8)) = Value[inst.opcode]
         /\ FamilyByte(TaggedWord(tag, inst)) = tag
<1>. DEFINE v == Value[inst.opcode]
            high == Bits(tag, 8)
            mid == Bits(v, 16)
            w == TaggedWord(tag, inst)
<1>1. w \in Row
  <2>1. Shifted(high, 56) \in Row /\ Shifted(mid, 48) \in Row
    BY BitsRow
  <2>. QED
    BY <2>1 DEF TaggedWord, Row
<1>2. mid = Bits(v, 8) /\ mid \in SUBSET (0 .. 7)
  BY SmallValue
<1>3. /\ \A b \in mid : b \in Int /\ 0 <= b /\ b < 8
      /\ \A b \in high : b \in Int /\ 0 <= b /\ b < 8
  BY <1>2, BitsInside
<1>4. \A b \in Int : b \in w <=> b - 56 \in high \/ b - 48 \in mid
  BY <1>3, ShiftedMembers DEF TaggedWord
<1>5. Unsigned(mid) = v /\ Unsigned(high) = tag
  <2>1. v \in Int /\ v % 256 = v /\ tag \in Int /\ tag % 256 = tag
    OBVIOUS
  <2>. QED
    BY <1>2, <2>1, Unsigned8
<1>. HIDE DEF v, w, high, mid
<1>6. Field(w, 48, 8) = mid
  <2>1. \A x \in 0 .. 7 : x + 48 \in w <=> x \in mid
    BY <1>3, <1>4
  <2>. QED
    BY <1>1, <1>2, <2>1, ByteIs
<1>7. Field(w, 56, 8) = high
  <2>1. \A x \in 0 .. 7 : x + 56 \in w <=> x \in high
    BY <1>3, <1>4
  <2>2. high \in SUBSET (0 .. 7)
    BY <1>3
  <2>. QED
    BY <1>1, <2>1, <2>2, ByteIs
<1>. QED
  BY <1>1, <1>5, <1>6, <1>7 DEF v, w, FamilyByte

-----------------------------------------------------------------------------
(* The words of the other backends.                                        *)

\* Volta and Ampere leave two words for every instruction.
PairsOf(inst) ==
  IF backend \in {"Volta", "Turing"} THEN {JitPair(inst)} ELSE {AmperePair(inst, ctrl) : ctrl \in DefaultCtrl}
PairedWords ==
  backend \in {"Volta", "Turing", "Ampere", "Ada"} =>
    /\ Len(code) = 2 * (pos - 1)
    /\ \A k \in 1 .. pos - 1 : \E p \in PairsOf(seq[k]) : code[2 * k - 1] = p[1]

\* x86 and AMD leave one word for every instruction the table has, in order.
Tag == IF backend = "X86" THEN X86Tag ELSE AmdTag
OneWordEach ==
  backend \in {"X86", "AmdRDNA4"} =>
    /\ \A v, w \in DOMAIN code : v < w => origin[v] < origin[w]
    /\ \A w \in DOMAIN code : origin[w] \in Kept /\ origin[w] < pos /\ code[w] = TaggedWord(Tag, seq[origin[w]])
    /\ \A k \in Kept : k < pos => \E w \in DOMAIN code : origin[w] = k

\* Every step keeps two words for every instruction.
LEMMA PairedWordsStep == DeviceTypes /\ PairedWords /\ [DeviceNext]_deviceVars => PairedWords'
<1>. SUFFICES ASSUME DeviceTypes, PairedWords, [DeviceNext]_deviceVars,
                     backend' \in {"Volta", "Turing", "Ampere", "Ada"}
              PROVE  PairedWords'
  BY DEF PairedWords
<1>1. CASE UNCHANGED deviceVars
  BY <1>1 DEF PairedWords, PairsOf, deviceVars
<1>2. CASE Encoded \/ Disassemble \/ Disassembled
  BY <1>2 DEF PairedWords, PairsOf, Encoded, Disassemble, Disassembled
<1>3. ASSUME NEW p \in PairsOf(seq[pos]), Encode(p, 1) PROVE PairedWords'
  <2>1. p \in Seq(Row) /\ Len(p) = 2
    <3>1. \E w, c \in Row : p = <<w, c>>
      BY <1>3, JitRow, AmpereRow DEF PairsOf
    <3>. QED
      BY <3>1, PairWords
  <2>2. backend' = backend /\ seq' = seq /\ pos' = pos + 1 /\ pos \in Nat /\ pos > 0
    BY <1>3 DEF Encode, DeviceTypes
  <2>3. Len(code) = 2 * (pos - 1) /\ \A k \in 1 .. pos - 1 : \E q \in PairsOf(seq[k]) : code[2 * k - 1] = q[1]
    BY <2>2 DEF PairedWords
  <2>4. /\ Len(code') = Len(code) + 2
        /\ \A w \in 1 .. Len(code) : code'[w] = code[w]
        /\ code'[Len(code) + 1] = p[1]
    <3>1. 1 \in 1 .. Len(p)
      BY <2>1
    <3>. QED
      BY <1>3, <2>1, <3>1, EncodeAppends, Zenon
  <2>5. Len(code') = 2 * (pos' - 1)
    BY <2>2, <2>3, <2>4
  <2>6. ASSUME NEW k \in 1 .. pos' - 1
        PROVE  \E q \in PairsOf(seq[k]) : code'[2 * k - 1] = q[1]
    <3>1. CASE k = pos
      <4>1. 2 * k - 1 = Len(code) + 1
        BY <2>2, <2>3, <3>1
      <4>. QED
        BY <2>4, <3>1, <4>1
    <3>2. CASE k # pos
      <4>1. k \in 1 .. pos - 1 /\ 2 * k - 1 \in 1 .. Len(code)
        BY <2>2, <2>3, <3>2
      <4>. QED
        BY <2>3, <2>4, <4>1
    <3>. QED
      BY <3>1, <3>2
  <2>7. \A k : PairsOf(seq[k])' = PairsOf(seq[k])
    BY <2>2 DEF PairsOf
  <2>. QED
    BY <2>5, <2>6, <2>7 DEF PairedWords
<1>4. CASE DeviceNext /\ ~(Encoded \/ Disassemble \/ Disassembled)
  <2>1. backend \in {"Volta", "Turing", "Ampere", "Ada"}
    <3>1. \A words, n : Encode(words, n) => backend' = backend
      BY DEF Encode
    <3>. QED
      BY <1>4, <3>1, EncodeCases
  <2>2. \E p \in PairsOf(seq[pos]) : Encode(p, 1)
    <3>1. CASE backend \in {"Volta", "Turing"}
      <4>1. Encode(JitPair(seq[pos]), 1)
        BY <1>4, <3>1, EncodeCases DEF AmpereEntry, At
      <4>. QED
        BY <3>1, <4>1, Zenon DEF PairsOf
    <3>2. CASE backend \in {"Ampere", "Ada"}
      <4>1. PICK ctrl \in DefaultCtrl : Encode(AmperePair(seq[pos], ctrl), 1)
        BY <1>4, <3>2, EncodeCases
      <4>2. backend \notin {"Volta", "Turing"}
        BY <3>2
      <4>. QED
        BY <4>1, <4>2, Zenon DEF PairsOf
    <3>. QED
      BY <2>1, <3>1, <3>2
  <2>. QED
    BY <1>3, <2>2
<1>. QED
  BY <1>1, <1>2, <1>4

\* Every step keeps one word for every instruction of the table.
LEMMA OneWordEachStep == DeviceTypes /\ OneWordEach /\ [DeviceNext]_deviceVars => OneWordEach'
<1>. SUFFICES ASSUME DeviceTypes, OneWordEach, [DeviceNext]_deviceVars, backend' \in {"X86", "AmdRDNA4"}
              PROVE  OneWordEach'
  BY DEF OneWordEach
<1>1. CASE UNCHANGED deviceVars
  BY <1>1 DEF OneWordEach, Kept, Rows, Tag, deviceVars
<1>2. CASE Encoded \/ Disassemble \/ Disassembled
  BY <1>2 DEF OneWordEach, Kept, Rows, Tag, Encoded, Disassemble, Disassembled
<1>3. ASSUME NEW words \in Seq(Row), Encode(words, 1),
             IF pos \in Kept THEN words = <<TaggedWord(Tag, seq[pos])>> ELSE words = <<>>
      PROVE  OneWordEach'
  <2>. DEFINE m == Len(code)
  <2>1. backend' = backend /\ seq' = seq /\ pos' = pos + 1 /\ pos \in Nat /\ pos > 0
    BY <1>3 DEF Encode, DeviceTypes
  <2>2. Kept' = Kept /\ Tag' = Tag /\ \A k \in Kept : k \in Nat
    BY <2>1 DEF Kept, Rows, Tag, DeviceTypes
  <2>3. /\ \A v, w \in DOMAIN code : v < w => origin[v] < origin[w]
        /\ \A w \in DOMAIN code : origin[w] \in Kept /\ origin[w] < pos /\ code[w] = TaggedWord(Tag, seq[origin[w]])
        /\ \A k \in Kept : k < pos => \E w \in DOMAIN code : origin[w] = k
    BY <2>1 DEF OneWordEach
  <2>4. /\ Len(code') = m + Len(words) /\ m \in Nat /\ DOMAIN code = 1 .. m /\ DOMAIN code' = 1 .. Len(code')
        /\ \A w \in 1 .. m : code'[w] = code[w] /\ origin'[w] = origin[w]
        /\ \A j \in 1 .. Len(words) : code'[m + j] = words[j] /\ origin'[m + j] = pos
    BY <1>3, EncodeAppends
  <2>. HIDE DEF m
  <2>5. CASE pos \in Kept
    <3>1. Len(words) = 1 /\ words[1] = TaggedWord(Tag, seq[pos])
      BY <1>3, <2>5
    <3>2. DOMAIN code' = 1 .. m + 1 /\ code'[m + 1] = TaggedWord(Tag, seq[pos]) /\ origin'[m + 1] = pos
      <4>1. 1 \in 1 .. Len(words) /\ Len(code') = m + 1
        BY <2>4, <3>1
      <4>. QED
        BY <2>4, <3>1, <4>1, Zenon
    <3>3. \A w \in 1 .. m + 1 : w \in 1 .. m \/ w = m + 1
      BY <2>4
    <3>4. \A w \in 1 .. m : w \in 1 .. m + 1 /\ w # m + 1 /\ ~(m + 1 < w)
      BY <2>4
    <3>5. m + 1 \in 1 .. m + 1 /\ ~(m + 1 < m + 1) /\ pos < pos + 1 /\ ~(pos < pos)
      BY <2>1, <2>4
    <3>6. \A v, w \in DOMAIN code' : v < w => origin'[v] < origin'[w]
      BY <2>3, <2>4, <3>2, <3>3, <3>4, <3>5, Zenon
    <3>7. \A k \in Kept : k < pos => k < pos + 1
      BY <2>1, <2>2
    <3>8. \A w \in DOMAIN code' : origin'[w] \in Kept /\ origin'[w] < pos' /\ code'[w] = TaggedWord(Tag, seq[origin'[w]])
      BY <2>1, <2>3, <2>4, <2>5, <3>2, <3>3, <3>5, <3>7, Zenon
    <3>9. \A k \in Kept : k < pos + 1 => k < pos \/ k = pos
      BY <2>1, <2>2
    <3>10. \A k \in Kept : k < pos' => \E w \in DOMAIN code' : origin'[w] = k
      <4>1. TAKE k \in Kept
      <4>2. HAVE k < pos'
      <4>3. CASE k < pos
        <5>1. PICK w \in 1 .. m : origin[w] = k
          BY <2>3, <2>4, <4>3
        <5>2. w \in DOMAIN code' /\ origin'[w] = k
          BY <2>4, <3>2, <3>4, <5>1, Zenon
        <5>. QED
          BY <5>2
      <4>4. CASE k = pos
        BY <3>2, <3>5, <4>4, Zenon
      <4>. QED
        BY <2>1, <3>9, <4>2, <4>3, <4>4
    <3>. QED
      BY <2>1, <2>2, <3>6, <3>8, <3>10 DEF OneWordEach
  <2>6. CASE pos \notin Kept
    <3>1. Len(words) = 0
      BY <1>3, <2>6
    <3>2. DOMAIN code' = DOMAIN code
      BY <2>4, <3>1
    <3>3. \A k \in Kept : (k < pos => k < pos + 1) /\ (k < pos + 1 => k < pos)
      BY <2>1, <2>2, <2>6
    <3>4. \A v, w \in DOMAIN code' : v < w => origin'[v] < origin'[w]
      BY <2>3, <2>4, <3>2, Zenon
    <3>5. \A w \in DOMAIN code' : origin'[w] \in Kept /\ origin'[w] < pos' /\ code'[w] = TaggedWord(Tag, seq[origin'[w]])
      BY <2>1, <2>3, <2>4, <3>2, <3>3, Zenon
    <3>6. \A k \in Kept : k < pos' => \E w \in DOMAIN code' : origin'[w] = k
      BY <2>1, <2>3, <2>4, <3>2, <3>3, Zenon
    <3>. QED
      BY <2>1, <2>2, <3>4, <3>5, <3>6 DEF OneWordEach
  <2>. QED
    BY <2>5, <2>6
<1>4. CASE DeviceNext /\ ~(Encoded \/ Disassemble \/ Disassembled)
  <2>1. backend \in {"X86", "AmdRDNA4"} /\ pos \in DOMAIN seq
    <3>1. \A words, n : Encode(words, n) => backend' = backend /\ pos \in DOMAIN seq
      BY DEF Encode, DeviceTypes
    <3>. QED
      BY <1>4, <3>1, EncodeCases
  <2>2. \E words : /\ Encode(words, 1) /\ words \in Seq(Row)
                   /\ IF pos \in Kept THEN words = <<TaggedWord(Tag, seq[pos])>> ELSE words = <<>>
    <3>1. CASE backend = "X86"
      <4>1. Encode(TaggedWords(X86Tag, X86Table, seq[pos]), 1)
        BY <1>4, <3>1, EncodeCases DEF AmpereEntry, At
      <4>2. pos \in Kept <=> seq[pos].opcode \in DOMAIN X86Table
        BY <2>1, <3>1 DEF Kept, Rows
      <4>3. Tag = X86Tag
        BY <3>1 DEF Tag
      <4>. QED
        BY <4>1, <4>2, <4>3, TaggedSeq, Zenon DEF TaggedWords
    <3>2. CASE backend = "AmdRDNA4"
      <4>1. Encode(TaggedWords(AmdTag, HunToAmd, seq[pos]), 1)
        BY <1>4, <3>2, EncodeCases DEF AmpereEntry, At
      <4>2. pos \in Kept <=> seq[pos].opcode \in DOMAIN HunToAmd
        BY <2>1, <3>2 DEF Kept, Rows
      <4>3. Tag = AmdTag
        BY <3>2 DEF Tag
      <4>. QED
        BY <4>1, <4>2, <4>3, TaggedSeq, Zenon DEF TaggedWords
    <3>. QED
      BY <2>1, <3>1, <3>2
  <2>. QED
    BY <1>3, <2>2
<1>. QED
  BY <1>1, <1>2, <1>4

\* What both invariants say at the start.
LEMMA WordsInit == DeviceInit => PairedWords /\ OneWordEach
<1>. SUFFICES ASSUME DeviceInit PROVE PairedWords /\ OneWordEach
  OBVIOUS
<1>1. pos = 1 /\ code = <<>> /\ Len(code) = 0 /\ DOMAIN code = {} /\ DOMAIN seq \in SUBSET Nat
  BY DeviceInitTypes DEF DeviceInit, DeviceTypes
<1>2. \A k \in Kept : ~(k < pos)
  <2>1. \A k \in DOMAIN seq : k \in Nat /\ k > 0
    BY DeviceInitTypes DEF DeviceTypes
  <2>. QED
    BY <1>1, <2>1 DEF Kept
<1>3. \A k \in 1 .. pos - 1 : FALSE
  BY <1>1
<1>. QED
  BY <1>1, <1>2, <1>3 DEF PairedWords, OneWordEach

\* The opcode a word of x86 or AMD stands for.
LEMMA KeptValues ==
  ASSUME DeviceTypes, backend \in {"X86", "AmdRDNA4"}, NEW k \in Kept
  PROVE  /\ seq[k].opcode \in Opcode /\ seq[k].opcode \in DOMAIN Rows
         /\ Value[seq[k].opcode] \in 0 .. 255
<1>1. k \in DOMAIN seq /\ seq[k].opcode \in DOMAIN Rows
  BY DEF Kept
<1>2. seq[k].opcode \in Opcode /\ seq[k].opcode # "UNKNOWN"
  BY <1>1, KnownRows DEF Rows
<1>. QED
  BY <1>1, <1>2, ValueApart

\* For every program, a reader finds in the words of Volta the code and the
\* registers, in those of Ampere words for the same opcodes but the unmapped, and
\* in those of x86 and AMD the opcodes of the table, in order.
THEOREM ReadBackTheorem == Spec => []ReadBack
<1>1. DeviceTypes /\ PairedWords /\ OneWordEach => ReadBack
  <2>. SUFFICES ASSUME DeviceTypes, PairedWords, OneWordEach, IsEncoded PROVE ReadBack
    BY DEF ReadBack
  <2>1. /\ pos = Len(seq) + 1 /\ Len(seq) \in Nat /\ DOMAIN seq = 1 .. Len(seq)
        /\ \A k \in DOMAIN seq : seq[k] \in Inst
    BY DEF DeviceTypes
  <2>2. backend \in {"Volta", "Turing", "Ampere", "Ada"} =>
          /\ Len(code) = 2 * Len(seq)
          /\ \A k \in DOMAIN seq : \E p \in PairsOf(seq[k]) : code[2 * k - 1] = p[1]
    BY <2>1 DEF PairedWords
  <2>3. ASSUME backend \in {"Volta", "Turing"}
        PROVE  (\A k \in DOMAIN seq : VoltaReadBack(seq[k], code[2 * k - 1])) /\ ToldApart(64)
    <3>1. \A k \in DOMAIN seq : code[2 * k - 1] = JitPair(seq[k])[1]
      BY <2>2, <2>3 DEF PairsOf
    <3>2. \A k \in DOMAIN seq :
            /\ VoltaReadBack(seq[k], code[2 * k - 1])
            /\ code[2 * k - 1] # {} /\ Below(seq[k], 64) => RegistersShown(seq[k], code[2 * k - 1])
      BY <2>1, <3>1, JitReadBack
    <3>3. ASSUME NEW k \in DOMAIN seq, NEW l \in DOMAIN seq, Differ(seq[k], seq[l], 64),
                 code[2 * k - 1] = code[2 * l - 1], code[2 * k - 1] # {}
          PROVE  FALSE
      <4>1. RegistersShown(seq[k], code[2 * k - 1]) /\ RegistersShown(seq[l], code[2 * k - 1])
        BY <3>2, <3>3 DEF Differ
      <4>2. \A n \in 1 .. 3 : n = 1 \/ n = 2 \/ n = 3
        OBVIOUS
      <4>3. SameRegisters(seq[k], seq[l])
        BY <4>1, <4>2, Zenon DEF RegistersShown, SameRegisters
      <4>. QED
        BY <3>3, <4>3 DEF Differ
    <3>. QED
      BY <3>2, <3>3 DEF ToldApart
  <2>4. ASSUME backend \in {"Ampere", "Ada"}
        PROVE  \A k \in DOMAIN seq :
                 VoltaSupports(seq[k].opcode) /\ seq[k].opcode \notin {"STG", "LDG", "MOV"} =>
                   (code[2 * k - 1] = {} <=> seq[k].opcode \in Unmapped)
    <3>1. \A k \in DOMAIN seq : \E ctrl \in DefaultCtrl : code[2 * k - 1] = AmperePair(seq[k], ctrl)[1]
      BY <2>2, <2>4 DEF PairsOf
    <3>. QED
      BY <2>1, <3>1, AmpereReadBack
  <2>5. ASSUME backend \in {"X86", "AmdRDNA4"}
        PROVE  /\ DOMAIN origin = DOMAIN code
               /\ \A v, w \in DOMAIN code : v < w => origin[v] < origin[w]
               /\ {origin[w] : w \in DOMAIN code} = Kept
               /\ \A w \in DOMAIN code : Unsigned(Field(code[w], 48, 8)) = Value[seq[origin[w]].opcode]
    <3>1. DOMAIN origin = DOMAIN code
      BY DEF DeviceTypes
    <3>2. \A k \in Kept : k < pos
      BY <2>1 DEF Kept
    <3>3. {origin[w] : w \in DOMAIN code} = Kept
      BY <2>5, <3>2, Zenon DEF OneWordEach
    <3>4. Tag \in 0 .. 255
      BY DEF Tag, X86Tag, AmdTag
    <3>5. \A w \in DOMAIN code : Unsigned(Field(code[w], 48, 8)) = Value[seq[origin[w]].opcode]
      <4>1. \A w \in DOMAIN code : origin[w] \in Kept /\ code[w] = TaggedWord(Tag, seq[origin[w]])
        BY <2>5 DEF OneWordEach
      <4>. QED
        BY <2>5, <3>4, <4>1, KeptValues, TaggedFields
    <3>. QED
      BY <2>5, <3>1, <3>3, <3>5 DEF OneWordEach
  <2>. QED
    BY <2>2, <2>3, <2>4, <2>5 DEF ReadBack
<1>2. DeviceTypes /\ PairedWords /\ [DeviceNext]_deviceVars => PairedWords'
  BY PairedWordsStep
<1>3. DeviceTypes /\ OneWordEach /\ [DeviceNext]_deviceVars => OneWordEach'
  BY OneWordEachStep
<1>. QED
  BY <1>1, <1>2, <1>3, WordsInit, DeviceTypeTheorem, DeviceSteps, PTL

-----------------------------------------------------------------------------
(* The listing.                                                            *)

\* The line of a word, and the words that have one.
Line(w) ==
  [at |-> w, name |-> ShownName(code[w]), regs |-> IF backend = "Pascal" THEN PascalShown(code[w]) ELSE <<>>]
Lines == {Line(w) : w \in DOMAIN code}
ListedWords ==
  /\ listing \in Seq(Lines) /\ (IsEncoded \/ listing = <<>>)
  /\ \A l \in DOMAIN listing : Stride * (l - 1) + 1 \in DOMAIN code /\ listing[l] = Line(Stride * (l - 1) + 1)
  /\ stage = "done" => NextListed > Len(code)

\* Every step keeps the lines at their words.
LEMMA ListedWordsStep == DeviceTypes /\ ListedWords /\ [DeviceNext]_deviceVars => ListedWords'
<1>. SUFFICES ASSUME DeviceTypes, ListedWords, [DeviceNext]_deviceVars PROVE ListedWords'
  OBVIOUS
<1>1. CASE UNCHANGED deviceVars
  BY <1>1 DEF ListedWords, Lines, Line, ShownName, Stride, NextListed, IsEncoded, deviceVars
<1>2. CASE Encoded \/ Disassembled
  <2>1. code' = code /\ listing' = listing /\ backend' = backend
    BY <1>2 DEF Encoded, Disassembled
  <2>2. Lines' = Lines /\ Stride' = Stride /\ \A w : Line(w)' = Line(w)
    BY <2>1 DEF Lines, Line, ShownName, Stride
  <2>3. IsEncoded' /\ (stage' = "done" => NextListed' > Len(code'))
    BY <1>2 DEF Encoded, Disassembled, IsEncoded, NextListed, Stride
  <2>. QED
    BY <2>1, <2>2, <2>3 DEF ListedWords
<1>3. CASE Disassemble
  <2>. DEFINE m == Len(listing)
              line == Line(Stride * m + 1)
  <2>1. /\ code' = code /\ backend' = backend /\ stage' = stage /\ stage = "disassemble"
        /\ Stride * m + 1 <= Len(code) /\ listing' = Append(listing, line)
    BY <1>3 DEF Disassemble, NextListed, Line
  <2>2. Lines' = Lines /\ Stride' = Stride /\ \A w : Line(w)' = Line(w)
    BY <2>1 DEF Lines, Line, ShownName, Stride
  <2>3. Stride \in {1, 3} /\ m \in Nat /\ code \in Seq(Row) /\ Len(code) \in Nat
    BY DEF Stride, ListedWords, DeviceTypes
  <2>4. Stride * m + 1 \in DOMAIN code
    BY <2>1, <2>3
  <2>5. line \in Lines
    BY <2>4 DEF Lines
  <2>. HIDE DEF line
  <2>6. listing' \in Seq(Lines) /\ Len(listing') = m + 1 /\ listing'[m + 1] = line
        /\ \A l \in 1 .. m : listing'[l] = listing[l]
    BY <2>1, <2>5 DEF ListedWords
  <2>7. DOMAIN listing = 1 .. m /\ DOMAIN listing' = 1 .. m + 1
    BY <2>6 DEF ListedWords
  <2>. HIDE DEF m
  <2>8. ASSUME NEW l \in DOMAIN listing'
        PROVE  Stride * (l - 1) + 1 \in DOMAIN code /\ listing'[l] = Line(Stride * (l - 1) + 1)
    <3>1. CASE l = m + 1
      <4>1. l - 1 = m
        BY <2>3, <3>1
      <4>. QED
        BY <2>4, <2>6, <3>1, <4>1, Zenon DEF line, m
    <3>2. CASE l # m + 1
      <4>1. l \in 1 .. m
        BY <2>3, <2>7, <3>2
      <4>. QED
        BY <2>6, <2>7, <4>1 DEF ListedWords
    <3>. QED
      BY <3>1, <3>2
  <2>. QED
    BY <2>1, <2>2, <2>6, <2>8 DEF ListedWords, IsEncoded
<1>4. CASE DeviceNext /\ ~(Encoded \/ Disassemble \/ Disassembled)
  <2>1. stage' = stage /\ stage = "encode" /\ listing' = listing
    <3>1. \A words, n : Encode(words, n) => stage' = stage /\ stage = "encode" /\ listing' = listing
      BY DEF Encode
    <3>. QED
      BY <1>4, <3>1, EncodeCases
  <2>2. listing' = <<>>
    BY <2>1 DEF ListedWords, IsEncoded
  <2>. QED
    BY <2>1, <2>2 DEF ListedWords, IsEncoded
<1>. QED
  BY <1>1, <1>2, <1>3, <1>4

\* A tagged word is shown with the row of its own opcode.
LEMMA TaggedNames ==
  ASSUME NEW tag \in 0 .. 255, NEW table, \A o \in DOMAIN table : o \in Opcode /\ o # "UNKNOWN",
         NEW inst, inst.opcode \in DOMAIN table
  PROVE  TaggedName(tag, table, TaggedWord(tag, inst)) = table[inst.opcode]
<1>. DEFINE w == TaggedWord(tag, inst)
            found == {o \in DOMAIN table : Value[o] = Unsigned(Field(w, 48, 8))}
<1>1. inst.opcode \in Opcode /\ Value[inst.opcode] \in 0 .. 255
  BY ValueApart
<1>2. Unsigned(Field(w, 48, 8)) = Value[inst.opcode] /\ TagOf(w) = tag
  BY <1>1, TaggedFields DEF TagOf
<1>3. \A o, p \in Opcode : Value[o] = Value[p] => o = p
  BY ValueApart DEF Apart, Opcode
<1>. HIDE DEF w
<1>4. found = {inst.opcode}
  BY <1>1, <1>2, <1>3, Zenon
<1>5. TaggedName(tag, table, w) = table[CHOOSE o \in found : TRUE]
  BY <1>2, <1>4 DEF TaggedName
<1>6. (CHOOSE o \in found : TRUE) = inst.opcode
  BY <1>4
<1>. QED
  BY <1>5, <1>6, Zenon DEF w

\* A byte of a word of Pascal that holds a register and no constant shows it.
LEMMA ShownBytes ==
  ASSUME NEW inst \in Inst, NEW n \in DOMAIN FamilyOf(inst.opcode).low,
         FamilyOf(inst.opcode).low \in LowBytes,
         FamilyOf(inst.opcode).const \intersect (8 * n - 8 .. 8 * n - 1) = {}
  PROVE  ByteAt(PascalWord(inst), n) = Reg(inst, n)
<1>. DEFINE family == FamilyOf(inst.opcode)
            w == PascalWord(inst)
            bits == Bits(Reg(inst, n), 8)
<1>1. \A m \in DOMAIN family.low : m \in 1 .. 3 /\ family.low[m] = 8 * (m - 1)
  BY DEF LowBytes
<1>2. family.default = Zeros
  BY Families DEF Plain
<1>3. \A m \in DOMAIN family.low : FieldOf(inst, m) = Shifted(Bits(Reg(inst, m), 8), 8 * (m - 1))
  <2>1. \A m \in 1 .. 3 : Zeros[m] = 0
    BY DEF Zeros
  <2>. QED
    BY <1>1, <1>2, <2>1, Zenon DEF FieldOf, Reg
<1>4. \A v : \A b \in Bits(v, 8) : b \in Int /\ 0 <= b /\ b < 8
  BY BitsInside
<1>5. ASSUME NEW x \in 0 .. 7 PROVE x + 8 * (n - 1) \in w <=> x \in bits
  <2>1. PICK b \in Int : b = x + 8 * (n - 1) /\ b - 8 * (n - 1) = x /\ b \in 8 * n - 8 .. 8 * n - 1 /\ b < 24
    BY <1>1
  <2>2. b - 56 \notin Bits(family.byte, 8) /\ b \notin family.const
    BY <1>4, <2>1
  <2>3. family # Branch
    <3>1. DOMAIN Branch.low = {}
      BY DEF Branch, Family
    <3>. QED
      BY <3>1
  <2>4. \A m \in DOMAIN family.low : b \in FieldOf(inst, m) <=> b - 8 * (m - 1) \in Bits(Reg(inst, m), 8)
    BY <1>1, <1>3, <1>4, ShiftedMembers
  <2>5. \A m \in DOMAIN family.low : b - 8 * (m - 1) \in Bits(Reg(inst, m), 8) => m = n
    BY <1>1, <1>4, <2>1
  <2>6. (\E m \in DOMAIN family.low : b \in FieldOf(inst, m)) <=> x \in bits
    BY <2>1, <2>4, <2>5, Zenon
  <2>. HIDE DEF family, bits
  <2>7. b \in w <=> x \in bits
    BY <2>2, <2>3, <2>6, PascalBits DEF family
  <2>. QED
    BY <2>1, <2>7
<1>6. w \in Row /\ bits \in SUBSET (0 .. 7) /\ 8 * (n - 1) \in Int
  BY <1>1, PascalRow, BitsInside
<1>7. Unsigned(bits) = Reg(inst, n)
  <2>1. n \in 1 .. 4
    BY <1>1
  <2>2. Reg(inst, n) \in Int /\ Reg(inst, n) % 256 = Reg(inst, n)
    <3>1. Reg(inst, n) \in 0 .. 255
      BY <2>1, RegsInside
    <3>. QED
      BY <3>1
  <2>. QED
    BY <2>2, Unsigned8
<1>. HIDE DEF w, bits, family
<1>8. Field(w, 8 * (n - 1), 8) = bits
  BY <1>5, <1>6, ByteIs
<1>. QED
  BY <1>7, <1>8 DEF ByteAt, w

\* So what is printed of a word of Pascal shows its registers.
LEMMA ShownRegisters ==
  ASSUME NEW inst \in Inst
  PROVE  ShowsRegisters(inst, PascalShown(PascalWord(inst)))
<1>1. ASSUME NEW w PROVE \A n \in DOMAIN PascalShown(w) : PascalShown(w)[n] = ByteAt(w, n)
  BY DEF PascalShown
<1>. QED
  BY <1>1, ShownBytes DEF ShowsRegisters

\* Two words for an instruction, and a line for every third word: the operation
\* words with a line are those of every third instruction.
LEMMA EveryThird ==
  ASSUME NEW n \in Nat, NEW m \in Nat, 3 * m + 1 > 2 * n, NEW k \in 1 .. n
  PROVE  (\E l \in 1 .. m : 3 * (l - 1) + 1 = 2 * k - 1) <=> k % 3 = 1
<1>1. ASSUME NEW l \in 1 .. m, 3 * (l - 1) + 1 = 2 * k - 1 PROVE k % 3 = 1
  BY <1>1
<1>2. ASSUME k % 3 = 1 PROVE \E l \in 1 .. m : 3 * (l - 1) + 1 = 2 * k - 1
  <2>1. PICK j \in Nat : k = 3 * j + 1
    <3>1. k = 3 * (k \div 3) + 1 /\ k \div 3 \in Nat
      BY <1>2
    <3>. QED
      BY <3>1
  <2>2. 2 * j + 1 \in 1 .. m /\ 3 * ((2 * j + 1) - 1) + 1 = 2 * k - 1
    BY <2>1
  <2>. QED
    BY <2>2
<1>. QED
  BY <1>1, <1>2

\* For every program, the listing of x86 and AMD names every word with the row of
\* its instruction, that of Pascal has the registers of every word that is not
\* fused, and the others show every third instruction only.
THEOREM ListingTheorem == Spec => []ListingShows
<1>1. DeviceTypes /\ PascalWords /\ OneWordEach /\ ListedWords => ListingShows
  <2>. SUFFICES ASSUME DeviceTypes, PascalWords, OneWordEach, ListedWords, stage = "done" PROVE ListingShows
    BY DEF ListingShows
  <2>1. /\ pos = Len(seq) + 1 /\ Len(seq) \in Nat /\ DOMAIN seq = 1 .. Len(seq)
        /\ \A k \in DOMAIN seq : seq[k] \in Inst
        /\ \A w \in DOMAIN code : origin[w] \in DOMAIN seq
        /\ DOMAIN code = 1 .. Len(code) /\ Len(code) \in Nat
    BY DEF DeviceTypes, IsEncoded
  <2>2. /\ DOMAIN listing = 1 .. Len(listing) /\ Len(listing) \in Nat
        /\ Stride * Len(listing) + 1 > Len(code)
        /\ \A l \in DOMAIN listing : Stride * (l - 1) + 1 \in DOMAIN code /\ listing[l] = Line(Stride * (l - 1) + 1)
    BY DEF ListedWords, NextListed
  <2>3. ASSUME backend \notin Wide
        PROVE  Len(listing) = Len(code) /\ \A w \in DOMAIN code : listing[w] = Line(w)
    <3>1. Stride = 1
      BY <2>3 DEF Stride
    <3>2. Len(listing) + 1 > Len(code)
      BY <2>2, <3>1
    <3>3. \A l \in 1 .. Len(listing) : l \in 1 .. Len(code) /\ listing[l] = Line(l)
      <4>1. TAKE l \in 1 .. Len(listing)
      <4>2. Stride * (l - 1) + 1 = l
        BY <3>1
      <4>. QED
        BY <2>1, <2>2, <4>2
    <3>4. Len(listing) <= Len(code)
      BY <2>1, <2>2, <3>3
    <3>5. Len(listing) = Len(code)
      <4>1. \A a, b \in Nat : a + 1 > b /\ a <= b => a = b
        OBVIOUS
      <4>. QED
        BY <2>1, <2>2, <3>2, <3>4, <4>1, Zenon
    <3>. QED
      BY <2>1, <3>3, <3>5, Zenon
  <2>4. ASSUME backend \in {"X86", "AmdRDNA4"}
        PROVE  Len(listing) = Len(code) /\ \A w \in DOMAIN code : listing[w].name = Rows[seq[origin[w]].opcode]
    <3>1. backend \notin Wide
      BY <2>4 DEF Wide
    <3>2. \A w : Line(w).name = TaggedName(Tag, Rows, code[w])
      BY <2>4 DEF Line, ShownName, Tag, Rows, Wide
    <3>3. \A w \in DOMAIN code : origin[w] \in Kept /\ code[w] = TaggedWord(Tag, seq[origin[w]])
      BY <2>4 DEF OneWordEach
    <3>4. Tag \in 0 .. 255
      BY DEF Tag, X86Tag, AmdTag
    <3>5. \A o \in DOMAIN Rows : o \in Opcode /\ o # "UNKNOWN"
      BY KnownRows DEF Rows
    <3>6. \A w \in DOMAIN code : TaggedName(Tag, Rows, code[w]) = Rows[seq[origin[w]].opcode]
      <4>1. TAKE w \in DOMAIN code
      <4>2. seq[origin[w]].opcode \in DOMAIN Rows
        BY <3>3 DEF Kept
      <4>. QED
        BY <3>3, <3>4, <3>5, <4>2, TaggedNames
    <3>. QED
      BY <2>3, <3>1, <3>2, <3>6, Zenon
  <2>5. ASSUME backend = "Pascal"
        PROVE  /\ Len(listing) = Len(code)
               /\ \A w \in DOMAIN code : ~FusedAt(w) => ShowsRegisters(seq[origin[w]], listing[w].regs)
    <3>1. backend \notin Wide
      BY <2>5 DEF Wide
    <3>2. \A w : Line(w).regs = PascalShown(code[w])
      BY <2>5 DEF Line
    <3>3. \A w \in DOMAIN code : ~FusedAt(w) => code[w] = PascalWord(seq[origin[w]])
      <4>1. TAKE w \in DOMAIN code
      <4>2. EndOf(w) = NextOf(w)
        BY <2>1 DEF EndOf, NextOf
      <4>3. Stands(w)
        BY <2>5 DEF PascalWords
      <4>4. origin[w] + Group # origin[w] + 1
        BY <2>1, GroupAssumption
      <4>. QED
        BY <4>2, <4>3, <4>4, Zenon DEF Stands, FusedAt
    <3>4. \A w \in DOMAIN code : ShowsRegisters(seq[origin[w]], PascalShown(PascalWord(seq[origin[w]])))
      BY <2>1, ShownRegisters
    <3>5. Len(listing) = Len(code) /\ \A w \in DOMAIN code : listing[w].regs = PascalShown(code[w])
      BY <2>3, <3>1, <3>2, Zenon
    <3>. QED
      BY <3>3, <3>4, <3>5, Zenon
  <2>6. ASSUME backend \in Wide, Len(code) = 2 * Len(seq)
        PROVE  \A k \in DOMAIN seq : (\E l \in DOMAIN listing : listing[l].at = 2 * k - 1) <=> k % 3 = 1
    <3>1. Stride = 3
      BY <2>6 DEF Stride
    <3>2. \A l \in DOMAIN listing : listing[l].at = 3 * (l - 1) + 1
      BY <2>2, <3>1 DEF Line
    <3>3. 3 * Len(listing) + 1 > 2 * Len(seq)
      BY <2>2, <2>6, <3>1
    <3>4. \A k \in 1 .. Len(seq) :
            (\E l \in 1 .. Len(listing) : 3 * (l - 1) + 1 = 2 * k - 1) <=> k % 3 = 1
      BY <2>1, <2>2, <3>3, EveryThird
    <3>. QED
      BY <2>1, <2>2, <3>2, <3>4, Zenon
  <2>. QED
    BY <2>4, <2>5, <2>6 DEF ListingShows
<1>2. DeviceInit => ListedWords
  <2>. SUFFICES ASSUME DeviceInit PROVE ListedWords
    OBVIOUS
  <2>1. listing = <<>> /\ stage # "done"
    BY DEF DeviceInit
  <2>2. <<>> \in Seq(Lines) /\ \A l \in DOMAIN <<>> : FALSE
    OBVIOUS
  <2>. QED
    BY <2>1, <2>2, Zenon DEF ListedWords
<1>3. DeviceTypes /\ ListedWords /\ [DeviceNext]_deviceVars => ListedWords'
  BY ListedWordsStep
<1>4. DeviceTypes /\ PascalWords /\ [DeviceNext]_deviceVars => PascalWords'
  BY PascalWordsStep
<1>5. DeviceTypes /\ OneWordEach /\ [DeviceNext]_deviceVars => OneWordEach'
  BY OneWordEachStep
<1>. QED
  BY <1>1, <1>2, <1>3, <1>4, <1>5, WordsInit, PascalWordsInit, DeviceTypeTheorem, DeviceSteps, PTL

-----------------------------------------------------------------------------
(* The patcher behind a backend.                                           *)

\* The words a backend leaves are words for the patcher, so the toolchain is one
\* of its callers.
THEOREM ToolchainPatches == Spec => PatchSpec
<1>1. Init => PatchInit
  BY DEF Init
<1>2. DeviceTypes /\ [Next]_vars => [\E words \in Seq(Row) : PatchNext(words)]_patchVars
  <2>. SUFFICES ASSUME DeviceTypes, [Next]_vars
                PROVE  (\E words \in Seq(Row) : PatchNext(words)) \/ UNCHANGED patchVars
    OBVIOUS
  <2>1. code \in Seq(Row)
    BY DEF DeviceTypes
  <2>2. PatchCubin => \E words \in Seq(Row) : PatchNext(words)
    BY <2>1, Zenon DEF PatchCubin
  <2>. QED
    BY <2>2 DEF Next, Compile, vars
<1>. QED
  BY <1>1, <1>2, DeviceTypeTheorem, PTL DEF Spec, PatchSpec

\* Behind a backend, for every program and sequence of calls: the window is the
\* text section of the template that was loaded.
THEOREM ToolchainWindow == Spec => []WindowOfTemplate
  BY ToolchainPatches, WindowTheorem, PTL

\* Behind a backend, for every program and sequence of calls: a patch changes free
\* rows of the window only, and drops words only where control rows are.
THEOREM ToolchainExact == Spec => PatchExact
  BY ToolchainPatches, PatchTheorem, PTL
=============================================================================
