------------------------------- MODULE Parser -------------------------------
(***************************************************************************)
(* Parser of src/parser/parser.cpp on the tokens of a Lexer that may have  *)
(* been read from before.  Lines are no tokens, so only the kinds of the   *)
(* tokens tell where an instruction ends.                                  *)
(***************************************************************************)
EXTENDS Lexer, FiniteSets

CONSTANTS
  UnwrittenBase,    \* what the base and the offset of an address may hold when
  UnwrittenOffset   \* they are not there and the union is left as it was

VARIABLES
  tokens,   \* tokens_
  pos,      \* pos_, counted from 1
  insts,    \* the instructions so far
  labels,   \* symbol_table_: names to indices counted from 0
  stage     \* "lex", "tokenize", "top", "operand", "list", "parsed" or "threw"

parseVars == <<tokens, pos, insts, labels, stage>>

OpcodeTable ==
  {<<"iadd", "IADD">>, <<"iadd3", "IADD3">>, <<"iadd.x", "IADD_X">>, <<"iscadd", "ISCADD">>,
   <<"isub", "ISUB">>, <<"imad", "IMAD">>, <<"imul", "IMUL">>, <<"imnmx", "IMNMX">>, <<"shl", "SHL">>,
   <<"shr", "SHR">>, <<"bfe", "BFE">>, <<"bfi", "BFI">>, <<"lop3", "LOP3">>, <<"lop32i", "LOP32I">>,
   <<"brev", "BREV">>, <<"fadd", "FADD">>, <<"fmul", "FMUL">>, <<"fset", "FSET">>, <<"fsel", "FSEL">>,
   <<"frcp", "FRCP">>, <<"fsqrt", "FSQRT">>, <<"fmnmx", "FMNMX">>, <<"ffma", "FFMA">>,
   <<"xmad", "XMAD">>, <<"xmad.mrg", "XMAD_MRG">>, <<"xmad.psl", "XMAD_PSL">>, <<"ldg", "LDG">>,
   <<"lds", "LDS">>, <<"stg", "STG">>, <<"sts", "STS">>, <<"ldc", "LDC">>, <<"bra", "BRA">>,
   <<"brx", "BRX">>, <<"cal", "CAL">>, <<"ret", "RET">>, <<"exit", "EXIT">>, <<"kill", "KILL">>,
   <<"yield", "YIELD">>, <<"bar", "BAR">>, <<"depbar", "DEPBAR">>, <<"membar", "MEMBAR">>,
   <<"mov", "MOV">>, <<"mov32i", "MOV32I">>, <<"sel", "SEL">>, <<"s2r", "S2R">>, <<"cvt", "CVT">>,
   <<"iset", "ISET">>, <<"isetp", "ISETP">>, <<"fsetp", "FSETP">>, <<"setp", "SETP">>,
   <<"vavx3.add", "VAVX3_ADD_512">>, <<"vavx3.mul", "VAVX3_MUL_512">>,
   <<"vavx3.mad", "VAVX3_MAD_512">>, <<"vavx3.mma", "VAVX3_MMA_512">>, <<"vavx3.geom", "VAVX3_GEOM">>,
   <<"vavx3.shuffle", "VAVX3_SHUFFLE">>, <<"vavx3.braid", "VAVX3_BRAID">>,
   <<"vavx3.laplacian", "VAVX3_LAPLACIAN">>, <<"tmad", "TMAD">>, <<"tmul", "TMUL">>,
   <<"tconv", "TCONV">>, <<"tryte", "TRYTE_OP">>}
OpcodeOf == [s \in {row[1] : row \in OpcodeTable} |-> (CHOOSE row \in OpcodeTable : row[1] = s)[2]]
OpcodeFromString(s) == IF s \in DOMAIN OpcodeOf THEN OpcodeOf[s] ELSE "UNKNOWN"

Short == {n \in Int : -32768 <= n /\ n <= 32767}
ToInt16(n) == ((n + 32768) % 65536) - 32768
Operand ==
  [type : {"REG"}, reg : 0 .. 255]
    \union [type : {"IMM"}, val : Int]
    \union [type : {"MEM"}, base : 0 .. 255, offset : Short]
    \union [type : {"LABEL"}, name : Word]
Inst == [opcode : {OpcodeOf[s] : s \in DOMAIN OpcodeOf} \union {"UNKNOWN"}, operands : Seq(Operand)]

ASSUME ParserAssumption == UnwrittenBase \subseteq 0 .. 255 /\ UnwrittenOffset \subseteq Short

ParseInit ==
  /\ LexInit
  /\ tokens = <<>> /\ pos = 1 /\ insts = <<>> /\ labels = <<>>
  /\ stage = "lex"

\* The client reads from the lexer before it makes the parser.
PeekFirst == stage = "lex" /\ Peek /\ UNCHANGED parseVars
ConsumeFirst == stage = "lex" /\ at <= Len(source) /\ Consume /\ UNCHANGED parseVars

\* Parser(Lexer&) calls tokenize_all, which calls next() until the end of file.
Construct ==
  /\ stage = "lex"
  /\ stage' = "tokenize"
  /\ UNCHANGED <<lexVars, tokens, pos, insts, labels>>

TokenizeAll ==
  /\ stage = "tokenize"
  /\ tokens' = Append(tokens, NextToken)
  /\ at' = NextAt
  /\ peeked' = <<>>
  /\ stage' = IF NextToken.type = "END_OF_FILE" THEN "top" ELSE "tokenize"
  /\ UNCHANGED <<source, taken, pos, insts, labels>>

-----------------------------------------------------------------------------
(* current() stays on the last token when pos_ has passed it, and so does  *)
(* peek_next().                                                            *)
Clamped(i) == tokens[IF i <= Len(tokens) THEN i ELSE Len(tokens)]
TypeAt(i) == Clamped(i).type
StartsOperandNamed(i) == TypeAt(i) \in {"REGISTER", "LBRACKET", "IDENTIFIER"}
StartsOperand(i) == TypeAt(i) \in {"REGISTER", "IMMEDIATE", "LBRACKET", "IDENTIFIER"}

\* Where parse_memory is behind each optional part of the address at i.
BehindBase(i) == IF TypeAt(i + 1) = "REGISTER" THEN i + 2 ELSE i + 1
OffsetAt(i) == IF TypeAt(BehindBase(i)) = "PLUS" THEN BehindBase(i) + 1 ELSE BehindBase(i)
BehindOffset(i) == IF TypeAt(OffsetAt(i)) = "IMMEDIATE" THEN OffsetAt(i) + 1 ELSE OffsetAt(i)
BehindMemory(i) == IF TypeAt(BehindOffset(i)) = "RBRACKET" THEN BehindOffset(i) + 1 ELSE BehindOffset(i)

BehindOperand(i) == IF TypeAt(i) = "LBRACKET" THEN BehindMemory(i) ELSE i + 1

RegId(number) == number % 256

\* The addresses that may be read at i: what is missing is not written.
BasesAt(i) == IF TypeAt(i + 1) = "REGISTER" THEN {RegId(tokens[i + 1].number)} ELSE UnwrittenBase
OffsetsAt(i) ==
  IF TypeAt(OffsetAt(i)) = "IMMEDIATE" THEN {ToInt16(tokens[OffsetAt(i)].value)} ELSE UnwrittenOffset
MemoriesAt(i) == [type : {"MEM"}, base : BasesAt(i), offset : OffsetsAt(i)]

OperandAt(i) ==
  CASE TypeAt(i) = "REGISTER"   -> [type |-> "REG", reg |-> RegId(tokens[i].number)]
    [] TypeAt(i) = "IMMEDIATE"  -> [type |-> "IMM", val |-> tokens[i].value]
    [] TypeAt(i) = "IDENTIFIER" -> [type |-> "LABEL", name |-> tokens[i].text]

OperandsAt(i) == IF TypeAt(i) = "LBRACKET" THEN MemoriesAt(i) ELSE {OperandAt(i)}

\* to_int of a number out of range or of a lone "-" throws, out of the parser,
\* and so does stoul, of 64 bits, for the digits of a register.
Throws(i) ==
  \E j \in i .. BehindOperand(i) - 1 :
    \/ TypeAt(j) = "IMMEDIATE" /\ tokens[j].value = NaN
    \/ TypeAt(j) = "REGISTER" /\ tokens[j].number > 2 * LongMax + 1

-----------------------------------------------------------------------------
AtTop == stage = "top" /\ TypeAt(pos) # "END_OF_FILE"
DefinesLabel(i) == TypeAt(i) = "IDENTIFIER" /\ TypeAt(i + 1) = "LABEL_DEF"

\* A directive takes an identifier behind it, whichever line that is on.
ParseDirective ==
  /\ AtTop
  /\ TypeAt(pos) = "DOT"
  /\ pos' = IF TypeAt(pos + 1) = "IDENTIFIER" THEN pos + 2 ELSE pos + 1
  /\ UNCHANGED <<lexVars, tokens, insts, labels, stage>>

\* symbol_table_[name] = index overwrites an earlier definition.
WithLabelOnce(name, index) ==
  [n \in (DOMAIN labels) \union {name} |-> IF n \in DOMAIN labels THEN labels[n] ELSE index]
WithLabel(name, index) ==
  [n \in (DOMAIN labels) \union {name} |-> IF n = name THEN index ELSE labels[n]]

LabelDefinition ==
  /\ AtTop
  /\ DefinesLabel(pos)
  /\ labels' = WithLabel(tokens[pos].text, Len(insts))
  /\ pos' = pos + 2
  /\ UNCHANGED <<lexVars, tokens, insts, stage>>

\* INVALID and whatever else cannot start a statement.
SkipToken ==
  /\ AtTop
  /\ TypeAt(pos) \notin {"DOT", "OPCODE"}
  /\ ~DefinesLabel(pos)
  /\ pos' = pos + 1
  /\ UNCHANGED <<lexVars, tokens, insts, labels, stage>>

ParseInstruction ==
  /\ AtTop
  /\ TypeAt(pos) = "OPCODE"
  /\ insts' = Append(insts, [opcode |-> OpcodeFromString(tokens[pos].text), operands |-> <<>>])
  /\ pos' = pos + 1
  /\ stage' = "operand"
  /\ UNCHANGED <<lexVars, tokens, labels>>

WithOperand(inst, operand) == [inst EXCEPT !.operands = Append(@, operand)]

\* The first operand, or one behind a comma.
ParseOperand ==
  /\ stage = "operand"
  /\ StartsOperand(pos)
  /\ ~Throws(pos)
  /\ \E operand \in OperandsAt(pos) :
       insts' = [insts EXCEPT ![Len(insts)] = WithOperand(@, operand)]
  /\ pos' = BehindOperand(pos)
  /\ stage' = "list"
  /\ UNCHANGED <<lexVars, tokens, labels>>

NoOperand ==
  /\ stage = "operand"
  /\ ~StartsOperand(pos)
  /\ stage' = "top"
  /\ UNCHANGED <<lexVars, tokens, pos, insts, labels>>

Throw ==
  /\ stage = "operand"
  /\ StartsOperand(pos)
  /\ Throws(pos)
  /\ stage' = "threw"
  /\ UNCHANGED <<lexVars, tokens, pos, insts, labels>>

Comma ==
  /\ stage = "list"
  /\ stage' = IF TypeAt(pos) = "COMMA" THEN "operand" ELSE "top"
  /\ pos' = IF TypeAt(pos) = "COMMA" THEN pos + 1 ELSE pos
  /\ UNCHANGED <<lexVars, tokens, insts, labels>>

EndOfFile ==
  /\ stage = "top"
  /\ TypeAt(pos) = "END_OF_FILE"
  /\ stage' = "parsed"
  /\ UNCHANGED <<lexVars, tokens, pos, insts, labels>>

ParseNext ==
  \/ PeekFirst \/ ConsumeFirst \/ Construct \/ TokenizeAll
  \/ ParseDirective \/ LabelDefinition \/ SkipToken \/ ParseInstruction
  \/ ParseOperand \/ NoOperand \/ Throw \/ Comma \/ EndOfFile

-----------------------------------------------------------------------------
TypeOK ==
  /\ source \in Seq(Chunk)
  /\ at \in 1 .. Len(source) + 1
  /\ Len(peeked) <= 1
  /\ \A t \in {peeked, taken, tokens} : t \in Seq(Token)
  /\ pos \in 1 .. Len(tokens) + 1
  /\ insts \in Seq(Inst)
  /\ DOMAIN labels \subseteq Word /\ \A n \in DOMAIN labels : labels[n] \in 0 .. Len(insts)
  /\ stage \in {"lex", "tokenize", "top", "operand", "list", "parsed", "threw"}

\* The chunks a token of their own begins with.
Starts ==
  {i \in DOMAIN source :
     /\ Kind(i) \notin Trivia
     /\ ~(i > 1 /\ Kind(i - 1) = "minus" /\ Kind(i) = "digits")
     /\ ~(i > 1 /\ Kind(i) = "hex" /\ Kind(i - 1) = "digits" /\ source[i - 1].value = 0
          /\ ~(i > 2 /\ Kind(i - 2) = "minus"))}
NthOf(set, n) == CHOOSE i \in set : Cardinality({j \in set : j <= i}) = n

\* What has left the lexer's hands in order, and what should be the k-th of it.
Handed == taken \o tokens \o peeked
Expected(k) ==
  IF k <= Cardinality(Starts) THEN TokenAt(NthOf(Starts, k)) ELSE Simple("END_OF_FILE")

\* However next, peek and consume are mixed before the parser takes over, every
\* token of the source is handed out once, in order.
TokensInOrder ==
  stage \in {"lex", "parsed", "threw"} =>
    /\ \A k \in DOMAIN Handed : Handed[k] = Expected(k)
    /\ stage = "parsed" => Len(Handed) > Cardinality(Starts)

TypesAt(types) == {i \in DOMAIN tokens : tokens[i].type \in types}
OpcodesBefore(i) == Cardinality({j \in TypesAt({"OPCODE"}) : j < i})
Definitions(n) == {i \in DOMAIN tokens : DefinesLabel(i) /\ tokens[i].text = n}
Behinds(i, types) == i > 1 /\ tokens[i - 1].type \in types

\* The definitions of n that no operand list and no directive can have taken.
Kept(n) == {i \in Definitions(n) : ~Behinds(i, {"OPCODE", "COMMA", "DOT"})}

\* A label stands for the instruction behind its last definition.  Definitions
\* behind an opcode or a directive never count, those behind a comma may.
LabelsExact ==
  stage = "parsed" =>
    \A n \in Word :
      /\ Kept(n) # {} => n \in DOMAIN labels
      /\ n \in DOMAIN labels =>
           \E i \in Definitions(n) :
             /\ labels[n] = OpcodesBefore(i)
             /\ ~Behinds(i, {"OPCODE", "DOT"})
             /\ \A j \in Kept(n) : j <= i

Atoms == {"REGISTER", "IMMEDIATE", "IDENTIFIER"}

\* Behind the opcode at p stand just m registers, numbers and names, with commas
\* between them.
ListsJust(p, m) ==
  /\ p + 2 * m <= Len(tokens)
  /\ \A j \in 1 .. m : tokens[p + 2 * j - 1].type \in Atoms
  /\ \A j \in 1 .. m - 1 : tokens[p + 2 * j].type = "COMMA"
  /\ IF m = 0 THEN ~StartsOperand(p + 1) ELSE tokens[p + 2 * m].type # "COMMA"
AtomsBehind(p, m) == [j \in 1 .. m |-> OperandAt(p + 2 * j - 1)]

\* Every opcode of the source is one known instruction, in order, and when its
\* operands are m registers, numbers and names with commas between them, it has
\* just these.
InstsFollowTokens ==
  stage = "parsed" =>
    /\ Len(insts) = Cardinality(TypesAt({"OPCODE"}))
    /\ \A k \in DOMAIN insts :
         LET p == NthOf(TypesAt({"OPCODE"}), k)
         IN  /\ insts[k].opcode = OpcodeOf[tokens[p].text]
             /\ \A m \in 0 .. 3 : ListsJust(p, m) => insts[k].operands = AtomsBehind(p, m)

\* The comment above the label branch of parse_all: an identifier with a colon
\* behind it defines a label.
LabelDefined ==
  stage = "parsed" =>
    \A i \in DOMAIN tokens : DefinesLabel(i) => tokens[i].text \in DOMAIN labels

-----------------------------------------------------------------------------
(* The inductive invariants behind these.                                  *)

\* The lexer stops only where a token may begin, behind as many beginnings as it
\* has handed out tokens, or behind all of them.
Boundary(i) == i = Len(source) + 1 \/ Kind(i) \in Trivia \/ i \in Starts
StartsBefore(i) == Cardinality({j \in Starts : j < i})
LexerInv ==
  /\ source \in Seq(Chunk) /\ at \in 1 .. Len(source) + 1 /\ Boundary(at)
  /\ Len(peeked) <= 1 /\ \A t \in {peeked, taken, tokens} : t \in Seq(Token)
  /\ stage = "lex" => tokens = <<>>
  /\ tokens # <<>> => peeked = <<>>
  /\ peeked # <<>> /\ peeked[1].type = "END_OF_FILE" => Len(Handed) > Cardinality(Starts)
  /\ StartsBefore(at) = IF Len(Handed) <= Cardinality(Starts) THEN Len(Handed) ELSE Cardinality(Starts)
  /\ \A k \in 1 .. Len(Handed) : Handed[k] = Expected(k)

\* The end of the file is the last token of the parser and no other.
Lexing == stage \in {"lex", "tokenize"}
TokensEnd ==
  IF Lexing
  THEN /\ \A i \in 1 .. Len(tokens) : tokens[i].type # "END_OF_FILE"
       /\ pos = 1 /\ insts = <<>> /\ labels = <<>>
  ELSE /\ Len(tokens) > 0 /\ Len(Handed) > Cardinality(Starts)
       /\ \A i \in 1 .. Len(tokens) : tokens[i].type = "END_OF_FILE" <=> i = Len(tokens)

\* What the token in front of the parser tells about where it is.
PlaceInv ==
  /\ pos \in 1 .. Len(tokens) /\ insts \in Seq(Inst) /\ Len(insts) = OpcodesBefore(pos)
  /\ stage = "operand" => Behinds(pos, {"OPCODE", "COMMA"})
  /\ stage = "list" => ~Behinds(pos, {"OPCODE", "COMMA", "DOT"})
  /\ stage = "top" /\ TypeAt(pos) = "IDENTIFIER" => ~Behinds(pos, {"OPCODE", "DOT"})
  /\ stage = "parsed" => pos = Len(tokens)

LabelsInv ==
  /\ DOMAIN labels \subseteq Word
  /\ \A n \in Word :
       /\ (\E i \in Kept(n) : i < pos) => n \in DOMAIN labels
       /\ n \in DOMAIN labels =>
            \E i \in Definitions(n) :
              /\ i < pos /\ labels[n] = OpcodesBefore(i)
              /\ ~Behinds(i, {"OPCODE", "DOT"})
              /\ \A j \in Kept(n) : j < pos => j <= i

\* The operands of the opcode at p, as far as they are read in front of i, behind
\* an operand or not: either they are a plain list so far or they will be none.
Reading(p, operands, i, behind) ==
  \/ \A m \in 0 .. 3 : ~ListsJust(p, m)
  \/ \E q \in 0 .. Len(tokens) :
       /\ operands = AtomsBehind(p, q)
       /\ IF behind THEN q > 0 /\ i = p + 2 * q ELSE i = p + 2 * q + 1
       /\ \A j \in 1 .. q : tokens[p + 2 * j - 1].type \in Atoms
       /\ \A j \in 1 .. q : p + 2 * j < i => tokens[p + 2 * j].type = "COMMA"
InstAt(k, p) ==
  /\ tokens[p].type = "OPCODE" /\ OpcodesBefore(p) = k - 1
  /\ insts[k].opcode = OpcodeOf[tokens[p].text]
  /\ IF k = Len(insts) /\ stage \in {"operand", "list"}
     THEN Reading(p, insts[k].operands, pos, stage = "list")
     ELSE \A m \in 0 .. 3 : ListsJust(p, m) => insts[k].operands = AtomsBehind(p, m)
InstsInv == \A k \in 1 .. Len(insts) : \E p \in 1 .. pos - 1 : InstAt(k, p)

ParserInv ==
  /\ LexerInv /\ TokensEnd
  /\ ~Lexing => PlaceInv /\ LabelsInv /\ (stage # "threw" => InstsInv)
=============================================================================
