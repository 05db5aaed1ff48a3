------------------------------- MODULE Lexer -------------------------------
(***************************************************************************)
(* Lexer of src/lexer/lexer.cpp.  The source is a sequence of chunks, the  *)
(* longest runs of characters that belong together: a blank, a line end, a *)
(* comment, a word, the digits of a number.  What a chunk becomes depends  *)
(* on the chunk in front of it, and peek keeps one token back.             *)
(***************************************************************************)
EXTENDS Integers, Sequences

CONSTANTS
  Word,        \* words that are neither registers nor hexadecimal tails
  Directive,   \* the letters behind a dot
  LongMax,     \* the greatest int64_t
  NaN,         \* the number of digits to_int refuses by throwing, and of a lone "-"
  Sources      \* the sources a Lexer may be made with

\* A hex chunk is the "x1F" of "0x1F": behind a lone 0 it ends a number, anywhere
\* else it is a word.  A reg chunk is an R or P with its digits.
Chunk ==
  [kind : {"blank", "newline", "comment", "comma", "open", "close", "plus", "minus", "colon", "other"}]
    \union [kind : {"word"}, text : Word]
    \union [kind : {"hex"}, text : Word, value : Nat]
    \union [kind : {"digits"}, value : Nat]
    \union [kind : {"reg"}, number : Nat]
    \union [kind : {"dot"}, text : Directive]

\* Chunks that would run together, or into a comment, are one chunk.
Merges(a, b) ==
  \/ a.kind = "comment" /\ b.kind # "newline"
  \/ a.kind \in {"word", "hex"} /\ b.kind \in {"word", "hex", "digits", "reg", "dot"}
  \/ a.kind \in {"digits", "reg"} /\ b.kind = "digits"
  \/ a.kind = "dot" /\ b.kind \in {"word", "hex", "reg"}

ASSUME LexerAssumption ==
  /\ LongMax \in Nat /\ NaN \notin Int
  /\ \A s \in Sources : s \in Seq(Chunk) /\ \A i \in 1 .. Len(s) - 1 : ~Merges(s[i], s[i + 1])

\* The names is_opcode knows.
OpcodeNames ==
  {"iadd", "iadd3", "iadd.x", "iscadd", "isub", "imad", "imul", "imnmx", "shl", "shr", "bfe", "bfi",
   "lop3", "lop32i", "brev", "fadd", "fmul", "fset", "fmnmx", "fsel", "frcp", "fsqrt", "ffma",
   "xmad", "xmad.mrg", "xmad.psl", "ldg", "lds", "stg", "sts", "ldc", "bra", "brx", "cal", "ret",
   "exit", "kill", "yield", "bar", "depbar", "membar", "mov", "mov32i", "sel", "s2r", "cvt", "iset",
   "isetp", "fsetp", "setp", "vavx3.add", "vavx3.mul", "vavx3.mad", "vavx3.mma", "vavx3.geom",
   "vavx3.shuffle", "vavx3.braid", "vavx3.laplacian", "tmad", "tmul", "tconv", "tryte"}

Simple(type) == [type |-> type]
Immediate(value) == [type |-> "IMMEDIATE", value |-> value]
Token ==
  [type : {"COMMA", "LBRACKET", "RBRACKET", "PLUS", "LABEL_DEF", "INVALID", "END_OF_FILE"}]
    \union [type : {"OPCODE"}, text : Word \intersect OpcodeNames]
    \union [type : {"IDENTIFIER"}, text : Word]
    \union [type : {"IMMEDIATE"}, value : Int \union {NaN}]
    \union [type : {"REGISTER"}, number : Nat]
    \union [type : {"DOT"}, text : Directive]

VARIABLES
  source,
  at,       \* pos_: the next chunk to read
  peeked,   \* peeked_, a sequence of one token while has_peeked_ and else empty
  taken     \* history: the tokens handed out by next and consume

lexVars == <<source, at, peeked, taken>>

LexInit ==
  /\ source \in Sources
  /\ at = 1
  /\ peeked = <<>>
  /\ taken = <<>>

Kind(i) == IF i <= Len(source) THEN source[i].kind ELSE "end"
Trivia == {"blank", "newline", "comment"}

\* Whitespace, line ends and comments are skipped however they alternate.
Skip(i) == CHOOSE j \in i .. Len(source) + 1 :
             Kind(j) \notin Trivia /\ \A k \in i .. j - 1 : Kind(k) \in Trivia

Punctuation ==
  [comma |-> "COMMA", open |-> "LBRACKET", close |-> "RBRACKET", plus |-> "PLUS",
   colon |-> "LABEL_DEF", other |-> "INVALID", end |-> "END_OF_FILE"]

WordToken(text) == [type |-> IF text \in OpcodeNames THEN "OPCODE" ELSE "IDENTIFIER", text |-> text]

\* Token::to_int: stoll of decimal digits, and the int64_t stoull of hexadecimal
\* ones becomes.
ToInt(n) == IF -LongMax - 1 <= n /\ n <= LongMax THEN n ELSE NaN
HexToInt(n) ==
  CASE n <= LongMax -> n
    [] LongMax < n /\ n <= 2 * LongMax + 1 -> n - 2 * (LongMax + 1)
    [] 2 * LongMax + 1 < n -> NaN

\* The token that starts at chunk i.  A "-" takes decimal digits only, so of
\* "-0x10" it takes "-0" and leaves "x10" behind.
Hexadecimal(i) == source[i].value = 0 /\ Kind(i + 1) = "hex"
TokenAt(i) ==
  CASE Kind(i) \in DOMAIN Punctuation -> Simple(Punctuation[Kind(i)])
    [] Kind(i) \in {"word", "hex"} -> WordToken(source[i].text)
    [] Kind(i) = "reg" -> [type |-> "REGISTER", number |-> source[i].number]
    [] Kind(i) = "dot" -> [type |-> "DOT", text |-> source[i].text]
    [] Kind(i) = "minus" -> Immediate(IF Kind(i + 1) = "digits" THEN ToInt(-source[i + 1].value) ELSE NaN)
    [] Kind(i) = "digits" -> 
         Immediate(IF Hexadecimal(i) THEN HexToInt(source[i + 1].value) ELSE ToInt(source[i].value))

Behind(i) ==
  CASE Kind(i) = "end" -> i
    [] Kind(i) = "minus" /\ Kind(i + 1) = "digits" -> i + 2
    [] Kind(i) = "digits" /\ Hexadecimal(i) -> i + 2
    [] OTHER -> i + 1

\* The token next() returns, and where it leaves pos_.
NextToken == IF peeked # <<>> THEN peeked[1] ELSE TokenAt(Skip(at))
NextAt == IF peeked # <<>> THEN at ELSE Behind(Skip(at))

PeekForgetting == peeked = <<>> /\ at' = Behind(Skip(at)) /\ UNCHANGED <<source, peeked, taken>>
Peek ==
  /\ peeked = <<>>
  /\ peeked' = <<TokenAt(Skip(at))>>
  /\ at' = Behind(Skip(at))
  /\ UNCHANGED <<source, taken>>

\* next(), or consume(), which drops the token.
Consume ==
  /\ taken' = Append(taken, NextToken)
  /\ at' = NextAt
  /\ peeked' = <<>>
  /\ UNCHANGED source
=============================================================================
