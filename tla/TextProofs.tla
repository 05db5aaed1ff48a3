----------------------------- MODULE TextProofs -----------------------------
(***************************************************************************)
(* Proofs about the way of a text to its words, for every source and       *)
(* program: the characters that come in through the lexer and the parser,  *)
(* and the words the encoder makes of them.                                *)
(***************************************************************************)
EXTENDS Assembler, WordProofs

-----------------------------------------------------------------------------
(* Places.                                                                 *)

\* The members of a set of places up to one of them tell which it is.
LEMMA Ranked ==
  ASSUME NEW n \in Nat, NEW S \in SUBSET (1 .. n), NEW i \in S
  PROVE  /\ IsFiniteSet(S) /\ Cardinality(S) \in Nat
         /\ Cardinality({j \in S : j <= i}) = Cardinality({j \in S : j < i}) + 1
         /\ Cardinality({j \in S : j <= i}) <= Cardinality(S)
         /\ NthOf(S, Cardinality({j \in S : j <= i})) = i
<1>1. NthOf(S, Cardinality({j \in S : j <= i})) = i
  BY Counted DEF NthOf
<1>. QED
  BY <1>1, Counted

-----------------------------------------------------------------------------
(* The lexer.                                                              *)

\* A number is converted or refused.
LEMMA Converted ==
  ASSUME NEW n \in Int
  PROVE  /\ ToInt(n) \in Int \union {NaN}
         /\ n \in Nat => HexToInt(n) \in Int \union {NaN}
<1>1. LongMax \in Nat
  BY LexerAssumption
<1>. QED
  BY <1>1 DEF ToInt, HexToInt

LEMMA Chunks ==
  ASSUME source \in Seq(Chunk), NEW i \in 1 .. Len(source)
  PROVE  /\ source[i] \in Chunk /\ Kind(i) = source[i].kind /\ Kind(i) # "end"
         /\ Kind(i) \in {"word", "hex"} => source[i].text \in Word
         /\ Kind(i) = "dot" => source[i].text \in Directive
         /\ Kind(i) \in {"hex", "digits"} => source[i].value \in Nat
         /\ Kind(i) = "reg" => source[i].number \in Nat
         /\ Kind(i) \in Trivia \union DOMAIN Punctuation
                          \union {"word", "hex", "digits", "minus", "reg", "dot"}
<1>1. source[i] \in Chunk /\ Kind(i) = source[i].kind
  BY DEF Kind
<1>2. DOMAIN Punctuation = {"comma", "open", "close", "plus", "colon", "other", "end"}
  BY DEF Punctuation
<1>. QED
  BY <1>1, <1>2 DEF Chunk, Trivia

LEMMA Skipping ==
  ASSUME source \in Seq(Chunk), NEW i \in 1 .. Len(source) + 1
  PROVE  /\ Skip(i) \in i .. Len(source) + 1
         /\ Kind(Skip(i)) \notin Trivia
         /\ \A k \in i .. Skip(i) - 1 : Kind(k) \in Trivia
<1>. DEFINE T == {j \in i .. Len(source) + 1 : Kind(j) \notin Trivia}
<1>1. Len(source) \in Nat
  OBVIOUS
<1>2. Len(source) + 1 \in T
  BY <1>1 DEF Kind, Trivia
<1>3. T \subseteq Nat
  BY <1>1
<1>4. PICK j \in T : \A k \in T : j <= k
  BY <1>2, <1>3, Least
<1>5. j \in i .. Len(source) + 1 /\ Kind(j) \notin Trivia /\ \A k \in i .. j - 1 : Kind(k) \in Trivia
  BY <1>1, <1>4
<1>. HIDE DEF T
<1>. QED
  BY <1>5 DEF Skip

LEMMA Tokens ==
  ASSUME source \in Seq(Chunk), NEW i \in 1 .. Len(source) + 1, Kind(i) \notin Trivia
  PROVE  /\ TokenAt(i) \in Token
         /\ TokenAt(i).type = "END_OF_FILE" <=> i = Len(source) + 1
         /\ i = Len(source) + 1 => TokenAt(i) = Simple("END_OF_FILE") /\ Behind(i) = i
         /\ i \in 1 .. Len(source) => Behind(i) \in i + 1 .. Len(source) + 1
<1>1. DOMAIN Punctuation = {"comma", "open", "close", "plus", "colon", "other", "end"}
  BY DEF Punctuation
<1>2. Len(source) \in Nat /\ \A k \in Int : k > Len(source) => Kind(k) = "end"
  BY DEF Kind
<1>3. CASE i = Len(source) + 1
  <2>1. Kind(i) = "end"
    BY <1>2, <1>3
  <2>2. TokenAt(i) = Simple("END_OF_FILE")
    BY <1>1, <2>1 DEF TokenAt, Punctuation
  <2>3. Behind(i) = i
    BY <2>1 DEF Behind
  <2>. QED
    BY <1>2, <1>3, <2>2, <2>3 DEF Simple, Token
<1>4. CASE i \in 1 .. Len(source)
  <2>1. /\ Kind(i) # "end"
        /\ Kind(i) \in {"word", "hex"} => source[i].text \in Word
        /\ Kind(i) = "dot" => source[i].text \in Directive
        /\ Kind(i) \in {"hex", "digits"} => source[i].value \in Nat
        /\ Kind(i) = "reg" => source[i].number \in Nat
        /\ Kind(i) \in {"comma", "open", "close", "plus", "colon", "other", "word", "hex",
                        "digits", "minus", "reg", "dot"}
    BY <1>1, <1>4, Chunks
  <2>2. Kind(i + 1) \in {"hex", "digits"} => i + 1 \in 1 .. Len(source) /\ source[i + 1].value \in Nat
    <3>1. Kind(i + 1) \in {"hex", "digits"} => i + 1 \in 1 .. Len(source)
      BY <1>2, <1>4
    <3>. QED
      BY <3>1, Chunks
  <2>3. Behind(i) \in i + 1 .. Len(source) + 1
    BY <1>2, <1>4, <2>1, <2>2 DEF Behind, Hexadecimal
  <2>4. TokenAt(i) \in Token /\ TokenAt(i).type # "END_OF_FILE"
    <3>1. CASE Kind(i) \in {"comma", "open", "close", "plus", "colon", "other"}
      <4>1. TokenAt(i) = Simple(Punctuation[Kind(i)])
        BY <1>1, <3>1 DEF TokenAt
      <4>2. Punctuation[Kind(i)] \in {"COMMA", "LBRACKET", "RBRACKET", "PLUS", "LABEL_DEF", "INVALID"}
        BY <3>1 DEF Punctuation
      <4>. QED
        BY <4>1, <4>2 DEF Simple, Token
    <3>2. CASE Kind(i) \in {"word", "hex"}
      <4>1. TokenAt(i) = WordToken(source[i].text)
        BY <1>1, <3>2 DEF TokenAt
      <4>. QED
        BY <2>1, <3>2, <4>1 DEF WordToken, Token
    <3>3. CASE Kind(i) = "reg"
      <4>1. TokenAt(i) = [type |-> "REGISTER", number |-> source[i].number]
        BY <1>1, <3>3 DEF TokenAt
      <4>. QED
        BY <2>1, <3>3, <4>1 DEF Token
    <3>4. CASE Kind(i) = "dot"
      <4>1. TokenAt(i) = [type |-> "DOT", text |-> source[i].text]
        BY <1>1, <3>4 DEF TokenAt
      <4>. QED
        BY <2>1, <3>4, <4>1 DEF Token
    <3>5. \A v \in Int \union {NaN} : Immediate(v) \in Token /\ Immediate(v).type # "END_OF_FILE"
      BY DEF Immediate, Token
    <3>6. CASE Kind(i) = "minus"
      <4>1. TokenAt(i) = Immediate(IF Kind(i + 1) = "digits" THEN ToInt(-source[i + 1].value) ELSE NaN)
        BY <1>1, <3>6 DEF TokenAt
      <4>2. (IF Kind(i + 1) = "digits" THEN ToInt(-source[i + 1].value) ELSE NaN) \in Int \union {NaN}
        BY <2>2, Converted
      <4>. QED
        BY <3>5, <4>1, <4>2
    <3>7. CASE Kind(i) = "digits"
      <4>1. TokenAt(i) = Immediate(IF Hexadecimal(i) THEN HexToInt(source[i + 1].value)
                                   ELSE ToInt(source[i].value))
        BY <1>1, <3>7 DEF TokenAt
      <4>2. (IF Hexadecimal(i) THEN HexToInt(source[i + 1].value) ELSE ToInt(source[i].value))
              \in Int \union {NaN}
        BY <2>1, <2>2, <3>7, Converted DEF Hexadecimal
      <4>. QED
        BY <3>5, <4>1, <4>2
    <3>. QED
      BY <2>1, <3>1, <3>2, <3>3, <3>4, <3>6, <3>7
  <2>. QED
    BY <1>2, <1>4, <2>3, <2>4
<1>. QED
  BY <1>2, <1>3, <1>4

\* From a place where a token may begin, the skipped chunks begin none.
LEMMA SkipsNoStart ==
  ASSUME source \in Seq(Chunk), NEW i \in 1 .. Len(source) + 1, Boundary(i)
  PROVE  /\ Skip(i) \in Starts \union {Len(source) + 1}
         /\ \A k \in i .. Skip(i) - 1 : k \notin Starts
<1>1. /\ Skip(i) \in i .. Len(source) + 1 /\ Kind(Skip(i)) \notin Trivia
      /\ \A k \in i .. Skip(i) - 1 : Kind(k) \in Trivia
  BY Skipping
<1>2. \A k \in i .. Skip(i) - 1 : k \notin Starts
  BY <1>1 DEF Starts
<1>3. CASE Skip(i) = i
  BY <1>1, <1>3 DEF Boundary
<1>4. CASE Skip(i) > i /\ Skip(i) <= Len(source)
  <2>1. PICK j \in 1 .. Len(source) : j = Skip(i)
    BY <1>1, <1>4
  <2>2. Kind(j - 1) \in Trivia /\ Kind(j) \notin Trivia /\ DOMAIN source = 1 .. Len(source)
    BY <1>1, <1>4, <2>1
  <2>3. Kind(j - 1) \notin {"minus", "digits"}
    BY <2>2 DEF Trivia
  <2>4. j \in Starts
    BY <2>2, <2>3 DEF Starts
  <2>. QED
    BY <1>2, <2>1, <2>4
<1>. QED
  BY <1>1, <1>2, <1>3, <1>4

\* A token ends where another may begin, and begins none within itself.
LEMMA EndsAtBoundary ==
  ASSUME source \in Seq(Chunk), NEW i \in Starts
  PROVE  /\ Behind(i) \in i + 1 .. Len(source) + 1 /\ Boundary(Behind(i))
         /\ \A k \in i + 1 .. Behind(i) - 1 : k \notin Starts
<1>1. /\ i \in 1 .. Len(source) /\ Kind(i) \notin Trivia /\ Len(source) \in Nat
      /\ DOMAIN source = 1 .. Len(source) /\ Kind(i) # "end"
      /\ ~(i > 1 /\ Kind(i - 1) = "minus" /\ Kind(i) = "digits")
  BY Chunks DEF Starts
<1>2. Behind(i) \in i + 1 .. Len(source) + 1
  BY <1>1, Tokens
<1>3. \A k \in 1 .. Len(source) : Kind(k) = source[k].kind
  BY DEF Kind
<1>4. ASSUME NEW j \in 2 .. Len(source), Kind(j) \notin Trivia, j \notin Starts
      PROVE  \/ Kind(j - 1) = "minus" /\ Kind(j) = "digits"
             \/ /\ Kind(j) = "hex" /\ Kind(j - 1) = "digits" /\ source[j - 1].value = 0
                /\ ~(j > 2 /\ Kind(j - 2) = "minus")
  BY <1>1, <1>4 DEF Starts
<1>5. CASE Kind(i) = "minus" /\ Kind(i + 1) = "digits"
  <2>1. Behind(i) = i + 2
    BY <1>1, <1>5 DEF Behind
  <2>2. i + 1 \notin Starts
    <3>1. i + 1 > 1 /\ i + 1 - 1 = i
      BY <1>1
    <3>. QED
      BY <1>5, <3>1 DEF Starts
  <2>3. Boundary(i + 2)
    <3>1. SUFFICES ASSUME i + 2 \in 2 .. Len(source), Kind(i + 2) \notin Trivia, i + 2 \notin Starts
                   PROVE  FALSE
      BY <1>1, <1>2, <2>1 DEF Boundary
    <3>2. (i + 2) - 1 = i + 1 /\ (i + 2) - 2 = i /\ i + 2 > 2
      BY <1>1
    <3>. QED
      BY <1>4, <1>5, <3>1, <3>2
  <2>. QED
    BY <1>1, <1>2, <2>1, <2>2, <2>3
<1>6. CASE Kind(i) = "digits" /\ Hexadecimal(i)
  <2>1. Behind(i) = i + 2
    BY <1>1, <1>6 DEF Behind
  <2>2. i + 1 \notin Starts
    <3>1. i + 1 > 1 /\ i + 1 - 1 = i /\ (i + 1) - 2 = i - 1 /\ (i + 1 > 2 => i > 1)
      BY <1>1
    <3>. QED
      BY <1>1, <1>6, <3>1 DEF Starts, Hexadecimal
  <2>3. Boundary(i + 2)
    <3>1. SUFFICES ASSUME i + 2 \in 2 .. Len(source), Kind(i + 2) \notin Trivia, i + 2 \notin Starts
                   PROVE  FALSE
      BY <1>1, <1>2, <2>1 DEF Boundary
    <3>2. (i + 2) - 1 = i + 1
      BY <1>1
    <3>. QED
      BY <1>4, <1>6, <3>1, <3>2 DEF Hexadecimal
  <2>. QED
    BY <1>1, <1>2, <2>1, <2>2, <2>3
<1>7. CASE ~(Kind(i) = "minus" /\ Kind(i + 1) = "digits") /\ ~(Kind(i) = "digits" /\ Hexadecimal(i))
  <2>1. Behind(i) = i + 1
    BY <1>1, <1>7 DEF Behind
  <2>2. Boundary(i + 1)
    <3>1. SUFFICES ASSUME i + 1 \in 2 .. Len(source), Kind(i + 1) \notin Trivia, i + 1 \notin Starts
                   PROVE  FALSE
      BY <1>1, <1>2, <2>1 DEF Boundary
    <3>2. (i + 1) - 1 = i
      BY <1>1
    <3>. QED
      BY <1>4, <1>7, <3>1, <3>2 DEF Hexadecimal
  <2>. QED
    BY <1>1, <1>2, <2>1, <2>2
<1>. QED
  BY <1>5, <1>6, <1>7

\* The next token is the one expected next, and the lexer stops behind it.
LEMMA NextExpected ==
  ASSUME LexerInv
  PROVE  /\ TokenAt(Skip(at)) \in Token /\ TokenAt(Skip(at)) = Expected(Len(Handed) + 1)
         /\ Behind(Skip(at)) \in 1 .. Len(source) + 1 /\ Boundary(Behind(Skip(at)))
         /\ StartsBefore(Behind(Skip(at)))
              = IF Len(Handed) + 1 <= Cardinality(Starts) THEN Len(Handed) + 1 ELSE Cardinality(Starts)
         /\ TokenAt(Skip(at)).type = "END_OF_FILE" => Len(Handed) + 1 > Cardinality(Starts)
<1>. DEFINE s == Skip(at)
            n == Len(Handed)
<1>1. /\ source \in Seq(Chunk) /\ at \in 1 .. Len(source) + 1 /\ Boundary(at) /\ Len(source) \in Nat
      /\ StartsBefore(at) = IF n <= Cardinality(Starts) THEN n ELSE Cardinality(Starts)
  BY DEF LexerInv
<1>2. n \in Nat
  <2>1. taken \in Seq(Token) /\ tokens \in Seq(Token) /\ peeked \in Seq(Token)
    BY DEF LexerInv
  <2>2. Handed \in Seq(Token)
    BY <2>1 DEF Handed
  <2>. QED
    BY <2>2
<1>3. Starts \in SUBSET (1 .. Len(source))
  BY <1>1 DEF Starts
<1>4. /\ s \in at .. Len(source) + 1 /\ Kind(s) \notin Trivia
      /\ s \in Starts \union {Len(source) + 1} /\ \A k \in at .. s - 1 : k \notin Starts
  BY <1>1, Skipping, SkipsNoStart
<1>5. s \in 1 .. Len(source) + 1
  BY <1>1, <1>4
<1>6. /\ TokenAt(s) \in Token /\ (TokenAt(s).type = "END_OF_FILE" <=> s = Len(source) + 1)
      /\ s = Len(source) + 1 => TokenAt(s) = Simple("END_OF_FILE") /\ Behind(s) = s
  BY <1>1, <1>4, <1>5, Tokens
<1>7. IsFiniteSet(Starts) /\ Cardinality(Starts) \in Nat
  <2>1. IsFiniteSet(1 .. Len(source))
    BY <1>1, FS_Interval
  <2>2. IsFiniteSet(Starts)
    BY <1>3, <2>1, FS_Subset
  <2>. QED
    BY <2>2, FS_CardinalityType
<1>8. CASE s \in Starts
  <2>1. s \in 1 .. Len(source)
    BY <1>3, <1>8
  <2>2. /\ Behind(s) \in s + 1 .. Len(source) + 1 /\ Boundary(Behind(s))
        /\ \A k \in s + 1 .. Behind(s) - 1 : k \notin Starts
    BY <1>1, <1>8, EndsAtBoundary
  <2>3. \A j \in Starts : (j < s <=> j < at) /\ (j <= s <=> j < Behind(s))
    <3>1. TAKE j \in Starts
    <3>2. j \in 1 .. Len(source)
      BY <1>3
    <3>3. ~(j \in at .. s - 1) /\ ~(j \in s + 1 .. Behind(s) - 1)
      BY <1>4, <2>2
    <3>. QED
      BY <1>1, <1>4, <2>1, <2>2, <3>2, <3>3
  <2>4. {j \in Starts : j < s} = {j \in Starts : j < at}
        /\ {j \in Starts : j <= s} = {j \in Starts : j < Behind(s)}
    BY <2>3, Zenon
  <2>5. /\ Cardinality({j \in Starts : j <= s}) = Cardinality({j \in Starts : j < s}) + 1
        /\ Cardinality({j \in Starts : j <= s}) <= Cardinality(Starts)
        /\ NthOf(Starts, Cardinality({j \in Starts : j <= s})) = s
    BY <1>1, <1>3, <1>8, Ranked
  <2>6. StartsBefore(Behind(s)) = StartsBefore(at) + 1 /\ StartsBefore(Behind(s)) <= Cardinality(Starts)
        /\ NthOf(Starts, StartsBefore(Behind(s))) = s
    BY <2>4, <2>5 DEF StartsBefore
  <2>7. StartsBefore(at) = n /\ n + 1 <= Cardinality(Starts)
    BY <1>1, <1>2, <1>7, <2>6
  <2>8. TokenAt(s) = Expected(n + 1)
    BY <2>6, <2>7 DEF Expected
  <2>. QED
    BY <1>1, <1>2, <1>6, <2>1, <2>2, <2>6, <2>7, <2>8
<1>9. CASE s = Len(source) + 1
  <2>1. \A j \in Starts : j < at
    <3>1. TAKE j \in Starts
    <3>2. j \in 1 .. Len(source) /\ ~(j \in at .. s - 1)
      BY <1>3, <1>4
    <3>. QED
      BY <1>1, <1>9, <3>2
  <2>2. \A j \in Starts : j < s
    BY <1>1, <1>3, <1>9
  <2>3. {j \in Starts : j < at} = Starts /\ {j \in Starts : j < s} = Starts
    BY <2>1, <2>2, Zenon
  <2>4. StartsBefore(at) = Cardinality(Starts) /\ StartsBefore(s) = Cardinality(Starts)
    BY <2>3 DEF StartsBefore
  <2>5. n >= Cardinality(Starts)
    BY <1>1, <1>2, <1>7, <2>4
  <2>6. Expected(n + 1) = Simple("END_OF_FILE")
    BY <1>2, <1>7, <2>5 DEF Expected
  <2>7. Boundary(s)
    BY <1>9 DEF Boundary
  <2>. QED
    BY <1>2, <1>5, <1>6, <1>7, <1>9, <2>4, <2>5, <2>6, <2>7
<1>. QED
  BY <1>4, <1>8, <1>9

\* What is expected depends on the source alone.
LEMMA SameSource ==
  ASSUME source' = source
  PROVE  /\ Starts' = Starts /\ \A k : Expected(k)' = Expected(k)
         /\ \A i : (Boundary(i)' <=> Boundary(i)) /\ StartsBefore(i)' = StartsBefore(i)
<1>1. \A i : Kind(i)' = Kind(i)
  BY DEF Kind
<1>2. Starts' = Starts
  BY <1>1 DEF Starts
<1>3. \A i : TokenAt(i)' = TokenAt(i)
  BY <1>1 DEF TokenAt, Hexadecimal
<1>4. \A k : Expected(k)' = Expected(k)
  BY <1>2, <1>3 DEF Expected
<1>. QED
  BY <1>1, <1>2, <1>4 DEF Boundary, StartsBefore

LEMMA Catenations ==
  ASSUME NEW a \in Seq(Token), NEW b \in Seq(Token), NEW x \in Token
  PROVE  /\ a \o <<>> = a /\ <<>> \o a = a /\ a \o <<x>> = Append(a, x)
         /\ a \o Append(b, x) = Append(a \o b, x)
         /\ a \o b \in Seq(Token) /\ Append(a, x) \in Seq(Token)
  OBVIOUS

LEMMA Single ==
  ASSUME NEW p \in Seq(Token), Len(p) <= 1, p # <<>>
  PROVE  p[1] \in Token /\ p = <<p[1]>>
<1>1. Len(p) = 1
  <2>1. Len(p) \in Nat \ {0}
    BY EmptySeq, Zenon
  <2>. QED
    BY <2>1
<1>2. <<p[1]>> \in Seq(Token) /\ p[1] \in Token
  BY <1>1
<1>. QED
  BY <1>1, <1>2, SeqEqual

\* A step that reads no token or the next one leaves what is handed out as expected.
LEMMA OrderKept ==
  ASSUME LexerInv, source' = source,
         \/ at' = at /\ Handed' = Handed
         \/ at' = Behind(Skip(at)) /\ Handed' = Append(Handed, TokenAt(Skip(at)))
  PROVE  /\ at' \in 1 .. Len(source') + 1 /\ Boundary(at)'
         /\ StartsBefore(at)' = IF Len(Handed') <= Cardinality(Starts') THEN Len(Handed') ELSE Cardinality(Starts')
         /\ \A k \in 1 .. Len(Handed') : Handed'[k] = Expected(k)'
<1>1. /\ Starts' = Starts /\ \A k : Expected(k)' = Expected(k)
      /\ \A i : Kind(i)' = Kind(i)
  BY SameSource DEF Kind
<1>2. /\ at \in 1 .. Len(source) + 1 /\ Boundary(at) /\ Handed \in Seq(Token)
      /\ StartsBefore(at) = IF Len(Handed) <= Cardinality(Starts) THEN Len(Handed) ELSE Cardinality(Starts)
      /\ \A k \in 1 .. Len(Handed) : Handed[k] = Expected(k)
  <2>1. taken \in Seq(Token) /\ tokens \in Seq(Token) /\ peeked \in Seq(Token)
    BY DEF LexerInv
  <2>2. Handed \in Seq(Token)
    BY <2>1 DEF Handed
  <2>. QED
    BY <2>2 DEF LexerInv
<1>3. CASE at' = at /\ Handed' = Handed
  <2>1. Boundary(at)'
    BY <1>1, <1>2, <1>3 DEF Boundary
  <2>2. StartsBefore(at)' = StartsBefore(at)
    BY <1>1, <1>3 DEF StartsBefore
  <2>. QED
    BY <1>1, <1>2, <1>3, <2>1, <2>2
<1>4. CASE at' = Behind(Skip(at)) /\ Handed' = Append(Handed, TokenAt(Skip(at)))
  <2>1. /\ TokenAt(Skip(at)) \in Token /\ TokenAt(Skip(at)) = Expected(Len(Handed) + 1)
        /\ Behind(Skip(at)) \in 1 .. Len(source) + 1 /\ Boundary(Behind(Skip(at)))
        /\ StartsBefore(Behind(Skip(at)))
             = IF Len(Handed) + 1 <= Cardinality(Starts) THEN Len(Handed) + 1 ELSE Cardinality(Starts)
    BY NextExpected
  <2>2. Boundary(at)'
    BY <1>1, <1>4, <2>1 DEF Boundary
  <2>3. StartsBefore(at)' = StartsBefore(Behind(Skip(at)))
    BY <1>1, <1>4 DEF StartsBefore
  <2>4. /\ Len(Handed') = Len(Handed) + 1 /\ Handed'[Len(Handed) + 1] = TokenAt(Skip(at))
        /\ \A k \in 1 .. Len(Handed) : Handed'[k] = Handed[k]
    BY <1>2, <1>4, <2>1
  <2>5. ASSUME NEW k \in 1 .. Len(Handed')
        PROVE  Handed'[k] = Expected(k)'
    <3>1. k \in 1 .. Len(Handed) \/ k = Len(Handed) + 1
      BY <1>2, <2>4
    <3>. QED
      BY <1>1, <1>2, <2>1, <2>4, <3>1
  <2>. QED
    BY <1>1, <1>4, <2>1, <2>2, <2>3, <2>4, <2>5
<1>. QED
  BY <1>3, <1>4

LEMMA LexerStarts == ParseInit => LexerInv /\ TokensEnd
<1>. SUFFICES ASSUME ParseInit PROVE LexerInv /\ TokensEnd
  OBVIOUS
<1>1. /\ source \in Seq(Chunk) /\ at = 1 /\ peeked = <<>> /\ taken = <<>> /\ tokens = <<>>
      /\ pos = 1 /\ insts = <<>> /\ labels = <<>> /\ stage = "lex"
  BY LexerAssumption DEF ParseInit, LexInit
<1>2. Len(source) \in Nat /\ Starts \in SUBSET (1 .. Len(source))
  BY <1>1 DEF Starts
<1>3. IsFiniteSet(Starts) /\ Cardinality(Starts) \in Nat
  <2>1. IsFiniteSet(1 .. Len(source))
    BY <1>2, FS_Interval
  <2>2. IsFiniteSet(Starts)
    BY <1>2, <2>1, FS_Subset
  <2>. QED
    BY <2>2, FS_CardinalityType
<1>4. Boundary(1)
  <2>1. SUFFICES ASSUME 1 \in 1 .. Len(source), Kind(1) \notin Trivia PROVE 1 \in Starts
    BY <1>2 DEF Boundary
  <2>. QED
    BY <1>1, <2>1 DEF Starts
<1>5. StartsBefore(1) = 0
  <2>1. \A j \in Starts : ~(j < 1)
    BY <1>2
  <2>2. {j \in Starts : j < 1} = {}
    BY <2>1, Zenon
  <2>. QED
    BY <2>2, FS_EmptySet DEF StartsBefore
<1>6. Handed = <<>>
  BY <1>1 DEF Handed
<1>7. LexerInv
  BY <1>1, <1>2, <1>3, <1>4, <1>5, <1>6 DEF LexerInv
<1>. QED
  BY <1>1, <1>7 DEF TokensEnd, Lexing

\* The client's reading before there is a parser.
LEMMA LexerReads ==
  ASSUME LexerInv, TokensEnd, PeekFirst \/ ConsumeFirst
  PROVE  LexerInv' /\ TokensEnd'
<1>1. /\ tokens = <<>> /\ stage = "lex" /\ peeked \in Seq(Token) /\ taken \in Seq(Token) /\ Len(peeked) <= 1
      /\ source' = source /\ source \in Seq(Chunk)
      /\ tokens' = tokens /\ pos' = pos /\ insts' = insts /\ labels' = labels /\ stage' = stage
  BY DEF LexerInv, PeekFirst, ConsumeFirst, Peek, Consume, parseVars
<1>2. TokenAt(Skip(at)) \in Token
  BY NextExpected
<1>3. Handed = taken \o peeked /\ Handed' = taken' \o peeked'
  BY <1>1, Catenations DEF Handed
<1>4. CASE Peek
  <2>1. peeked = <<>> /\ peeked' = <<TokenAt(Skip(at))>> /\ at' = Behind(Skip(at)) /\ taken' = taken
    BY <1>4 DEF Peek
  <2>2. Handed' = Append(Handed, TokenAt(Skip(at)))
    BY <1>1, <1>2, <1>3, <2>1, Catenations
  <2>3. peeked' \in Seq(Token) /\ Len(peeked') = 1
    BY <1>2, <2>1
  <2>4. TokenAt(Skip(at)).type = "END_OF_FILE" => Len(Handed') > Cardinality(Starts')
    <3>1. Len(Handed') = Len(Handed) + 1 /\ Starts' = Starts
      BY <1>1, <1>2, <1>3, <2>1, <2>2, SameSource, Catenations
    <3>. QED
      BY <3>1, NextExpected
  <2>5. LexerInv'
    BY <1>1, <2>1, <2>2, <2>3, <2>4, OrderKept DEF LexerInv
  <2>. QED
    BY <1>1, <2>5 DEF TokensEnd, Lexing
<1>5. CASE Consume /\ peeked = <<>>
  <2>1. peeked' = <<>> /\ taken' = Append(taken, TokenAt(Skip(at))) /\ at' = Behind(Skip(at))
    BY <1>5 DEF Consume, NextToken, NextAt
  <2>2. Handed' = Append(Handed, TokenAt(Skip(at))) /\ taken' \in Seq(Token)
    BY <1>1, <1>2, <1>3, <1>5, <2>1, Catenations
  <2>3. LexerInv'
    BY <1>1, <2>1, <2>2, OrderKept DEF LexerInv
  <2>. QED
    BY <1>1, <2>3 DEF TokensEnd, Lexing
<1>6. CASE Consume /\ peeked # <<>>
  <2>1. peeked' = <<>> /\ taken' = Append(taken, peeked[1]) /\ at' = at
    BY <1>6 DEF Consume, NextToken, NextAt
  <2>2. PICK x \in Token : peeked = <<x>> /\ peeked[1] = x
    BY <1>1, <1>6, Single
  <2>3. Handed' = Handed /\ taken' \in Seq(Token)
    <3>1. taken \o <<x>> = Append(taken, x) /\ Append(taken, x) \in Seq(Token)
      BY <1>1, Catenations
    <3>2. taken' = Append(taken, x) /\ Handed = Append(taken, x)
      BY <1>3, <2>1, <2>2, <3>1
    <3>3. Handed' = taken'
      BY <1>3, <2>1, <3>1, <3>2, Catenations
    <3>. QED
      BY <3>1, <3>2, <3>3
  <2>4. LexerInv'
    BY <1>1, <2>1, <2>3, OrderKept DEF LexerInv
  <2>. QED
    BY <1>1, <2>4 DEF TokensEnd, Lexing
<1>. QED
  BY <1>4, <1>5, <1>6 DEF PeekFirst, ConsumeFirst

\* tokenize_all takes over what was peeked and stops behind the end of the file.
LEMMA LexerTokenizes ==
  ASSUME LexerInv, TokensEnd, TokenizeAll
  PROVE  LexerInv' /\ TokensEnd'
<1>. DEFINE tok == NextToken
<1>1. /\ stage = "tokenize" /\ source' = source /\ taken' = taken /\ pos' = pos /\ insts' = insts
      /\ labels' = labels /\ tokens' = Append(tokens, tok) /\ peeked' = <<>> /\ at' = NextAt
      /\ stage' = (IF tok.type = "END_OF_FILE" THEN "top" ELSE "tokenize")
      /\ peeked \in Seq(Token) /\ taken \in Seq(Token) /\ tokens \in Seq(Token) /\ Len(peeked) <= 1
      /\ (tokens # <<>> => peeked = <<>>)
      /\ \A i \in 1 .. Len(tokens) : tokens[i].type # "END_OF_FILE"
      /\ pos = 1 /\ insts = <<>> /\ labels = <<>>
  BY DEF LexerInv, TokensEnd, Lexing, TokenizeAll
<1>2. /\ tok \in Token
      /\ \/ at' = at /\ Handed' = Handed
         \/ at' = Behind(Skip(at)) /\ Handed' = Append(Handed, TokenAt(Skip(at)))
      /\ tok.type = "END_OF_FILE" => Len(Handed') > Cardinality(Starts)
  <2>1. CASE peeked = <<>>
    <3>1. tok = TokenAt(Skip(at)) /\ at' = Behind(Skip(at)) /\ tok \in Token
          /\ (tok.type = "END_OF_FILE" => Len(Handed) + 1 > Cardinality(Starts))
      BY <1>1, <2>1, NextExpected DEF NextToken, NextAt
    <3>2. Handed = taken \o tokens /\ Handed' = taken \o Append(tokens, tok)
      <4>1. taken \o tokens \in Seq(Token) /\ taken \o Append(tokens, tok) \in Seq(Token)
        BY <1>1, <3>1, Catenations
      <4>. QED
        BY <1>1, <2>1, <4>1, Catenations DEF Handed
    <3>3. Handed' = Append(Handed, tok) /\ Len(Handed') = Len(Handed) + 1
      <4>1. Handed' = Append(Handed, tok)
        <5>1. taken \o Append(tokens, tok) = Append(taken \o tokens, tok)
          BY <1>1, <3>1, Catenations
        <5>. QED
          BY <3>2, <5>1, Zenon
      <4>2. Handed \in Seq(Token)
        BY <1>1, <3>2, Catenations
      <4>. QED
        BY <3>1, <4>1, <4>2
    <3>. QED
      BY <3>1, <3>3
  <2>2. CASE peeked # <<>>
    <3>1. tokens = <<>> /\ tok = peeked[1] /\ peeked = <<tok>> /\ tok \in Token /\ at' = at
      <4>1. tokens = <<>> /\ tok = peeked[1] /\ at' = at
        BY <1>1, <2>2 DEF NextToken, NextAt
      <4>2. peeked[1] \in Token /\ peeked = <<peeked[1]>>
        BY <1>1, <2>2, Single
      <4>. QED
        BY <4>1, <4>2
    <3>2. taken \o tokens = taken /\ taken \o Append(tokens, tok) = Append(taken, tok)
          /\ Append(taken, tok) \in Seq(Token) /\ taken \o peeked = Append(taken, tok)
      BY <1>1, <3>1, Catenations
    <3>3. Handed = Append(taken, tok) /\ Handed' = Append(taken, tok)
      BY <1>1, <3>2, Catenations DEF Handed
    <3>4. tok.type = "END_OF_FILE" => Len(Handed) > Cardinality(Starts)
      BY <2>2, <3>1 DEF LexerInv
    <3>. QED
      BY <3>1, <3>3, <3>4
  <2>. QED
    BY <2>1, <2>2
<1>3. Starts' = Starts
  BY <1>1, SameSource
<1>4. tokens' \in Seq(Token) /\ tokens' # <<>> /\ Len(tokens') = Len(tokens) + 1
      /\ tokens'[Len(tokens')] = tok /\ \A i \in 1 .. Len(tokens) : tokens'[i] = tokens[i]
  BY <1>1, <1>2
<1>5. LexerInv'
  <2>1. stage' # "lex"
    BY <1>1
  <2>2. /\ at' \in 1 .. Len(source') + 1 /\ Boundary(at)'
        /\ StartsBefore(at)' = IF Len(Handed') <= Cardinality(Starts') THEN Len(Handed') ELSE Cardinality(Starts')
        /\ \A k \in 1 .. Len(Handed') : Handed'[k] = Expected(k)'
    BY <1>1, <1>2, OrderKept
  <2>3. source' \in Seq(Chunk)
    BY <1>1 DEF LexerInv
  <2>. QED
    BY <1>1, <1>4, <2>1, <2>2, <2>3 DEF LexerInv
<1>6. CASE tok.type = "END_OF_FILE"
  <2>1. stage' = "top" /\ Len(Handed') > Cardinality(Starts')
    BY <1>1, <1>2, <1>3, <1>6
  <2>2. \A i \in 1 .. Len(tokens') : tokens'[i].type = "END_OF_FILE" <=> i = Len(tokens')
    <3>1. TAKE i \in 1 .. Len(tokens')
    <3>2. i \in 1 .. Len(tokens) \/ i = Len(tokens')
      BY <1>1, <1>4
    <3>. QED
      BY <1>1, <1>4, <1>6, <3>2
  <2>3. Len(tokens') > 0
    BY <1>1, <1>4
  <2>. QED
    BY <1>5, <2>1, <2>2, <2>3 DEF TokensEnd, Lexing
<1>7. CASE tok.type # "END_OF_FILE"
  <2>1. stage' = "tokenize"
    BY <1>1, <1>7
  <2>2. \A i \in 1 .. Len(tokens') : tokens'[i].type # "END_OF_FILE"
    <3>1. TAKE i \in 1 .. Len(tokens')
    <3>2. i \in 1 .. Len(tokens) \/ i = Len(tokens')
      BY <1>1, <1>4
    <3>. QED
      BY <1>1, <1>4, <1>7, <3>2
  <2>. QED
    BY <1>1, <1>5, <2>1, <2>2 DEF TokensEnd, Lexing
<1>. QED
  BY <1>6, <1>7

\* What leaves the tokens alone leaves all this alone.
LEMMA LexerRests ==
  ASSUME LexerInv, TokensEnd, UNCHANGED <<lexVars, tokens>>,
         \/ stage = "lex" /\ stage' = "tokenize" /\ UNCHANGED <<pos, insts, labels>>
         \/ ~Lexing /\ ~Lexing'
         \/ UNCHANGED parseVars
  PROVE  LexerInv' /\ TokensEnd'
<1>1. /\ source' = source /\ at' = at /\ peeked' = peeked /\ taken' = taken /\ tokens' = tokens
      /\ (stage' = "lex" => stage = "lex")
  BY DEF lexVars, parseVars, Lexing
<1>2. Handed' = Handed /\ Starts' = Starts
  BY <1>1, SameSource DEF Handed
<1>3. LexerInv'
  <2>1. /\ at' \in 1 .. Len(source') + 1 /\ Boundary(at)'
        /\ StartsBefore(at)' = IF Len(Handed') <= Cardinality(Starts') THEN Len(Handed') ELSE Cardinality(Starts')
        /\ \A k \in 1 .. Len(Handed') : Handed'[k] = Expected(k)'
    BY <1>1, <1>2, OrderKept
  <2>. QED
    BY <1>1, <1>2, <2>1 DEF LexerInv
<1>4. TokensEnd'
  BY <1>1, <1>2 DEF TokensEnd, Lexing, parseVars
<1>. QED
  BY <1>3, <1>4

\* The parser proper works on the tokens it has.
LEMMA Parses ==
  ASSUME \/ ParseDirective \/ LabelDefinition \/ SkipToken \/ ParseInstruction
         \/ ParseOperand \/ NoOperand \/ Throw \/ Comma \/ EndOfFile
  PROVE  ~Lexing /\ ~Lexing' /\ UNCHANGED <<lexVars, tokens>>
<1>1. CASE ParseDirective
  BY <1>1 DEF ParseDirective, AtTop, Lexing
<1>2. CASE LabelDefinition
  BY <1>2 DEF LabelDefinition, AtTop, Lexing
<1>3. CASE SkipToken
  BY <1>3 DEF SkipToken, AtTop, Lexing
<1>4. CASE ParseInstruction
  BY <1>4 DEF ParseInstruction, AtTop, Lexing
<1>5. CASE ParseOperand
  BY <1>5 DEF ParseOperand, Lexing
<1>6. CASE NoOperand
  BY <1>6 DEF NoOperand, Lexing
<1>7. CASE Throw
  BY <1>7 DEF Throw, Lexing
<1>8. CASE Comma
  BY <1>8 DEF Comma, Lexing
<1>9. CASE EndOfFile
  BY <1>9 DEF EndOfFile, Lexing
<1>. QED
  BY <1>1, <1>2, <1>3, <1>4, <1>5, <1>6, <1>7, <1>8, <1>9

\* Every step keeps what is known of the lexer and of the tokens.
LEMMA LexerKept ==
  ASSUME LexerInv, TokensEnd, [Next]_vars
  PROVE  LexerInv' /\ TokensEnd'
<1>1. CASE PeekFirst \/ ConsumeFirst
  BY <1>1, LexerReads
<1>2. CASE TokenizeAll
  BY <1>2, LexerTokenizes
<1>3. CASE Construct
  BY <1>3, LexerRests DEF Construct
<1>4. CASE \/ ParseDirective \/ LabelDefinition \/ SkipToken \/ ParseInstruction
           \/ ParseOperand \/ NoOperand \/ Throw \/ Comma \/ EndOfFile
  BY <1>4, Parses, LexerRests
<1>5. CASE UNCHANGED <<lexVars, parseVars>>
  <2>1. UNCHANGED <<lexVars, tokens>> /\ UNCHANGED parseVars
    BY <1>5 DEF parseVars
  <2>. QED
    BY <2>1, LexerRests
<1>6. CASE Assemble \/ Encode \/ UNCHANGED vars
  <2>1. UNCHANGED <<lexVars, parseVars>>
    BY <1>6 DEF Assemble, Encode, vars
  <2>. QED
    BY <1>5, <2>1
<1>. QED
  BY <1>1, <1>2, <1>3, <1>4, <1>6 DEF Next, Parse, ParseNext

LEMMA LexerInvariance == Spec => [](LexerInv /\ TokensEnd)
<1>1. Init => LexerInv /\ TokensEnd
  BY LexerStarts DEF Init
<1>2. LexerInv /\ TokensEnd /\ [Next]_vars => LexerInv' /\ TokensEnd'
  BY LexerKept
<1>. QED
  BY <1>1, <1>2, PTL DEF Spec

\* However next, peek and consume are mixed before the parser takes over, every
\* token of the source is handed out once, in order, whatever the source.
THEOREM TokensTheorem == Spec => []TokensInOrder
<1>1. LexerInv /\ TokensEnd => TokensInOrder
  <2>. SUFFICES ASSUME LexerInv, TokensEnd PROVE TokensInOrder
    OBVIOUS
  <2>1. taken \in Seq(Token) /\ tokens \in Seq(Token) /\ peeked \in Seq(Token)
    BY DEF LexerInv
  <2>2. DOMAIN Handed = 1 .. Len(Handed)
    BY <2>1 DEF Handed
  <2>3. stage = "parsed" => Len(Handed) > Cardinality(Starts)
    BY DEF TokensEnd, Lexing
  <2>. QED
    BY <2>2, <2>3 DEF TokensInOrder, LexerInv
<1>. QED
  BY <1>1, LexerInvariance, PTL

-----------------------------------------------------------------------------
(* The parser's tokens.                                                    *)

\* Every name is_opcode knows is one opcode_from_string knows.
LEMMA KnownOpcodes ==
  ASSUME NEW s \in OpcodeNames
  PROVE  s \in DOMAIN OpcodeOf /\ OpcodeFromString(s) = OpcodeOf[s]
<1>1. \E row \in OpcodeTable : row[1] = s
  BY DEF OpcodeNames, OpcodeTable
<1>2. DOMAIN OpcodeOf = {row[1] : row \in OpcodeTable}
  BY DEF OpcodeOf
<1>. QED
  BY <1>1, <1>2 DEF OpcodeFromString

\* current() and peek_next() see the tokens up to the end of the file, then that.
LEMMA Seen ==
  ASSUME LexerInv, TokensEnd, ~Lexing
  PROVE  /\ tokens \in Seq(Token) /\ Len(tokens) \in Nat \ {0}
         /\ \A i \in 1 .. Len(tokens) : TypeAt(i) = tokens[i].type
         /\ \A i \in Nat \ {0} : TypeAt(i) = "END_OF_FILE" <=> i >= Len(tokens)
<1>1. tokens \in Seq(Token) /\ Len(tokens) > 0
      /\ \A i \in 1 .. Len(tokens) : tokens[i].type = "END_OF_FILE" <=> i = Len(tokens)
  BY DEF LexerInv, TokensEnd
<1>2. \A i \in 1 .. Len(tokens) : TypeAt(i) = tokens[i].type
  BY DEF TypeAt, Clamped
<1>3. \A i \in Nat : i >= Len(tokens) => TypeAt(i) = tokens[Len(tokens)].type
  BY <1>1 DEF TypeAt, Clamped
<1>4. Len(tokens) \in 1 .. Len(tokens)
  BY <1>1
<1>5. \A i \in Nat \ {0} : TypeAt(i) = "END_OF_FILE" <=> i >= Len(tokens)
  <2>1. TAKE i \in Nat \ {0}
  <2>2. CASE i >= Len(tokens)
    BY <1>1, <1>3, <1>4, <2>2
  <2>3. CASE i < Len(tokens)
    <3>1. i \in 1 .. Len(tokens) /\ i # Len(tokens)
      BY <1>1, <2>3
    <3>. QED
      BY <1>1, <1>2, <2>3, <3>1
  <2>. QED
    BY <1>1, <2>2, <2>3
<1>. QED
  BY <1>1, <1>2, <1>5

\* What the tokens tell stays what it is while they do.
LEMMA SameTokens ==
  ASSUME tokens' = tokens
  PROVE  /\ \A i : TypeAt(i)' = TypeAt(i) /\ OpcodesBefore(i)' = OpcodesBefore(i)
         /\ \A i, types : Behinds(i, types)' <=> Behinds(i, types)
         /\ \A n : Definitions(n)' = Definitions(n) /\ Kept(n)' = Kept(n)
         /\ \A p, m : (ListsJust(p, m)' <=> ListsJust(p, m)) /\ AtomsBehind(p, m)' = AtomsBehind(p, m)
         /\ TypesAt({"OPCODE"})' = TypesAt({"OPCODE"})
<1>1. \A i : TypeAt(i)' = TypeAt(i)
  BY DEF TypeAt, Clamped
<1>2. TypesAt({"OPCODE"})' = TypesAt({"OPCODE"})
  BY DEF TypesAt
<1>3. \A i : OpcodesBefore(i)' = OpcodesBefore(i)
  BY <1>2 DEF OpcodesBefore
<1>4. \A i, types : Behinds(i, types)' <=> Behinds(i, types)
  BY DEF Behinds
<1>5. \A n : Definitions(n)' = Definitions(n)
  BY <1>1 DEF Definitions, DefinesLabel
<1>6. \A n : Kept(n)' = Kept(n)
  BY <1>5, <1>4 DEF Kept
<1>7. \A i : OperandAt(i)' = OperandAt(i)
  BY <1>1 DEF OperandAt
<1>8. \A p, m : AtomsBehind(p, m)' = AtomsBehind(p, m)
  BY <1>7 DEF AtomsBehind
<1>9. \A p, m : ListsJust(p, m)' <=> ListsJust(p, m)
  BY <1>1 DEF ListsJust, StartsOperand
<1>. QED
  BY <1>1, <1>2, <1>3, <1>4, <1>5, <1>6, <1>8, <1>9

\* A token adds itself to the opcodes in front of what is behind it.
LEMMA OpcodesPassed ==
  ASSUME tokens \in Seq(Token), NEW i \in 1 .. Len(tokens)
  PROVE  /\ OpcodesBefore(i) \in Nat
         /\ tokens[i].type = "OPCODE" => OpcodesBefore(i + 1) = OpcodesBefore(i) + 1
         /\ tokens[i].type # "OPCODE" => OpcodesBefore(i + 1) = OpcodesBefore(i)
<1>. DEFINE S == TypesAt({"OPCODE"})
            below(x) == {j \in S : j < x}
<1>1. Len(tokens) \in Nat /\ S \in SUBSET (1 .. Len(tokens)) /\ (i \in S <=> tokens[i].type = "OPCODE")
  BY DEF TypesAt
<1>2. IsFiniteSet(S) /\ IsFiniteSet(below(i)) /\ Cardinality(below(i)) \in Nat
  <2>1. IsFiniteSet(1 .. Len(tokens))
    BY <1>1, FS_Interval
  <2>2. IsFiniteSet(S) /\ below(i) \subseteq S
    BY <1>1, <2>1, FS_Subset
  <2>3. IsFiniteSet(below(i))
    BY <2>2, FS_Subset
  <2>. QED
    BY <2>2, <2>3, FS_CardinalityType
<1>3. \A j \in S : j < i + 1 <=> j < i \/ j = i
  BY <1>1
<1>4. CASE i \in S
  <2>1. below(i + 1) = below(i) \union {i}
    BY <1>3, <1>4, Zenon
  <2>2. i \notin below(i)
    BY <1>1
  <2>3. Cardinality(below(i + 1)) = Cardinality(below(i)) + 1
    BY <1>2, <2>1, <2>2, FS_AddElement
  <2>. QED
    BY <1>1, <1>2, <1>4, <2>3 DEF OpcodesBefore
<1>5. CASE i \notin S
  <2>1. below(i + 1) = below(i)
    BY <1>3, <1>5, Zenon
  <2>2. OpcodesBefore(i + 1) = OpcodesBefore(i) /\ OpcodesBefore(i) \in Nat
    BY <1>2, <2>1, Zenon DEF OpcodesBefore
  <2>. QED
    BY <1>1, <1>5, <2>2
<1>. QED
  BY <1>4, <1>5

\* Tokens that are no opcodes add nothing.
LEMMA NoOpcodePassed ==
  ASSUME tokens \in Seq(Token), NEW i \in 1 .. Len(tokens), NEW e \in i .. Len(tokens),
         \A j \in i .. e - 1 : tokens[j].type # "OPCODE"
  PROVE  OpcodesBefore(e) = OpcodesBefore(i)
<1>1. \A j \in TypesAt({"OPCODE"}) : j < e <=> j < i
  BY DEF TypesAt
<1>2. {j \in TypesAt({"OPCODE"}) : j < e} = {j \in TypesAt({"OPCODE"}) : j < i}
  BY <1>1, Zenon
<1>. QED
  BY <1>2 DEF OpcodesBefore

\* An operand takes a bracket with what belongs to an address, or one token.
LEMMA MemoryTakes ==
  ASSUME LexerInv, TokensEnd, ~Lexing, NEW i \in 1 .. Len(tokens), TypeAt(i) = "LBRACKET"
  PROVE  /\ BehindMemory(i) \in i + 1 .. Len(tokens) /\ OffsetAt(i) \in i + 1 .. BehindMemory(i)
         /\ TypeAt(OffsetAt(i)) = "IMMEDIATE" => OffsetAt(i) < BehindMemory(i)
         /\ \A j \in i .. BehindMemory(i) - 1 :
              tokens[j].type \in {"LBRACKET", "REGISTER", "PLUS", "IMMEDIATE", "RBRACKET"}
<1>. DEFINE Inside == {"LBRACKET", "REGISTER", "PLUS", "IMMEDIATE", "RBRACKET"}
<1>1. /\ Len(tokens) \in Nat
      /\ \A j \in Nat \ {0} : TypeAt(j) \in Inside => j < Len(tokens) /\ tokens[j].type \in Inside
  <2>1. /\ Len(tokens) \in Nat
        /\ \A j \in 1 .. Len(tokens) : TypeAt(j) = tokens[j].type
        /\ \A j \in Nat \ {0} : TypeAt(j) = "END_OF_FILE" <=> j >= Len(tokens)
    BY Seen
  <2>. QED
    BY <2>1
<1>2. i \in Nat \ {0} /\ i < Len(tokens) /\ tokens[i].type \in Inside
  BY <1>1
<1>. HIDE DEF Inside
<1>3. /\ BehindBase(i) \in {i + 1, i + 2} /\ BehindBase(i) <= Len(tokens)
      /\ \A j \in i .. BehindBase(i) - 1 : tokens[j].type \in Inside
  <2>1. TypeAt(i + 1) = "REGISTER" => i + 1 < Len(tokens) /\ tokens[i + 1].type \in Inside
    BY <1>1, <1>2 DEF Inside
  <2>. QED
    BY <1>1, <1>2, <2>1 DEF BehindBase
<1>4. /\ OffsetAt(i) \in i + 1 .. Len(tokens)
      /\ \A j \in i .. OffsetAt(i) - 1 : tokens[j].type \in Inside
  <2>. DEFINE b == BehindBase(i)
  <2>1. TypeAt(b) = "PLUS" => b < Len(tokens) /\ tokens[b].type \in Inside
    BY <1>1, <1>2, <1>3 DEF Inside
  <2>. QED
    BY <1>1, <1>2, <1>3, <2>1 DEF OffsetAt
<1>5. /\ BehindOffset(i) \in OffsetAt(i) .. Len(tokens)
      /\ TypeAt(OffsetAt(i)) = "IMMEDIATE" => OffsetAt(i) < BehindOffset(i)
      /\ \A j \in i .. BehindOffset(i) - 1 : tokens[j].type \in Inside
  <2>. DEFINE b == OffsetAt(i)
  <2>1. TypeAt(b) = "IMMEDIATE" => b < Len(tokens) /\ tokens[b].type \in Inside
    BY <1>1, <1>2, <1>4 DEF Inside
  <2>. QED
    BY <1>1, <1>2, <1>4, <2>1 DEF BehindOffset
<1>6. /\ BehindMemory(i) \in BehindOffset(i) .. Len(tokens)
      /\ \A j \in i .. BehindMemory(i) - 1 : tokens[j].type \in Inside
  <2>. DEFINE b == BehindOffset(i)
  <2>1. TypeAt(b) = "RBRACKET" => b < Len(tokens) /\ tokens[b].type \in Inside
    BY <1>1, <1>2, <1>4, <1>5 DEF Inside
  <2>. QED
    BY <1>1, <1>2, <1>4, <1>5, <2>1 DEF BehindMemory
<1>. QED
  BY <1>1, <1>2, <1>4, <1>5, <1>6 DEF Inside

LEMMA OperandTakes ==
  ASSUME LexerInv, TokensEnd, ~Lexing, NEW i \in 1 .. Len(tokens), StartsOperand(i)
  PROVE  /\ BehindOperand(i) \in i + 1 .. Len(tokens)
         /\ OpcodesBefore(BehindOperand(i)) = OpcodesBefore(i)
         /\ ~Behinds(BehindOperand(i), {"OPCODE", "COMMA", "DOT"})
         /\ \A j \in i + 1 .. BehindOperand(i) - 1 : tokens[j].type # "IDENTIFIER"
         /\ TypeAt(i) # "LBRACKET" => BehindOperand(i) = i + 1
<1>. DEFINE e == BehindOperand(i)
<1>1. /\ tokens \in Seq(Token) /\ Len(tokens) \in Nat \ {0} /\ TypeAt(i) = tokens[i].type
      /\ TypeAt(i) = "END_OF_FILE" <=> i >= Len(tokens)
  BY Seen
<1>2. /\ e \in i + 1 .. Len(tokens) /\ (TypeAt(i) # "LBRACKET" => e = i + 1)
      /\ \A j \in i .. e - 1 : \/ tokens[j].type \in {"LBRACKET", "REGISTER", "PLUS", "IMMEDIATE", "RBRACKET"}
                               \/ j = i /\ tokens[j].type = "IDENTIFIER"
  <2>1. CASE TypeAt(i) = "LBRACKET"
    BY <2>1, MemoryTakes DEF BehindOperand
  <2>2. CASE TypeAt(i) # "LBRACKET"
    <3>1. e = i + 1 /\ i < Len(tokens)
      BY <1>1, <2>2 DEF BehindOperand, StartsOperand
    <3>. QED
      BY <1>1, <2>2, <3>1 DEF StartsOperand
  <2>. QED
    BY <2>1, <2>2
<1>. HIDE DEF e
<1>3. OpcodesBefore(e) = OpcodesBefore(i)
  <2>1. \A j \in i .. e - 1 : tokens[j].type # "OPCODE"
    BY <1>2
  <2>2. e \in i .. Len(tokens)
    BY <1>2
  <2>. QED
    BY <1>1, <2>1, <2>2, NoOpcodePassed
<1>4. ~Behinds(e, {"OPCODE", "COMMA", "DOT"})
  <2>1. e - 1 \in i .. e - 1
    BY <1>2
  <2>. QED
    BY <1>2, <2>1 DEF Behinds
<1>. QED
  BY <1>2, <1>3, <1>4 DEF e

\* What lies in front of an end and neither at a place nor from there to the end
\* lies in front of the place.
LEMMA Outside ==
  ASSUME NEW i \in Int, NEW p \in Int, NEW q \in Int, i < q, i # p, ~(i \in p + 1 .. q - 1)
  PROVE  i < p
OBVIOUS

\* A number becomes sixteen bits, a register number eight.
LEMMA Narrowed ==
  ASSUME NEW n \in Int
  PROVE  ToInt16(n) \in Short /\ RegId(n) \in 0 .. 255
<1>1. (n + 32768) % 65536 \in Int /\ 0 <= (n + 32768) % 65536 /\ (n + 32768) % 65536 < 65536
  OBVIOUS
<1>2. \A m \in Int : 0 <= m /\ m < 65536 => m - 32768 \in Short
  BY DEF Short
<1>3. ToInt16(n) \in Short
  BY <1>1, <1>2 DEF ToInt16
<1>4. RegId(n) \in 0 .. 255
  BY DEF RegId
<1>. QED
  BY <1>3, <1>4

\* An operand that does not throw is one.
LEMMA OperandRead ==
  ASSUME LexerInv, TokensEnd, ~Lexing, NEW i \in 1 .. Len(tokens), StartsOperand(i), ~Throws(i)
  PROVE  \A operand \in OperandsAt(i) : operand \in Operand
<1>1. /\ tokens \in Seq(Token) /\ Len(tokens) \in Nat \ {0}
      /\ \A j \in 1 .. Len(tokens) : TypeAt(j) = tokens[j].type
      /\ \A j \in Nat \ {0} : TypeAt(j) = "END_OF_FILE" <=> j >= Len(tokens)
  BY Seen
<1>2. /\ BehindOperand(i) \in i + 1 .. Len(tokens)
      /\ \A j \in i .. BehindOperand(i) - 1 : TypeAt(j) = "IMMEDIATE" => tokens[j].value # NaN
  BY OperandTakes DEF Throws
<1>3. \A j \in 1 .. Len(tokens) :
        /\ tokens[j].type = "REGISTER" => tokens[j].number \in Int
        /\ tokens[j].type = "IDENTIFIER" => tokens[j].text \in Word
        /\ tokens[j].type = "IMMEDIATE" => tokens[j].value \in Int \union {NaN}
  BY <1>1 DEF Token
<1>4. CASE TypeAt(i) = "LBRACKET"
  <2>1. OffsetAt(i) \in i + 1 .. Len(tokens) /\ BehindOperand(i) = BehindMemory(i)
        /\ (TypeAt(OffsetAt(i)) = "IMMEDIATE" => OffsetAt(i) < BehindMemory(i))
    BY <1>2, <1>4, MemoryTakes DEF BehindOperand
  <2>2. OffsetsAt(i) \subseteq Short
    <3>1. TypeAt(OffsetAt(i)) = "IMMEDIATE" => tokens[OffsetAt(i)].value \in Int
      BY <1>1, <1>2, <1>3, <2>1
    <3>2. TypeAt(OffsetAt(i)) = "IMMEDIATE" => ToInt16(tokens[OffsetAt(i)].value) \in Short
      BY <3>1, Narrowed, Zenon
    <3>. QED
      BY <3>2, ParserAssumption, Zenon DEF OffsetsAt, ParserAssumption
  <2>3. BasesAt(i) \subseteq 0 .. 255
    <3>1. TypeAt(i + 1) = "REGISTER" => tokens[i + 1].number \in Int
      <4>1. TypeAt(i + 1) = "REGISTER" => i + 1 \in 1 .. Len(tokens)
        BY <1>1
      <4>. QED
        BY <1>1, <1>3, <4>1
    <3>2. TypeAt(i + 1) = "REGISTER" => RegId(tokens[i + 1].number) \in 0 .. 255
      BY <3>1, Narrowed, Zenon
    <3>. QED
      BY <3>2, ParserAssumption, Zenon DEF BasesAt, ParserAssumption
  <2>4. MemoriesAt(i) \subseteq [type : {"MEM"}, base : 0 .. 255, offset : Short]
    BY <2>2, <2>3 DEF MemoriesAt
  <2>. QED
    BY <1>4, <2>4 DEF OperandsAt, Operand
<1>5. CASE TypeAt(i) = "REGISTER"
  <2>1. RegId(tokens[i].number) \in 0 .. 255
    BY <1>1, <1>3, <1>5, Narrowed
  <2>. QED
    BY <1>5, <2>1 DEF OperandAt, OperandsAt, Operand
<1>6. CASE TypeAt(i) = "IMMEDIATE"
  <2>1. tokens[i].value \in Int
    BY <1>1, <1>2, <1>3, <1>6
  <2>. QED
    BY <1>6, <2>1 DEF OperandAt, OperandsAt, Operand
<1>7. CASE TypeAt(i) = "IDENTIFIER"
  <2>1. tokens[i].text \in Word
    BY <1>1, <1>3, <1>7
  <2>. QED
    BY <1>7, <2>1 DEF OperandAt, OperandsAt, Operand
<1>. QED
  BY <1>4, <1>5, <1>6, <1>7 DEF StartsOperand

-----------------------------------------------------------------------------
(* Where the parser is.                                                    *)

\* PlaceInv behind a step, told with the tokens of before.
LEMMA Placed ==
  ASSUME tokens' = tokens, insts' \in Seq(Inst),
         pos' \in 1 .. Len(tokens), Len(insts') = OpcodesBefore(pos'),
         stage' = "operand" => Behinds(pos', {"OPCODE", "COMMA"}),
         stage' = "list" => ~Behinds(pos', {"OPCODE", "COMMA", "DOT"}),
         stage' = "top" /\ TypeAt(pos') = "IDENTIFIER" => ~Behinds(pos', {"OPCODE", "DOT"}),
         stage' = "parsed" => pos' = Len(tokens)
  PROVE  PlaceInv'
<1>1. OpcodesBefore(pos)' = OpcodesBefore(pos')
  BY SameTokens DEF OpcodesBefore
<1>2. /\ Behinds(pos, {"OPCODE", "COMMA"})' <=> Behinds(pos', {"OPCODE", "COMMA"})
      /\ Behinds(pos, {"OPCODE", "COMMA", "DOT"})' <=> Behinds(pos', {"OPCODE", "COMMA", "DOT"})
      /\ Behinds(pos, {"OPCODE", "DOT"})' <=> Behinds(pos', {"OPCODE", "DOT"})
  BY DEF Behinds
<1>3. TypeAt(pos)' = TypeAt(pos')
  BY DEF TypeAt, Clamped
<1>. QED
  BY <1>1, <1>2, <1>3 DEF PlaceInv

\* The parser starts in front of the first token.
LEMMA ParserStarts ==
  ASSUME LexerInv, TokensEnd, TokenizeAll, ~Lexing'
  PROVE  PlaceInv' /\ LabelsInv' /\ InstsInv'
<1>1. /\ stage' = "top" /\ pos' = 1 /\ insts' = <<>> /\ labels' = <<>>
      /\ tokens' \in Seq(Token) /\ Len(tokens') > 0
  <2>1. LexerInv' /\ TokensEnd'
    BY LexerTokenizes
  <2>2. pos = 1 /\ insts = <<>> /\ labels = <<>>
    BY DEF TokensEnd, TokenizeAll, Lexing
  <2>. QED
    BY <2>1, <2>2 DEF LexerInv, TokensEnd, TokenizeAll, Lexing
<1>2. Len(tokens') \in Nat \ {0}
  BY <1>1
<1>3. OpcodesBefore(pos)' = 0
  <2>1. \A j \in TypesAt({"OPCODE"})' : ~(j < 1)
    BY <1>1 DEF TypesAt
  <2>2. {j \in TypesAt({"OPCODE"})' : j < 1} = {}
    BY <2>1, Zenon
  <2>3. OpcodesBefore(pos)' = Cardinality({})
    BY <1>1, <2>2, Zenon DEF OpcodesBefore
  <2>. QED
    BY <2>3, FS_EmptySet
<1>4. PlaceInv'
  <2>1. ~Behinds(pos, {"OPCODE", "DOT"})'
    BY <1>1 DEF Behinds
  <2>. QED
    BY <1>1, <1>2, <1>3, <2>1 DEF PlaceInv
<1>5. LabelsInv'
  <2>1. DOMAIN labels' = {}
    BY <1>1
  <2>2. \A n : \A i \in Kept(n)' : ~(i < pos')
    BY <1>1 DEF Kept, Definitions
  <2>. QED
    BY <2>1, <2>2 DEF LabelsInv
<1>6. InstsInv'
  BY <1>1 DEF InstsInv
<1>. QED
  BY <1>4, <1>5, <1>6

\* An instruction with one more operand is an instruction.
LEMMA Longer ==
  ASSUME NEW r \in Inst, NEW x \in Operand
  PROVE  /\ WithOperand(r, x) \in Inst /\ WithOperand(r, x).opcode = r.opcode
         /\ WithOperand(r, x).operands = Append(r.operands, x)
<1>1. PICK K : Inst = [opcode : K, operands : Seq(Operand)]
  BY Zenon DEF Inst
<1>2. r = [opcode |-> r.opcode, operands |-> r.operands] /\ r.operands \in Seq(Operand)
  BY <1>1
<1>3. Append(r.operands, x) \in Seq(Operand)
  BY <1>2
<1>. QED
  BY <1>1, <1>2, <1>3 DEF WithOperand

\* The operand becomes one of the last instruction.
LEMMA Added ==
  ASSUME insts \in Seq(Inst), NEW x \in Operand,
         insts' = [insts EXCEPT ![Len(insts)] = WithOperand(@, x)]
  PROVE  /\ insts' \in Seq(Inst) /\ Len(insts') = Len(insts)
         /\ \A k \in 1 .. Len(insts) :
              /\ k # Len(insts) => insts'[k] = insts[k]
              /\ insts'[k].opcode = insts[k].opcode
              /\ k = Len(insts) => insts'[k].operands = Append(insts[k].operands, x)
<1>1. CASE Len(insts) \in 1 .. Len(insts)
  <2>. DEFINE last == WithOperand(insts[Len(insts)], x)
  <2>1. insts[Len(insts)] \in Inst
    BY <1>1
  <2>2. /\ last \in Inst /\ last.opcode = insts[Len(insts)].opcode
        /\ last.operands = Append(insts[Len(insts)].operands, x)
    BY <2>1, Longer
  <2>3. insts' = [insts EXCEPT ![Len(insts)] = last]
    OBVIOUS
  <2>. HIDE DEF last
  <2>4. /\ insts' \in Seq(Inst) /\ Len(insts') = Len(insts)
        /\ \A k \in 1 .. Len(insts) : insts'[k] = IF k = Len(insts) THEN last ELSE insts[k]
    BY <1>1, <2>2, <2>3, ExceptSeq
  <2>5. insts'[Len(insts)] = last
    BY <1>1, <2>4
  <2>6. ASSUME NEW k \in 1 .. Len(insts)
        PROVE  /\ k # Len(insts) => insts'[k] = insts[k]
               /\ insts'[k].opcode = insts[k].opcode
               /\ k = Len(insts) => insts'[k].operands = Append(insts[k].operands, x)
    <3>1. CASE k = Len(insts)
      BY <2>2, <2>5, <3>1, Zenon
    <3>2. CASE k # Len(insts)
      BY <2>4, <3>2, Zenon
    <3>. QED
      BY <3>1, <3>2
  <2>. QED
    BY <2>4, <2>6, Zenon
<1>2. CASE insts = <<>>
  <2>1. insts' = insts
    BY <1>2
  <2>2. \A k \in 1 .. Len(insts) : FALSE
    BY <1>2
  <2>. QED
    BY <2>1, <2>2, Zenon
<1>3. Len(insts) \in 1 .. Len(insts) \/ insts = <<>>
  OBVIOUS
<1>. QED
  BY <1>1, <1>2, <1>3

\* Every step of the parser leaves it where PlaceInv says.
LEMMA PlaceKept ==
  ASSUME LexerInv, TokensEnd, ~Lexing, PlaceInv,
         \/ ParseDirective \/ LabelDefinition \/ SkipToken \/ ParseInstruction
         \/ ParseOperand \/ NoOperand \/ Throw \/ Comma \/ EndOfFile
  PROVE  PlaceInv'
<1>1. /\ tokens' = tokens /\ tokens \in Seq(Token) /\ Len(tokens) \in Nat \ {0}
      /\ \A i \in 1 .. Len(tokens) : TypeAt(i) = tokens[i].type
      /\ \A i \in Nat \ {0} : TypeAt(i) = "END_OF_FILE" <=> i >= Len(tokens)
  BY Parses, Seen
<1>2. /\ pos \in 1 .. Len(tokens) /\ insts \in Seq(Inst) /\ Len(insts) = OpcodesBefore(pos)
      /\ pos + 1 \in Nat \ {0} /\ pos + 2 \in Nat \ {0}
  BY DEF PlaceInv
<1>3. \A i \in 1 .. Len(tokens) :
        /\ OpcodesBefore(i) \in Nat
        /\ tokens[i].type = "OPCODE" => OpcodesBefore(i + 1) = OpcodesBefore(i) + 1
        /\ tokens[i].type # "OPCODE" => OpcodesBefore(i + 1) = OpcodesBefore(i)
  BY <1>1, OpcodesPassed
<1>4. CASE ParseDirective
  <2>1. /\ TypeAt(pos) = "DOT" /\ insts' = insts /\ stage' = "top" /\ pos < Len(tokens)
        /\ pos' = IF TypeAt(pos + 1) = "IDENTIFIER" THEN pos + 2 ELSE pos + 1
    BY <1>1, <1>2, <1>4 DEF ParseDirective, AtTop
  <2>2. OpcodesBefore(pos + 1) = OpcodesBefore(pos) /\ pos + 1 \in 1 .. Len(tokens)
    BY <1>1, <1>2, <1>3, <2>1
  <2>3. CASE TypeAt(pos + 1) = "IDENTIFIER"
    <3>1. pos' = pos + 2 /\ pos + 2 \in 1 .. Len(tokens) /\ tokens[pos + 1].type = "IDENTIFIER"
          /\ (pos + 1) + 1 = pos + 2
      BY <1>1, <1>2, <2>1, <2>2, <2>3
    <3>2. OpcodesBefore(pos + 2) = OpcodesBefore(pos + 1)
      BY <1>3, <2>2, <3>1
    <3>3. ~Behinds(pos + 2, {"OPCODE", "DOT"})
      <4>1. (pos + 2) - 1 = pos + 1
        BY <1>2
      <4>. QED
        BY <3>1, <4>1 DEF Behinds
    <3>. QED
      BY <1>1, <1>2, <2>1, <2>2, <3>1, <3>2, <3>3, Placed
  <2>4. CASE TypeAt(pos + 1) # "IDENTIFIER"
    BY <1>1, <1>2, <2>1, <2>2, <2>4, Placed
  <2>. QED
    BY <2>3, <2>4
<1>5. CASE LabelDefinition
  <2>1. /\ TypeAt(pos) = "IDENTIFIER" /\ TypeAt(pos + 1) = "LABEL_DEF"
        /\ insts' = insts /\ stage' = "top" /\ pos' = pos + 2
    BY <1>5 DEF LabelDefinition, AtTop, DefinesLabel
  <2>2. pos + 1 \in 1 .. Len(tokens) /\ pos + 2 \in 1 .. Len(tokens)
        /\ (pos + 1) + 1 = pos + 2 /\ (pos + 2) - 1 = pos + 1
    BY <1>1, <1>2, <2>1
  <2>3. OpcodesBefore(pos + 1) = OpcodesBefore(pos) /\ OpcodesBefore(pos + 2) = OpcodesBefore(pos + 1)
    BY <1>1, <1>2, <1>3, <2>1, <2>2
  <2>4. ~Behinds(pos + 2, {"OPCODE", "DOT"})
    BY <1>1, <2>1, <2>2 DEF Behinds
  <2>. QED
    BY <1>1, <1>2, <2>1, <2>2, <2>3, <2>4, Placed
<1>6. CASE SkipToken
  <2>1. /\ TypeAt(pos) \notin {"DOT", "OPCODE"} /\ insts' = insts /\ stage' = "top" /\ pos' = pos + 1
        /\ pos < Len(tokens)
    BY <1>1, <1>2, <1>6 DEF SkipToken, AtTop
  <2>2. tokens[pos].type # "OPCODE" /\ pos + 1 \in 1 .. Len(tokens)
    BY <1>1, <1>2, <2>1
  <2>3. OpcodesBefore(pos + 1) = OpcodesBefore(pos)
    BY <1>2, <1>3, <2>2
  <2>4. ~Behinds(pos + 1, {"OPCODE", "DOT"})
    <3>1. (pos + 1) - 1 = pos
      BY <1>2
    <3>. QED
      BY <1>1, <1>2, <2>1, <3>1 DEF Behinds
  <2>. QED
    BY <1>1, <1>2, <2>1, <2>2, <2>3, <2>4, Placed
<1>7. CASE ParseInstruction
  <2>. DEFINE new == [opcode |-> OpcodeFromString(tokens[pos].text), operands |-> <<>>]
  <2>1. /\ TypeAt(pos) = "OPCODE" /\ insts' = Append(insts, new) /\ stage' = "operand"
        /\ pos' = pos + 1 /\ pos < Len(tokens)
    BY <1>1, <1>2, <1>7 DEF ParseInstruction, AtTop
  <2>2. new \in Inst
    <3>1. OpcodeFromString(tokens[pos].text) \in {OpcodeOf[s] : s \in DOMAIN OpcodeOf} \union {"UNKNOWN"}
      BY DEF OpcodeFromString
    <3>2. <<>> \in Seq(Operand)
      OBVIOUS
    <3>. QED
      BY <3>1, <3>2, Zenon DEF Inst
  <2>. HIDE DEF new
  <2>3. insts' \in Seq(Inst) /\ Len(insts') = Len(insts) + 1
    BY <1>2, <2>1, <2>2
  <2>4. OpcodesBefore(pos + 1) = OpcodesBefore(pos) + 1 /\ pos + 1 \in 1 .. Len(tokens)
    BY <1>1, <1>2, <1>3, <2>1
  <2>5. Behinds(pos + 1, {"OPCODE", "COMMA"})
    <3>1. (pos + 1) - 1 = pos /\ pos + 1 > 1
      BY <1>2
    <3>. QED
      BY <1>1, <1>2, <2>1, <3>1 DEF Behinds
  <2>. QED
    BY <1>1, <1>2, <2>1, <2>3, <2>4, <2>5, Placed
<1>8. CASE ParseOperand
  <2>1. /\ stage = "operand" /\ StartsOperand(pos) /\ ~Throws(pos)
        /\ stage' = "list" /\ pos' = BehindOperand(pos)
    BY <1>8 DEF ParseOperand
  <2>2. /\ BehindOperand(pos) \in pos + 1 .. Len(tokens)
        /\ OpcodesBefore(BehindOperand(pos)) = OpcodesBefore(pos)
        /\ ~Behinds(BehindOperand(pos), {"OPCODE", "COMMA", "DOT"})
    BY <1>2, <2>1, OperandTakes
  <2>3. insts' \in Seq(Inst) /\ Len(insts') = Len(insts)
    <3>1. PICK operand \in OperandsAt(pos) :
            insts' = [insts EXCEPT ![Len(insts)] = WithOperand(@, operand)]
      BY <1>8 DEF ParseOperand
    <3>2. operand \in Operand
      BY <1>2, <2>1, OperandRead
    <3>. QED
      BY <1>2, <2>1, <3>1, <3>2, Added
  <2>4. pos' \in 1 .. Len(tokens)
    BY <1>2, <2>1, <2>2
  <2>. QED
    BY <1>1, <1>2, <2>1, <2>2, <2>3, <2>4, Placed
<1>9. CASE NoOperand
  <2>1. stage' = "top" /\ pos' = pos /\ insts' = insts /\ TypeAt(pos) # "IDENTIFIER"
    BY <1>9 DEF NoOperand, StartsOperand
  <2>. QED
    BY <1>1, <1>2, <2>1, Placed
<1>10. CASE Throw
  <2>1. stage' = "threw" /\ pos' = pos /\ insts' = insts
    BY <1>10 DEF Throw
  <2>. QED
    BY <1>1, <1>2, <2>1, Placed
<1>11. CASE Comma
  <2>1. CASE TypeAt(pos) = "COMMA"
    <3>1. stage' = "operand" /\ pos' = pos + 1 /\ insts' = insts /\ pos < Len(tokens)
      BY <1>1, <1>2, <1>11, <2>1 DEF Comma
    <3>2. OpcodesBefore(pos + 1) = OpcodesBefore(pos) /\ pos + 1 \in 1 .. Len(tokens)
      BY <1>1, <1>2, <1>3, <2>1, <3>1
    <3>3. Behinds(pos + 1, {"OPCODE", "COMMA"})
      <4>1. (pos + 1) - 1 = pos /\ pos + 1 > 1
        BY <1>2
      <4>. QED
        BY <1>1, <1>2, <2>1, <4>1 DEF Behinds
    <3>. QED
      BY <1>1, <1>2, <3>1, <3>2, <3>3, Placed
  <2>2. CASE TypeAt(pos) # "COMMA"
    <3>1. stage = "list" /\ stage' = "top" /\ pos' = pos /\ insts' = insts
      BY <1>11, <2>2 DEF Comma
    <3>2. ~Behinds(pos, {"OPCODE", "DOT"})
      BY <3>1 DEF PlaceInv, Behinds
    <3>. QED
      BY <1>1, <1>2, <3>1, <3>2, Placed
  <2>. QED
    BY <2>1, <2>2
<1>12. CASE EndOfFile
  <2>1. stage' = "parsed" /\ pos' = pos /\ insts' = insts /\ TypeAt(pos) = "END_OF_FILE"
    BY <1>12 DEF EndOfFile
  <2>2. pos = Len(tokens)
    BY <1>1, <1>2, <2>1
  <2>. QED
    BY <1>1, <1>2, <2>1, <2>2, Placed
<1>. QED
  BY <1>4, <1>5, <1>6, <1>7, <1>8, <1>9, <1>10, <1>11, <1>12

-----------------------------------------------------------------------------
(* Labels.                                                                 *)

\* A definition that counts is an identifier with a colon, not behind an opcode,
\* a comma or a directive.
LEMMA KeptFacts ==
  ASSUME LexerInv, TokensEnd, ~Lexing, NEW n, NEW i \in Kept(n)
  PROVE  /\ i \in Definitions(n) /\ i \in 1 .. Len(tokens) /\ tokens[i].type = "IDENTIFIER"
         /\ tokens[i].text = n /\ DefinesLabel(i)
         /\ i > 1 => tokens[i - 1].type \notin {"OPCODE", "COMMA", "DOT"}
<1>1. i \in Definitions(n) /\ ~Behinds(i, {"OPCODE", "COMMA", "DOT"})
  BY DEF Kept
<1>2. i \in 1 .. Len(tokens) /\ DefinesLabel(i) /\ tokens[i].text = n
  <2>1. tokens \in Seq(Token)
    BY DEF LexerInv
  <2>. QED
    BY <1>1, <2>1 DEF Definitions
<1>3. tokens[i].type = "IDENTIFIER"
  BY <1>2, Seen DEF DefinesLabel
<1>. QED
  BY <1>1, <1>2, <1>3 DEF Behinds

\* Passing none that counts keeps the labels.
LEMMA NonePassed ==
  ASSUME LabelsInv, tokens' = tokens, labels' = labels, pos \in Nat, pos' \in Nat, pos <= pos',
         \A n \in Word : \A i \in Definitions(n) : i \in Nat,
         \A n \in Word : \A i \in Kept(n) : i < pos' => i < pos
  PROVE  LabelsInv'
<1>1. \A n : Definitions(n)' = Definitions(n) /\ Kept(n)' = Kept(n)
  BY SameTokens
<1>2. \A i : OpcodesBefore(i)' = OpcodesBefore(i)
      /\ (Behinds(i, {"OPCODE", "DOT"})' <=> Behinds(i, {"OPCODE", "DOT"}))
  BY SameTokens
<1>3. DOMAIN labels' \subseteq Word
  BY DEF LabelsInv
<1>4. ASSUME NEW n \in Word, \E i \in Kept(n) : i < pos'
      PROVE  n \in DOMAIN labels
  BY <1>4 DEF LabelsInv
<1>5. ASSUME NEW n \in Word, n \in DOMAIN labels
      PROVE  \E i \in Definitions(n) :
               /\ i < pos' /\ labels[n] = OpcodesBefore(i)
               /\ ~Behinds(i, {"OPCODE", "DOT"})
               /\ \A j \in Kept(n) : j < pos' => j <= i
  <2>1. PICK i \in Definitions(n) :
          /\ i < pos /\ labels[n] = OpcodesBefore(i)
          /\ ~Behinds(i, {"OPCODE", "DOT"})
          /\ \A j \in Kept(n) : j < pos => j <= i
    BY <1>5 DEF LabelsInv
  <2>2. i < pos'
    BY <2>1
  <2>3. \A j \in Kept(n) : j < pos' => j <= i
    BY <2>1
  <2>. QED
    BY <2>1, <2>2, <2>3
<1>. QED
  BY <1>1, <1>2, <1>3, <1>4, <1>5 DEF LabelsInv

\* A definition that the parser comes to takes over the name.
LEMMA LabelTaken ==
  ASSUME LexerInv, TokensEnd, ~Lexing, PlaceInv, LabelsInv, LabelDefinition
  PROVE  LabelsInv'
<1>. DEFINE name == tokens[pos].text
<1>1. /\ tokens' = tokens /\ tokens \in Seq(Token) /\ Len(tokens) \in Nat \ {0}
      /\ \A i \in 1 .. Len(tokens) : TypeAt(i) = tokens[i].type
      /\ \A i \in Nat \ {0} : TypeAt(i) = "END_OF_FILE" <=> i >= Len(tokens)
  BY Parses, Seen
<1>2. /\ pos \in 1 .. Len(tokens) /\ Len(insts) = OpcodesBefore(pos)
      /\ stage = "top" /\ pos' = pos + 2 /\ labels' = WithLabel(name, Len(insts))
      /\ TypeAt(pos) = "IDENTIFIER" /\ TypeAt(pos + 1) = "LABEL_DEF" /\ DefinesLabel(pos)
      /\ ~Behinds(pos, {"OPCODE", "DOT"})
  BY DEF PlaceInv, LabelDefinition, AtTop, DefinesLabel
<1>3. pos + 1 \in 1 .. Len(tokens) /\ tokens[pos + 1].type = "LABEL_DEF" /\ pos \in Nat
  BY <1>1, <1>2
<1>4. name \in Word
  <2>1. tokens[pos] \in Token /\ tokens[pos].type = "IDENTIFIER"
    BY <1>1, <1>2
  <2>. QED
    BY <2>1 DEF Token
<1>5. /\ DOMAIN labels' = (DOMAIN labels) \union {name} /\ labels'[name] = Len(insts)
      /\ \A n \in DOMAIN labels : n # name => labels'[n] = labels[n]
  BY <1>2 DEF WithLabel
<1>6. \A n : \A i \in Kept(n) : i \in 1 .. Len(tokens) /\ (i < pos + 2 => i < pos \/ (i = pos /\ n = name))
  <2>1. TAKE n
  <2>2. TAKE i \in Kept(n)
  <2>3. i \in 1 .. Len(tokens) /\ tokens[i].type = "IDENTIFIER" /\ tokens[i].text = n
    BY KeptFacts
  <2>4. i # pos + 1 /\ (i = pos => n = name)
    BY <1>3, <2>3
  <2>5. i \in Nat /\ pos \in Nat
    BY <1>3, <2>3
  <2>. HIDE DEF name
  <2>6. i < pos + 2 => i < pos \/ i = pos \/ i = pos + 1
    BY <2>5
  <2>. QED
    BY <2>3, <2>4, <2>6, Zenon
<1>7. pos \in Definitions(name)
  BY <1>1, <1>2 DEF Definitions
<1>8. \A n : Definitions(n)' = Definitions(n) /\ Kept(n)' = Kept(n)
  BY <1>1, SameTokens
<1>9. \A i : OpcodesBefore(i)' = OpcodesBefore(i)
      /\ (Behinds(i, {"OPCODE", "DOT"})' <=> Behinds(i, {"OPCODE", "DOT"}))
  BY <1>1, SameTokens
<1>. HIDE DEF name
<1>10. ASSUME NEW n \in Word
       PROVE  /\ (\E i \in Kept(n) : i < pos') => n \in DOMAIN labels'
              /\ n \in DOMAIN labels' =>
                   \E i \in Definitions(n) :
                     /\ i < pos' /\ labels'[n] = OpcodesBefore(i)
                     /\ ~Behinds(i, {"OPCODE", "DOT"})
                     /\ \A j \in Kept(n) : j < pos' => j <= i
  <2>1. CASE n = name
    <3>1. \A j \in Kept(n) : j < pos + 2 => j <= pos
      BY <1>3, <1>6
    <3>2. pos < pos + 2
      BY <1>3
    <3>. QED
      BY <1>2, <1>5, <1>7, <2>1, <3>1, <3>2
  <2>2. CASE n # name
    <3>1. \A j \in Kept(n) : j < pos + 2 => j < pos
      BY <1>6, <2>2
    <3>2. (\E i \in Kept(n) : i < pos') => n \in DOMAIN labels'
      BY <1>2, <1>5, <3>1 DEF LabelsInv
    <3>3. ASSUME n \in DOMAIN labels'
          PROVE  \E i \in Definitions(n) :
                     /\ i < pos' /\ labels'[n] = OpcodesBefore(i)
                     /\ ~Behinds(i, {"OPCODE", "DOT"})
                     /\ \A j \in Kept(n) : j < pos' => j <= i
      <4>1. n \in DOMAIN labels /\ labels'[n] = labels[n]
        BY <1>5, <2>2, <3>3
      <4>2. PICK i \in Definitions(n) :
              /\ i < pos /\ labels[n] = OpcodesBefore(i)
              /\ ~Behinds(i, {"OPCODE", "DOT"})
              /\ \A j \in Kept(n) : j < pos => j <= i
        BY <4>1 DEF LabelsInv
      <4>3. i \in Nat
        BY <1>1 DEF Definitions
      <4>4. i < pos + 2
        BY <1>3, <4>2, <4>3
      <4>. QED
        BY <1>2, <3>1, <4>1, <4>2, <4>4
    <3>. QED
      BY <3>2, <3>3
  <2>. QED
    BY <2>1, <2>2
<1>11. DOMAIN labels' \subseteq Word
  BY <1>4, <1>5 DEF LabelsInv
<1>. QED
  BY <1>8, <1>9, <1>10, <1>11 DEF LabelsInv

\* No other step passes a definition that counts.
LEMMA LabelsKept ==
  ASSUME LexerInv, TokensEnd, ~Lexing, PlaceInv, LabelsInv,
         \/ ParseDirective \/ LabelDefinition \/ SkipToken \/ ParseInstruction
         \/ ParseOperand \/ NoOperand \/ Throw \/ Comma \/ EndOfFile
  PROVE  LabelsInv'
<1>1. /\ tokens' = tokens /\ tokens \in Seq(Token) /\ Len(tokens) \in Nat \ {0}
      /\ \A i \in 1 .. Len(tokens) : TypeAt(i) = tokens[i].type
  BY Parses, Seen
<1>2. pos \in 1 .. Len(tokens) /\ pos \in Nat
  BY <1>1 DEF PlaceInv
<1>3. \A n : \A i \in Definitions(n) : i \in Nat
  BY <1>1 DEF Definitions
<1>4. \A n : \A i \in Kept(n) :
        /\ i \in 1 .. Len(tokens) /\ tokens[i].type = "IDENTIFIER" /\ DefinesLabel(i)
        /\ i > 1 => tokens[i - 1].type \notin {"OPCODE", "COMMA", "DOT"}
  BY KeptFacts
<1>5. ASSUME labels' = labels, pos' = pos
      PROVE  LabelsInv'
  BY <1>1, <1>2, <1>3, <1>5, NonePassed
<1>6. ASSUME labels' = labels, pos' = pos + 1, ~DefinesLabel(pos)
      PROVE  LabelsInv'
  <2>1. \A n : \A i \in Kept(n) : i < pos' => i < pos
    BY <1>2, <1>4, <1>6
  <2>. QED
    BY <1>1, <1>2, <1>3, <1>6, <2>1, NonePassed
<1>7. CASE ParseDirective
  <2>1. labels' = labels /\ TypeAt(pos) = "DOT" /\ pos' \in {pos + 1, pos + 2} /\ ~DefinesLabel(pos)
    BY <1>7 DEF ParseDirective, DefinesLabel
  <2>2. \A n : \A i \in Kept(n) : i < pos' => i < pos
    <3>1. TAKE n
    <3>2. TAKE i \in Kept(n)
    <3>3. i # pos /\ i \in Nat
      BY <1>4, <2>1
    <3>4. i # pos + 1
      <4>1. i = pos + 1 => i > 1 /\ i - 1 = pos
        BY <1>2
      <4>. QED
        BY <1>1, <1>2, <1>4, <2>1, <4>1
    <3>. QED
      BY <1>2, <2>1, <3>3, <3>4
  <2>3. pos' \in Nat /\ pos <= pos'
    BY <1>2, <2>1
  <2>. QED
    BY <1>1, <1>2, <1>3, <2>1, <2>2, <2>3, NonePassed
<1>8. CASE LabelDefinition
  BY <1>8, LabelTaken
<1>9. CASE SkipToken
  BY <1>6, <1>9 DEF SkipToken
<1>10. CASE ParseInstruction
  BY <1>6, <1>10 DEF ParseInstruction, DefinesLabel
<1>11. CASE ParseOperand
  <2>1. labels' = labels /\ stage = "operand" /\ StartsOperand(pos) /\ pos' = BehindOperand(pos)
    BY <1>11 DEF ParseOperand
  <2>2. /\ pos' \in pos + 1 .. Len(tokens)
        /\ \A j \in pos + 1 .. pos' - 1 : tokens[j].type # "IDENTIFIER"
    BY <1>2, <2>1, OperandTakes
  <2>3. pos > 1 /\ tokens[pos - 1].type \in {"OPCODE", "COMMA"}
    BY <2>1 DEF PlaceInv, Behinds
  <2>4. \A n : \A i \in Kept(n) : i < pos' => i < pos
    <3>1. TAKE n
    <3>2. TAKE i \in Kept(n)
    <3>3. i # pos /\ i \in 1 .. Len(tokens)
      BY <1>4, <2>3
    <3>4. ~(i \in pos + 1 .. pos' - 1)
      BY <1>4, <2>2
    <3>5. i \in Int /\ pos \in Int /\ pos' \in Int
      BY <1>1, <1>2, <2>2, <3>3
    <3>6. HAVE i < pos'
    <3>. QED
      BY <3>3, <3>4, <3>5, <3>6, Outside, Zenon
  <2>5. pos' \in Nat /\ pos <= pos'
    BY <1>1, <1>2, <2>2
  <2>. QED
    BY <1>1, <1>2, <1>3, <2>1, <2>4, <2>5, NonePassed
<1>12. CASE NoOperand
  BY <1>5, <1>12 DEF NoOperand
<1>13. CASE Throw
  BY <1>5, <1>13 DEF Throw
<1>14. CASE Comma
  BY <1>5, <1>6, <1>14 DEF Comma, DefinesLabel
<1>15. CASE EndOfFile
  BY <1>5, <1>15 DEF EndOfFile
<1>. QED
  BY <1>7, <1>8, <1>9, <1>10, <1>11, <1>12, <1>13, <1>14, <1>15

-----------------------------------------------------------------------------
(* Operand lists.                                                          *)

\* One more atom behind the opcode at p.
LEMMA AtomAdded ==
  ASSUME NEW p \in Nat, NEW q \in Nat
  PROVE  AtomsBehind(p, q + 1) = Append(AtomsBehind(p, q), OperandAt(p + 2 * q + 1))
<1>. DEFINE f(j) == OperandAt(p + 2 * j - 1)
            S == {f(j) : j \in 1 .. q + 1}
            a == [j \in 1 .. q |-> f(j)]
            b == [j \in 1 .. q + 1 |-> f(j)]
<1>1. f(q + 1) = OperandAt(p + 2 * q + 1)
  <2>1. p + 2 * (q + 1) - 1 = p + 2 * q + 1
    OBVIOUS
  <2>. QED
    BY <2>1
<1>2. \A j \in 1 .. q + 1 : f(j) \in S
  OBVIOUS
<1>3. AtomsBehind(p, q) = a /\ AtomsBehind(p, q + 1) = b
  BY DEF AtomsBehind
<1>. HIDE DEF f, S
<1>4. a \in Seq(S) /\ Len(a) = q /\ \A j \in 1 .. q : a[j] = f(j)
  BY <1>2
<1>5. b \in Seq(S) /\ Len(b) = q + 1 /\ \A j \in 1 .. q + 1 : b[j] = f(j)
  BY <1>2
<1>. HIDE DEF a, b
<1>6. f(q + 1) \in S
  BY <1>2
<1>7. Append(a, f(q + 1)) \in Seq(S) /\ Len(Append(a, f(q + 1))) = q + 1
      /\ \A j \in 1 .. q + 1 : Append(a, f(q + 1))[j] = f(j)
  BY <1>4, <1>6
<1>8. b = Append(a, f(q + 1))
  BY <1>5, <1>7, SeqEqual
<1>. QED
  BY <1>1, <1>3, <1>8

\* A plain list of m operands, of which q are read in front of i.
LEMMA Listed ==
  ASSUME LexerInv, TokensEnd, ~Lexing,
         NEW p \in Nat \ {0}, NEW q \in Nat, NEW m \in Nat, NEW i \in 1 .. Len(tokens),
         i = p + 2 * q \/ i = p + 2 * q + 1,
         \A j \in 1 .. q : tokens[p + 2 * j - 1].type \in Atoms,
         \A j \in 1 .. q : p + 2 * j < i => tokens[p + 2 * j].type = "COMMA",
         ListsJust(p, m)
  PROVE  /\ m >= q /\ (m = q /\ q > 0 => i = p + 2 * q)
         /\ m > q => tokens[p + 2 * q + 1].type \in Atoms /\ p + 2 * q + 1 < Len(tokens)
         /\ m > q /\ q > 0 => tokens[p + 2 * q].type = "COMMA"
         /\ m = 0 => ~StartsOperand(p + 1)
<1>1. /\ Len(tokens) \in Nat \ {0}
      /\ \A j \in 1 .. Len(tokens) : TypeAt(j) = tokens[j].type
  BY Seen
<1>2. /\ p + 2 * m <= Len(tokens)
      /\ \A j \in 1 .. m : tokens[p + 2 * j - 1].type \in Atoms
      /\ \A j \in 1 .. m - 1 : tokens[p + 2 * j].type = "COMMA"
      /\ m # 0 => tokens[p + 2 * m].type # "COMMA"
      /\ m = 0 => ~StartsOperand(p + 1)
  BY Zenon DEF ListsJust
<1>3. ~(m = 0 /\ q > 0)
  <2>1. SUFFICES ASSUME m = 0, q > 0 PROVE FALSE
    OBVIOUS
  <2>2. p + 2 * 1 - 1 = p + 1 /\ 1 \in 1 .. q /\ p + 1 \in 1 .. Len(tokens)
    BY <1>1, <2>1
  <2>3. tokens[p + 1].type \in Atoms
    BY <2>2
  <2>. QED
    BY <1>1, <1>2, <2>1, <2>2, <2>3 DEF StartsOperand, Atoms
<1>4. ~(m > 0 /\ m < q)
  <2>1. SUFFICES ASSUME m > 0, m < q PROVE FALSE
    OBVIOUS
  <2>2. m \in 1 .. q /\ p + 2 * m < i
    BY <2>1
  <2>3. tokens[p + 2 * m].type = "COMMA"
    BY Zenon, <2>2
  <2>4. m # 0
    BY <2>1
  <2>. QED
    BY Zenon, <1>2, <2>3, <2>4
<1>5. m = q /\ q > 0 => i = p + 2 * q
  <2>1. SUFFICES ASSUME m = q, q > 0, i = p + 2 * q + 1 PROVE FALSE
    OBVIOUS
  <2>2. q \in 1 .. q /\ p + 2 * q < i
    BY <2>1
  <2>3. tokens[p + 2 * q].type = "COMMA"
    BY Zenon, <2>2
  <2>4. m # 0 /\ tokens[p + 2 * m].type = "COMMA"
    BY <2>1, <2>3
  <2>. QED
    BY Zenon, <1>2, <2>4
<1>6. m > q => tokens[p + 2 * q + 1].type \in Atoms /\ p + 2 * q + 1 < Len(tokens)
  <2>1. SUFFICES ASSUME m > q PROVE tokens[p + 2 * q + 1].type \in Atoms /\ p + 2 * q + 1 < Len(tokens)
    OBVIOUS
  <2>2. q + 1 \in 1 .. m /\ p + 2 * (q + 1) - 1 = p + 2 * q + 1 /\ p + 2 * q + 1 < p + 2 * m
    BY <2>1
  <2>3. tokens[p + 2 * q + 1].type \in Atoms
    BY <1>2, <2>2
  <2>. QED
    BY <1>1, <1>2, <2>2, <2>3
<1>7. m > q /\ q > 0 => tokens[p + 2 * q].type = "COMMA"
  <2>1. m > q /\ q > 0 => q \in 1 .. m - 1
    OBVIOUS
  <2>. QED
    BY <1>2, <2>1
<1>. QED
  BY <1>2, <1>3, <1>4, <1>5, <1>6, <1>7

\* An operand makes the list one longer, or no plain list.
LEMMA ReadsOperand ==
  ASSUME LexerInv, TokensEnd, ~Lexing, NEW p \in Nat \ {0}, NEW operands,
         NEW i \in 1 .. Len(tokens), StartsOperand(i), Reading(p, operands, i, FALSE),
         NEW operand \in OperandsAt(i)
  PROVE  Reading(p, Append(operands, operand), BehindOperand(i), TRUE)
<1>1. /\ Len(tokens) \in Nat \ {0} /\ TypeAt(i) = tokens[i].type
      /\ BehindOperand(i) \in i + 1 .. Len(tokens)
      /\ TypeAt(i) # "LBRACKET" => BehindOperand(i) = i + 1
  BY Seen, OperandTakes
<1>2. CASE \A m \in 0 .. 3 : ~ListsJust(p, m)
  BY <1>2 DEF Reading
<1>3. ASSUME NEW q \in 0 .. Len(tokens), operands = AtomsBehind(p, q), i = p + 2 * q + 1,
             \A j \in 1 .. q : tokens[p + 2 * j - 1].type \in Atoms,
             \A j \in 1 .. q : p + 2 * j < i => tokens[p + 2 * j].type = "COMMA"
      PROVE  Reading(p, Append(operands, operand), BehindOperand(i), TRUE)
  <2>1. q \in Nat
    BY <1>1
  <2>2. CASE TypeAt(i) = "LBRACKET"
    <3>1. ASSUME NEW m \in 0 .. 3, ListsJust(p, m) PROVE FALSE
      <4>1. m \in Nat
        OBVIOUS
      <4>2. /\ m >= q /\ (m = q /\ q > 0 => i = p + 2 * q)
            /\ m > q => tokens[p + 2 * q + 1].type \in Atoms
            /\ m = 0 => ~StartsOperand(p + 1)
        BY <1>3, <2>1, <3>1, <4>1, Listed
      <4>3. tokens[i].type \notin Atoms
        BY <1>1, <2>2 DEF Atoms
      <4>4. ~(m > q)
        BY <1>3, <4>2, <4>3
      <4>5. m = 0 /\ q = 0
        BY <1>3, <2>1, <4>1, <4>2, <4>4
      <4>6. i = p + 1
        BY <1>3, <4>5
      <4>. QED
        BY <4>2, <4>5, <4>6
    <3>. QED
      BY <3>1 DEF Reading
  <2>3. CASE TypeAt(i) # "LBRACKET"
    <3>1. tokens[i].type \in Atoms
      BY <1>1, <2>3 DEF StartsOperand, Atoms
    <3>2. /\ q + 1 \in 0 .. Len(tokens) /\ q + 1 > 0 /\ BehindOperand(i) = p + 2 * (q + 1)
          /\ i = p + 2 * (q + 1) - 1
      BY <1>1, <1>3, <2>1, <2>3
    <3>3. Append(operands, operand) = AtomsBehind(p, q + 1)
      <4>1. operand = OperandAt(i)
        BY <2>3 DEF OperandsAt
      <4>. QED
        BY <1>3, <2>1, <4>1, AtomAdded
    <3>4. ASSUME NEW j \in 1 .. q + 1
          PROVE  /\ tokens[p + 2 * j - 1].type \in Atoms
                 /\ p + 2 * j < BehindOperand(i) => tokens[p + 2 * j].type = "COMMA"
      <4>1. CASE j = q + 1
        <5>1. p + 2 * j - 1 = i /\ ~(p + 2 * j < BehindOperand(i))
          BY <2>1, <3>2, <4>1
        <5>. QED
          BY <3>1, <5>1
      <4>2. CASE j # q + 1
        <5>1. j \in 1 .. q /\ p + 2 * j < i
          BY <1>3, <2>1, <4>2
        <5>. QED
          BY <1>3, <5>1
      <4>. QED
        BY <4>1, <4>2
    <3>. QED
      BY <3>2, <3>3, <3>4 DEF Reading
  <2>. QED
    BY <2>2, <2>3
<1>. QED
  BY <1>2, <1>3 DEF Reading

\* A comma behind an operand goes with the list.
LEMMA ReadsComma ==
  ASSUME LexerInv, TokensEnd, ~Lexing, NEW p \in Nat \ {0}, NEW operands,
         NEW i \in 1 .. Len(tokens), TypeAt(i) = "COMMA", Reading(p, operands, i, TRUE)
  PROVE  Reading(p, operands, i + 1, FALSE)
<1>1. Len(tokens) \in Nat \ {0} /\ tokens[i].type = "COMMA"
  BY Seen
<1>2. CASE \A m \in 0 .. 3 : ~ListsJust(p, m)
  BY <1>2 DEF Reading
<1>3. ASSUME NEW q \in 0 .. Len(tokens), operands = AtomsBehind(p, q), q > 0, i = p + 2 * q,
             \A j \in 1 .. q : tokens[p + 2 * j - 1].type \in Atoms,
             \A j \in 1 .. q : p + 2 * j < i => tokens[p + 2 * j].type = "COMMA"
      PROVE  Reading(p, operands, i + 1, FALSE)
  <2>1. i + 1 = p + 2 * q + 1
    BY <1>3
  <2>2. ASSUME NEW j \in 1 .. q
        PROVE  tokens[p + 2 * j].type = "COMMA"
    <3>1. CASE j = q
      BY <1>1, <1>3, <3>1
    <3>2. CASE j # q
      <4>1. p + 2 * j < i
        BY <1>1, <1>3, <3>2
      <4>. QED
        BY <1>3, <4>1
    <3>. QED
      BY <3>1, <3>2
  <2>. QED
    BY <1>3, <2>1, <2>2 DEF Reading
<1>. QED
  BY <1>2, <1>3 DEF Reading

\* Where no comma follows an operand, a plain list is read to its end.
LEMMA ReadToEnd ==
  ASSUME LexerInv, TokensEnd, ~Lexing, NEW p \in Nat \ {0}, NEW operands, NEW m \in 0 .. 3,
         NEW i \in 1 .. Len(tokens), TypeAt(i) # "COMMA", Reading(p, operands, i, TRUE), ListsJust(p, m)
  PROVE  operands = AtomsBehind(p, m)
<1>1. Len(tokens) \in Nat \ {0} /\ tokens[i].type # "COMMA" /\ m \in Nat
  BY Seen
<1>2. PICK q \in 0 .. Len(tokens) :
        /\ operands = AtomsBehind(p, q) /\ q > 0 /\ i = p + 2 * q
        /\ \A j \in 1 .. q : tokens[p + 2 * j - 1].type \in Atoms
        /\ \A j \in 1 .. q : p + 2 * j < i => tokens[p + 2 * j].type = "COMMA"
  BY DEF Reading
<1>3. q \in Nat
  BY <1>1
<1>4. m >= q /\ (m > q /\ q > 0 => tokens[p + 2 * q].type = "COMMA")
  BY <1>1, <1>2, <1>3, Listed
<1>5. m = q
  BY <1>1, <1>2, <1>3, <1>4
<1>. QED
  BY <1>2, <1>5

\* Where no operand begins, a plain list has none.
LEMMA ReadNone ==
  ASSUME LexerInv, TokensEnd, ~Lexing, NEW p \in Nat \ {0}, NEW operands, NEW m \in 0 .. 3,
         NEW i \in 1 .. Len(tokens), ~StartsOperand(i), Reading(p, operands, i, FALSE), ListsJust(p, m)
  PROVE  operands = AtomsBehind(p, m)
<1>1. Len(tokens) \in Nat \ {0} /\ TypeAt(i) = tokens[i].type /\ m \in Nat
  BY Seen
<1>2. PICK q \in 0 .. Len(tokens) :
        /\ operands = AtomsBehind(p, q) /\ i = p + 2 * q + 1
        /\ \A j \in 1 .. q : tokens[p + 2 * j - 1].type \in Atoms
        /\ \A j \in 1 .. q : p + 2 * j < i => tokens[p + 2 * j].type = "COMMA"
  BY DEF Reading
<1>3. q \in Nat
  BY <1>1
<1>4. m >= q /\ (m > q => tokens[p + 2 * q + 1].type \in Atoms)
  BY <1>1, <1>2, <1>3, Listed
<1>5. tokens[i].type \notin Atoms
  BY <1>1 DEF StartsOperand, Atoms
<1>6. m = q
  BY <1>1, <1>2, <1>3, <1>4, <1>5
<1>. QED
  BY <1>2, <1>6

-----------------------------------------------------------------------------
(* Instructions.                                                           *)

\* A place in front of one is in front of every later one.
LEMMA Further ==
  ASSUME NEW a \in Nat, NEW b \in Nat, a <= b, NEW p \in 1 .. a - 1
  PROVE  p \in 1 .. b - 1 /\ p \in Nat \ {0}
  OBVIOUS

\* InstAt behind a step, told with the tokens of before.
LEMMA InstPlaced ==
  ASSUME tokens' = tokens, NEW k, NEW p, tokens[p].type = "OPCODE", OpcodesBefore(p) = k - 1,
         insts'[k].opcode = OpcodeOf[tokens[p].text],
         k = Len(insts') /\ stage' = "operand" => Reading(p, insts'[k].operands, pos', FALSE),
         k = Len(insts') /\ stage' = "list" => Reading(p, insts'[k].operands, pos', TRUE),
         k # Len(insts') \/ stage' \notin {"operand", "list"} =>
           \A m \in 0 .. 3 : ListsJust(p, m) => insts'[k].operands = AtomsBehind(p, m)
  PROVE  InstAt(k, p)'
<1>1. /\ \A q, m : (ListsJust(q, m)' <=> ListsJust(q, m)) /\ AtomsBehind(q, m)' = AtomsBehind(q, m)
      /\ OpcodesBefore(p)' = OpcodesBefore(p)
  BY SameTokens
<1>2. CASE k = Len(insts') /\ stage' = "operand"
  <2>1. Reading(p, insts'[k].operands, pos', FALSE)
    BY <1>2
  <2>2. Reading(p, insts[k].operands, pos, stage = "list")'
    BY <1>1, <1>2, <2>1 DEF Reading
  <2>. QED
    BY <1>1, <1>2, <2>2 DEF InstAt
<1>3. CASE k = Len(insts') /\ stage' = "list"
  <2>1. Reading(p, insts'[k].operands, pos', TRUE)
    BY <1>3
  <2>2. Reading(p, insts[k].operands, pos, stage = "list")'
    BY <1>1, <1>3, <2>1 DEF Reading
  <2>. QED
    BY <1>1, <1>3, <2>2 DEF InstAt
<1>4. CASE k # Len(insts') \/ stage' \notin {"operand", "list"}
  BY <1>1, <1>4 DEF InstAt
<1>. QED
  BY <1>2, <1>3, <1>4

\* An opcode begins an instruction.
LEMMA InstBegun ==
  ASSUME LexerInv, TokensEnd, PlaceInv, InstsInv, ParseInstruction
  PROVE  InstsInv'
<1>. DEFINE new == [opcode |-> OpcodeFromString(tokens[pos].text), operands |-> <<>>]
<1>1. /\ ~Lexing /\ tokens' = tokens /\ tokens \in Seq(Token) /\ Len(tokens) \in Nat \ {0}
      /\ \A i \in 1 .. Len(tokens) : TypeAt(i) = tokens[i].type
  BY Parses, Seen
<1>2. /\ stage = "top" /\ TypeAt(pos) = "OPCODE" /\ insts' = Append(insts, new) /\ pos' = pos + 1
      /\ stage' = "operand"
  BY DEF ParseInstruction, AtTop
<1>3. pos \in 1 .. Len(tokens) /\ insts \in Seq(Inst) /\ Len(insts) = OpcodesBefore(pos) /\ pos \in Nat \ {0}
  BY <1>1 DEF PlaceInv
<1>4. new.opcode = OpcodeOf[tokens[pos].text] /\ new.operands = <<>>
  <2>1. tokens[pos] \in Token /\ tokens[pos].type = "OPCODE"
    BY <1>1, <1>2, <1>3
  <2>2. tokens[pos].text \in OpcodeNames
    BY <2>1 DEF Token
  <2>. QED
    BY <2>2, KnownOpcodes
<1>. HIDE DEF new
<1>5. /\ Len(insts') = Len(insts) + 1 /\ insts'[Len(insts) + 1] = new /\ Len(insts) \in Nat
      /\ \A k \in 1 .. Len(insts) : insts'[k] = insts[k]
  BY <1>2, <1>3
<1>6. ASSUME NEW k \in 1 .. Len(insts)
      PROVE  \E p \in 1 .. pos' - 1 : InstAt(k, p)'
  <2>1. PICK p \in 1 .. pos - 1 : InstAt(k, p)
    BY DEF InstsInv
  <2>2. p \in 1 .. pos' - 1 /\ k # Len(insts')
    BY <1>2, <1>3, <1>5
  <2>3. /\ tokens[p].type = "OPCODE" /\ OpcodesBefore(p) = k - 1
        /\ insts'[k].opcode = OpcodeOf[tokens[p].text]
        /\ \A m \in 0 .. 3 : ListsJust(p, m) => insts'[k].operands = AtomsBehind(p, m)
    BY <1>2, <1>5, <2>1 DEF InstAt
  <2>4. InstAt(k, p)'
    BY <1>1, <2>2, <2>3, InstPlaced
  <2>. QED
    BY <2>2, <2>4
<1>7. ASSUME NEW k, k = Len(insts) + 1
      PROVE  \E p \in 1 .. pos' - 1 : InstAt(k, p)'
  <2>1. pos \in 1 .. pos' - 1
    BY <1>2, <1>3
  <2>2. Reading(pos, <<>>, pos + 1, FALSE)
    <3>1. <<>> = AtomsBehind(pos, 0) /\ pos + 1 = pos + 2 * 0 + 1 /\ 0 \in 0 .. Len(tokens)
      BY <1>1, <1>3 DEF AtomsBehind
    <3>2. \A j \in 1 .. 0 : FALSE
      OBVIOUS
    <3>. QED
      BY <3>1, <3>2 DEF Reading
  <2>3. tokens[pos].type = "OPCODE" /\ OpcodesBefore(pos) = k - 1 /\ k = Len(insts')
    BY <1>1, <1>2, <1>3, <1>5, <1>7
  <2>4. insts'[k].opcode = OpcodeOf[tokens[pos].text] /\ insts'[k].operands = <<>>
    BY <1>4, <1>5, <1>7
  <2>5. Reading(pos, insts'[k].operands, pos', FALSE)
    BY <1>2, <2>2, <2>4
  <2>6. \E p \in 1 .. pos' - 1 : p = pos
    BY <2>1
  <2>7. ASSUME NEW p, p = pos
        PROVE  InstAt(k, p)'
    <3>1. /\ tokens[p].type = "OPCODE" /\ OpcodesBefore(p) = k - 1
          /\ insts'[k].opcode = OpcodeOf[tokens[p].text]
          /\ Reading(p, insts'[k].operands, pos', FALSE)
      BY <2>3, <2>4, <2>5, <2>7
    <3>. QED
      BY <1>1, <1>2, <2>3, <3>1, InstPlaced
  <2>. QED
    BY <2>6, <2>7
<1>8. \A k \in 1 .. Len(insts') : k \in 1 .. Len(insts) \/ k = Len(insts) + 1
  BY <1>5
<1>. QED
  BY <1>6, <1>7, <1>8 DEF InstsInv

\* An operand goes to the instruction that was begun last.
LEMMA InstLonger ==
  ASSUME LexerInv, TokensEnd, PlaceInv, InstsInv, ParseOperand
  PROVE  InstsInv'
<1>1. /\ ~Lexing /\ tokens' = tokens /\ Len(tokens) \in Nat \ {0}
  BY Parses, Seen
<1>2. /\ stage = "operand" /\ StartsOperand(pos) /\ ~Throws(pos) /\ stage' = "list"
      /\ pos' = BehindOperand(pos)
  BY DEF ParseOperand
<1>3. pos \in 1 .. Len(tokens) /\ insts \in Seq(Inst) /\ pos \in Nat \ {0}
  BY <1>1 DEF PlaceInv
<1>. PICK operand \in OperandsAt(pos) :
       insts' = [insts EXCEPT ![Len(insts)] = WithOperand(@, operand)]
  BY DEF ParseOperand
<1>4. operand \in Operand /\ pos' \in pos + 1 .. Len(tokens)
  BY <1>1, <1>2, <1>3, OperandRead, OperandTakes
<1>5. /\ Len(insts') = Len(insts)
      /\ \A k \in 1 .. Len(insts) :
           /\ k # Len(insts) => insts'[k] = insts[k]
           /\ insts'[k].opcode = insts[k].opcode
           /\ k = Len(insts) => insts'[k].operands = Append(insts[k].operands, operand)
  BY <1>2, <1>3, <1>4, Added
<1>6. ASSUME NEW k \in 1 .. Len(insts)
      PROVE  \E p \in 1 .. pos' - 1 : InstAt(k, p)'
  <2>1. PICK p \in 1 .. pos - 1 : InstAt(k, p)
    BY DEF InstsInv
  <2>2. p \in 1 .. pos' - 1 /\ p \in Nat \ {0}
    <3>1. pos \in Nat /\ pos' \in Nat /\ pos <= pos'
      BY <1>1, <1>3, <1>4
    <3>. QED
      BY <3>1, Further
  <2>3. /\ tokens[p].type = "OPCODE" /\ OpcodesBefore(p) = k - 1
        /\ insts'[k].opcode = OpcodeOf[tokens[p].text]
    BY <1>5, <2>1 DEF InstAt
  <2>4. CASE k = Len(insts)
    <3>1. Reading(p, insts[k].operands, pos, FALSE)
      BY <1>2, <2>1, <2>4 DEF InstAt
    <3>2. Reading(p, Append(insts[k].operands, operand), BehindOperand(pos), TRUE)
      <4>1. ~Lexing /\ StartsOperand(pos) /\ pos \in 1 .. Len(tokens) /\ p \in Nat \ {0}
        BY <1>1, <1>2, <1>3, <2>2
      <4>. QED
        BY <3>1, <4>1, ReadsOperand, Zenon
    <3>3. Reading(p, insts'[k].operands, pos', TRUE)
      BY <1>2, <1>5, <2>4, <3>2
    <3>4. InstAt(k, p)'
      BY <1>1, <1>2, <1>5, <2>3, <2>4, <3>3, InstPlaced
    <3>. QED
      BY <2>2, <3>4
  <2>5. CASE k # Len(insts)
    <3>1. \A m \in 0 .. 3 : ListsJust(p, m) => insts'[k].operands = AtomsBehind(p, m)
      BY <1>5, <2>1, <2>5 DEF InstAt
    <3>2. k # Len(insts')
      BY <1>5, <2>5
    <3>3. InstAt(k, p)'
      BY <1>1, <2>3, <3>1, <3>2, InstPlaced
    <3>. QED
      BY <2>2, <3>3
  <2>. QED
    BY <2>4, <2>5
<1>. QED
  BY <1>5, <1>6 DEF InstsInv

\* The other steps leave the instructions alone and see whether a list goes on.
LEMMA InstsStay ==
  ASSUME LexerInv, TokensEnd, ~Lexing, PlaceInv, InstsInv, tokens' = tokens, insts' = insts,
         \/ stage = "top" /\ stage' \in {"top", "parsed"} /\ pos' \in Nat /\ pos' >= pos
         \/ NoOperand
         \/ Comma
  PROVE  InstsInv'
<1>1. Len(tokens) \in Nat \ {0} /\ pos \in 1 .. Len(tokens) /\ pos \in Nat \ {0}
      /\ \A i \in 1 .. Len(tokens) : TypeAt(i) = tokens[i].type
  BY Seen DEF PlaceInv
<1>2. pos' \in Nat /\ pos' >= pos
  BY <1>1 DEF NoOperand, Comma
<1>3. ASSUME NEW k \in 1 .. Len(insts)
      PROVE  \E p \in 1 .. pos' - 1 : InstAt(k, p)'
  <2>1. PICK p \in 1 .. pos - 1 : InstAt(k, p)
    BY DEF InstsInv
  <2>2. p \in 1 .. pos' - 1 /\ p \in Nat \ {0}
    <3>1. pos \in Nat /\ pos' \in Nat /\ pos <= pos'
      BY <1>1, <1>2
    <3>. QED
      BY <3>1, Further
  <2>3. /\ tokens[p].type = "OPCODE" /\ OpcodesBefore(p) = k - 1
        /\ insts'[k].opcode = OpcodeOf[tokens[p].text]
    BY <2>1 DEF InstAt
  <2>. DEFINE Done == \A m \in 0 .. 3 : ListsJust(p, m) => insts'[k].operands = AtomsBehind(p, m)
  <2>4. CASE k # Len(insts)
    <3>1. Done /\ k # Len(insts')
      BY <2>1, <2>4 DEF InstAt
    <3>2. InstAt(k, p)'
      BY <2>3, <3>1, InstPlaced
    <3>. QED
      BY <2>2, <3>2
  <2>5. CASE k = Len(insts) /\ stage = "top" /\ stage' \in {"top", "parsed"}
    <3>1. Done /\ stage' \notin {"operand", "list"}
      BY <2>1, <2>5 DEF InstAt
    <3>2. InstAt(k, p)'
      BY <2>3, <3>1, InstPlaced
    <3>. QED
      BY <2>2, <3>2
  <2>6. CASE k = Len(insts) /\ NoOperand
    <3>1. stage = "operand" /\ ~StartsOperand(pos) /\ stage' = "top"
      BY <2>6 DEF NoOperand
    <3>2. Reading(p, insts[k].operands, pos, FALSE)
      BY <2>1, <2>6, <3>1 DEF InstAt
    <3>3. Done
      BY <1>1, <2>2, <3>1, <3>2, ReadNone
    <3>4. InstAt(k, p)'
      BY <2>3, <3>1, <3>3, InstPlaced
    <3>. QED
      BY <2>2, <3>4
  <2>7. CASE k = Len(insts) /\ Comma
    <3>1. stage = "list"
      BY <2>7 DEF Comma
    <3>2. Reading(p, insts[k].operands, pos, TRUE)
      BY <2>1, <2>7, <3>1 DEF InstAt
    <3>3. CASE TypeAt(pos) = "COMMA"
      <4>1. stage' = "operand" /\ pos' = pos + 1
        BY <2>7, <3>3 DEF Comma
      <4>2. Reading(p, insts[k].operands, pos + 1, FALSE)
        BY <1>1, <2>2, <3>2, <3>3, ReadsComma
      <4>3. Reading(p, insts'[k].operands, pos', FALSE)
        BY <4>1, <4>2
      <4>4. InstAt(k, p)'
        BY <2>3, <2>7, <4>1, <4>3, InstPlaced
      <4>. QED
        BY <2>2, <4>4
    <3>4. CASE TypeAt(pos) # "COMMA"
      <4>1. stage' = "top"
        BY <2>7, <3>4 DEF Comma
      <4>2. Done
        BY <1>1, <2>2, <3>2, <3>4, ReadToEnd
      <4>3. InstAt(k, p)'
        BY <2>3, <4>1, <4>2, InstPlaced
      <4>. QED
        BY <2>2, <4>3
    <3>. QED
      BY <3>3, <3>4
  <2>. QED
    BY <2>4, <2>5, <2>6, <2>7
<1>. QED
  BY <1>3 DEF InstsInv

\* Every step of the parser, unless it throws, keeps the instructions right.
LEMMA InstsKept ==
  ASSUME LexerInv, TokensEnd, ~Lexing, PlaceInv, stage # "threw" => InstsInv, stage' # "threw",
         \/ ParseDirective \/ LabelDefinition \/ SkipToken \/ ParseInstruction
         \/ ParseOperand \/ NoOperand \/ Throw \/ Comma \/ EndOfFile
  PROVE  InstsInv'
<1>1. tokens' = tokens /\ pos \in Nat
  BY Parses, Seen DEF PlaceInv
<1>2. CASE ParseDirective
  <2>1. stage = "top" /\ stage' = "top" /\ insts' = insts /\ pos' \in Nat /\ pos' >= pos
    BY <1>1, <1>2 DEF ParseDirective, AtTop
  <2>. QED
    BY <1>1, <2>1, InstsStay
<1>3. CASE LabelDefinition \/ SkipToken
  <2>1. stage = "top" /\ stage' = "top" /\ insts' = insts /\ pos' \in Nat /\ pos' >= pos
    BY <1>1, <1>3 DEF LabelDefinition, SkipToken, AtTop
  <2>. QED
    BY <1>1, <2>1, InstsStay
<1>4. CASE ParseInstruction
  BY <1>4, InstBegun DEF ParseInstruction, AtTop
<1>5. CASE ParseOperand
  BY <1>5, InstLonger DEF ParseOperand
<1>6. CASE NoOperand
  <2>1. stage = "operand" /\ insts' = insts
    BY <1>6 DEF NoOperand
  <2>. QED
    BY <1>1, <1>6, <2>1, InstsStay
<1>7. CASE Throw
  BY <1>7 DEF Throw
<1>8. CASE Comma
  <2>1. stage = "list" /\ insts' = insts
    BY <1>8 DEF Comma
  <2>. QED
    BY <1>1, <1>8, <2>1, InstsStay
<1>9. CASE EndOfFile
  <2>1. stage = "top" /\ stage' = "parsed" /\ insts' = insts /\ pos' \in Nat /\ pos' >= pos
    BY <1>1, <1>9 DEF EndOfFile
  <2>. QED
    BY <1>1, <2>1, InstsStay
<1>. QED
  BY <1>2, <1>3, <1>4, <1>5, <1>6, <1>7, <1>8, <1>9

-----------------------------------------------------------------------------
(* The invariant of lexer and parser, and what it shows.                   *)

\* A step of others leaves the parser where it is.
LEMMA ParserRests ==
  ASSUME LexerInv, TokensEnd, ~Lexing, PlaceInv, LabelsInv, stage # "threw" => InstsInv,
         UNCHANGED parseVars
  PROVE  PlaceInv' /\ LabelsInv' /\ (stage' # "threw" => InstsInv')
<1>1. tokens' = tokens /\ pos' = pos /\ insts' = insts /\ labels' = labels /\ stage' = stage
  BY DEF parseVars
<1>2. tokens \in Seq(Token) /\ Len(tokens) \in Nat \ {0} /\ pos \in 1 .. Len(tokens) /\ pos \in Nat
  BY Seen DEF PlaceInv
<1>3. PlaceInv'
  BY <1>1, Placed DEF PlaceInv
<1>4. LabelsInv'
  <2>1. \A n : \A i \in Definitions(n) : i \in Nat
    BY <1>2 DEF Definitions
  <2>. QED
    BY <1>1, <1>2, <2>1, NonePassed
<1>5. ASSUME stage # "threw" PROVE InstsInv'
  <2>2. ASSUME NEW k, NEW p, InstAt(k, p)
        PROVE  InstAt(k, p)'
    <3>1. /\ tokens[p].type = "OPCODE" /\ OpcodesBefore(p) = k - 1
          /\ insts'[k].opcode = OpcodeOf[tokens[p].text]
      BY <1>1, <2>2 DEF InstAt
    <3>2. CASE k = Len(insts) /\ stage = "operand"
      <4>1. Reading(p, insts'[k].operands, pos', FALSE)
        BY <1>1, <2>2, <3>2 DEF InstAt
      <4>. QED
        BY <1>1, <3>1, <3>2, <4>1, InstPlaced
    <3>3. CASE k = Len(insts) /\ stage = "list"
      <4>1. Reading(p, insts'[k].operands, pos', TRUE)
        BY <1>1, <2>2, <3>3 DEF InstAt
      <4>. QED
        BY <1>1, <3>1, <3>3, <4>1, InstPlaced
    <3>4. CASE k # Len(insts) \/ stage \notin {"operand", "list"}
      <4>1. \A m \in 0 .. 3 : ListsJust(p, m) => insts'[k].operands = AtomsBehind(p, m)
        BY <1>1, <2>2, <3>4 DEF InstAt
      <4>. QED
        BY <1>1, <3>1, <3>4, <4>1, InstPlaced
    <3>. QED
      BY <3>2, <3>3, <3>4
  <2>. QED
    BY <1>1, <1>5, <2>2 DEF InstsInv
<1>. QED
  BY <1>1, <1>3, <1>4, <1>5

LEMMA ParserKept ==
  ASSUME ParserInv, [Next]_vars
  PROVE  ParserInv'
<1>1. LexerInv /\ TokensEnd /\ LexerInv' /\ TokensEnd'
  BY LexerKept DEF ParserInv
<1>2. CASE PeekFirst \/ ConsumeFirst \/ Construct
  <2>1. Lexing'
    BY <1>2 DEF PeekFirst, ConsumeFirst, Construct, parseVars, Lexing
  <2>. QED
    BY <1>1, <2>1 DEF ParserInv
<1>3. CASE TokenizeAll
  BY <1>1, <1>3, ParserStarts DEF ParserInv
<1>4. CASE \/ ParseDirective \/ LabelDefinition \/ SkipToken \/ ParseInstruction
           \/ ParseOperand \/ NoOperand \/ Throw \/ Comma \/ EndOfFile
  <2>1. ~Lexing /\ PlaceInv /\ LabelsInv /\ (stage # "threw" => InstsInv)
    BY <1>4, Parses DEF ParserInv
  <2>2. PlaceInv' /\ LabelsInv'
    BY <1>1, <1>4, <2>1, PlaceKept, LabelsKept
  <2>3. stage' # "threw" => InstsInv'
    BY <1>1, <1>4, <2>1, InstsKept
  <2>. QED
    BY <1>1, <2>2, <2>3 DEF ParserInv
<1>5. CASE UNCHANGED parseVars
  <2>1. CASE Lexing
    <3>1. Lexing'
      BY <1>5, <2>1 DEF Lexing, parseVars
    <3>. QED
      BY <1>1, <3>1 DEF ParserInv
  <2>2. CASE ~Lexing
    BY <1>1, <1>5, <2>2, ParserRests DEF ParserInv
  <2>. QED
    BY <2>1, <2>2
<1>6. CASE Assemble \/ Encode \/ UNCHANGED vars
  <2>1. UNCHANGED parseVars
    BY <1>6 DEF Assemble, Encode, vars
  <2>. QED
    BY <1>5, <2>1
<1>. QED
  BY <1>2, <1>3, <1>4, <1>6 DEF Next, Parse, ParseNext

\* ParserInv is an invariant of assembling.
THEOREM ParserInvariance == Spec => []ParserInv
<1>1. Init => ParserInv
  <2>1. Init => LexerInv /\ TokensEnd
    BY LexerStarts DEF Init
  <2>2. Init => Lexing
    BY DEF Init, ParseInit, Lexing
  <2>. QED
    BY <2>1, <2>2 DEF ParserInv
<1>2. ParserInv /\ [Next]_vars => ParserInv'
  BY ParserKept
<1>. QED
  BY <1>1, <1>2, PTL DEF Spec

\* A label stands for the instruction behind its last definition, of the
\* definitions that no operand list and no directive can have taken all count,
\* and none that stands behind an opcode or a directive, whatever the source.
THEOREM LabelsTheorem == Spec => []LabelsExact
<1>1. ParserInv => LabelsExact
  <2>. SUFFICES ASSUME ParserInv, stage = "parsed", NEW n \in Word
                PROVE  /\ Kept(n) # {} => n \in DOMAIN labels
                       /\ n \in DOMAIN labels =>
                            \E i \in Definitions(n) :
                              /\ labels[n] = OpcodesBefore(i)
                              /\ ~Behinds(i, {"OPCODE", "DOT"})
                              /\ \A j \in Kept(n) : j <= i
    BY DEF LabelsExact
  <2>1. LexerInv /\ TokensEnd /\ ~Lexing /\ PlaceInv /\ LabelsInv
    BY DEF ParserInv, Lexing
  <2>2. \A i \in Kept(n) : i < pos
    <3>1. TAKE i \in Kept(n)
    <3>2. i \in 1 .. Len(tokens) /\ tokens[i].type = "IDENTIFIER"
      BY <2>1, KeptFacts
    <3>3. pos = Len(tokens) /\ Len(tokens) \in Nat \ {0}
          /\ \A j \in 1 .. Len(tokens) : tokens[j].type = "END_OF_FILE" <=> j = Len(tokens)
      BY <2>1, Seen DEF PlaceInv, TokensEnd
    <3>. QED
      BY <3>2, <3>3
  <2>. QED
    BY <2>1, <2>2 DEF LabelsInv
<1>. QED
  BY <1>1, ParserInvariance, PTL

\* Every opcode of the source is one known instruction, in order, and a plain
\* list of up to three operands behind it is just its operands, whatever the source.
THEOREM InstsTheorem == Spec => []InstsFollowTokens
<1>1. ParserInv => InstsFollowTokens
  <2>. DEFINE S == TypesAt({"OPCODE"})
  <2>. SUFFICES ASSUME ParserInv, stage = "parsed"
                PROVE  /\ Len(insts) = Cardinality(S)
                       /\ \A k \in DOMAIN insts :
                            /\ insts[k].opcode = OpcodeOf[tokens[NthOf(S, k)].text]
                            /\ \A m \in 0 .. 3 : ListsJust(NthOf(S, k), m) =>
                                                   insts[k].operands = AtomsBehind(NthOf(S, k), m)
    BY DEF InstsFollowTokens
  <2>1. LexerInv /\ TokensEnd /\ ~Lexing /\ PlaceInv /\ InstsInv
    BY DEF ParserInv, Lexing
  <2>2. /\ Len(tokens) \in Nat \ {0} /\ pos = Len(tokens) /\ tokens \in Seq(Token)
        /\ tokens[Len(tokens)].type = "END_OF_FILE"
        /\ insts \in Seq(Inst) /\ Len(insts) = OpcodesBefore(pos)
    <3>1. Len(tokens) \in Nat \ {0} /\ pos = Len(tokens) /\ tokens \in Seq(Token)
          /\ insts \in Seq(Inst) /\ Len(insts) = OpcodesBefore(pos)
      BY <2>1, Seen DEF PlaceInv
    <3>2. tokens[Len(tokens)].type = "END_OF_FILE"
      BY <2>1, <3>1 DEF TokensEnd
    <3>. QED
      BY <3>1, <3>2
  <2>3. S \in SUBSET (1 .. Len(tokens))
    BY <2>2 DEF TypesAt
  <2>4. Len(insts) = Cardinality(S)
    <3>1. \A j \in S : j < pos
      <4>1. TAKE j \in S
      <4>2. j \in 1 .. Len(tokens) /\ tokens[j].type = "OPCODE"
        BY <2>2 DEF TypesAt
      <4>. QED
        BY <2>2, <4>2
    <3>2. {j \in S : j < pos} = S
      BY <3>1, Zenon
    <3>. QED
      BY <2>2, <3>2, Zenon DEF OpcodesBefore
  <2>5. ASSUME NEW k \in 1 .. Len(insts)
        PROVE  /\ insts[k].opcode = OpcodeOf[tokens[NthOf(S, k)].text]
               /\ \A m \in 0 .. 3 : ListsJust(NthOf(S, k), m) =>
                                      insts[k].operands = AtomsBehind(NthOf(S, k), m)
    <3>1. PICK p \in 1 .. pos - 1 : InstAt(k, p)
      BY <2>1 DEF InstsInv
    <3>2. p \in S /\ OpcodesBefore(p) = k - 1
      BY <2>2, <3>1 DEF InstAt, TypesAt
    <3>3. Cardinality({j \in S : j < p}) = k - 1
      BY <3>2 DEF OpcodesBefore
    <3>4. NthOf(S, (k - 1) + 1) = p
      <4>. HIDE DEF S
      <4>1. Len(tokens) \in Nat
        BY <2>2
      <4>2. /\ Cardinality({j \in S : j <= p}) = Cardinality({j \in S : j < p}) + 1
            /\ NthOf(S, Cardinality({j \in S : j <= p})) = p
        BY <2>3, <3>2, <4>1, Ranked
      <4>. QED
        BY <3>3, <4>2
    <3>5. (k - 1) + 1 = k
      OBVIOUS
    <3>6. NthOf(S, k) = p
      BY <3>4, <3>5
    <3>7. /\ insts[k].opcode = OpcodeOf[tokens[p].text]
          /\ \A m \in 0 .. 3 : ListsJust(p, m) => insts[k].operands = AtomsBehind(p, m)
      BY <3>1 DEF InstAt
    <3>. QED
      BY <3>6, <3>7
  <2>6. DOMAIN insts = 1 .. Len(insts)
    BY <2>2
  <2>. QED
    BY <2>4, <2>5, <2>6
<1>. QED
  BY <1>1, ParserInvariance, PTL

\* The stages are these.
Staging == stage \in {"lex", "tokenize", "top", "operand", "list", "parsed", "threw"}

LEMMA Staged == Spec => []Staging
<1>1. Init => Staging
  BY DEF Init, ParseInit, Staging
<1>2. ASSUME Staging, [Next]_vars PROVE Staging'
  <2>1. CASE PeekFirst \/ ConsumeFirst \/ Construct \/ TokenizeAll
    BY <1>2, <2>1 DEF Staging, PeekFirst, ConsumeFirst, Construct, TokenizeAll, parseVars
  <2>2. CASE ParseDirective \/ LabelDefinition \/ SkipToken \/ ParseInstruction
    BY <1>2, <2>2 DEF Staging, ParseDirective, LabelDefinition, SkipToken, ParseInstruction
  <2>3. CASE ParseOperand \/ NoOperand \/ Throw \/ Comma \/ EndOfFile
    BY <1>2, <2>3 DEF Staging, ParseOperand, NoOperand, Throw, Comma, EndOfFile
  <2>4. CASE Assemble \/ Encode \/ UNCHANGED vars
    BY <1>2, <2>4 DEF Staging, Assemble, Encode, vars, parseVars
  <2>. QED
    BY <1>2, <2>1, <2>2, <2>3, <2>4 DEF Next, Parse, ParseNext
<1>. QED
  BY <1>1, <1>2, PTL DEF Spec

\* The lexer's and the parser's variables have their types, whatever the source:
\* chunks and tokens are read inside the source and the token list, operands fit
\* their fields, and labels point at instructions or behind the last.
THEOREM ParserTypes == Spec => []TypeOK
<1>1. ParserInv /\ Staging => TypeOK
  <2>. SUFFICES ASSUME ParserInv, Staging PROVE TypeOK
    OBVIOUS
  <2>1. /\ source \in Seq(Chunk) /\ at \in 1 .. Len(source) + 1 /\ Len(peeked) <= 1
        /\ \A t \in {peeked, taken, tokens} : t \in Seq(Token)
    BY DEF ParserInv, LexerInv
  <2>2. CASE Lexing
    <3>1. pos = 1 /\ insts = <<>> /\ labels = <<>>
      BY <2>2 DEF ParserInv, TokensEnd
    <3>2. pos \in 1 .. Len(tokens) + 1 /\ insts \in Seq(Inst) /\ DOMAIN labels = {}
      BY <2>1, <3>1
    <3>. QED
      BY <2>1, <3>2, Zenon DEF TypeOK, Staging
  <2>3. CASE ~Lexing
    <3>1. LexerInv /\ TokensEnd /\ PlaceInv /\ LabelsInv
      BY <2>3 DEF ParserInv
    <3>2. /\ Len(tokens) \in Nat \ {0} /\ pos \in 1 .. Len(tokens) /\ insts \in Seq(Inst)
          /\ Len(insts) = OpcodesBefore(pos) /\ tokens \in Seq(Token)
      BY <2>3, <3>1, Seen DEF PlaceInv
    <3>3. ASSUME NEW n \in DOMAIN labels
          PROVE  labels[n] \in 0 .. Len(insts)
      <4>. DEFINE below(x) == {j \in TypesAt({"OPCODE"}) : j < x}
      <4>1. PICK i \in Definitions(n) : i < pos /\ labels[n] = OpcodesBefore(i)
        BY <3>1, <3>3 DEF LabelsInv
      <4>2. i \in 1 .. Len(tokens) /\ TypesAt({"OPCODE"}) \in SUBSET (1 .. Len(tokens))
        BY <3>2 DEF Definitions, TypesAt
      <4>3. below(i) \subseteq below(pos)
        BY <3>2, <4>1, <4>2
      <4>4. IsFiniteSet(below(pos))
        <5>1. IsFiniteSet(1 .. Len(tokens))
          BY <3>2, FS_Interval
        <5>. QED
          BY <4>2, <5>1, FS_Subset
      <4>5. Cardinality(below(i)) <= Cardinality(below(pos))
        BY <4>3, <4>4, FS_Subset
      <4>6. OpcodesBefore(i) <= OpcodesBefore(pos)
        BY <4>5 DEF OpcodesBefore
      <4>7. OpcodesBefore(i) \in Nat /\ OpcodesBefore(pos) \in Nat
        BY <3>2, <4>2, OpcodesPassed
      <4>. QED
        BY <3>2, <4>1, <4>6, <4>7
    <3>4. pos \in 1 .. Len(tokens) + 1 /\ DOMAIN labels \subseteq Word
      BY <3>1, <3>2 DEF LabelsInv
    <3>. QED
      BY <2>1, <3>2, <3>3, <3>4, Zenon DEF TypeOK, Staging
  <2>. QED
    BY <2>2, <2>3
<1>. QED
  BY <1>1, ParserInvariance, Staged, PTL

-----------------------------------------------------------------------------
(* The words of the encoder.                                               *)

\* The code of an operand is sixteen bits wide, whatever the operand.
LEMMA OperandBits ==
  ASSUME NEW inst, NEW k, NEW idx
  PROVE  EncodeOperand(inst, k, idx) \in SUBSET (0 .. 15)
<1>1. \A n : Bits(n, 6) \in SUBSET (0 .. 5) /\ Bits(n, 8) \in SUBSET (0 .. 7) /\ Bits(n, 14) \in SUBSET (0 .. 13)
  BY BitsInside
<1>2. \A n : Shifted(Bits(n, 6), 8) \in SUBSET (0 .. 15)
  BY <1>1 DEF Shifted
<1>. DEFINE op == inst.operands[k]
<1>3. \A n, m : /\ EncodeReg(n) \in SUBSET (0 .. 15) /\ EncodeImm(n) \in SUBSET (0 .. 15)
               /\ EncodeMem(n, m) \in SUBSET (0 .. 15) /\ EncodeMems(n) \in SUBSET (0 .. 15)
  BY <1>1, <1>2 DEF EncodeReg, EncodeImm, EncodeMem, EncodeMems
<1>. QED
  BY <1>3, Zenon DEF EncodeOperand

\* Which bits encode_std sets.
LEMMA StdBits ==
  ASSUME NEW inst, Len(inst.operands) \in Nat, NEW marked \in SUBSET {2, 3}, NEW n, NEW idx,
         NEW b \in Int
  PROVE  b \in EncodeStd(inst, marked, n, idx) <=>
           \/ b - 56 \in Bits(Code[inst.opcode], 8)
           \/ b - 48 \in Bits(n, 8)
           \/ b - 39 \in marked \intersect Encoded(inst)
           \/ \E k \in Encoded(inst) : b - 16 * (k - 1) \in EncodeOperand(inst, k, idx)
<1>. DEFINE flags == {k - 1 : k \in marked \intersect Encoded(inst)}
            e(k) == EncodeOperand(inst, k, idx)
<1>1. Encoded(inst) \in SUBSET {1, 2, 3}
  BY DEF Encoded
<1>2. \A x \in flags : x \in Int
  BY <1>1
<1>3. b \in Shifted(flags, 40) <=> b - 39 \in marked \intersect Encoded(inst)
  <2>1. b \in Shifted(flags, 40) <=> b - 40 \in flags
    <3>. HIDE DEF flags
    <3>. QED
      BY <1>2, ShiftedMembers
  <2>2. b - 40 \in flags <=> b - 39 \in marked \intersect Encoded(inst)
    BY <1>1
  <2>. QED
    BY <2>1, <2>2
<1>5. \A m : \A x \in Bits(m, 8) : x \in Int
  BY BitsInside
<1>6. \A m : b \in Shifted(Bits(m, 8), 56) <=> b - 56 \in Bits(m, 8)
  BY <1>5, ShiftedMembers
<1>7. \A m : b \in Shifted(Bits(m, 8), 48) <=> b - 48 \in Bits(m, 8)
  BY <1>5, ShiftedMembers
<1>10. ASSUME NEW k \in Encoded(inst)
       PROVE  b \in Shifted(e(k), 16 * (k - 1)) <=> b - 16 * (k - 1) \in e(k)
  <2>2. 16 * (k - 1) \in Int
    BY <1>1
  <2>3. \A x \in e(k) : x \in Int
    BY OperandBits
  <2>. HIDE DEF e
  <2>. QED
    BY <2>2, <2>3, ShiftedMembers
<1>11. EncodeStd(inst, marked, n, idx)
        = Shifted(Bits(Code[inst.opcode], 8), 56) \union Shifted(Bits(n, 8), 48) \union Shifted(flags, 40)
            \union UNION {Shifted(e(k), 16 * (k - 1)) : k \in Encoded(inst)}
  BY Zenon DEF EncodeStd
<1>. HIDE DEF e, flags
<1>12. b \in UNION {Shifted(e(k), 16 * (k - 1)) : k \in Encoded(inst)}
                        <=> \E k \in Encoded(inst) : b - 16 * (k - 1) \in e(k)
  BY <1>10
<1>13. b \in EncodeStd(inst, marked, n, idx) <=>
             \/ b - 56 \in Bits(Code[inst.opcode], 8)
             \/ b - 48 \in Bits(n, 8)
             \/ b - 39 \in marked \intersect Encoded(inst)
             \/ \E k \in Encoded(inst) : b - 16 * (k - 1) \in e(k)
  BY <1>3, <1>6, <1>7, <1>11, <1>12, Zenon
<1>. QED
  BY <1>13 DEF e

LEMMA StdInts ==
  ASSUME NEW inst, Len(inst.operands) \in Nat, NEW marked \in SUBSET {2, 3}, NEW n, NEW idx
  PROVE  EncodeStd(inst, marked, n, idx) \in SUBSET Int
<1>. DEFINE flags == {k - 1 : k \in marked \intersect Encoded(inst)}
            e(k) == EncodeOperand(inst, k, idx)
<1>1. Encoded(inst) \in SUBSET {1, 2, 3}
  BY DEF Encoded
<1>2. \A b \in Shifted(flags, 40) : b \in Int
  <2>1. \A x \in flags : x \in Int
    BY <1>1
  <2>. HIDE DEF flags
  <2>. QED
    BY <2>1, ShiftedInts
<1>3. \A m : \A x \in Bits(m, 8) : x \in Int
  BY BitsInside
<1>4. \A m : \A b \in Shifted(Bits(m, 8), 56) : b \in Int
  BY <1>3, ShiftedInts
<1>5. \A m : \A b \in Shifted(Bits(m, 8), 48) : b \in Int
  BY <1>3, ShiftedInts
<1>6. ASSUME NEW k \in Encoded(inst) PROVE \A b \in Shifted(e(k), 16 * (k - 1)) : b \in Int
  <2>1. 16 * (k - 1) \in Int
    BY <1>1
  <2>2. \A b \in e(k) : b \in Int
    BY OperandBits
  <2>. HIDE DEF e
  <2>. QED
    BY <2>1, <2>2, ShiftedInts
<1>7. EncodeStd(inst, marked, n, idx)
        = Shifted(Bits(Code[inst.opcode], 8), 56) \union Shifted(Bits(n, 8), 48) \union Shifted(flags, 40)
            \union UNION {Shifted(e(k), 16 * (k - 1)) : k \in Encoded(inst)}
  BY Zenon DEF EncodeStd
<1>. HIDE DEF e, flags
<1>. QED
  BY <1>2, <1>4, <1>5, <1>6, <1>7

LEMMA StdInside ==
  ASSUME NEW inst, Len(inst.operands) \in Nat, NEW marked \in SUBSET {2, 3}, NEW n, NEW idx
  PROVE  EncodeStd(inst, marked, n, idx) \in SUBSET (0 .. 63)
<1>1. SUFFICES ASSUME NEW b \in EncodeStd(inst, marked, n, idx) PROVE b \in 0 .. 63
  OBVIOUS
<1>2. b \in Int
  BY StdInts
<1>3. Encoded(inst) \in SUBSET {1, 2, 3}
  BY DEF Encoded
<1>4. \/ b - 56 \in Bits(Code[inst.opcode], 8)
      \/ b - 48 \in Bits(n, 8)
      \/ b - 39 \in marked \intersect Encoded(inst)
      \/ \E k \in Encoded(inst) : b - 16 * (k - 1) \in EncodeOperand(inst, k, idx)
  BY <1>2, StdBits
<1>5. \A m : \A c \in Bits(m, 8) : c \in Int /\ 0 <= c /\ c < 8
  BY DEF Bits
<1>6. CASE b - 56 \in Bits(Code[inst.opcode], 8)
  BY <1>2, <1>5, <1>6
<1>7. CASE b - 48 \in Bits(n, 8)
  BY <1>2, <1>5, <1>7
<1>8. CASE b - 39 \in marked \intersect Encoded(inst)
  BY <1>2, <1>8
<1>9. CASE \E k \in Encoded(inst) : b - 16 * (k - 1) \in EncodeOperand(inst, k, idx)
  <2>1. PICK k \in {1, 2, 3} : b - 16 * (k - 1) \in 0 .. 15
    BY <1>3, <1>9, OperandBits
  <2>. QED
    BY <1>2, <2>1
<1>. QED
  BY <1>4, <1>6, <1>7, <1>8, <1>9

\* The opcode field, the cycle field and the operand slots of the word.
LEMMA StdCode ==
  ASSUME NEW inst, Len(inst.operands) \in Nat, NEW marked \in SUBSET {2, 3}, NEW n, NEW idx
  PROVE  Field(EncodeStd(inst, marked, n, idx), 56, 8) = Bits(Code[inst.opcode], 8)
<1>. DEFINE w == EncodeStd(inst, marked, n, idx)
            c == Bits(Code[inst.opcode], 8)
<1>1. w \in SUBSET Int
  BY StdInts
<1>2. \A x \in 0 .. 7 : x + 56 \in w <=> x \in c
  <2>1. TAKE x \in 0 .. 7
  <2>2. PICK b \in Int : b = x + 56
    OBVIOUS
  <2>3. b \in w <=>
          \/ b - 56 \in c
          \/ b - 48 \in Bits(n, 8)
          \/ b - 39 \in marked \intersect Encoded(inst)
          \/ \E k \in Encoded(inst) : b - 16 * (k - 1) \in EncodeOperand(inst, k, idx)
    BY StdBits
  <2>4. b - 48 \notin Bits(n, 8)
    BY <2>2, BitsInside
  <2>5. b - 39 \notin marked
    BY <2>2
  <2>6. ASSUME NEW k \in Encoded(inst) PROVE b - 16 * (k - 1) \notin EncodeOperand(inst, k, idx)
    <3>1. k \in {1, 2, 3}
      BY DEF Encoded
    <3>2. b - 16 * (k - 1) \notin 0 .. 15
      BY <2>2, <3>1
    <3>. QED
      BY <3>2, OperandBits
  <2>7. b - 56 = x
    BY <2>2
  <2>. HIDE DEF w, c
  <2>. QED
    BY <2>2, <2>3, <2>4, <2>5, <2>6, <2>7
<1>3. \A x \in 0 .. 7 : x \in Field(w, 56, 8) <=> x + 56 \in w
  <2>. HIDE DEF w
  <2>. QED
    BY <1>1, FieldMembers
<1>5. Field(w, 56, 8) \in SUBSET (0 .. 7)
  <2>. HIDE DEF w
  <2>. QED
    BY <1>1, FieldInside
<1>4. c \in SUBSET (0 .. 7)
  BY BitsInside
<1>. QED
  BY <1>2, <1>3, <1>4, <1>5

LEMMA StdCycle ==
  ASSUME NEW inst, Len(inst.operands) \in Nat, NEW marked \in SUBSET {2, 3}, NEW n, NEW idx
  PROVE  Field(EncodeStd(inst, marked, n, idx), 48, 8) = Bits(n, 8)
<1>. DEFINE w == EncodeStd(inst, marked, n, idx)
            c == Bits(Code[inst.opcode], 8)
<1>1. w \in SUBSET Int
  BY StdInts
<1>2. \A x \in 0 .. 7 : x + 48 \in w <=> x \in Bits(n, 8)
  <2>1. TAKE x \in 0 .. 7
  <2>2. PICK b \in Int : b = x + 48
    OBVIOUS
  <2>3. b \in w <=>
          \/ b - 56 \in c
          \/ b - 48 \in Bits(n, 8)
          \/ b - 39 \in marked \intersect Encoded(inst)
          \/ \E k \in Encoded(inst) : b - 16 * (k - 1) \in EncodeOperand(inst, k, idx)
    BY StdBits
  <2>4. b - 56 \notin c
    BY <2>2, BitsInside
  <2>5. b - 39 \notin marked
    BY <2>2
  <2>6. ASSUME NEW k \in Encoded(inst) PROVE b - 16 * (k - 1) \notin EncodeOperand(inst, k, idx)
    <3>1. k \in {1, 2, 3}
      BY DEF Encoded
    <3>2. b - 16 * (k - 1) \notin 0 .. 15
      BY <2>2, <3>1
    <3>. QED
      BY <3>2, OperandBits
  <2>7. b - 48 = x
    BY <2>2
  <2>. HIDE DEF w, c
  <2>. QED
    BY <2>2, <2>3, <2>4, <2>5, <2>6, <2>7
<1>3. \A x \in 0 .. 7 : x \in Field(w, 48, 8) <=> x + 48 \in w
  <2>. HIDE DEF w
  <2>. QED
    BY <1>1, FieldMembers
<1>5. Field(w, 48, 8) \in SUBSET (0 .. 7)
  <2>. HIDE DEF w
  <2>. QED
    BY <1>1, FieldInside
<1>4. Bits(n, 8) \in SUBSET (0 .. 7)
  BY BitsInside
<1>. QED
  BY <1>2, <1>3, <1>4, <1>5

\* The third slot also holds the reuse flags, in its bits 8 to 10.
LEMMA StdSlot ==
  ASSUME NEW inst, Len(inst.operands) \in Nat, NEW marked \in SUBSET {2, 3}, NEW n, NEW idx,
         NEW k \in Encoded(inst)
  PROVE  Slot(EncodeStd(inst, marked, n, idx), k)
           = EncodeOperand(inst, k, idx)
               \union {x \in 8 .. 10 : k = 3 /\ x - 7 \in marked \intersect Encoded(inst)}
<1>. DEFINE w == EncodeStd(inst, marked, n, idx)
            c == Bits(Code[inst.opcode], 8)
            e(m) == EncodeOperand(inst, m, idx)
            low == 16 * (k - 1)
<1>1. w \in SUBSET Int /\ Encoded(inst) \in SUBSET {1, 2, 3} /\ low \in Int
  BY StdInts DEF Encoded
<1>2. \A x \in 0 .. 15 :
        x + low \in w <=>
          \/ x \in e(k)
          \/ x \in 8 .. 10 /\ k = 3 /\ x - 7 \in marked \intersect Encoded(inst)
  <2>1. TAKE x \in 0 .. 15
  <2>2. PICK b \in Int : b = x + low
    BY <1>1
  <2>3. b \in w <=>
          \/ b - 56 \in c
          \/ b - 48 \in Bits(n, 8)
          \/ b - 39 \in marked \intersect Encoded(inst)
          \/ \E m \in Encoded(inst) : b - 16 * (m - 1) \in e(m)
    BY StdBits
  <2>4. b - 56 \notin c /\ b - 48 \notin Bits(n, 8)
    <3>1. b - 48 \notin 0 .. 7 /\ b - 56 \notin 0 .. 7
      <4>1. low \in {0, 16, 32}
        BY <1>1
      <4>. HIDE DEF low
      <4>. QED
        BY <2>2, <4>1
    <3>2. c \in SUBSET (0 .. 7) /\ Bits(n, 8) \in SUBSET (0 .. 7)
      BY BitsInside
    <3>. QED
      BY <3>1, <3>2
  <2>5. b - 39 \in marked \intersect Encoded(inst)
          <=> x \in 8 .. 10 /\ k = 3 /\ x - 7 \in marked \intersect Encoded(inst)
    <3>1. CASE k = 3
      <4>1. b - 39 = x - 7
        BY <2>2, <3>1
      <4>2. x - 7 \in {2, 3} => x \in 8 .. 10
        OBVIOUS
      <4>. QED
        BY <3>1, <4>1, <4>2
    <3>2. CASE k # 3
      <4>1. b - 39 \notin {2, 3}
        BY <1>1, <2>2, <3>2
      <4>. QED
        BY <3>2, <4>1
    <3>. QED
      BY <3>1, <3>2
  <2>6. (\E m \in Encoded(inst) : b - 16 * (m - 1) \in e(m)) <=> x \in e(k)
    <3>1. b - 16 * (k - 1) = x
      BY <1>1, <2>2
    <3>2. ASSUME NEW m \in Encoded(inst), b - 16 * (m - 1) \in e(m) PROVE m = k
      <4>1. b - 16 * (m - 1) \in 0 .. 15
        BY <3>2, OperandBits
      <4>2. m \in {1, 2, 3} /\ k \in {1, 2, 3}
        BY <1>1
      <4>. QED
        BY <2>2, <4>1, <4>2
    <3>. HIDE DEF e, low
    <3>. QED
      BY <3>1, <3>2
  <2>. HIDE DEF w, c, e, low
  <2>. QED
    BY <2>2, <2>3, <2>4, <2>5, <2>6
<1>3. Slot(w, k) \in SUBSET (0 .. 15) /\ \A x \in 0 .. 15 : x \in Slot(w, k) <=> x + low \in w
  <2>. HIDE DEF w
  <2>1. Slot(w, k) = Field(w, low, 16)
    BY DEF Slot
  <2>. HIDE DEF low
  <2>2. \A x \in 0 .. 15 : x \in Field(w, low, 16) <=> x + low \in w
    BY <1>1, FieldMembers
  <2>3. Field(w, low, 16) \in SUBSET (0 .. 15)
    BY <1>1, FieldInside
  <2>. QED
    BY <2>1, <2>2, <2>3
<1>4. e(k) \in SUBSET (0 .. 15)
  BY OperandBits
<1>. HIDE DEF w, e, low
<1>5. Slot(w, k) = e(k) \union {x \in 8 .. 10 : k = 3 /\ x - 7 \in marked \intersect Encoded(inst)}
  BY <1>2, <1>3, <1>4
<1>. QED
  BY <1>5 DEF w, e

LEMMA StdFlags ==
  ASSUME NEW inst, Len(inst.operands) \in Nat, NEW marked \in SUBSET {2, 3}, NEW n, NEW idx,
         NEW k \in {1, 2, 3}
  PROVE  40 + k - 1 \in EncodeStd(inst, marked, n, idx) <=>
           \/ k \in marked \intersect Encoded(inst)
           \/ 3 \in Encoded(inst) /\ 7 + k \in EncodeOperand(inst, 3, idx)
<1>. DEFINE w == EncodeStd(inst, marked, n, idx)
            b == 40 + k - 1
            e(m) == EncodeOperand(inst, m, idx)
<1>1. Encoded(inst) \in SUBSET {1, 2, 3} /\ b \in Int
  BY DEF Encoded
<1>2. b \in w <=>
        \/ b - 56 \in Bits(Code[inst.opcode], 8)
        \/ b - 48 \in Bits(n, 8)
        \/ b - 39 \in marked \intersect Encoded(inst)
        \/ \E m \in Encoded(inst) : b - 16 * (m - 1) \in e(m)
  BY <1>1, StdBits
<1>3. b - 56 \notin Bits(Code[inst.opcode], 8) /\ b - 48 \notin Bits(n, 8)
  <2>1. b - 56 \notin 0 .. 7 /\ b - 48 \notin 0 .. 7
    OBVIOUS
  <2>2. \A m : Bits(m, 8) \in SUBSET (0 .. 7)
    BY BitsInside
  <2>. QED
    BY <2>1, <2>2
<1>4. b - 39 = k
  OBVIOUS
<1>5. (\E m \in Encoded(inst) : b - 16 * (m - 1) \in e(m)) <=> 3 \in Encoded(inst) /\ 7 + k \in e(3)
  <2>1. ASSUME NEW m \in Encoded(inst), b - 16 * (m - 1) \in e(m) PROVE m = 3
    <3>1. b - 16 * (m - 1) \in 0 .. 15
      BY <2>1, OperandBits
    <3>. QED
      BY <1>1, <3>1
  <2>2. b - 16 * (3 - 1) = 7 + k
    OBVIOUS
  <2>. HIDE DEF e, b
  <2>. QED
    BY <2>1, <2>2
<1>. QED
  BY <1>2, <1>3, <1>4, <1>5

-----------------------------------------------------------------------------
(* What the disassembler makes of a slot.                                  *)

LEMMA RegShown ==
  ASSUME NEW reg \in 0 .. 255, NEW X \in SUBSET (8 .. 10)
  PROVE  DecodeOperand(EncodeReg(reg) \union X) = [type |-> "REG", reg |-> reg]
<1>. DEFINE e == EncodeReg(reg) \union X
<1>1. Bits(reg, 8) \in SUBSET (0 .. 7)
  BY BitsInside
<1>2. {14, 15} \intersect e = {}
  BY <1>1 DEF EncodeReg
<1>3. Field(e, 0, 8) = Bits(reg, 8)
  <2>1. e \in SUBSET Int
    <3>1. e = Bits(reg, 8) \union X
      BY DEF EncodeReg
    <3>2. \A x \in X : x \in Int
      OBVIOUS
    <3>3. \A x \in Bits(reg, 8) : x \in Int
      BY <1>1
    <3>. HIDE DEF e
    <3>. QED
      BY <3>1, <3>2, <3>3, Zenon
  <2>2. \A x \in 0 .. 7 : x + 0 \in e <=> x \in Bits(reg, 8)
    BY <1>1 DEF EncodeReg
  <2>. HIDE DEF e
  <2>3. \A x \in 0 .. 7 : x \in Field(e, 0, 8) <=> x + 0 \in e
    BY <2>1, FieldMembers
  <2>4. Field(e, 0, 8) \in SUBSET (0 .. 7)
    BY <2>1, FieldInside
  <2>. QED
    BY <1>1, <2>2, <2>3, <2>4
<1>4. Unsigned(Bits(reg, 8)) = reg
  BY Unsigned8
<1>. HIDE DEF e
<1>5. DecodeOperand(e) = [type |-> "REG", reg |-> Unsigned(Field(e, 0, 8))]
  BY <1>2 DEF DecodeOperand
<1>. QED
  BY <1>3, <1>4, <1>5 DEF e

LEMMA ImmShown ==
  ASSUME NEW n \in Int, 0 <= n + 8192, n < 8192
  PROVE  DecodeOperand(EncodeImm(n)) = [type |-> "IMM", val |-> n]
<1>. DEFINE e == {14} \union Bits(n, 14)
<1>1. Bits(n, 14) \in SUBSET (0 .. 13)
  BY BitsInside
<1>2. EncodeImm(n) = e
  BY DEF EncodeImm, Clamp
<1>3. {14, 15} \intersect e = {14}
  BY <1>1
<1>4. Field(e, 0, 14) = Bits(n, 14)
  <2>1. e \in SUBSET Int
    BY <1>1
  <2>2. \A x \in 0 .. 13 : x + 0 \in e <=> x \in Bits(n, 14)
    BY <1>1
  <2>. HIDE DEF e
  <2>3. \A x \in 0 .. 13 : x \in Field(e, 0, 14) <=> x + 0 \in e
    BY <2>1, FieldMembers
  <2>4. Field(e, 0, 14) \in SUBSET (0 .. 13)
    BY <2>1, FieldInside
  <2>. QED
    BY <1>1, <2>2, <2>3, <2>4
<1>5. Signed(Bits(n, 14), 14) = n
  BY Signed14
<1>. HIDE DEF e
<1>6. DecodeOperand(e) = [type |-> "IMM", val |-> Signed(Field(e, 0, 14), 14)]
  BY <1>3 DEF DecodeOperand
<1>. QED
  BY <1>2, <1>4, <1>5, <1>6

LEMMA MemShown ==
  ASSUME NEW base \in 0 .. 63, NEW offset \in -128 .. 127
  PROVE  /\ DecodeOperand(EncodeMem(base, offset)) = [type |-> "MEM", base |-> base, offset |-> offset]
         /\ ~IsPureOffset(EncodeMem(base, offset))
<1>. DEFINE e == EncodeMem(base, offset)
            high == Shifted(Bits(base, 6), 8)
<1>1. Bits(base, 6) \in SUBSET (0 .. 5) /\ Bits(offset, 8) \in SUBSET (0 .. 7)
  BY BitsInside
<1>2. high \in SUBSET (8 .. 13)
  BY <1>1 DEF Shifted
<1>3. {14, 15} \intersect e = {15}
  BY <1>1, <1>2 DEF EncodeMem
<1>4. Field(e, 0, 8) = Bits(offset, 8)
  <2>1. e \in SUBSET Int
    BY <1>1, <1>2 DEF EncodeMem
  <2>2. \A x \in 0 .. 7 : x + 0 \in e <=> x \in Bits(offset, 8)
    BY <1>1, <1>2 DEF EncodeMem
  <2>. HIDE DEF e
  <2>3. \A x \in 0 .. 7 : x \in Field(e, 0, 8) <=> x + 0 \in e
    BY <2>1, FieldMembers
  <2>4. Field(e, 0, 8) \in SUBSET (0 .. 7)
    BY <2>1, FieldInside
  <2>. QED
    BY <1>1, <2>2, <2>3, <2>4
<1>5. Field(e, 8, 6) = Bits(base, 6)
  <2>1. e \in SUBSET Int
    BY <1>1, <1>2 DEF EncodeMem
  <2>2. \A x \in 0 .. 5 : x + 8 \in e <=> x \in Bits(base, 6)
    <3>1. \A x \in Int : x \in high <=> x - 8 \in Bits(base, 6)
      BY <1>1, ShiftedMembers
    <3>2. TAKE x \in 0 .. 5
    <3>3. PICK b \in Int : b = x + 8
      OBVIOUS
    <3>4. b \in high <=> x \in Bits(base, 6)
      <4>1. b - 8 = x
        BY <3>3
      <4>. HIDE DEF high
      <4>. QED
        BY <3>1, <4>1
    <3>5. b \in e <=> b \in high
      BY <1>1, <3>3 DEF EncodeMem
    <3>. QED
      BY <3>3, <3>4, <3>5
  <2>. HIDE DEF e
  <2>3. \A x \in 0 .. 5 : x \in Field(e, 8, 6) <=> x + 8 \in e
    BY <2>1, FieldMembers
  <2>4. Field(e, 8, 6) \in SUBSET (0 .. 5)
    BY <2>1, FieldInside
  <2>. QED
    BY <1>1, <2>2, <2>3, <2>4
<1>6. Unsigned(Bits(base, 6)) = base /\ Signed(Bits(offset, 8), 8) = offset
  BY Unsigned6, Signed8
<1>. HIDE DEF e
<1>7. DecodeOperand(e) = [type |-> "MEM", base |-> Unsigned(Field(e, 8, 6)), offset |-> Signed(Field(e, 0, 8), 8)]
  BY <1>3 DEF DecodeOperand
<1>. QED
  BY <1>3, <1>4, <1>5, <1>6, <1>7 DEF IsPureOffset, e

LEMMA MemsShown ==
  ASSUME NEW offset \in -128 .. 127
  PROVE  DecodeOperand(EncodeMems(offset)) = [type |-> "MEM", base |-> 0, offset |-> offset]
<1>. DEFINE e == {14, 15} \union Bits(offset, 14)
<1>1. Bits(offset, 14) \in SUBSET (0 .. 13)
  BY BitsInside
<1>2. EncodeMems(offset) = e
  BY DEF EncodeMems, Clamp
<1>3. {14, 15} \intersect e = {14, 15}
  BY <1>1
<1>4. Field(e, 0, 14) = Bits(offset, 14)
  <2>1. e \in SUBSET Int
    BY <1>1
  <2>2. \A x \in 0 .. 13 : x + 0 \in e <=> x \in Bits(offset, 14)
    BY <1>1
  <2>. HIDE DEF e
  <2>3. \A x \in 0 .. 13 : x \in Field(e, 0, 14) <=> x + 0 \in e
    BY <2>1, FieldMembers
  <2>4. Field(e, 0, 14) \in SUBSET (0 .. 13)
    BY <2>1, FieldInside
  <2>. QED
    BY <1>1, <2>2, <2>3, <2>4
<1>5. Signed(Bits(offset, 14), 14) = offset
  BY Signed14
<1>. HIDE DEF e
<1>6. DecodeOperand(e) = [type |-> "MEM", base |-> 0, offset |-> Signed(Field(e, 0, 14), 14)]
  BY <1>3 DEF DecodeOperand
<1>. QED
  BY <1>2, <1>4, <1>5, <1>6

\* The word of a fused group.
LEMMA FusedBits ==
  ASSUME NEW group, NEW opcode, NEW n, NEW b \in Int
  PROVE  b \in EncodeFused(group, opcode, n) <=>
           \/ b - 56 \in Bits(FusedCode(opcode), 8)
           \/ b - 48 \in Bits(Group, 8)
           \/ b - 40 \in Bits(n, 8)
           \/ b \in MaskOf(group) \intersect (0 .. 39)
<1>1. \A m : \A x \in Bits(m, 8) : x \in Int
  BY BitsInside
<1>2. \A m : b \in Shifted(Bits(m, 8), 56) <=> b - 56 \in Bits(m, 8)
  BY <1>1, ShiftedMembers
<1>3. \A m : b \in Shifted(Bits(m, 8), 48) <=> b - 48 \in Bits(m, 8)
  BY <1>1, ShiftedMembers
<1>4. \A m : b \in Shifted(Bits(m, 8), 40) <=> b - 40 \in Bits(m, 8)
  BY <1>1, ShiftedMembers
<1>. QED
  BY <1>2, <1>3, <1>4, Zenon DEF EncodeFused

LEMMA FusedInside ==
  ASSUME NEW group, NEW opcode, NEW n
  PROVE  EncodeFused(group, opcode, n) \in SUBSET (0 .. 63)
<1>1. SUFFICES ASSUME NEW b \in EncodeFused(group, opcode, n) PROVE b \in 0 .. 63
  OBVIOUS
<1>2. b \in Int
  <2>1. \A m : \A x \in Bits(m, 8) : x \in Int
    BY BitsInside
  <2>2. \A m : \A x \in Shifted(Bits(m, 8), 56) : x \in Int
    BY <2>1, ShiftedInts
  <2>3. \A m : \A x \in Shifted(Bits(m, 8), 48) : x \in Int
    BY <2>1, ShiftedInts
  <2>4. \A m : \A x \in Shifted(Bits(m, 8), 40) : x \in Int
    BY <2>1, ShiftedInts
  <2>5. \A x \in MaskOf(group) \intersect (0 .. 39) : x \in Int
    OBVIOUS
  <2>. QED
    BY <2>2, <2>3, <2>4, <2>5, Zenon DEF EncodeFused
<1>3. \/ b - 56 \in Bits(FusedCode(opcode), 8)
      \/ b - 48 \in Bits(Group, 8)
      \/ b - 40 \in Bits(n, 8)
      \/ b \in 0 .. 39
  BY <1>2, FusedBits
<1>4. \A m : Bits(m, 8) \in SUBSET (0 .. 7)
  BY BitsInside
<1>. QED
  BY <1>2, <1>3, <1>4

LEMMA FusedCodeField ==
  ASSUME NEW group, NEW opcode, NEW n
  PROVE  Field(EncodeFused(group, opcode, n), 56, 8) = Bits(FusedCode(opcode), 8)
<1>. DEFINE w == EncodeFused(group, opcode, n)
<1>1. w \in SUBSET Int
  BY FusedInside
<1>2. \A m : Bits(m, 8) \in SUBSET (0 .. 7)
  BY BitsInside
<1>3. \A x \in 0 .. 7 : x + 56 \in w <=> x \in Bits(FusedCode(opcode), 8)
  <2>1. TAKE x \in 0 .. 7
  <2>2. PICK b \in Int : b = x + 56
    OBVIOUS
  <2>3. b \in w <=>
          \/ b - 56 \in Bits(FusedCode(opcode), 8)
          \/ b - 48 \in Bits(Group, 8)
          \/ b - 40 \in Bits(n, 8)
          \/ b \in MaskOf(group) \intersect (0 .. 39)
    BY FusedBits
  <2>4. b \notin 0 .. 39 /\ b - 56 = x
    BY <2>2
  <2>5. \A m : b - 48 \notin Bits(m, 8) /\ b - 40 \notin Bits(m, 8)
    <3>1. b - 48 \notin 0 .. 7 /\ b - 40 \notin 0 .. 7
      BY <2>2
    <3>. QED
      BY <1>2, <3>1
  <2>. HIDE DEF w
  <2>. QED
    BY <2>2, <2>3, <2>4, <2>5
<1>. HIDE DEF w
<1>4. \A x \in 0 .. 7 : x \in Field(w, 56, 8) <=> x + 56 \in w
  BY <1>1, FieldMembers
<1>5. Field(w, 56, 8) \in SUBSET (0 .. 7)
  BY <1>1, FieldInside
<1>6. Field(w, 56, 8) = Bits(FusedCode(opcode), 8)
  BY <1>2, <1>3, <1>4, <1>5
<1>. QED
  BY <1>6 DEF w

LEMMA FusedSize ==
  ASSUME NEW group, NEW opcode, NEW n
  PROVE  Field(EncodeFused(group, opcode, n), 48, 8) = Bits(Group, 8)
<1>. DEFINE w == EncodeFused(group, opcode, n)
<1>1. w \in SUBSET Int
  BY FusedInside
<1>2. \A m : Bits(m, 8) \in SUBSET (0 .. 7)
  BY BitsInside
<1>3. \A x \in 0 .. 7 : x + 48 \in w <=> x \in Bits(Group, 8)
  <2>1. TAKE x \in 0 .. 7
  <2>2. PICK b \in Int : b = x + 48
    OBVIOUS
  <2>3. b \in w <=>
          \/ b - 56 \in Bits(FusedCode(opcode), 8)
          \/ b - 48 \in Bits(Group, 8)
          \/ b - 40 \in Bits(n, 8)
          \/ b \in MaskOf(group) \intersect (0 .. 39)
    BY FusedBits
  <2>4. b \notin 0 .. 39 /\ b - 48 = x
    BY <2>2
  <2>5. \A m : b - 56 \notin Bits(m, 8) /\ b - 40 \notin Bits(m, 8)
    <3>1. b - 56 \notin 0 .. 7 /\ b - 40 \notin 0 .. 7
      BY <2>2
    <3>. QED
      BY <1>2, <3>1
  <2>. HIDE DEF w
  <2>. QED
    BY <2>2, <2>3, <2>4, <2>5
<1>. HIDE DEF w
<1>4. \A x \in 0 .. 7 : x \in Field(w, 48, 8) <=> x + 48 \in w
  BY <1>1, FieldMembers
<1>5. Field(w, 48, 8) \in SUBSET (0 .. 7)
  BY <1>1, FieldInside
<1>6. Field(w, 48, 8) = Bits(Group, 8)
  BY <1>2, <1>3, <1>4, <1>5
<1>. QED
  BY <1>6 DEF w

LEMMA FusedCycle ==
  ASSUME NEW group, NEW opcode, NEW n
  PROVE  Field(EncodeFused(group, opcode, n), 40, 8) = Bits(n, 8)
<1>. DEFINE w == EncodeFused(group, opcode, n)
<1>1. w \in SUBSET Int
  BY FusedInside
<1>2. \A m : Bits(m, 8) \in SUBSET (0 .. 7)
  BY BitsInside
<1>3. \A x \in 0 .. 7 : x + 40 \in w <=> x \in Bits(n, 8)
  <2>1. TAKE x \in 0 .. 7
  <2>2. PICK b \in Int : b = x + 40
    OBVIOUS
  <2>3. b \in w <=>
          \/ b - 56 \in Bits(FusedCode(opcode), 8)
          \/ b - 48 \in Bits(Group, 8)
          \/ b - 40 \in Bits(n, 8)
          \/ b \in MaskOf(group) \intersect (0 .. 39)
    BY FusedBits
  <2>4. b \notin 0 .. 39 /\ b - 40 = x
    BY <2>2
  <2>5. \A m : b - 56 \notin Bits(m, 8) /\ b - 48 \notin Bits(m, 8)
    <3>1. b - 56 \notin 0 .. 7 /\ b - 48 \notin 0 .. 7
      BY <2>2
    <3>. QED
      BY <1>2, <3>1
  <2>. HIDE DEF w
  <2>. QED
    BY <2>2, <2>3, <2>4, <2>5
<1>. HIDE DEF w
<1>4. \A x \in 0 .. 7 : x \in Field(w, 40, 8) <=> x + 40 \in w
  BY <1>1, FieldMembers
<1>5. Field(w, 40, 8) \in SUBSET (0 .. 7)
  BY <1>1, FieldInside
<1>6. Field(w, 40, 8) = Bits(n, 8)
  BY <1>2, <1>3, <1>4, <1>5
<1>. QED
  BY <1>6 DEF w

-----------------------------------------------------------------------------
(* The order of the manifold.                                              *)

\* Whatever the weights, exactly one slot has k - 1 heavier ones, for every k.
LEMMA RankTaken ==
  ASSUME NEW n \in Nat, NEW weight \in [1 .. n -> Int], NEW k \in 1 .. n
  PROVE  \E i \in 1 .. n : Cardinality({j \in 1 .. n : Heavier(weight, j, i)}) = k - 1
<1>. DEFINE above(i) == {j \in 1 .. n : Heavier(weight, j, i)}
            rank == [i \in 1 .. n |-> Cardinality(above(i)) + 1]
<1>1. IsFiniteSet(1 .. n) /\ Cardinality(1 .. n) = n
  BY FS_Interval
<1>2. \A i \in 1 .. n : weight[i] \in Int
  OBVIOUS
<1>3. ASSUME NEW i \in 1 .. n
      PROVE  IsFiniteSet(above(i)) /\ Cardinality(above(i)) \in 0 .. n - 1
  <2>1. above(i) \in SUBSET (1 .. n) /\ i \notin above(i)
    BY <1>2 DEF Heavier
  <2>. HIDE DEF above
  <2>2. IsFiniteSet(above(i)) /\ Cardinality(above(i)) <= n /\ above(i) # 1 .. n
    BY <1>1, <2>1, FS_Subset
  <2>3. Cardinality(above(i)) # n
    BY <1>1, <2>1, <2>2, FS_Subset
  <2>. QED
    BY <2>2, <2>3, FS_CardinalityType
<1>4. ASSUME NEW i \in 1 .. n, NEW j \in 1 .. n, Heavier(weight, i, j)
      PROVE  Cardinality(above(i)) < Cardinality(above(j))
  <2>1. above(i) \in SUBSET above(j)
    BY <1>2, <1>4 DEF Heavier
  <2>2. i \in above(j) /\ i \notin above(i)
    BY <1>2, <1>4 DEF Heavier
  <2>. HIDE DEF above
  <2>3. IsFiniteSet(above(j)) /\ Cardinality(above(i)) <= Cardinality(above(j))
        /\ (Cardinality(above(j)) = Cardinality(above(i)) => above(j) = above(i))
    BY <1>3, <2>1, FS_Subset
  <2>4. Cardinality(above(i)) \in Int /\ Cardinality(above(j)) \in Int
    BY <1>3
  <2>. QED
    BY <2>2, <2>3, <2>4
<1>5. \A i, j \in 1 .. n : i # j => Heavier(weight, i, j) \/ Heavier(weight, j, i)
  BY <1>2 DEF Heavier
<1>. HIDE DEF above
<1>6. rank \in [1 .. n -> 1 .. n]
  BY <1>3
<1>7. \A i, j \in 1 .. n : rank[i] = rank[j] => i = j
  <2>1. TAKE i, j \in 1 .. n
  <2>2. rank[i] = Cardinality(above(i)) + 1 /\ rank[j] = Cardinality(above(j)) + 1
    OBVIOUS
  <2>3. Cardinality(above(i)) \in Int /\ Cardinality(above(j)) \in Int
    BY <1>3
  <2>. HIDE DEF rank
  <2>. QED
    BY <1>4, <1>5, <2>2, <2>3
<1>8. \E i \in 1 .. n : rank[i] = k
  <2>. HIDE DEF rank
  <2>1. rank \in Injection(1 .. n, 1 .. n)
    BY <1>6, <1>7 DEF Injection, IsInjective
  <2>2. rank \in Surjection(1 .. n, 1 .. n)
    BY <1>1, <2>1, FS_Injection
  <2>. QED
    BY <2>2 DEF Surjection
<1>9. PICK i \in 1 .. n : rank[i] = k
  BY <1>8
<1>10. Cardinality(above(i)) = k - 1
  <2>1. rank[i] = Cardinality(above(i)) + 1 /\ Cardinality(above(i)) \in Int
    BY <1>3
  <2>. HIDE DEF rank
  <2>. QED
    BY <1>9, <2>1
<1>. QED
  BY <1>10 DEF above

-----------------------------------------------------------------------------
(* The inductive invariant of the encoder.  It asks of the program only    *)
(* that its instructions have operands that can be counted, so it serves   *)
(* the assembler, whose programs come out of the parser, as well.          *)
Countable == Len(prog) \in Nat /\ \A k \in Index : Len(prog[k].operands) \in Nat

LEMMA SequenceLength ==
  ASSUME Countable, OrderOK PROVE Len(seq) = Len(prog) /\ seq \in Seq(Index)
  BY DEF Countable, OrderOK, Index

LEMMA WordInside ==
  ASSUME Countable, OrderOK, NEW k \in Index, NEW n
  PROVE  WordOf(k, n) \in SUBSET (0 .. 63)
<1>1. CASE CanFuse(k)
  BY <1>1, FusedInside DEF WordOf
<1>2. CASE ~CanFuse(k)
  <2>1. Len(At(k).operands) \in Nat /\ reuse[k] \in SUBSET {2, 3}
    BY DEF At, Countable, OrderOK
  <2>. QED
    BY <1>2, <2>1, StdInside DEF WordOf
<1>. QED
  BY <1>1, <1>2

\* What only the order and the program decide stays while those do.
LEMMA SameOrder ==
  ASSUME prog' = prog, seq' = seq
  PROVE  /\ Index' = Index
         /\ \A k : At(k)' = At(k) /\ CanFuse(k)' = CanFuse(k) /\ Size(k)' = Size(k) /\ Marked(k)' = Marked(k)
<1>1. Index' = Index /\ \A k : At(k)' = At(k)
  BY DEF Index, At
<1>2. \A k, r : Reads(k, r)' = Reads(k, r) /\ Writes(k, r)' = Writes(k, r)
  BY <1>1, Zenon DEF Reads, Writes
<1>3. \A k, r : ReadAgain(k, r)' = ReadAgain(k, r)
  BY <1>2, Zenon DEF ReadAgain
<1>4. \A k : Marked(k)' = Marked(k)
  BY <1>1, <1>3, Zenon DEF Marked
<1>5. \A k : CanFuse(k)' = CanFuse(k)
  BY <1>1, Zenon DEF CanFuse
<1>6. \A k : Size(k)' = Size(k)
  BY <1>5, Zenon DEF Size
<1>. QED
  BY <1>1, <1>4, <1>5, <1>6

LEMMA EncoderStart ==
  ASSUME Countable, seq \in [Index -> Index], reuse = [k \in Index |-> {}],
         epos = 1, cycle = 0, code = <<>>, first = <<>>, estage \notin {"encode", "done"}
  PROVE  EncoderInv
<1>1. OrderOK
  BY DEF OrderOK
<1>2. PlacesFollow
  BY DEF PlacesFollow, Countable
<1>3. WordsOfPlaces
  BY DEF WordsOfPlaces
<1>. QED
  BY <1>1, <1>2, <1>3 DEF EncoderInv

LEMMA EncoderStep ==
  ASSUME Countable, EncoderAssumption, EncoderInv, EncodeNext
  PROVE  EncoderInv'
<1>1. OrderOK /\ PlacesFollow /\ WordsOfPlaces /\ Len(prog) \in Nat
  BY DEF EncoderInv, Countable
<1>2. CASE Schedule
  <2>1. seq' \in [Index -> Index]
    <3>1. PICK weight \in [Index -> Weight] :
            seq' = [k \in Index |-> CHOOSE i \in Index :
                      Cardinality({j \in Index : Heavier(weight, j, i)}) = k - 1]
      BY <1>2 DEF Schedule
    <3>2. weight \in [1 .. Len(prog) -> Int]
      BY <3>1, EncoderAssumption DEF EncoderAssumption, Index
    <3>3. ASSUME NEW k \in Index
          PROVE  \E i \in Index : Cardinality({j \in Index : Heavier(weight, j, i)}) = k - 1
      BY <1>1, <3>2, RankTaken DEF Index
    <3>4. \A k \in Index : (CHOOSE i \in Index :
                      Cardinality({j \in Index : Heavier(weight, j, i)}) = k - 1) \in Index
      BY <3>3, Zenon
    <3>. QED
      BY <3>1, <3>4, Zenon
  <2>2. /\ prog' = prog /\ reuse' = reuse /\ epos' = epos /\ cycle' = cycle /\ code' = code /\ first' = first
        /\ estage = "schedule" /\ estage' = "reuse" /\ Index' = Index
    BY <1>2 DEF Schedule, Index
  <2>3. code = <<>> /\ first = <<>>
    <3>1. code = <<>>
      BY <2>2 DEF EncoderInv
    <3>. QED
      BY <1>1, <3>1 DEF PlacesFollow
  <2>4. OrderOK'
    BY <1>1, <2>1, <2>2 DEF OrderOK
  <2>5. PlacesFollow'
    BY <1>1, <2>2, <2>3 DEF PlacesFollow
  <2>6. WordsOfPlaces'
    BY <1>1, <2>2, <2>3 DEF WordsOfPlaces
  <2>. QED
    BY <2>2, <2>3, <2>4, <2>5, <2>6 DEF EncoderInv
<1>3. CASE InsertReuse
  <2>1. /\ prog' = prog /\ seq' = seq /\ epos' = epos /\ cycle' = cycle /\ code' = code /\ first' = first
        /\ estage = "reuse" /\ estage' = "encode" /\ reuse' = [k \in Index |-> Marked(k)]
    BY <1>3 DEF InsertReuse
  <2>2. Index' = Index /\ \A k : Marked(k)' = Marked(k)
    BY <2>1, SameOrder
  <2>3. code = <<>> /\ first = <<>>
    <3>1. code = <<>>
      BY <2>1 DEF EncoderInv
    <3>. QED
      BY <1>1, <3>1 DEF PlacesFollow
  <2>4. OrderOK'
    <3>1. \A k \in Index : Marked(k) \in SUBSET {2, 3}
      BY DEF Marked
    <3>. QED
      BY <1>1, <2>1, <2>2, <3>1 DEF OrderOK
  <2>5. PlacesFollow'
    BY <1>1, <2>1, <2>2, <2>3 DEF PlacesFollow
  <2>6. WordsOfPlaces'
    BY <1>1, <2>1, <2>3 DEF WordsOfPlaces
  <2>7. \A k \in Index' : reuse'[k] = Marked(k)'
    BY <2>1, <2>2
  <2>. QED
    BY <2>1, <2>4, <2>5, <2>6, <2>7 DEF EncoderInv
<1>4. CASE EncodeWord
  <2>. DEFINE word == WordOf(epos, cycle)
              old == Len(code)
  <2>1. /\ prog' = prog /\ seq' = seq /\ reuse' = reuse /\ estage' = estage /\ estage = "encode"
        /\ cycle' = cycle + 1 /\ first' = Append(first, epos) /\ epos <= Len(seq)
        /\ code' = Append(code, word) /\ epos' = epos + Size(epos)
    BY <1>4 DEF EncodeWord, WordOf, Size
  <2>2. /\ Index' = Index
        /\ \A k : CanFuse(k)' = CanFuse(k) /\ Size(k)' = Size(k) /\ Marked(k)' = Marked(k)
        /\ \A k, n : WordOf(k, n)' = WordOf(k, n)
    <3>1. /\ Index' = Index
          /\ \A k : At(k)' = At(k) /\ CanFuse(k)' = CanFuse(k) /\ Size(k)' = Size(k) /\ Marked(k)' = Marked(k)
      BY <2>1, SameOrder
    <3>2. \A k, n : WordOf(k, n)' = WordOf(k, n)
      BY <2>1, <3>1, Zenon DEF WordOf
    <3>. QED
      BY <3>1, <3>2
  <2>3. Len(seq) = Len(prog)
    BY <1>1, SequenceLength
  <2>4. epos \in Index /\ epos \in Nat /\ Size(epos) \in Nat \ {0} /\ epos + Size(epos) <= Len(prog) + 1
    <3>1. epos \in Index /\ epos \in Nat
      BY <1>1, <2>1, <2>3 DEF PlacesFollow, Index
    <3>. QED
      BY <1>1, <2>3, <3>1, GroupAssumption DEF GroupAssumption, Size, CanFuse, Index
  <2>5. OrderOK'
    BY <1>1, <2>1, <2>2 DEF OrderOK
  <2>6. /\ first \in Seq(Index) /\ Len(first) = old /\ old \in Nat /\ cycle = old /\ code \in Seq(SUBSET (0 .. 63))
        /\ epos \in 1 .. Len(prog) + 1
        /\ IF first = <<>> THEN epos = 1 ELSE first[1] = 1
        /\ \A w \in 1 .. old :
             /\ first[w] + Size(first[w]) = IF w = old THEN epos ELSE first[w + 1]
             /\ w <= first[w] /\ first[w] + Size(first[w]) <= epos
    BY <1>1 DEF PlacesFollow, WordsOfPlaces
  <2>7. /\ Len(first') = old + 1 /\ first'[old + 1] = epos /\ first' \in Seq(Index)
        /\ \A w \in 1 .. old : first'[w] = first[w]
    BY <2>1, <2>4, <2>6
  <2>8. /\ Len(code') = old + 1 /\ code'[old + 1] = word /\ code' \in Seq(SUBSET (0 .. 63))
        /\ \A w \in 1 .. old : code'[w] = code[w]
    <3>1. word \in SUBSET (0 .. 63)
      BY <1>1, <2>4, WordInside
    <3>. HIDE DEF word
    <3>. QED
      BY <2>1, <2>6, <3>1
  <2>9. old + 1 <= epos
    <3>1. CASE old = 0
      BY <2>4, <2>6, <3>1
    <3>2. CASE old # 0
      <4>1. old \in 1 .. old /\ first[old] \in Nat
        BY <2>6, <3>2 DEF Index
      <4>2. old <= first[old] /\ first[old] + Size(first[old]) <= epos /\ first[old] + Size(first[old]) = epos
        BY <2>6, <4>1
      <4>3. Size(first[old]) >= 1 /\ Size(first[old]) \in Nat
        BY GroupAssumption DEF GroupAssumption, Size
      <4>. QED
        BY <2>4, <2>6, <4>1, <4>2, <4>3
    <3>. QED
      BY <3>1, <3>2
  <2>10. PlacesFollow'
    <3>1. first'[1] = 1
      <4>1. CASE old = 0
        BY <2>6, <2>7, <4>1
      <4>2. CASE old # 0
        BY <2>6, <2>7, <4>2
      <4>. QED
        BY <4>1, <4>2
    <3>2. ASSUME NEW w \in 1 .. old + 1
          PROVE  /\ first'[w] + Size(first'[w]) = IF w = old + 1 THEN epos' ELSE first'[w + 1]
                 /\ w <= first'[w] /\ first'[w] + Size(first'[w]) <= epos'
      <4>1. CASE w = old + 1
        BY <2>1, <2>4, <2>7, <2>9, <4>1
      <4>2. CASE w # old + 1
        <5>1. w \in 1 .. old
          BY <2>6, <4>2
        <5>2. first'[w] = first[w] /\ first[w] \in Nat /\ Size(first[w]) \in Nat
          BY <2>6, <2>7, <5>1, GroupAssumption DEF Index, GroupAssumption, Size
        <5>3. first'[w + 1] = IF w = old THEN epos ELSE first[w + 1]
          BY <2>6, <2>7, <5>1
        <5>. QED
          BY <2>1, <2>4, <2>6, <4>2, <5>1, <5>2, <5>3
      <4>. QED
        BY <4>1, <4>2
    <3>3. epos' \in 1 .. Len(prog') + 1 /\ cycle' = Len(code') /\ Len(first') = Len(code') /\ first' # <<>>
      BY <2>1, <2>4, <2>6, <2>7, <2>8
    <3>4. \A k : Size(k)' = Size(k)
      BY <2>2
    <3>. QED
      BY <2>2, <2>7, <3>1, <3>2, <3>3, <3>4, Zenon DEF PlacesFollow
  <2>11. WordsOfPlaces'
    <3>1. ASSUME NEW w \in 1 .. old + 1 PROVE code'[w] = WordOf(first'[w], w - 1)
      <4>1. CASE w = old + 1
        BY <2>6, <2>7, <2>8, <4>1
      <4>2. CASE w # old + 1
        <5>1. w \in 1 .. old
          BY <2>6, <4>2
        <5>2. code[w] = WordOf(first[w], w - 1)
          BY <1>1, <5>1 DEF WordsOfPlaces
        <5>. QED
          BY <2>7, <2>8, <5>1, <5>2
      <4>. QED
        BY <4>1, <4>2
    <3>2. \A k, n : WordOf(k, n)' = WordOf(k, n)
      BY <2>2
    <3>. HIDE DEF word, old
    <3>. QED
      BY <2>8, <3>1, <3>2, Zenon DEF WordsOfPlaces
  <2>12. \A k \in Index' : reuse'[k] = Marked(k)'
    <3>1. \A k \in Index : reuse[k] = Marked(k)
      BY <2>1 DEF EncoderInv
    <3>. QED
      BY <2>1, <2>2, <3>1
  <2>. QED
    BY <2>1, <2>5, <2>10, <2>11, <2>12 DEF EncoderInv
<1>5. CASE EncodeDone
  <2>1. /\ prog' = prog /\ seq' = seq /\ reuse' = reuse /\ epos' = epos /\ cycle' = cycle /\ code' = code
        /\ first' = first /\ estage = "encode" /\ estage' = "done" /\ epos > Len(seq)
    BY <1>5 DEF EncodeDone
  <2>2. /\ Index' = Index
        /\ \A k : At(k)' = At(k) /\ CanFuse(k)' = CanFuse(k) /\ Size(k)' = Size(k) /\ Marked(k)' = Marked(k)
    BY <2>1, SameOrder
  <2>3. \A k, n : WordOf(k, n)' = WordOf(k, n)
    BY <2>1, <2>2, Zenon DEF WordOf
  <2>4. OrderOK'
    BY <1>1, <2>1, <2>2 DEF OrderOK
  <2>5. PlacesFollow'
    BY <1>1, <2>1, <2>2, Zenon DEF PlacesFollow
  <2>6. WordsOfPlaces'
    BY <1>1, <2>1, <2>3, Zenon DEF WordsOfPlaces
  <2>7. \A k \in Index' : reuse'[k] = Marked(k)'
    BY <2>1, <2>2 DEF EncoderInv
  <2>8. epos' = Len(prog') + 1
    BY <1>1, <2>1, SequenceLength DEF PlacesFollow
  <2>. QED
    BY <2>1, <2>4, <2>5, <2>6, <2>7, <2>8 DEF EncoderInv
<1>. QED
  BY <1>2, <1>3, <1>4, <1>5 DEF EncodeNext

LEMMA EncoderStutters ==
  ASSUME EncoderInv, UNCHANGED encodeVars
  PROVE  EncoderInv'
<1>1. /\ prog' = prog /\ seq' = seq /\ reuse' = reuse /\ epos' = epos /\ cycle' = cycle /\ code' = code
      /\ first' = first /\ estage' = estage
  BY DEF encodeVars
<1>2. /\ Index' = Index
      /\ \A k : At(k)' = At(k) /\ CanFuse(k)' = CanFuse(k) /\ Size(k)' = Size(k) /\ Marked(k)' = Marked(k)
  BY <1>1, SameOrder
<1>3. \A k, n : WordOf(k, n)' = WordOf(k, n)
  BY <1>1, <1>2, Zenon DEF WordOf
<1>4. OrderOK' = OrderOK
  BY <1>1, <1>2, Zenon DEF OrderOK
<1>5. PlacesFollow' = PlacesFollow
  BY <1>1, <1>2, Zenon DEF PlacesFollow
<1>6. WordsOfPlaces' = WordsOfPlaces
  BY <1>1, <1>3, Zenon DEF WordsOfPlaces
<1>. QED
  BY <1>1, <1>2, <1>4, <1>5, <1>6, Zenon DEF EncoderInv

LEMMA ProgramCounts ==
  ASSUME prog \in Seq(ResolvedInst)
  PROVE  Countable /\ \A k \in Index : prog[k] \in ResolvedInst
<1>1. Len(prog) \in Nat /\ \A k \in Index : prog[k] \in ResolvedInst
  BY DEF Index
<1>2. \A i \in ResolvedInst : Len(i.operands) \in Nat
  BY DEF ResolvedInst
<1>. QED
  BY <1>1, <1>2 DEF Countable

EncoderState ==
  /\ prog \in Seq(ResolvedInst)
  /\ estage \in {"schedule", "reuse", "encode", "done"}
  /\ EncoderInv

\* Whatever the manifold does to the order, the words pushed so far are those
\* the places in it call for, one behind the other.
LEMMA EncoderInvariance == EncodeSpec => []EncoderState
<1>1. ASSUME EncodeInit PROVE EncoderState
  <2>1. prog \in Seq(ResolvedInst)
    BY <1>1, EncoderAssumption DEF EncodeInit, EncoderAssumption
  <2>2. Countable
    BY <2>1, ProgramCounts
  <2>3. EncoderInv
    BY <1>1, <2>2, EncoderStart DEF EncodeInit
  <2>. QED
    BY <1>1, <2>1, <2>3 DEF EncodeInit, EncoderState
<1>2. ASSUME EncoderState, [EncodeNext]_encodeVars PROVE EncoderState'
  <2>1. prog' = prog /\ estage' \in {"schedule", "reuse", "encode", "done"}
    BY <1>2 DEF EncoderState, EncodeNext, Schedule, InsertReuse, EncodeWord, EncodeDone, encodeVars
  <2>2. EncoderInv'
    <3>1. CASE EncodeNext
      BY <1>2, <3>1, ProgramCounts, EncoderAssumption, EncoderStep DEF EncoderState
    <3>2. CASE UNCHANGED encodeVars
      BY <1>2, <3>2, EncoderStutters DEF EncoderState
    <3>. QED
      BY <1>2, <3>1, <3>2
  <2>. QED
    BY <1>2, <2>1, <2>2 DEF EncoderState
<1>. QED
  BY <1>1, <1>2, PTL DEF EncodeSpec

\* A word begins at a place of the order and covers Size of it.
LEMMA WordPlace ==
  ASSUME Countable, EncoderInv, NEW w \in DOMAIN code
  PROVE  /\ w \in 1 .. Len(code) /\ w - 1 \in Nat /\ cycle = Len(code) /\ first[w] \in Index
         /\ w <= first[w] /\ first[w] + Size(first[w]) <= epos /\ epos \in Nat
         /\ Size(first[w]) \in {1, Group}
         /\ Covers(w) = first[w] .. first[w] + Size(first[w]) - 1
         /\ Cardinality(Covers(w)) = Size(first[w])
         /\ IsFused(w) <=> CanFuse(first[w])
         /\ code[w] = WordOf(first[w], w - 1)
<1>1. PlacesFollow /\ WordsOfPlaces
  BY DEF EncoderInv
<1>2. w \in 1 .. Len(code) /\ Len(code) \in Nat /\ Len(first) = Len(code)
  BY <1>1 DEF WordsOfPlaces, PlacesFollow
<1>3. first[w] \in Index /\ w <= first[w] /\ first[w] + Size(first[w]) <= epos
      /\ first[w] + Size(first[w]) = IF w = Len(first) THEN epos ELSE first[w + 1]
  BY <1>1, <1>2 DEF PlacesFollow
<1>4. Group \in Nat /\ Group > 1
  BY GroupAssumption DEF GroupAssumption
<1>5. Size(first[w]) \in {1, Group} /\ (Size(first[w]) > 1 <=> CanFuse(first[w]))
  BY <1>4 DEF Size
<1>6. Covers(w) = first[w] .. first[w] + Size(first[w]) - 1
  <2>1. CASE w = Len(code)
    <3>1. Covers(w) = first[w] .. epos - 1
      BY <2>1, Zenon DEF Covers
    <3>. QED
      BY <1>2, <1>3, <1>4, <1>5, <2>1, <3>1 DEF Index
  <2>2. CASE w # Len(code)
    <3>1. Covers(w) = first[w] .. first[w + 1] - 1
      BY <2>2, Zenon DEF Covers
    <3>. QED
      BY <1>2, <1>3, <1>4, <1>5, <2>2, <3>1 DEF Index
  <2>. QED
    BY <2>1, <2>2
<1>7. Cardinality(Covers(w)) = Size(first[w])
  <2>1. first[w] \in Int /\ first[w] + Size(first[w]) - 1 \in Int /\ first[w] <= first[w] + Size(first[w]) - 1
    BY <1>3, <1>4, <1>5 DEF Index
  <2>2. \A a, b \in Int : a <= b => Cardinality(a .. b) = b - a + 1
    BY FS_Interval
  <2>3. PICK b \in Int : b = first[w] + Size(first[w]) - 1
    BY <2>1
  <2>4. Cardinality(first[w] .. b) = b - first[w] + 1
    BY <2>1, <2>2, <2>3
  <2>5. Covers(w) = first[w] .. b
    BY <1>6, <2>3
  <2>. QED
    BY <1>3, <1>4, <1>5, <2>3, <2>4, <2>5 DEF Index
<1>8. IsFused(w) <=> CanFuse(first[w])
  BY <1>5, <1>7 DEF IsFused
<1>9. cycle = Len(code) /\ epos \in Nat /\ code[w] = WordOf(first[w], w - 1)
  BY <1>1, <1>2 DEF PlacesFollow, WordsOfPlaces
<1>. QED
  BY <1>2, <1>3, <1>5, <1>6, <1>7, <1>8, <1>9

\* The loop of encode_with_labels stays inside the sequence, and every word it
\* pushes inside its 64 bits.
THEOREM EncodeTypeTheorem == EncodeSpec => []EncodeTypeOK
<1>1. ASSUME EncoderState PROVE EncodeTypeOK
  <2>1. Countable /\ EncoderInv /\ OrderOK /\ PlacesFollow /\ WordsOfPlaces
    BY <1>1, ProgramCounts DEF EncoderState, EncoderInv
  <2>2. cycle \in 0 .. Len(prog)
    <3>1. cycle = Len(code) /\ Len(code) \in Nat /\ Len(prog) \in Nat
      BY <2>1 DEF PlacesFollow, WordsOfPlaces, Countable
    <3>2. CASE Len(code) = 0
      BY <3>1, <3>2
    <3>3. CASE Len(code) # 0
      <4>1. Len(code) \in DOMAIN code
        BY <2>1, <3>1, <3>3 DEF WordsOfPlaces
      <4>2. first[Len(code)] \in Index /\ Len(code) <= first[Len(code)]
        BY <2>1, <4>1, WordPlace
      <4>. QED
        BY <3>1, <4>2 DEF Index
    <3>. QED
      BY <3>2, <3>3
  <2>. QED
    BY <1>1, <2>1, <2>2 DEF EncodeTypeOK, EncoderState, PlacesFollow, WordsOfPlaces
<1>. QED
  BY <1>1, EncoderInvariance, PTL

\* The word of a place, seen field by field.
LEMMA WordFields ==
  ASSUME Countable, OrderOK, NEW k \in Index, NEW n \in Nat
  PROVE  /\ CanFuse(k) =>
              /\ Field(WordOf(k, n), 56, 8) = Bits(FusedCode(At(k).opcode), 8)
              /\ Field(WordOf(k, n), 48, 8) = Bits(Group, 8)
              /\ Field(WordOf(k, n), 40, 8) = Bits(n, 8)
         /\ ~CanFuse(k) =>
              /\ Field(WordOf(k, n), 56, 8) = Bits(Code[At(k).opcode], 8)
              /\ Field(WordOf(k, n), 48, 8) = Bits(n, 8)
<1>1. CASE CanFuse(k)
  BY <1>1, FusedCodeField, FusedSize, FusedCycle DEF WordOf
<1>2. CASE ~CanFuse(k)
  <2>1. Len(At(k).operands) \in Nat /\ reuse[k] \in SUBSET {2, 3}
    BY DEF At, Countable, OrderOK
  <2>2. WordOf(k, n) = EncodeStd(At(k), reuse[k], n, k - 1)
    BY <1>2 DEF WordOf
  <2>3. Field(EncodeStd(At(k), reuse[k], n, k - 1), 56, 8) = Bits(Code[At(k).opcode], 8)
    BY <2>1, StdCode
  <2>4. Field(EncodeStd(At(k), reuse[k], n, k - 1), 48, 8) = Bits(n, 8)
    BY <2>1, StdCycle
  <2>. QED
    BY <1>2, <2>2, <2>3, <2>4
<1>. QED
  BY <1>1, <1>2

\* The words of encode_with_labels cover the scheduled instructions without gap
\* or overlap, a word of encode_vavx3 stands for equal opcodes only, and every
\* word carries its number in its cycle field.
THEOREM TileTheorem == EncodeSpec => []WordsTile
<1>1. ASSUME EncoderState PROVE WordsTile
  <2>1. Countable /\ EncoderInv /\ OrderOK /\ PlacesFollow /\ WordsOfPlaces
    BY <1>1, ProgramCounts DEF EncoderState, EncoderInv
  <2>2. DOMAIN code = 1 .. Len(code) /\ Len(code) \in Nat /\ Len(first) = Len(code) /\ epos \in Nat
        /\ epos >= 1
    BY <2>1 DEF PlacesFollow, WordsOfPlaces
  <2>3. UNION {Covers(w) : w \in DOMAIN code} = 1 .. epos - 1
    <3>1. ASSUME NEW w \in DOMAIN code, NEW j \in Covers(w) PROVE j \in 1 .. epos - 1
      <4>1. /\ Covers(w) = first[w] .. first[w] + Size(first[w]) - 1 /\ first[w] \in Index
            /\ first[w] + Size(first[w]) <= epos /\ Size(first[w]) \in {1, Group}
        BY <2>1, WordPlace
      <4>2. Size(first[w]) \in Nat
        BY <4>1, GroupAssumption DEF GroupAssumption
      <4>. QED
        BY <2>2, <3>1, <4>1, <4>2 DEF Index
    <3>2. ASSUME NEW j \in 1 .. epos - 1 PROVE \E w \in DOMAIN code : j \in Covers(w)
      <4>. DEFINE end(w) == first[w] + Size(first[w])
                  T == {w \in DOMAIN code : j < end(w)}
      <4>1. \A w \in DOMAIN code : end(w) = (IF w = Len(code) THEN epos ELSE first[w + 1]) /\ end(w) \in Nat
        <5>1. TAKE w \in DOMAIN code
        <5>2. end(w) = IF w = Len(code) THEN epos ELSE first[w + 1]
          BY <2>1, <2>2 DEF PlacesFollow
        <5>3. first[w] \in Index /\ Size(first[w]) \in {1, Group}
          BY <2>1, WordPlace
        <5>. QED
          BY <5>2, <5>3, GroupAssumption DEF GroupAssumption, Index
      <4>2. T # {} /\ T \in SUBSET Nat
        <5>1. first # <<>>
          BY <2>1, <2>2 DEF PlacesFollow
        <5>2. Len(code) \in DOMAIN code
          BY <2>1, <2>2, <5>1 DEF PlacesFollow
        <5>3. j < end(Len(code))
          BY <4>1, <5>2
        <5>4. Len(code) \in T
          BY <5>2, <5>3
        <5>. QED
          BY <2>2, <5>4
      <4>3. PICK w \in T : \A v \in T : w <= v
        <5>. HIDE DEF T
        <5>. QED
          BY <4>2, Least
      <4>4. w \in DOMAIN code /\ j < end(w)
        OBVIOUS
      <4>5. first[w] <= j
        <5>1. CASE w = 1
          <6>1. first # <<>>
            BY <2>2, <4>4
          <6>2. first[1] = 1
            BY <2>1, <6>1 DEF PlacesFollow
          <6>. QED
            BY <5>1, <6>2
        <5>2. CASE w # 1
          <6>1. w - 1 \in DOMAIN code /\ w - 1 < w /\ w - 1 # Len(code) /\ w - 1 + 1 = w
            BY <2>2, <4>4, <5>2
          <6>2. w - 1 \notin T
            BY <2>2, <4>3, <4>4, <6>1
          <6>3. end(w - 1) = first[w] /\ end(w - 1) \in Nat
            BY <4>1, <6>1
          <6>4. ~(j < end(w - 1))
            BY <6>1, <6>2
          <6>. QED
            BY <6>3, <6>4
        <5>. QED
          BY <5>1, <5>2
      <4>6. j \in Covers(w)
        <5>1. Covers(w) = first[w] .. first[w] + Size(first[w]) - 1 /\ first[w] \in Index
          BY <2>1, <4>4, WordPlace
        <5>2. first[w] \in Int /\ j \in Int
          BY <2>2, <5>1 DEF Index
        <5>3. Size(first[w]) \in Int
          BY <2>1, <4>4, WordPlace, GroupAssumption DEF GroupAssumption
        <5>4. j < first[w] + Size(first[w])
          BY <4>4
        <5>. HIDE DEF T, end
        <5>. QED
          BY <4>5, <5>1, <5>2, <5>3, <5>4
      <4>. QED
        BY <4>4, <4>6
    <3>. QED
      BY <3>1, <3>2
  <2>4. ASSUME NEW w \in DOMAIN code
        PROVE  /\ Cardinality(Covers(w)) \in {1, Group}
               /\ \A j \in Covers(w) : At(j).opcode = At(first[w]).opcode
               /\ Unsigned(Field(code[w], IF IsFused(w) THEN 40 ELSE 48, 8)) = (w - 1) % 256
    <3>1. /\ w - 1 \in Nat /\ first[w] \in Index /\ Size(first[w]) \in {1, Group}
          /\ Covers(w) = first[w] .. first[w] + Size(first[w]) - 1
          /\ Cardinality(Covers(w)) = Size(first[w]) /\ (IsFused(w) <=> CanFuse(first[w]))
          /\ code[w] = WordOf(first[w], w - 1)
      BY <2>1, WordPlace
    <3>2. \A j \in Covers(w) : At(j).opcode = At(first[w]).opcode
      <4>1. CASE CanFuse(first[w])
        <5>1. Covers(w) = first[w] .. first[w] + Group - 1
          BY <3>1, <4>1 DEF Size
        <5>. QED
          BY <4>1, <5>1 DEF CanFuse
      <4>2. CASE ~CanFuse(first[w])
        <5>1. Covers(w) = {first[w]}
          BY <3>1, <4>2 DEF Size, Index
        <5>. QED
          BY <5>1
      <4>. QED
        BY <4>1, <4>2
    <3>3. Field(code[w], IF IsFused(w) THEN 40 ELSE 48, 8) = Bits(w - 1, 8)
      BY <2>1, <3>1, WordFields
    <3>4. Unsigned(Bits(w - 1, 8)) = (w - 1) % 256
      BY <3>1, Unsigned8
    <3>. QED
      BY <3>1, <3>2, <3>3, <3>4
  <2>. QED
    BY <2>3, <2>4, Zenon DEF WordsTile
<1>. QED
  BY <1>1, EncoderInvariance, PTL

-----------------------------------------------------------------------------
\* The opcodes of the model and their codes.
LEMMA CodeFacts ==
  /\ DOMAIN Code = {"IADD3", "LDG", "STG", "BRA", "EXIT", "MOV32I", "XMAD", "FFMA", "VAVX3_MMA_512", "TMAD"}
  /\ DOMAIN OperandCount = DOMAIN Code
  /\ \A o \in DOMAIN Code : Code[o] \in 0 .. 255 /\ OperandCount[o] \in 0 .. 3
  /\ \A o \in DOMAIN Code : Code[o] \in 240 .. 247 <=> o = "VAVX3_MMA_512"
  /\ \A o, p \in DOMAIN Code : Code[o] = Code[p] => o = p
<1>. DEFINE names == {"IADD3", "LDG", "STG", "BRA", "EXIT", "MOV32I", "XMAD", "FFMA", "VAVX3_MMA_512", "TMAD"}
<1>1. DOMAIN Code = names /\ DOMAIN OperandCount = names
  BY DEF Code, OperandCount
<1>2. /\ Code["IADD3"] = 2 /\ Code["LDG"] = 23 /\ Code["STG"] = 25 /\ Code["BRA"] = 28 /\ Code["EXIT"] = 32
      /\ Code["MOV32I"] = 39 /\ Code["XMAD"] = 78 /\ Code["FFMA"] = 89 /\ Code["VAVX3_MMA_512"] = 243
      /\ Code["TMAD"] = 248
  BY DEF Code
<1>3. /\ OperandCount["IADD3"] = 3 /\ OperandCount["LDG"] = 2 /\ OperandCount["STG"] = 2
      /\ OperandCount["BRA"] = 1 /\ OperandCount["EXIT"] = 0 /\ OperandCount["MOV32I"] = 2
      /\ OperandCount["XMAD"] = 3 /\ OperandCount["FFMA"] = 3 /\ OperandCount["VAVX3_MMA_512"] = 3
      /\ OperandCount["TMAD"] = 3
  BY DEF OperandCount
<1>4. \A o \in names : Code[o] \in 0 .. 255 /\ OperandCount[o] \in 0 .. 3
  BY <1>2, <1>3
<1>5. \A o \in names : Code[o] \in 240 .. 247 <=> o = "VAVX3_MMA_512"
  BY <1>2
<1>6. \A o, p \in names : Code[o] = Code[p] => o = p
  BY <1>2
<1>. QED
  BY <1>1, <1>4, <1>5, <1>6

\* disassemble shows a word as a fused one when encode_vavx3 made it, and when it
\* is that of a vector instruction whose cycle equals the size of a group.
THEOREM FusedTheorem == EncodeSpec => []FusedShown
<1>1. ASSUME EncoderState PROVE FusedShown
  <2>1. Countable /\ EncoderInv /\ OrderOK
    BY <1>1, ProgramCounts DEF EncoderState, EncoderInv
  <2>2. Group % 256 = Group /\ Group \in Nat
    BY GroupAssumption DEF GroupAssumption
  <2>3. SUFFICES ASSUME NEW w \in DOMAIN code
        PROVE  ShowsFused(code[w]) <=>
                 IsFused(w) \/ (At(first[w]).opcode = "VAVX3_MMA_512" /\ (w - 1) % 256 = Group)
    BY Zenon DEF FusedShown
  <2>4. /\ w - 1 \in Nat /\ first[w] \in Index
        /\ IsFused(w) <=> CanFuse(first[w])
        /\ code[w] = WordOf(first[w], w - 1)
    BY <2>1, WordPlace
  <2>5. CASE CanFuse(first[w])
    <3>1. FusedCode(At(first[w]).opcode) \in {241, 242, 245}
      BY DEF FusedCode
    <3>2. Unsigned(Field(code[w], 56, 8)) = FusedCode(At(first[w]).opcode) % 256
      BY <2>1, <2>4, <2>5, <3>1, WordFields, Unsigned8
    <3>3. Unsigned(Field(code[w], 48, 8)) = Group % 256
      BY <2>1, <2>2, <2>4, <2>5, WordFields, Unsigned8
    <3>. QED
      BY <2>2, <2>4, <2>5, <3>1, <3>2, <3>3 DEF ShowsFused
  <2>6. CASE ~CanFuse(first[w])
    <3>1. At(first[w]).opcode \in DOMAIN Code
      BY <1>1, <2>1, <2>4, ProgramCounts DEF EncoderState, OrderOK, At, ResolvedInst
    <3>2. Code[At(first[w]).opcode] \in 0 .. 255
          /\ (Code[At(first[w]).opcode] \in 240 .. 247 <=> At(first[w]).opcode = "VAVX3_MMA_512")
      BY <3>1, CodeFacts
    <3>3. Unsigned(Field(code[w], 56, 8)) = Code[At(first[w]).opcode] % 256
      BY <2>1, <2>4, <2>6, <3>2, WordFields, Unsigned8
    <3>4. Unsigned(Field(code[w], 48, 8)) = (w - 1) % 256
      BY <2>1, <2>4, <2>6, WordFields, Unsigned8
    <3>. QED
      BY <2>4, <2>6, <3>2, <3>3, <3>4 DEF ShowsFused
  <2>. QED
    BY <2>5, <2>6
<1>. QED
  BY <1>1, EncoderInvariance, PTL

\* The operands an instruction that fits may have.
LEMMA PrintedKinds ==
  ASSUME NEW opcode, NEW k, NEW t \in KindsPrinted(opcode, k) PROVE t \in {"REG", "IMM", "MEM"}
<1>1. \/ KindsPrinted(opcode, k) = {"REG"} \/ KindsPrinted(opcode, k) = {"REG", "IMM"}
      \/ KindsPrinted(opcode, k) = {} \/ KindsPrinted(opcode, k) = {"REG", "IMM", "MEM"}
  BY Zenon DEF KindsPrinted
<1>. QED
  BY <1>1

LEMMA FittingCount ==
  ASSUME NEW inst \in ResolvedInst, Fits(inst)
  PROVE  /\ Len(inst.operands) \in Nat /\ Len(inst.operands) <= 3
         /\ Encoded(inst) = DOMAIN inst.operands /\ DOMAIN inst.operands = 1 .. Len(inst.operands)
         /\ \A k \in DOMAIN inst.operands : k \in {1, 2, 3} /\ k \in 1 .. OperandCount[inst.opcode]
<1>1. inst.opcode \in DOMAIN Code /\ inst.operands \in Seq(ResolvedOperand)
  BY DEF ResolvedInst
<1>2. OperandCount[inst.opcode] \in 0 .. 3
  BY <1>1, CodeFacts
<1>3. Len(inst.operands) <= OperandCount[inst.opcode]
  BY DEF Fits
<1>4. Len(inst.operands) \in Nat /\ DOMAIN inst.operands = 1 .. Len(inst.operands)
  BY <1>1
<1>5. Len(inst.operands) <= 3 /\ Encoded(inst) = 1 .. Len(inst.operands)
  BY <1>2, <1>3, <1>4 DEF Encoded
<1>. QED
  BY <1>2, <1>3, <1>4, <1>5

LEMMA FittingKind ==
  ASSUME NEW inst \in ResolvedInst, Fits(inst), NEW k \in DOMAIN inst.operands
  PROVE  /\ inst.operands[k].type \in KindsPrinted(inst.opcode, k)
         /\ inst.operands[k].type \in {"REG", "IMM", "MEM"}
         /\ inst.operands[k] \in ResolvedOperand
<1>1. inst.operands[k].type \in KindsPrinted(inst.opcode, k)
  BY DEF Fits
<1>2. inst.operands[k].type \in {"REG", "IMM", "MEM"}
  BY <1>1, PrintedKinds
<1>3. inst.operands[k] \in ResolvedOperand
  BY DEF ResolvedInst
<1>. QED
  BY <1>1, <1>2, <1>3

LEMMA FittingReg ==
  ASSUME NEW inst \in ResolvedInst, Fits(inst), NEW k \in DOMAIN inst.operands,
         inst.operands[k].type = "REG"
  PROVE  /\ inst.operands[k].reg \in 0 .. 255
         /\ inst.operands[k] = [type |-> "REG", reg |-> inst.operands[k].reg]
<1>1. PICK op : op = inst.operands[k]
  OBVIOUS
<1>2. op \in ResolvedOperand /\ op.type = "REG"
  BY <1>1, FittingKind
<1>3. op \in [type : {"REG"}, reg : 0 .. 255]
  BY <1>2 DEF ResolvedOperand
<1>4. op.reg \in 0 .. 255 /\ op = [type |-> "REG", reg |-> op.reg]
  BY <1>3
<1>. QED
  BY <1>1, <1>4

LEMMA FittingImm ==
  ASSUME NEW inst \in ResolvedInst, Fits(inst), NEW k \in DOMAIN inst.operands,
         inst.operands[k].type = "IMM"
  PROVE  /\ inst.operands[k].val \in Int /\ 0 <= inst.operands[k].val + 8192 /\ inst.operands[k].val < 8192
         /\ inst.operands[k] = [type |-> "IMM", val |-> inst.operands[k].val]
<1>1. PICK op : op = inst.operands[k]
  OBVIOUS
<1>2. op \in ResolvedOperand /\ op.type = "IMM"
  BY <1>1, FittingKind
<1>3. op \in [type : {"IMM"}, val : Int]
  BY <1>2 DEF ResolvedOperand
<1>4. op.val \in Int /\ op = [type |-> "IMM", val |-> op.val]
  BY <1>3
<1>5. -8192 <= op.val /\ op.val < 8192
  BY <1>1 DEF Fits
<1>6. 0 <= op.val + 8192
  BY <1>4, <1>5
<1>. QED
  BY <1>1, <1>4, <1>5, <1>6

LEMMA FittingMem ==
  ASSUME NEW inst \in ResolvedInst, Fits(inst), NEW k \in DOMAIN inst.operands,
         inst.operands[k].type = "MEM"
  PROVE  /\ inst.operands[k].base \in 0 .. 63 /\ inst.operands[k].offset \in -128 .. 127
         /\ inst.opcode = "STG" /\ k = 1 => inst.operands[k].base = 0
         /\ inst.operands[k] = [type |-> "MEM", base |-> inst.operands[k].base,
                                offset |-> inst.operands[k].offset]
<1>1. PICK op : op = inst.operands[k]
  OBVIOUS
<1>2. op \in ResolvedOperand /\ op.type = "MEM"
  BY <1>1, FittingKind
<1>3. op \in [type : {"MEM"}, base : 0 .. 255, offset : -2^15 .. 2^15 - 1]
  BY <1>2 DEF ResolvedOperand
<1>4. op.base \in 0 .. 255 /\ op = [type |-> "MEM", base |-> op.base, offset |-> op.offset]
  BY <1>3
<1>5. /\ op.base < 64 /\ op.offset \in -128 .. 127
      /\ inst.opcode = "STG" /\ k = 1 => op.base = 0
  BY <1>1 DEF Fits
<1>6. op.base \in 0 .. 63
  BY <1>4, <1>5
<1>. QED
  BY <1>1, <1>4, <1>5, <1>6

\* Where the third slot meets the reuse flags nothing is lost when the
\* instruction and its marks are disjoint.
LEMMA FlagsApart ==
  ASSUME NEW inst \in ResolvedInst, Fits(inst), NEW marked \in SUBSET {2, 3}, Disjoint(inst, marked),
         NEW idx, 3 \in DOMAIN inst.operands
  PROVE  /\ inst.operands[3].type = "REG" \/ marked = {}
         /\ \A b \in 8 .. 10 : b \notin EncodeOperand(inst, 3, idx)
<1>1. Len(inst.operands) \in Nat /\ Len(inst.operands) <= 3 /\ Len(inst.operands) >= 3
  BY FittingCount
<1>2. CASE inst.operands[3].type = "REG"
  <2>1. EncodeOperand(inst, 3, idx) = Bits(inst.operands[3].reg, 8)
    BY <1>2 DEF EncodeOperand, EncodeReg
  <2>2. Bits(inst.operands[3].reg, 8) \in SUBSET (0 .. 7)
    BY BitsInside
  <2>. QED
    BY <1>2, <2>1, <2>2
<1>3. CASE inst.operands[3].type # "REG"
  <2>1. marked = {} /\ \A b \in 8 .. 10 : b \notin EncodeOperand(inst, 3, 0)
    BY <1>1, <1>3 DEF Disjoint
  <2>2. inst.operands[3].type \in {"IMM", "MEM"}
    <3>1. inst.operands[3].type \in {"REG", "IMM", "MEM"}
      BY FittingKind
    <3>. QED
      BY <1>3, <3>1
  <2>3. EncodeOperand(inst, 3, 0) = EncodeOperand(inst, 3, idx)
    BY <2>2 DEF EncodeOperand
  <2>. QED
    BY <2>1, <2>3
<1>. QED
  BY <1>2, <1>3

LEMMA OperandShown ==
  ASSUME NEW inst \in ResolvedInst, Fits(inst), NEW marked \in SUBSET {2, 3}, Disjoint(inst, marked),
         NEW n, NEW idx, NEW k \in DOMAIN inst.operands
  PROVE  LET word == EncodeStd(inst, marked, n, idx)
         IN  Shown(word, k) = inst.operands[k] /\ k \in Printed(word, inst.opcode)
<1>. DEFINE word == EncodeStd(inst, marked, n, idx)
            op == inst.operands[k]
            flags == {x \in 8 .. 10 : k = 3 /\ x - 7 \in marked \intersect Encoded(inst)}
<1>1. /\ k \in Encoded(inst) /\ k \in {1, 2, 3} /\ k \in 1 .. OperandCount[inst.opcode]
      /\ Len(inst.operands) \in Nat
  BY FittingCount
<1>7. op.type \in KindsPrinted(inst.opcode, k) /\ op.type \in {"REG", "IMM", "MEM"}
  BY FittingKind
<1>2. Slot(word, k) = EncodeOperand(inst, k, idx) \union flags
  BY <1>1, StdSlot
<1>3. op.type # "REG" => flags = {}
  BY FlagsApart
<1>4. flags \in SUBSET (8 .. 10)
  OBVIOUS
<1>. HIDE DEF word, flags
<1>5. /\ Shown(word, k) = op
      /\ ~(inst.opcode = "STG" /\ k = 1) => ~IsPureOffset(Slot(word, k))
  <2>1. CASE op.type = "REG"
    <3>1. EncodeOperand(inst, k, idx) = EncodeReg(op.reg)
      BY <2>1 DEF EncodeOperand
    <3>2. op.reg \in 0 .. 255 /\ op = [type |-> "REG", reg |-> op.reg]
      BY <2>1, FittingReg
    <3>. HIDE DEF op
    <3>3. DecodeOperand(EncodeReg(op.reg) \union flags) = [type |-> "REG", reg |-> op.reg]
      BY <1>4, <3>2, RegShown
    <3>4. 14 \notin EncodeReg(op.reg) \union flags
      <4>1. EncodeReg(op.reg) \in SUBSET (0 .. 7)
        BY BitsInside DEF EncodeReg
      <4>. QED
        BY <1>4, <4>1
    <3>. QED
      BY <1>2, <3>1, <3>2, <3>3, <3>4 DEF Shown, IsPureOffset
  <2>2. CASE op.type = "IMM"
    <3>1. EncodeOperand(inst, k, idx) = EncodeImm(Int16(op.val))
      BY <2>2 DEF EncodeOperand
    <3>2. op.val \in Int /\ 0 <= op.val + 8192 /\ op.val < 8192 /\ op = [type |-> "IMM", val |-> op.val]
      BY <2>2, FittingImm
    <3>3. flags = {}
      BY <1>3, <2>2
    <3>. HIDE DEF op
    <3>4. Int16(op.val) = op.val
      BY <3>2, Signed16
    <3>5. DecodeOperand(EncodeImm(op.val)) = [type |-> "IMM", val |-> op.val]
      BY <3>2, ImmShown
    <3>6. 15 \notin EncodeImm(op.val)
      BY BitsInside DEF EncodeImm
    <3>. QED
      BY <1>2, <3>1, <3>2, <3>3, <3>4, <3>5, <3>6 DEF Shown, IsPureOffset
  <2>3. CASE op.type = "MEM" /\ inst.opcode = "STG" /\ k = 1
    <3>1. EncodeOperand(inst, k, idx) = EncodeMems(op.offset)
      BY <2>3 DEF EncodeOperand
    <3>2. op.offset \in -128 .. 127 /\ op = [type |-> "MEM", base |-> 0, offset |-> op.offset]
      BY <2>3, FittingMem
    <3>3. flags = {}
      BY <1>3, <2>3
    <3>. HIDE DEF op
    <3>4. DecodeOperand(EncodeMems(op.offset)) = [type |-> "MEM", base |-> 0, offset |-> op.offset]
      BY <3>2, MemsShown
    <3>. QED
      BY <1>2, <2>3, <3>1, <3>2, <3>3, <3>4 DEF Shown
  <2>4. CASE op.type = "MEM" /\ ~(inst.opcode = "STG" /\ k = 1)
    <3>1. EncodeOperand(inst, k, idx) = EncodeMem(op.base, op.offset)
      BY <2>4 DEF EncodeOperand
    <3>2. op.base \in 0 .. 63 /\ op.offset \in -128 .. 127
          /\ op = [type |-> "MEM", base |-> op.base, offset |-> op.offset]
      BY <2>4, FittingMem
    <3>3. flags = {}
      BY <1>3, <2>4
    <3>. HIDE DEF op
    <3>4. DecodeOperand(EncodeMem(op.base, op.offset)) = [type |-> "MEM", base |-> op.base, offset |-> op.offset]
          /\ ~IsPureOffset(EncodeMem(op.base, op.offset))
      BY <3>2, MemShown
    <3>. QED
      BY <1>2, <3>1, <3>2, <3>3, <3>4 DEF Shown
  <2>. QED
    BY <1>7, <2>1, <2>2, <2>3, <2>4
<1>6. k \in Printed(word, inst.opcode)
  <2>. DEFINE t == op.type
              c == inst.opcode
  <2>1. Shown(word, k).type = t /\ t \in KindsPrinted(c, k) /\ k \in 1 .. OperandCount[c]
    BY <1>1, <1>5, <1>7
  <2>2. ~(c = "STG" /\ k = 1) => ~IsPureOffset(Slot(word, k))
    BY <1>5
  <2>. HIDE DEF t, c, op
  <2>3. k \in Printed(word, c)
    <3>1. CASE c = "STG"
      BY <1>1, <2>1, <3>1 DEF Printed, KindsPrinted
    <3>2. CASE c = "LDG"
      <4>1. OperandCount[c] = 2
        BY <3>2 DEF OperandCount
      <4>. QED
        BY <1>1, <2>1, <3>2, <4>1 DEF Printed, KindsPrinted
    <3>3. CASE c = "BRA"
      BY <1>1, <2>1, <3>3 DEF Printed, KindsPrinted
    <3>4. CASE c = "VAVX3_MMA_512"
      BY <1>1, <2>1, <3>4 DEF Printed, KindsPrinted
    <3>5. CASE c = "TMAD"
      BY <1>1, <2>1, <3>5 DEF Printed, KindsPrinted
    <3>6. CASE c \notin {"STG", "LDG", "BRA", "VAVX3_MMA_512", "TMAD"}
      BY <2>1, <2>2, <3>6 DEF Printed
    <3>. QED
      BY <3>1, <3>2, <3>3, <3>4, <3>5, <3>6
  <2>. QED
    BY <2>3 DEF c
<1>. QED
  BY <1>5, <1>6 DEF word

LEMMA MarksShown ==
  ASSUME NEW inst \in ResolvedInst, Fits(inst), NEW marked \in SUBSET {2, 3}, Disjoint(inst, marked),
         NEW n, NEW idx, \A k \in marked : k \in DOMAIN inst.operands /\ inst.operands[k].type = "REG",
         inst.opcode \notin {"LDG", "STG", "BRA"}
  PROVE  PrintedReuse(EncodeStd(inst, marked, n, idx), inst.opcode) \intersect DOMAIN inst.operands = marked
<1>. DEFINE word == EncodeStd(inst, marked, n, idx)
<1>1. ASSUME NEW k \in DOMAIN inst.operands
      PROVE  k \in PrintedReuse(word, inst.opcode) <=> k \in marked
  <2>1. Shown(word, k) = inst.operands[k] /\ k \in Printed(word, inst.opcode)
    BY OperandShown
  <2>2. /\ k \in Encoded(inst) /\ k \in {1, 2, 3} /\ Len(inst.operands) \in Nat
        /\ Encoded(inst) = DOMAIN inst.operands
    BY FittingCount
  <2>3. 40 + k - 1 \in word <=>
           \/ k \in marked \intersect Encoded(inst)
           \/ 3 \in Encoded(inst) /\ 7 + k \in EncodeOperand(inst, 3, idx)
    BY <2>2, StdFlags
  <2>4. 3 \in Encoded(inst) => 7 + k \notin EncodeOperand(inst, 3, idx)
    <3>1. 7 + k \in 8 .. 10
      BY <2>2
    <3>2. HAVE 3 \in Encoded(inst)
    <3>3. \A b \in 8 .. 10 : b \notin EncodeOperand(inst, 3, idx)
      BY <2>2, <3>2, FlagsApart
    <3>. QED
      BY <3>1, <3>3
  <2>5. 40 + k - 1 \in word <=> k \in marked
    BY <2>2, <2>3, <2>4
  <2>. HIDE DEF word
  <2>. QED
    BY <2>1, <2>5 DEF PrintedReuse
<1>. QED
  BY <1>1

\* disassemble shows a word of encode_std as the instruction it was made from,
\* operand by operand and with its reuse marks, when the instruction fits.
THEOREM RoundTripTheorem == EncodeSpec => []RoundTrip
<1>1. ASSUME EncoderState PROVE RoundTrip
  <2>1. Countable /\ EncoderInv /\ OrderOK
    BY <1>1, ProgramCounts DEF EncoderState, EncoderInv
  <2>2. SUFFICES ASSUME NEW w \in DOMAIN code, ~IsFused(w), Fits(At(first[w])),
                        Disjoint(At(first[w]), reuse[first[w]])
        PROVE  LET inst == At(first[w])
               IN  /\ ShownOpcode(code[w]) = inst.opcode
                   /\ \A k \in DOMAIN inst.operands :
                        k \in Printed(code[w], inst.opcode) /\ Shown(code[w], k) = inst.operands[k]
                   /\ inst.opcode \notin {"LDG", "STG", "BRA"} =>
                        PrintedReuse(code[w], inst.opcode) \intersect DOMAIN inst.operands = reuse[first[w]]
    BY Zenon DEF RoundTrip
  <2>. DEFINE inst == At(first[w])
              marked == reuse[first[w]]
  <2>3. w - 1 \in Nat /\ first[w] \in Index /\ ~CanFuse(first[w]) /\ code[w] = WordOf(first[w], w - 1)
    BY <2>1, <2>2, WordPlace
  <2>4. code[w] = EncodeStd(inst, marked, w - 1, first[w] - 1)
    BY <2>3 DEF WordOf
  <2>5. inst \in ResolvedInst /\ marked \in SUBSET {2, 3}
    BY <1>1, <2>1, <2>3, ProgramCounts DEF EncoderState, OrderOK, At
  <2>6. marked = Marked(first[w])
    <3>1. code # <<>>
      OBVIOUS
    <3>. QED
      BY <2>1, <2>3, <3>1 DEF EncoderInv
  <2>7. \A k \in marked : k \in DOMAIN inst.operands /\ inst.operands[k].type = "REG"
    BY <2>6 DEF Marked
  <2>8. ShownOpcode(code[w]) = inst.opcode
    <3>1. inst.opcode \in DOMAIN Code
      BY <2>5 DEF ResolvedInst
    <3>2. Code[inst.opcode] \in 0 .. 255 /\ \A o \in DOMAIN Code : Code[o] = Code[inst.opcode] => o = inst.opcode
      BY <3>1, CodeFacts
    <3>3. Field(code[w], 56, 8) = Bits(Code[inst.opcode], 8)
      BY <2>1, <2>3, WordFields
    <3>4. Unsigned(Field(code[w], 56, 8)) = Code[inst.opcode]
      BY <3>2, <3>3, Unsigned8
    <3>. HIDE DEF inst
    <3>. QED
      BY <3>1, <3>2, <3>4 DEF ShownOpcode
  <2>9. Fits(inst) /\ Disjoint(inst, marked)
    BY <2>2
  <2>. HIDE DEF inst, marked
  <2>10. \A k \in DOMAIN inst.operands :
            k \in Printed(code[w], inst.opcode) /\ Shown(code[w], k) = inst.operands[k]
    BY <2>4, <2>5, <2>9, OperandShown
  <2>11. inst.opcode \notin {"LDG", "STG", "BRA"} =>
            PrintedReuse(code[w], inst.opcode) \intersect DOMAIN inst.operands = marked
    BY <2>4, <2>5, <2>7, <2>9, MarksShown
  <2>. QED
    BY <2>8, <2>10, <2>11 DEF inst, marked
<1>. QED
  BY <1>1, EncoderInvariance, PTL

-----------------------------------------------------------------------------
(* From text to word.                                                      *)

\* What Assemble makes of an instruction, and the state around it.
Linked(inst) == [inst EXCEPT !.operands = [n \in DOMAIN @ |-> Resolve(@[n])]]
AssemblerInv ==
  IF estage = "parse"
  THEN code = <<>> /\ first = <<>> /\ epos = 1 /\ cycle = 0
  ELSE /\ stage = "parsed" /\ insts \in Seq(Inst)
       /\ prog = [k \in DOMAIN insts |-> Linked(insts[k])]
       /\ EncoderInv

LEMMA LinkedFacts ==
  ASSUME NEW inst \in Inst
  PROVE  /\ Linked(inst).opcode = inst.opcode
         /\ Len(Linked(inst).operands) = Len(inst.operands) /\ Len(inst.operands) \in Nat
         /\ \A n \in DOMAIN inst.operands : Linked(inst).operands[n] = Resolve(inst.operands[n])
<1>1. inst \in [opcode : {OpcodeOf[s] : s \in DOMAIN OpcodeOf} \union {"UNKNOWN"}, operands : Seq(Operand)]
  BY DEF Inst
<1>2. Len(inst.operands) \in Nat /\ DOMAIN inst.operands = 1 .. Len(inst.operands)
  BY <1>1
<1>3. Linked(inst).opcode = inst.opcode
      /\ Linked(inst).operands = [n \in DOMAIN inst.operands |-> Resolve(inst.operands[n])]
  BY <1>1 DEF Linked
<1>. QED
  BY <1>2, <1>3

LEMMA LinkedCounts ==
  ASSUME insts \in Seq(Inst), prog = [k \in DOMAIN insts |-> Linked(insts[k])]
  PROVE  Countable /\ Len(prog) = Len(insts) /\ Index = DOMAIN insts
<1>1. Len(insts) \in Nat /\ DOMAIN insts = 1 .. Len(insts) /\ \A k \in DOMAIN insts : insts[k] \in Inst
  OBVIOUS
<1>2. Len(prog) = Len(insts) /\ Index = DOMAIN insts
  BY <1>1 DEF Index
<1>3. ASSUME NEW k \in DOMAIN insts PROVE Len(prog[k].operands) \in Nat
  <2>1. prog[k] = Linked(insts[k])
    OBVIOUS
  <2>. QED
    BY <1>1, <2>1, LinkedFacts
<1>. QED
  BY <1>1, <1>2, <1>3 DEF Countable

\* In the assembler the program of the encoder is the parser's, with the labels
\* looked up in its table, and the encoder's invariant holds of it.
LEMMA AssemblerInvariance == Spec => []AssemblerInv
<1>1. ASSUME Init PROVE AssemblerInv
  BY <1>1 DEF Init, AssemblerInv
<1>2. ASSUME ParserInv, AssemblerInv, [Next]_vars PROVE AssemblerInv'
  <2>1. CASE Parse
    <3>1. UNCHANGED encodeVars /\ stage # "parsed"
      BY <2>1 DEF Parse, ParseNext, PeekFirst, ConsumeFirst, Construct, TokenizeAll, AtTop,
                  ParseDirective, LabelDefinition, SkipToken, ParseInstruction, ParseOperand,
                  NoOperand, Throw, Comma, EndOfFile
    <3>2. estage = "parse"
      BY <1>2, <3>1 DEF AssemblerInv
    <3>. QED
      BY <1>2, <3>1, <3>2 DEF AssemblerInv, encodeVars
  <2>2. CASE Assemble
    <3>1. /\ stage = "parsed" /\ estage = "parse" /\ estage' = "schedule" /\ stage' = stage
          /\ insts' = insts /\ labels' = labels /\ epos' = epos /\ cycle' = cycle /\ code' = code /\ first' = first
          /\ seq' = [k \in DOMAIN insts |-> k] /\ reuse' = [k \in DOMAIN insts |-> {}]
      BY <2>2 DEF Assemble, parseVars
    <3>2. prog' = [k \in DOMAIN insts |-> Linked(insts[k])]
      BY <2>2, Zenon DEF Assemble, Linked
    <3>3. insts \in Seq(Inst)
      BY <1>2, <3>1 DEF ParserInv, PlaceInv, Lexing
    <3>4. code = <<>> /\ first = <<>> /\ epos = 1 /\ cycle = 0
      BY <1>2, <3>1 DEF AssemblerInv
    <3>5. Index' = DOMAIN insts /\ Len(prog') \in Nat
      BY <3>2, <3>3 DEF Index
    <3>6. OrderOK'
      BY <3>1, <3>5 DEF OrderOK
    <3>7. PlacesFollow'
      BY <3>1, <3>4, <3>5 DEF PlacesFollow
    <3>8. WordsOfPlaces'
      BY <3>1, <3>4 DEF WordsOfPlaces
    <3>9. EncoderInv'
      BY <3>1, <3>4, <3>6, <3>7, <3>8 DEF EncoderInv
    <3>10. \A i : Linked(i)' = Linked(i)
      BY <3>1, Zenon DEF Linked, Resolve
    <3>. QED
      BY <3>1, <3>2, <3>3, <3>9, <3>10 DEF AssemblerInv
  <2>3. CASE Encode
    <3>1. EncodeNext /\ UNCHANGED <<lexVars, parseVars>>
      BY <2>3 DEF Encode
    <3>2. estage # "parse" /\ estage' # "parse" /\ prog' = prog
      BY <3>1 DEF EncodeNext, Schedule, InsertReuse, EncodeWord, EncodeDone
    <3>3. stage' = stage /\ insts' = insts /\ labels' = labels
      BY <3>1 DEF parseVars
    <3>4. EncoderInv'
      BY <1>2, <3>1, <3>2, LinkedCounts, EncoderAssumption, EncoderStep DEF AssemblerInv
    <3>5. \A i : Linked(i)' = Linked(i)
      BY <3>3, Zenon DEF Linked, Resolve
    <3>. QED
      BY <1>2, <3>2, <3>3, <3>4, <3>5 DEF AssemblerInv
  <2>4. CASE UNCHANGED vars
    <3>1. UNCHANGED encodeVars /\ stage' = stage /\ insts' = insts /\ labels' = labels
      BY <2>4 DEF vars, parseVars
    <3>2. prog' = prog /\ estage' = estage /\ code' = code /\ first' = first /\ epos' = epos /\ cycle' = cycle
      BY <3>1 DEF encodeVars
    <3>3. \A i : Linked(i)' = Linked(i)
      BY <3>1, Zenon DEF Linked, Resolve
    <3>4. EncoderInv => EncoderInv'
      BY <3>1, EncoderStutters
    <3>. QED
      BY <1>2, <3>1, <3>2, <3>3, <3>4 DEF AssemblerInv
  <2>. QED
    BY <1>2, <2>1, <2>2, <2>3, <2>4 DEF Next
<1>. QED
  BY <1>1, <1>2, ParserInvariance, PTL DEF Spec

\* As many words as instructions: then every word is one instruction, its own.
LEMMA OneEach ==
  ASSUME Countable, EncoderInv, estage = "done", Len(code) = Len(prog), NEW w \in 1 .. Len(prog)
  PROVE  first[w] = w /\ ~CanFuse(w)
<1>. DEFINE n == Len(prog)
            moved == {v \in 1 .. n : first[v] # v}
<1>1. n \in Nat /\ Len(first) = n /\ epos = n + 1 /\ DOMAIN code = 1 .. n
  BY DEF EncoderInv, PlacesFollow, WordsOfPlaces, Countable
<1>2. \A v \in 1 .. n : first[v] + Size(first[v]) = IF v = n THEN n + 1 ELSE first[v + 1]
  BY <1>1 DEF EncoderInv, PlacesFollow
<1>3. \A v \in 1 .. n : first[v] \in 1 .. n /\ v <= first[v] /\ Size(first[v]) \in Nat \ {0}
  <2>1. TAKE v \in 1 .. n
  <2>2. first[v] \in Index /\ v <= first[v] /\ Size(first[v]) \in {1, Group}
    BY <1>1, WordPlace
  <2>. QED
    BY <2>2, GroupAssumption DEF GroupAssumption, Index
<1>. HIDE DEF n
<1>4. moved = {}
  <2>1. SUFFICES ASSUME moved # {} PROVE FALSE
    OBVIOUS
  <2>. DEFINE T == {n - v : v \in moved}
  <2>2. T \in SUBSET Nat /\ T # {}
    BY <1>1, <2>1
  <2>3. PICK x \in T : \A y \in T : x <= y
    <3>. HIDE DEF T
    <3>. QED
      BY <2>2, Least
  <2>4. PICK v \in moved : x = n - v
    OBVIOUS
  <2>5. v \in 1 .. n /\ first[v] # v
    OBVIOUS
  <2>6. first[v] \in 1 .. n /\ first[v] > v
    BY <1>3, <2>5
  <2>7. v + 1 \in 1 .. n /\ v # n
    BY <1>1, <2>5, <2>6
  <2>8. v + 1 \notin moved
    <3>1. ASSUME v + 1 \in moved PROVE n - (v + 1) \in T
      BY <3>1
    <3>2. n - (v + 1) < x
      BY <1>1, <2>4, <2>5
    <3>3. n - (v + 1) \notin T
      <4>. HIDE DEF T
      <4>1. n - (v + 1) \in Int /\ x \in Int
        BY <1>1, <2>2, <2>5
      <4>. QED
        BY <2>3, <3>2, <4>1
    <3>. QED
      BY <3>1, <3>3
  <2>9. first[v + 1] = v + 1
    BY <2>7, <2>8
  <2>10. first[v] + Size(first[v]) = v + 1
    BY <1>2, <2>5, <2>7, <2>9
  <2>11. Size(first[v]) \in Nat /\ Size(first[v]) > 0
    BY <1>3, <2>5
  <2>. QED
    BY <2>5, <2>6, <2>10, <2>11
<1>5. \A v \in 1 .. n : first[v] = v
  BY <1>4
<1>6. w \in 1 .. n
  BY DEF n
<1>7. w + Size(w) = w + 1
  <2>1. first[w] = w /\ first[w] + Size(first[w]) = IF w = n THEN n + 1 ELSE first[w + 1]
    BY <1>2, <1>5, <1>6
  <2>2. w # n => first[w + 1] = w + 1
    BY <1>1, <1>5, <1>6
  <2>. QED
    BY <2>1, <2>2
<1>8. Size(w) = 1
  <2>1. Size(w) \in Nat
    BY GroupAssumption DEF GroupAssumption, Size
  <2>. QED
    BY <1>6, <1>7, <2>1
<1>. QED
  BY <1>5, <1>6, <1>8, GroupAssumption DEF GroupAssumption, Size

\* A branch in the text leads, in the words of assemble, to the word of the first
\* opcode behind the definition of its label.
THEOREM BranchTheorem == Spec => []SourceBranchLands
<1>1. ASSUME ParserInv, LabelsExact, AssemblerInv PROVE SourceBranchLands
  <2>1. SUFFICES ASSUME estage = "done", seq = [k \in DOMAIN insts |-> k], Len(code) = Len(insts),
                        NEW w \in DOMAIN insts, insts[w].opcode = "BRA", insts[w].operands # <<>>,
                        insts[w].operands[1].type = "LABEL",
                        NEW i \in Kept(insts[w].operands[1].name),
                        Definitions(insts[w].operands[1].name) = {i},
                        -8192 <= 8 * (OpcodesBefore(i) - (w - 1)), 8 * (OpcodesBefore(i) - (w - 1)) < 8192
                 PROVE  Shown(code[w], 1) = [type |-> "IMM", val |-> 8 * (OpcodesBefore(i) - (w - 1))]
    BY DEF SourceBranchLands
  <2>. DEFINE name == insts[w].operands[1].name
              offset == 8 * (OpcodesBefore(i) - (w - 1))
  <2>2. /\ stage = "parsed" /\ insts \in Seq(Inst) /\ EncoderInv
        /\ prog = [k \in DOMAIN insts |-> Linked(insts[k])]
    BY <1>1, <2>1 DEF AssemblerInv
  <2>3. Countable /\ Len(prog) = Len(insts) /\ Index = DOMAIN insts
    BY <2>2, LinkedCounts
  <2>4. w \in 1 .. Len(prog) /\ w \in Nat /\ w >= 1 /\ w \in DOMAIN code
    BY <2>1, <2>2, <2>3 DEF EncoderInv, WordsOfPlaces
  <2>5. first[w] = w /\ ~CanFuse(w)
    BY <2>1, <2>2, <2>3, <2>4, OneEach
  <2>6. insts[w] \in Inst /\ At(w) = Linked(insts[w])
    BY <2>1, <2>2, <2>4 DEF At
  <2>7. code[w] = EncodeStd(Linked(insts[w]), reuse[w], w - 1, w - 1)
    <3>1. code[w] = WordOf(first[w], w - 1)
      BY <2>2, <2>3, <2>4, WordPlace
    <3>. QED
      BY <2>5, <2>6, <3>1 DEF WordOf
  <2>8. reuse[w] \in SUBSET {2, 3}
    BY <2>1, <2>2, <2>3 DEF EncoderInv, OrderOK
  <2>9. name \in Word /\ 1 \in DOMAIN insts[w].operands /\ Len(insts[w].operands) \in Nat
        /\ Len(insts[w].operands) >= 1
    <3>1. insts[w].operands \in Seq(Operand)
      BY <2>6 DEF Inst
    <3>2. 1 \in DOMAIN insts[w].operands /\ Len(insts[w].operands) \in Nat /\ Len(insts[w].operands) >= 1
      BY <2>1, <3>1
    <3>3. insts[w].operands[1] \in Operand
      BY <3>1, <3>2
    <3>. QED
      BY <2>1, <3>2, <3>3 DEF Operand
  <2>10. name \in DOMAIN labels /\ labels[name] = OpcodesBefore(i)
    <3>1. name \in DOMAIN labels
      BY <1>1, <2>2, <2>9 DEF LabelsExact
    <3>2. \E j \in Definitions(name) : labels[name] = OpcodesBefore(j)
      BY <1>1, <2>2, <2>9, <3>1 DEF LabelsExact
    <3>. QED
      BY <2>1, <3>1, <3>2
  <2>11. OpcodesBefore(i) \in Nat
    <3>1. tokens \in Seq(Token)
      BY <1>1 DEF ParserInv, LexerInv
    <3>2. IsFiniteSet(1 .. Len(tokens)) /\ DOMAIN tokens = 1 .. Len(tokens)
      BY <3>1, FS_Interval
    <3>3. {j \in TypesAt({"OPCODE"}) : j < i} \in SUBSET (1 .. Len(tokens))
      BY <3>2 DEF TypesAt
    <3>4. IsFiniteSet({j \in TypesAt({"OPCODE"}) : j < i})
      BY <3>2, <3>3, FS_Subset
    <3>. QED
      BY <3>4, FS_CardinalityType DEF OpcodesBefore
  <2>. DEFINE inst == Linked(insts[w])
  <2>12. /\ inst.operands[1] = [type |-> "LABEL", target |-> OpcodesBefore(i)]
         /\ Len(inst.operands) \in Nat /\ Len(inst.operands) >= 1
    <3>1. inst.operands[1] = Resolve(insts[w].operands[1]) /\ Len(inst.operands) = Len(insts[w].operands)
      BY <2>6, <2>9, LinkedFacts
    <3>2. Resolve(insts[w].operands[1]) = [type |-> "LABEL", target |-> OpcodesBefore(i)]
      BY <2>1, <2>10 DEF Resolve
    <3>. QED
      BY <2>9, <3>1, <3>2
  <2>13. EncodeOperand(inst, 1, w - 1) = EncodeImm(offset)
    <3>1. OpcodesBefore(i) # Unresolved
      BY <2>11 DEF Unresolved
    <3>2. EncodeOperand(inst, 1, w - 1) = EncodeImm(LabelOffset(OpcodesBefore(i), w - 1))
      <4>. HIDE DEF inst
      <4>. QED
        BY <2>12, <3>1 DEF EncodeOperand
    <3>3. PICK m \in Int : m = (OpcodesBefore(i) - (w - 1)) * 8
      BY <2>4, <2>11
    <3>4. m = offset /\ 0 <= m + 32768 /\ m < 32768
      BY <2>1, <2>4, <2>11, <3>3
    <3>5. Int16(m) = m
      BY <3>4, Signed16
    <3>6. LabelOffset(OpcodesBefore(i), w - 1) = Int16(m)
      BY <3>3 DEF LabelOffset
    <3>. QED
      BY <3>2, <3>4, <3>5, <3>6
  <2>14. DecodeOperand(EncodeImm(offset)) = [type |-> "IMM", val |-> offset]
    <3>1. PICK m \in Int : m = offset
      BY <2>4, <2>11
    <3>2. 0 <= m + 8192 /\ m < 8192
      BY <2>1, <3>1
    <3>. QED
      BY <3>1, <3>2, ImmShown
  <2>. HIDE DEF inst, offset
  <2>15. Slot(code[w], 1) = EncodeOperand(inst, 1, w - 1)
    <3>1. 1 \in Encoded(inst)
      BY <2>12 DEF Encoded
    <3>2. Slot(EncodeStd(inst, reuse[w], w - 1, w - 1), 1)
            = EncodeOperand(inst, 1, w - 1)
                \union {x \in 8 .. 10 : 1 = 3 /\ x - 7 \in reuse[w] \intersect Encoded(inst)}
      BY <2>8, <2>12, <3>1, StdSlot
    <3>. QED
      BY <2>7, <3>2 DEF inst
  <2>. QED
    BY <2>13, <2>14, <2>15 DEF Shown, offset
<1>. QED
  BY <1>1, ParserInvariance, LabelsTheorem, AssemblerInvariance, PTL
=============================================================================
