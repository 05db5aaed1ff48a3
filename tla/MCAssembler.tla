---------------------------- MODULE MCAssembler ----------------------------
(***************************************************************************)
(* Sources of a few lines, each a statement that ends differently or takes *)
(* something from the next line; numbers lie on both sides of what to_int  *)
(* and stoul take, of sixteen bits here. The vector at the encoder may as  *)
(* well come from a caller that built it, without any text.                *)
(***************************************************************************)
EXTENDS Assembler, MCBlockEncoder, SequencesExt

CONSTANT MaxLines

C(kind) == [kind |-> kind]
W(text) == [kind |-> "word", text |-> text]
Rg(n) == [kind |-> "reg", number |-> n]
D(n) == [kind |-> "digits", value |-> n]
Hex == [kind |-> "hex", text |-> "x10", value |-> 16]
Long == [kind |-> "hex", text |-> "x8000", value |-> 32768]

MCWord == {"loop", "x10", "x8000", "exit", "bra", "iadd3", "stg", "foo"}

Lines ==
  {<<W("loop"), C("colon")>>,
   <<W("exit")>>,
   <<W("bra"), C("blank"), W("loop")>>,
   <<W("loop"), C("colon"), C("blank"), W("iadd3"), C("blank"), Rg(1), C("comma"), Rg(258), C("comma"), C("minus"), D(0), Hex>>,
   <<W("iadd3"), C("blank"), Rg(1), C("comma"), D(0), Hex, C("comma"), C("comment")>>,
   <<W("stg"), C("blank"), C("open"), Rg(2), C("plus"), D(4), C("close"), C("comma"), Rg(1)>>,
   <<W("stg"), C("open"), Rg(2), C("minus"), C("blank"), D(4), C("close")>>,
   <<[kind |-> "dot", text |-> "endfunc"], C("newline"), C("comment")>>,
   <<W("stg"), C("open"), C("close"), C("comma"), Rg(1)>>,
   <<W("iadd3"), C("blank"), D(0), Long, C("comma"), Rg(65536)>>,
   <<W("bra"), C("blank"), D(32768)>>,
   <<C("other"), Rg(0), C("blank"), W("foo")>>}

Source(lines) == FoldSeq(LAMBDA l, acc : l \o <<C("newline")>> \o acc, <<>>, lines)
MCSources == {Source(s) : s \in UNION {[1 .. n -> Lines] : n \in 0 .. MaxLines}}

\* The parser where an empty text leaves it, the vector any of MCPrograms.
FromVector ==
  /\ EncodeInit
  /\ source = <<>> /\ at = 1 /\ peeked = <<>> /\ taken = <<>>
  /\ tokens = <<[type |-> "END_OF_FILE"]>> /\ pos = 1 /\ insts = <<>> /\ labels = <<>>
  /\ stage = "parsed"

MCSpec == (Init \/ FromVector) /\ [][Next]_vars
=============================================================================
