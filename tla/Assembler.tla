----------------------------- MODULE Assembler -----------------------------
(***************************************************************************)
(* Assembler::assemble of src/sass/assembler.cpp: the parser's result goes *)
(* through the scheduler into the encoder, labels and all.                 *)
(***************************************************************************)
EXTENDS Parser, BlockEncoder

vars == <<lexVars, parseVars, encodeVars>>

Init ==
  /\ ParseInit
  /\ prog = <<>> /\ seq = <<>> /\ reuse = <<>> /\ code = <<>> /\ first = <<>>
  /\ estage = "parse" /\ epos = 1 /\ cycle = 0

Parse == ParseNext /\ UNCHANGED encodeVars

\* find() in the label table; what it does not hold stays unresolved.
Resolve(op) ==
  IF op.type # "LABEL" THEN op
  ELSE [type |-> "LABEL",
        target |-> IF op.name \in DOMAIN labels THEN labels[op.name] ELSE Unresolved]

\* Only a parser on a fresh lexer belongs to assemble, and without instructions
\* it returns early.
Assemble ==
  /\ stage = "parsed" /\ estage = "parse"
  /\ taken = <<>>
  /\ insts # <<>>
  /\ prog' = [k \in DOMAIN insts |->
                [insts[k] EXCEPT !.operands = [n \in DOMAIN @ |-> Resolve(@[n])]]]
  /\ seq' = [k \in DOMAIN insts |-> k]
  /\ reuse' = [k \in DOMAIN insts |-> {}]
  /\ estage' = "schedule"
  /\ UNCHANGED <<lexVars, parseVars, epos, cycle, code, first>>

Encode == EncodeNext /\ UNCHANGED <<lexVars, parseVars>>

Next == Parse \/ Assemble \/ Encode

Spec == Init /\ [][Next]_vars

-----------------------------------------------------------------------------
\* From text to word: when the scheduler keeps the order and nothing is fused,
\* a branch to a name with one definition, which nothing took for an operand,
\* leads to the word of the first opcode behind that definition, as long as the
\* distance in bytes fits the fourteen bits of an immediate.
SourceBranchLands ==
  estage = "done" /\ seq = [k \in DOMAIN insts |-> k] /\ Len(code) = Len(insts) =>
    \A w \in DOMAIN insts :
      insts[w].opcode = "BRA" /\ insts[w].operands # <<>> /\ insts[w].operands[1].type = "LABEL" =>
        LET name == insts[w].operands[1].name
        IN  \A i \in Kept(name) :
              LET offset == 8 * (OpcodesBefore(i) - (w - 1))
              IN  Definitions(name) = {i} /\ -8192 <= offset /\ offset < 8192 =>
                    Shown(code[w], 1) = [type |-> "IMM", val |-> offset]
=============================================================================
