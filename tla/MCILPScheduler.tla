--------------------------- MODULE MCILPScheduler ---------------------------
(***************************************************************************)
(* Finite instances of ILPScheduler.  Latency 3 instead of 4 keeps the     *)
(* states of a stall few; every program up to MaxLen over the given        *)
(* registers is explored, so every combination of flow, anti and output    *)
(* dependence between its instructions occurs.                             *)
(***************************************************************************)
EXTENDS ILPScheduler

CONSTANTS MaxLen, MaxSrcs

Insts == {i \in Inst : Cardinality(i.srcs) <= MaxSrcs}

MCPrograms == UNION {[1 .. n -> Insts] : n \in 0 .. MaxLen}
=============================================================================
