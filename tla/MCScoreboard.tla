---------------------------- MODULE MCScoreboard ----------------------------
(***************************************************************************)
(* Finite instances of Scoreboard.  A load latency of 6 stands for 350:    *)
(* half of it still exceeds distances an ordinary producer of latency 4    *)
(* leaves unguarded, so both classes occur on either side of their limit.  *)
(***************************************************************************)
EXTENDS Scoreboard

CONSTANTS MaxLen

\* No source, one, and two operands that name one register or two.
SrcLists == {<<>>} \union {<<r>> : r \in Reg} \union {<<1, 1>>, <<1, 2>>}
Insts == {[load |-> l, dst |-> d, srcs |-> s] :
            l \in BOOLEAN, d \in Reg \union {NoReg}, s \in SrcLists}
\* Only loads of a register differ from other instructions.
UsefulInsts == {i \in Insts : i.load => i.dst # NoReg /\ Len(i.srcs) = 0}
MCPrograms == UNION {[1 .. n -> UsefulInsts] : n \in 0 .. MaxLen}
=============================================================================
