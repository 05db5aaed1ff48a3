------------------------- MODULE MCHardwarePlanning -------------------------
(***************************************************************************)
(* A finite instance of HardwarePlanning: devices that issue one, two and  *)
(* four instructions a cycle, chains through two registers whose opcodes   *)
(* cost 1, 3 to 5 and hundreds of cycles.                                  *)
(***************************************************************************)
EXTENDS HardwarePlanning

CONSTANT MaxLen

I(opcode, dst, srcs) == [opcode |-> opcode, dst |-> dst, srcs |-> srcs]

MCInsts == {I("IADD", 1, {2}), I("FADD", 2, {1}), I("MOV", 2, {}), I("LDG", 1, {2})}

\* Long enough for the waiting of a FADD or an IADD to be over while others are
\* still to be issued.
LongPrograms ==
  {<<I("MOV", 2, {}), a, I("FADD", 2, {1}), b, I("MOV", 1, {}), I("IADD", 1, {2}), I("MOV", 2, {})>> : a, b \in MCInsts}
MCPrograms == UNION {[1 .. n -> MCInsts] : n \in 0 .. MaxLen} \union LongPrograms
=============================================================================
