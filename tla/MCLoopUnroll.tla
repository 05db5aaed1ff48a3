---------------------------- MODULE MCLoopUnroll ----------------------------
(***************************************************************************)
(* Finite instances of LoopUnroll.  Bodies of at most two instructions     *)
(* (four in the code) let two loops and a partial body fit into the        *)
(* explored programs; an IADD with a register step occurs as well.         *)
(***************************************************************************)
EXTENDS LoopUnroll

CONSTANT MaxLen

Insts == {[kind |-> k, step |-> NoStep] : k \in {"IADD", "ISETP", "BRA", "branch", "other"}}
           \union {[kind |-> "IADD", step |-> 1]}
MCPrograms == UNION {[1 .. n -> Insts] : n \in 0 .. MaxLen}

\* Two loops in a row, bodies with and without a register step.
Loop(step, body) ==
  [k \in 1 .. body |-> [kind |-> "other", step |-> NoStep]]
    \o <<[kind |-> "IADD", step |-> step], [kind |-> "ISETP", step |-> NoStep],
         [kind |-> "BRA", step |-> NoStep]>>
TwoLoops == {Loop(s, m) \o Loop(t, n) : s, t \in 0 .. 1, m, n \in 0 .. 3}

AllPrograms == MCPrograms \union TwoLoops
=============================================================================
