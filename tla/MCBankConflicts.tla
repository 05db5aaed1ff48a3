-------------------------- MODULE MCBankConflicts --------------------------
(***************************************************************************)
(* Finite instances of BankConflicts.  A window of four (six in the code)  *)
(* leaves instructions behind the window in programs of five.              *)
(***************************************************************************)
EXTENDS BankConflicts

CONSTANT MaxLen

Insts == {[kind |-> "shared", bank |-> b] : b \in {-1, 0, 1}}
           \union {[kind |-> k, bank |-> -1] : k \in {"kept", "other"}}
MCPrograms == UNION {[1 .. n -> Insts] : n \in 0 .. MaxLen}
=============================================================================
