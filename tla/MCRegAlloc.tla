----------------------------- MODULE MCRegAlloc -----------------------------
(***************************************************************************)
(* Finite instances of RegAlloc.  Two or three physical registers stand    *)
(* for the 48 of the code; register 9 plays RZ.  Instructions name at most *)
(* two registers (three in the wide instance), enough for every overlap    *)
(* pattern of ranges, shared first uses included.                          *)
(***************************************************************************)
EXTENDS RegAlloc

CONSTANTS MaxLen, Width, Names

Insts == {s \in SUBSET Names : Cardinality(s) <= Width} \union {{RZ}}

MCPrograms == UNION {[1 .. n -> Insts] : n \in 0 .. MaxLen}
MCReg == Names \union {RZ}
=============================================================================
