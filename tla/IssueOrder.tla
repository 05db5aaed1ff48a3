----------------------------- MODULE IssueOrder -----------------------------
(***************************************************************************)
(* What a reordering pass promises about its output: instructions leave    *)
(* the pass one or more at a time, none twice, none invented, and when the *)
(* pass is over none is missing.  The order is left open.                  *)
(***************************************************************************)
EXTENDS Naturals, Sequences

VARIABLES
  size,      \* number of instructions handed to the pass
  emitted,   \* the source indices in output order
  finished   \* the pass has returned

Distinct(s) == \A i, j \in 1 .. Len(s) : i # j => s[i] # s[j]
Covers(s) == \A k \in 1 .. size : \E i \in 1 .. Len(s) : s[i] = k

Init ==
  /\ size \in Nat
  /\ emitted = <<>>
  /\ finished = FALSE

Emit ==
  /\ ~finished
  /\ Len(emitted') > Len(emitted)
  /\ \A i \in 1 .. Len(emitted) : emitted'[i] = emitted[i]
  /\ \A i \in 1 .. Len(emitted') : emitted'[i] \in 1 .. size
  /\ Distinct(emitted')
  /\ UNCHANGED size
  /\ finished' => Covers(emitted')

Finish ==
  /\ ~finished
  /\ Covers(emitted)
  /\ finished' = TRUE
  /\ UNCHANGED <<size, emitted>>

Next == Emit \/ Finish

Spec == Init /\ [][Next]_<<size, emitted, finished>>
=============================================================================
