----------------------------- MODULE Toolchain -----------------------------
(***************************************************************************)
(* A backend from the factory, its words, and the cubin they are patched   *)
(* into.                                                                   *)
(***************************************************************************)
EXTENDS DeviceBackend, CubinPatcher

CONSTANT Patching   \* the programs whose words go into a cubin

vars == <<deviceVars, patchVars>>

Init == DeviceInit /\ PatchInit

Compile == DeviceNext /\ UNCHANGED patchVars

PatchCubin ==
  /\ stage = "done" /\ prog \in Patching
  /\ PatchNext(code)
  /\ UNCHANGED deviceVars

Next == Compile \/ PatchCubin

Spec == Init /\ [][Next]_vars
=============================================================================
