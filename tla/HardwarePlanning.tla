-------------------------- MODULE HardwarePlanning --------------------------
(***************************************************************************)
(* A caller tuning for one device: it asks the task scheduler for the plan *)
(* of a GEMM and the ILP scheduler for instruction orders and cycle        *)
(* estimates, in any order.  plan is what the last call answered.          *)
(***************************************************************************)
EXTENDS ILPSchedulerV2, TaskScheduler

CONSTANTS Dims   \* the sizes M and N of the problems

ASSUME DimsAssumption == Dims \subseteq Nat /\ IntMax \in Nat

VARIABLE plan

vars == <<schedVars, plan>>

\* NoPlan: the last call was not the planner's.  Faulted: it divided by zero.
\* Overflowed: it answered after an overflow, so the answer may be any.
NoPlan == [state |-> "none"]
Faulted == [state |-> "faulted"]
Overflowed == [state |-> "overflowed"]
Planned(M, N) ==
  [state |-> "planned", M |-> M, N |-> N, best |-> BestPlan(ModelFor(arch), M, N)]

Init == SchedInit /\ plan = NoPlan

PlanSwmmacInt4(M, N) ==
  /\ call = "idle" /\ plan # Faulted
  /\ plan' \in IF Overflows(ModelFor(arch), M, N) THEN {Overflowed, Faulted}
               ELSE IF Undefined(ModelFor(arch), M, N) THEN {Faulted} ELSE {Planned(M, N)}
  /\ UNCHANGED schedVars

Next ==
  \/ plan # Faulted /\ SchedNext /\ plan' = NoPlan
  \/ \E M, N \in Dims : PlanSwmmacInt4(M, N)

Spec == Init /\ [][Next]_vars

-----------------------------------------------------------------------------
\* The launches of a plan fit the device and are as few as fit it; rounding the
\* waves of a launch down leaves fewer waves unlaunched than there are launches
\* (it does leave some); and the chain of 14 is chosen for every problem, so the
\* search over chains decides nothing.
PlanCovers ==
  plan.state = "planned" =>
    LET best == plan.best
        model == ModelFor(arch)
        total == TotalWaves(plan.M, plan.N, 14)
    IN  /\ best.tile_m = BaseTile * 14
        /\ best.grid_m * best.tile_m >= plan.M /\ best.grid_n * BaseTile >= plan.N
        /\ best.waves_per_launch \in 1 .. MaxWaves(model, 14)
        /\ (best.launch_count - 1) * MaxWaves(model, 14) < total
        /\ total - best.waves_per_launch * best.launch_count \in 0 .. best.launch_count - 1
=============================================================================
