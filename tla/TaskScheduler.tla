--------------------------- MODULE TaskScheduler ---------------------------
(***************************************************************************)
(* plan_swmmac_int4 of src/sass/task_scheduler.h: how a GEMM is cut into   *)
(* waves and launches on a modelled device.  Predictions are compared as   *)
(* fractions; K only scales a prediction and is left out.                  *)
(***************************************************************************)
EXTENDS HardwareModels

CONSTANT IntMax   \* the greatest int

BaseTile == 16
Chains == <<14, 16>>
CeilDiv(a, b) == (a + b - 1) \div b

DualWave(chain) == chain * 8 + 6 < 135
GridM(M, chain) == CeilDiv(M, BaseTile * chain)
GridN(N) == CeilDiv(N, BaseTile)
TotalWaves(M, N, chain) == GridM(M, chain) * GridN(N) * (IF DualWave(chain) THEN 4 ELSE 2)
MaxWaves(model, chain) == model.sm_count * (IF DualWave(chain) THEN 2 ELSE 1) * 4

LaunchesDown(model, M, N, chain) == TotalWaves(M, N, chain) \div MaxWaves(model, chain)
Launches(model, M, N, chain) == CeilDiv(TotalWaves(M, N, chain), MaxWaves(model, chain))

\* base_tops * occ_mult * (1 + 0.5 / launch_count) as a fraction, in units of 6:
\* 1560 and 795 tops are 15 times 104 and 53, 1.8 and 1.0 a fifth of 9 and 5.
Tops(chain, launches) ==
  <<(IF chain = 14 THEN 104 ELSE 53) * (IF DualWave(chain) THEN 9 ELSE 5) * (2 * launches + 1),
    launches>>
Better(a, b) == a[1] * b[2] > b[1] * a[2]

\* A dimension of zero leaves no wave, and the division by the launch count is
\* undefined.
Plan(model, M, N, chain) ==
  LET launches == Launches(model, M, N, chain)
  IN  [tile_m |-> BaseTile * chain, grid_m |-> GridM(M, chain), grid_n |-> GridN(N),
       waves_per_launch |-> TotalWaves(M, N, chain) \div launches, launch_count |-> launches,
       tops |-> Tops(chain, launches)]

Undefined(model, M, N) == \E k \in DOMAIN Chains : Launches(model, M, N, Chains[k]) = 0

\* The sums and products, of the type int, one of which is out of its range.
Overflows(model, M, N) ==
  \E k \in DOMAIN Chains :
    \/ M + BaseTile * Chains[k] > IntMax \/ N + BaseTile > IntMax
    \/ TotalWaves(M, N, Chains[k]) + MaxWaves(model, Chains[k]) > IntMax

BestPlan(model, M, N) ==
  LET first == Plan(model, M, N, Chains[1])
      second == Plan(model, M, N, Chains[2])
  IN  IF Better(second.tops, first.tops) THEN second ELSE first
=============================================================================
