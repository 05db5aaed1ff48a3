--------------------------- MODULE HardwareModels ---------------------------
(***************************************************************************)
(* The hardware models of src/sass/ilp_model.h, as far as a scheduler asks *)
(* them: how many instructions a cycle issues, how many cores there are    *)
(* and what a class of instructions costs.                                 *)
(***************************************************************************)
EXTENDS Integers, TLC

All(classes, cycles) == [c \in classes |-> cycles]
Model(issue_width, sm_count, latency) ==
  [issue_width |-> issue_width, sm_count |-> sm_count, latency |-> latency]

Pascal ==
  Model(2, 10,
    All({"FP32_FMA", "FP32_ADD", "INT_ADD", "INT_MUL", "INT_SHIFT", "LD_CONST", "BRANCH", "BARRIER",
         "SYNC", "CONV"}, 4)
      @@ All({"FP32_SQRT", "LD_SHARED"}, 8) @@ All({"NOP", "V512_FMA"}, 1)
      @@ "FP32_DIV" :> 16 @@ "LD_GLOBAL" :> 350 @@ "ST_GLOBAL" :> 10 @@ "ST_SHARED" :> 5
      @@ "TEXTURE" :> 100 @@ "ATOMIC" :> 50)

\* The tensor row Volta appends has the class of an earlier row and is never found.
Volta == Model(Pascal.issue_width, 80, Pascal.latency)
Ampere == Model(Volta.issue_width, 108, Volta.latency)
Hopper == Model(Ampere.issue_width, 132, Ampere.latency)

Broadwell ==
  Model(4, 18,
    All({"INT_ADD", "INT_SHIFT", "ST_L1", "BRANCH", "NOP"}, 1) @@ All({"FP32_ADD", "FP32_MUL"}, 3)
      @@ All({"LD_L1", "CONV"}, 4) @@ All({"FP32_FMA", "INT_MUL"}, 5) @@ All({"FP32_SQRT", "LD_L2"}, 12)
      @@ "FP32_DIV" :> 14 @@ "LD_L3" :> 42 @@ "LD_DRAM" :> 160 @@ "BARRIER" :> 33)
Zen4 == Model(6, 8, [Broadwell.latency EXCEPT !["FP32_FMA"] = 4])
Zen5 == Model(8, 16, [Zen4.latency EXCEPT !["FP32_FMA"] = 3])

RDNA4 ==
  Model(1, 32,
    All({"FP32_FMA", "FP32_ADD", "FP32_MUL", "INT_ADD", "BRANCH", "CONV"}, 4)
      @@ All({"FP32_SQRT", "INT_MUL"}, 16) @@ All({"LD_SHARED", "ST_SHARED", "BARRIER"}, 20)
      @@ All({"LD_GLOBAL", "ST_GLOBAL"}, 300) @@ "NOP" :> 1)

CortexA78 ==
  Model(4, 8,
    All({"FP32_ADD", "FP32_MUL", "INT_MUL", "LD_L1"}, 3) @@ All({"INT_ADD", "ST_L1", "BRANCH", "NOP"}, 1)
      @@ "FP32_FMA" :> 4 @@ "BARRIER" :> 10)

\* model_for: an unknown name is a Pascal.
ModelFor(sm) ==
  CASE sm \in {"sm_70", "sm_72", "sm_75"} -> Volta
    [] sm \in {"sm_80", "sm_86", "sm_89"} -> Ampere
    [] sm \in {"sm_90", "sm_100", "sm_101", "sm_120"} -> Hopper
    [] sm \in {"x86_64", "cpu", "broadwell"} -> Broadwell
    [] sm \in {"zen3", "zen4", "amd64", "amd"} -> Zen4
    [] sm = "zen5" -> Zen5
    [] sm \in {"arm64", "a78"} -> CortexA78
    [] sm \in {"gfx1200", "rdna4", "rx9060"} -> RDNA4
    [] OTHER -> Pascal

LatencyFor(model, class) == IF class \in DOMAIN model.latency THEN model.latency[class] ELSE 1

\* The class of an opcode; GPU loads have the global class, which the CPU models
\* do not know.
Classify(opcode) ==
  CASE opcode \in {"FFMA", "DFMA"} -> "FP32_FMA"
    [] opcode \in {"FADD", "FMUL"} -> "FP32_ADD"
    [] opcode = "FSQRT" -> "FP32_SQRT"
    [] opcode = "FRCP" -> "FP32_DIV"
    [] opcode \in {"IADD", "ISUB", "IADD3"} -> "INT_ADD"
    [] opcode \in {"IMUL", "IMAD"} -> "INT_MUL"
    [] opcode \in {"SHL", "SHR", "SHF"} -> "INT_SHIFT"
    [] opcode \in {"LDG", "LDC"} -> "LD_GLOBAL"
    [] opcode = "LDS" -> "LD_SHARED"
    [] opcode = "STG" -> "ST_GLOBAL"
    [] opcode = "STS" -> "ST_SHARED"
    [] opcode \in {"BRA", "BRX", "CAL", "EXIT", "RET"} -> "BRANCH"
    [] opcode \in {"BAR", "DEPBAR"} -> "BARRIER"
    [] opcode \in {"I2F", "F2I", "CVT"} -> "CONV"
    [] opcode \in {"SULD", "TEX"} -> "TEXTURE"
    [] opcode \in {"ATOM", "RED"} -> "ATOMIC"
    [] OTHER -> "UNKNOWN"
=============================================================================
