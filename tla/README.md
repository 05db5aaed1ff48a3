# A TLA+ model of the HunTian SASS assembler

The repository is an assembler for GPU machine code (SASS) with backends for
several devices. It is a sequential C++ program: no threads, one call at a time.
What is hard in it is not interleaving but *editing* and *reuse*: nearly every
pass rewrites the instruction vector it is walking over, works with positions,
indices or register tables recorded before an edit, and hands the result to a
pass that assumes something about it; and objects that keep members (a scheduler,
a patcher) are called again with what the last call left in them. A unit test
sees one program; the modules here explore every program up to a length, and for
most of the components proofs cover all programs.

## The system

    text -> Lexer -> Parser -> ManifoldScheduler -> BlockEncoder -> 64-bit words      (Assembler::assemble)
    instructions -> DeviceBackend::create(arch) -> encode -> words -> disassemble_block
                                                          \-> CubinPatcher -> cubin
         (PascalBackend::encode runs validate and optimize_p1 first)
    instructions -> ILPSchedulerV2 (model of a device) -> order or cycle estimate
    M, N of a GEMM -> TaskScheduler -> launch plan

| Component | State it keeps | Operations | What is hard | What makes it correct |
|---|---|---|---|---|
| Lexer `src/lexer/lexer.cpp` | text, position, line, one peeked token | `next`, `peek`, `consume`, `tokenize_all` | words that run together, signs and hexadecimal tails, numbers out of range | tokens are delivered once, in order |
| Parser `src/parser/parser.cpp` | current token, symbol table, instructions | `parse_all` and one routine per form | a name after an opcode is an operand or a label; tokens are skipped | labels and instructions are those of the text |
| ManifoldScheduler `src/sass/manifold_scheduler.cpp` | block counter | `optimize` | floating-point weights decide the order | the output is a permutation |
| Reuse detector `include/sass/reuse_detector.h` | the reuse flags | `auto_insert_reuse` | look-ahead over reads and writes | the flags are among what the round trip returns |
| BlockEncoder `src/sass/block_encoder.cpp`, `include/sass/operand_codec.h` | word list, word counter | `encode_with_labels`, `can_fuse`, `encode_std`, `encode_vavx3` | widths, overlapping fields, indices against word addresses | what fits the format can be read back; branches reach their label |
| Disassembler `src/sass/disassembler.cpp` | none | `disassemble` | the opcode decides which fields mean what | inverse of the encoder |
| Optimizer P0 `src/sass/optimizer.h` | the vector | `schedule_order`, `auto_reuse`, `dead_code_elimination` | each pass sees the order of the one before | what is flagged is read again; only what lies behind a terminator goes |
| Constant propagation | register/immediate table | `const_propagation` | the table is built from operands the pass replaces | a source whose last writer moved an immediate becomes that immediate |
| Loop unrolling | the vector, the walk | `loop_unroll` | inserts into the vector it indexes | ends; nothing lost or copied twice |
| RegisterAllocator `src/sass/reg_allocator.h` | ranges, active set, physical registers | `allocate`, `analyze` | expiry boundary, order of equal ranges, overflow | data flow of unspilled registers is kept |
| ILPScheduler `src/sass/ilp_scheduler.h` | clock, ready queue, last writer, result | `schedule` | stale ready queue, stalls | every instruction once, latency kept, no unjustified overtaking, ends |
| Bank conflict avoidance | the vector, the walk | `avoid_bank_conflicts` | erases and inserts under the walk | nothing lost, no new conflicts |
| Scoreboard `src/sass/scoreboard_analysis.h` | last writer, dependences, the vector | `analyze_dependencies`, `insert_depbars` | recorded positions after edits | every critical consumer has its bar in front of it, and no bar stands elsewhere |
| `optimize_p1` | the vector | all of the passes above in a row | what one pass does to the assumptions of the next | live code is there once; only a changed order changes what is read |
| PascalBackend, `safe_guard.h` | diagnostics | `encode`, `disassemble` | fuses by opcode after the optimizer | only a validated program is encoded; words tile the instructions |
| Volta to Blackwell, JIT `src/sass/backends/` | none | `encode`, `encode_with_labels`, `disassemble` | two opcode tables, overlapping fields, the fallback of the Hopper encoder | two words per instruction, readable |
| x86, AMD RDNA4 | none | `encode`, `disassemble` | unlisted opcodes vanish | the listed ones come in order |
| Device backend factory `src/sass/device_backend.cpp` | none | `create` | names, virtual dispatch | every supported name has a class |
| CubinPatcher `src/sass/cubin_patcher.h` | file image, text section | `load_template`, `patch_and_save` | several calls on one object, skipped rows | writes stay in the text of the template |
| ILPSchedulerV2, models `src/sass/ilp_model.h` | last writer *between* calls | `schedule`, `estimate_cycles`, `model_for` | times of an earlier call | as ILPScheduler, per call |
| TaskScheduler `src/sass/task_scheduler.h` | none | `plan_swmmac_int4` | rounding, division by the launch count | no wave lost (not quite so) |
| HAL, CLI, guards, pattern library, HIP tuner | little or none | lookups, file I/O, processes | | |

Components talk by passing vectors of instructions by reference; there are no
callbacks and nothing is persisted except the output file.

## Modules

| Module | Models | Correspondence |
|---|---|---|
| `Lexer` | the class `Lexer` | chunks of source (words, digits, punctuation) become tokens; `peeked` holds the token `peek` read ahead; the parser is built on a lexer that may have been read from; `LongMax` is the greatest `int64_t`, beyond which `to_int` throws (`NaN`) or, in hexadecimal, wraps |
| `Parser` (extends `Lexer`) | `Parser::parse_all` | one action per step of the token walk: label, directive, opcode, each operand form, skip, thrown error; a base or an offset an address does not have is left unwritten in the code and may be any of `UnwrittenBase` and `UnwrittenOffset` |
| `BitField` | the bit operators all encoders share | a word is the set of its one bits, so that or-ing fields that overlap does what the code does |
| `SASSWord` | operand codec, `encode_std`, `encode_vavx3`, `disassemble` | |
| `BlockEncoder` | `Assembler::assemble` behind the parser | `Schedule` (any weights), `InsertReuse`, `EncodeWord` per word; `first` is a history variable: where in the order each word begins |
| `Assembler` (extends `Parser` and `BlockEncoder`) | the whole of `assemble` | `Assemble` hands the instructions over, their labels looked up in the table; the two stages keep their own variables |
| `RegAlloc` | `RegisterAllocator::allocate` and `analyze` | `first`/`last` are the live range of the hash map, `active` the active vector, `todo` the sorted ranges not yet visited; `std::sort` leaves ranges with equal first use in any order, and `IsNext` allows each |
| `IssueOrder` | the promise of a reordering pass | abstract: instructions come out in some order, each once |
| `ILPScheduler` | `ILPScheduler::schedule` | `SelectReady` fills the ready queue of a cycle, `Issue` takes from it in order, `NextCycle` advances the clock, `Finish` returns. `EachOnce` states that it implements `IssueOrder` |
| `Scoreboard` | `analyze_dependencies`, `insert_depbars` | `AnalyzeInst` per instruction, `Visit` per recorded dependence, last consumer first; dependences of one consumer in any order, as `std::sort` compares consumers only |
| `ConstProp` (extends `OptimizeP0`) | `const_propagation` on what `optimize_p0` leaves | `VisitInst` per instruction: record, then replace, in the same iteration |
| `LoopUnroll` | `loop_unroll` | `Step` and `Unroll` are the two ways an iteration ends; `code` holds source positions so that copies are recognisable |
| `BankConflicts` | `avoid_bank_conflicts` | `Step` and `Separate` likewise |
| `OptimizeP0` | `optimize_p0` | `Order`, `MarkReuse` per instruction, `EliminateDead` |
| `OptimizeP1` (extends `ConstProp`) | `optimize_p1` | all passes on one vector of full instruction records, `stage` names the pass: a step visits an instruction (`LoopUnroll`, `AvoidBankConflicts`, `InsertDepbars`), gives a live range its register (`Allocate`) or issues a cycle (`Issue`); what the modules above split further is one operator here. `src` and `at` trace an instruction to the source and to the vector behind `loop_unroll` |
| `Opcodes` | opcode numbers and the operand accessors of the encoders | the enum as runs of consecutive values (`Numbered`), one over the other (`Over`, where the first table counts) |
| `PascalBackend` | `encode` and `disassemble` of Pascal | a family of opcodes is its byte, constant bits and where the registers go |
| `VoltaBackend` | Volta, Turing, Ampere, Ada, Hopper, Blackwell | the opcode tables by rows, a code and its opcodes (`Coded`); the maps of Ampere and Hopper as what they set over what they copy; a pair of words per instruction |
| `TaggedBackends` | x86-64 and AMD RDNA4 | the tables as records; tag and opcode per word |
| `DeviceBackend` (composes the three) | factory, `encode`, `encode_with_labels`, `disassemble_block` | one action per encoder and step; the actions split on the class `create` returned, as the virtual calls do; `origin` is a history variable: the instruction the encoder was at for each word |
| `CubinPatcher` | `load_template`, `patch_and_save` | rows of eight bytes; one action per way a call ends |
| `Toolchain` (`DeviceBackend` + `CubinPatcher`) | a backend's words patched into cubins | calls of the patcher in any order |
| `HardwareModels` | `model_for`, `Classify`, `LatencyFor` | the device tables as functions |
| `ILPSchedulerV2` | `schedule`, `estimate_cycles` | `last_writer` outlives calls; `Issue`, `PassOver`, `EndCycle`, `IssueForced`, `Return` |
| `TaskScheduler` | `plan_swmmac_int4` | the type int up to `IntMax`, beyond which a plan is undefined (`Overflows`); predicted throughput as a fraction |
| `HardwarePlanning` (`ILPSchedulerV2` + `TaskScheduler`) | a caller tuning for one device | schedule, estimate and plan in any order on one scheduler |
| `MC...` | | the programs, sources and files each run explores |
| `RegAllocProofs`, `ILPSchedulerProofs`, `HardwarePlanningProofs` | theorems about `RegAlloc`, `ILPScheduler` and `HardwarePlanning` | see below |
| `EditProofs` | theorems about `LoopUnroll`, `BankConflicts` and `Scoreboard`, the passes that edit the vector they walk over | |
| `OptimizerProofs` | theorems about `OptimizeP0`, `ConstProp` and `OptimizeP1` | |
| `WordProofs` | lemmas about places in sequences and the bits of words; theorems about `CubinPatcher` | |
| `TextProofs` (extends `WordProofs`) | theorems about `Lexer`, `Parser`, `BlockEncoder` and `Assembler` | |
| `DeviceProofs` (extends `WordProofs`) | theorems about `Toolchain`: the backends and the patcher behind them | |

Some definitions stand directly in front of another of nearly the same name
(`ReleasedAtEnd` and `Unexpired`, `KeptText` and `TextOf`, `LastUseNotExtended`
and `LastUse`): they are the plausible mistakes the properties are tested
against; no specification uses them.

## What the runs show

All runs are over *every* program of a bounded length or form, not over chosen
ones. Type invariants are in no run: TLAPS proves those of the modules with
proofs.

| Run | Question | Bounds and why they are enough |
|---|---|---|
| `assembler` | Do tokens, labels, instructions and branch targets of the text survive the way to the words? Do the words cover the program, can they be read back, and are fused ones told apart? | sources of up to 3 lines of 12 forms, one per way a statement ends or reaches into the next line, with numbers inside and beyond `int64_t` (of 16 bits here) and an address without base and offset. The vector at the encoder comes from such a source or is any of up to 3 instructions of 19 forms with values on both sides of each width, as a caller may build it, in any order of the manifold. Words of 2 instructions (8 in the code), so that a fused word and a vector instruction at the cycle of the group size occur |
| `assembler_labels` | *violated*: a name followed by a colon defines a label | 2 lines: EXIT, then `loop:` |
| `branch_target` | *violated*: a label becomes the offset from the program counter | vectors as in `assembler`, up to 2 instructions: a changed order is enough |
| `reg_alloc` | Does renaming keep the data flow? When does it spill? | up to 4 instructions, 4 registers, 2 physical: ranges can nest, touch, overlap and exceed the physical registers; `SpillIffPressure` ties the spills to what `analyze()` reports |
| `ilp_schedule` | Is every instruction issued once, in time, in a justified order, within bounded stalls, and does it end? | up to 4 instructions on 2 registers, latency 3, width 2: every mix of flow, anti and output dependences, full and empty cycles |
| `scoreboard` | Do the edits keep the order? Do the bars stand where a dependence calls for one? | up to 4 instructions on 2 registers; latencies 4 and 6 put dependences on both sides of both limits |
| `dead_code` | *violated*: only what lies behind a terminator is cut | as `optimize_p1`: a terminator with an early cycle |
| `loop_unroll` | Does the walk end, is a copy made once and in place | up to 6 instructions, and pairs of loops with bodies of up to 3 where at most 2 are copied (4 in the code) |
| `bank_conflicts` | Are the edits safe under the walk | up to 5 instructions, window 4 (6 in the code) |
| `optimize_p1` | What do the first passes flag, order and cut, which value replaces an operand, and what do all passes in a row leave of a program? | every program of up to 4 instructions of 14 that move an immediate or a register, read one or exit, one of them with a later cycle, so that what `optimize_p0` hands over is not always the source; every program of up to 3 instructions that `optimize_p0` can tell apart; every program of up to 5 of 7 instructions and EXIT, and of up to 3 in front of a loop end. Scaled: 2 copied instructions (4), 2 physical registers, allocation from 5 instructions (8), load latency 8 (350), window 3 (4): each pass is both skipped and effective |
| `toolchain` | What do the words of each backend hold, what does the listing show, and where does a patch write? | one name per class and an unknown one; every opcode alone with 4 operand lists (registers below and above 64 and RZ, immediates of both signs); programs of 2 and 3 of 7 instructions that take different ways through the encoders; 4 files and 4 calls of the patcher |
| `hardware_planning` | Is a schedule a permutation whose overtakings are explained, what does an estimate say, what does a plan launch? | devices of issue width 1, 2 and 4; 2 registers; programs of up to 3 instructions and some of 7, long enough for a latency to run out; 2 calls on one scheduler; sizes on both sides of a tile, and such that the sums or products overflow an int (of 14 bits here) |

## Where code and documents part

Three of these are runs that must find a violation: each states what a comment
says and is violated by what the code does. The others are cases the passing
properties leave open on purpose, so that none of them asserts what a comment or
a test denies: the last column names the property and the case.

| Run or place | What is written | What the code does |
|---|---|---|
| `assembler_labels` | `parser.cpp`: an identifier with a colon defines a label | behind EXIT, RET, YIELD or a bare directive a label on the next line is taken as an operand (or as the directive's name), its colon is skipped and the label never enters the table; `LabelsExact` states exactly which labels that happens to |
| `branch_target` | `block_encoder.cpp:141`: the label becomes an offset from the program counter | the index of the label counts the parsed order, the position of the branch the scheduled one, and neither counts words: a branch behind a changed order or over a fused word lands elsewhere (`SourceBranchLands` shows that it lands when neither happens) |
| `block_encoder.cpp:159` | `block_encoder.cpp:158`: each operand goes into its slot of 16 bits | the third slot and the reuse flags share bits 40 to 47; `RoundTrip` excludes exactly that, in `Disjoint` |
| `block_encoder.cpp:126` | `operand_codec.h:31`: 14 bits, signed, clamped | the encoder cuts to 16 bits first, so 65536 becomes 0; `RoundTrip` speaks of the values that fit (`Fits`) |
| `ilp_scheduler.h:73` | `tests/test_optimizer.cpp:70`: a dependent pair is pulled apart | the ready queue of a cycle is older than the issues of that cycle, so a reader goes in the cycle of its writer; `LatencyKept` speaks of different cycles only |
| `scoreboard_analysis.h:59` | `scoreboard_analysis.h:58`: a bar where the distance is below the minimal latency | only below half of it. `BarsPlaced` asks for bars below half, allows them below the latency and forbids others, so it holds whichever of the two is meant |
| `optimizer.h:47` | `optimizer.h:39`, `tests/test_reuse_detector.cpp:54`: the next four instructions | the next three. `ReuseAgreed` asks for the flag within three and allows it at the fourth |
| `dead_code` | `optimizer.h:15`: what lies behind EXIT or RET goes | when the order by cycle has brought EXIT forward, live code goes as well (`optimizer.h:66`); `DeadWhenInOrder` shows the rest |
| `optimizer.h:80` | `optimizer.h:79`: a source operand that is a known constant is replaced | destinations too: `MOV R1, #7` becomes `MOV #7, #7`; `KnownReplaced` says nothing of destinations |
| `optimizer.h:81` | the same | a register is replaced although another instruction wrote it since; `KnownReplaced` leaves that case open |
| `volta_encoder.h:175` | `volta_encoder.h:5` to `:10`: Rd at bit 16, Ra at 22, Rb at 28, verified | at bits 20, 26 and 32. `ReadBack` asks only that programs with different registers have different words, wherever the registers stand |
| `volta_encoder.h:175` | the same: eight bits each | six bits apart and not masked: a register of 64 or more runs into the next field; `ReadBack` stops at 63 |
| `ilp_model.h:504` | `ilp_model.h:501`: an instruction waits for its source operands | also for the writes of an earlier call, whose clock has started again; `OvertakingJustified` counts them as a reason |
| `ilp_model.h:493` | `ilp_model.h:484`: the number of cycles is estimated | behind a schedule, a forced issue counts one instruction twice and leaves another out; `EstimateBlind` gives the bounds that remain |

Others met while modelling are visible in the mapped lines:

*Optimizer.* `ilp_scheduler.h:72` treats a terminator as an instruction without
registers, so it leaves its last place and live code lands behind EXIT, where it
never executes (`tests/test_optimizer.cpp:59` says the order keeps the meaning;
`BehindTerminator` states what lands there). `ilp_scheduler.h:112` looks at
issued writes only, so a reader passes a writer that is itself waiting.
`optimizer.h:118` leaves a step held in a register unscaled after the body was
copied. `optimizer.h:153` may move LDG, STG, RET or BAR between two accesses
although the comment excludes memory and branches. `reuse_detector.h:35` looks
three instructions ahead as well, its comment says four.
`reg_allocator.h:42` does not rename the base register of an address while it
renames its writers. `reg_allocator.h:76` reduces a spilled register modulo
`MAX_REGS` although the comment says it keeps its number.

*First path.* An address without a base or an offset leaves the bytes of the
operand unwritten (`parser.cpp:316`), and digits that do not fit are thrown out
of the parser by the standard library (`lexer.cpp:50`). `disassembler.cpp:24`
prints an unfused vector instruction at word 8 as a fused one (`FusedShown`).

*Device backends.* The fallback of Hopper and Blackwell for one unmapped opcode
encodes the whole program again, through a virtual call that is Ampere's
(`HopperLength` counts the words). Ampere gives ten opcodes all-zero words though
`supports()` admits them, and STG, LDG and MOV words without an opcode; its
`default_ctrl` shifts a 64-bit word by more than 63. The offset of a BRA
overwrites opcode bits.
The listings of wide words advance by three words. In Pascal, the constant bits
of XMAD.MRG overlap its third register, and the disassembler reads the registers
of FFMA, DFMA and the ALU family from other bytes than the encoder writes
(`ListingShows` claims only the families that agree). x86 and AMD drop opcodes
without a row silently; AMD lacks its own V_ and SWMMAC opcodes, and its second
row of IMAD is never found.

*Patcher.* `data_` is replaced before the file is known to be ELF; a template
without a text section leaves the window of the one before; words behind control
rows are dropped and the call still succeeds; a patched word that looks like a
control row is skipped by the next patch; a window outside the new image is
written to (`result = "undefined"`); a patch whose output cannot be opened
returns false with `data_` changed.

*Device planning.* In `ilp_model.h` a reader may issue before a writer that
waits, and the latency counted is the consumer's. `estimate_cycles` writes no
register down, so on a fresh scheduler it does not depend on the program
(`EstimateBlind`). Some device models leave fields
uninitialised that no scheduler reads. In `task_scheduler.h` the chain of 16 is
never chosen, rounding leaves waves unlaunched, a dimension of zero divides by
zero, and large dimensions overflow an int; `PlanCovers` is about the plans of
the other problems.

## Fairness

All loops are sequential and run to completion, so the only fairness used is
weak fairness of the next-state relation as a whole, in `ilp_schedule` for
`Terminates`: the program keeps executing. The termination of `loop_unroll` is
shown without fairness, by the variant `AlwaysShrinks`, and that of the second
scheduler by a bound on its cycles, `CallsEnd`. Deadlock checking is off
everywhere because every pass returns.

## What is proved

Proofs are checked by TLAPS for every value of the constants; the assumptions
are the named ASSUMEs of the modules (register sets, positive widths and
latencies, programs that are sequences of instructions). Register sets are
finite where a property counts registers, as the code's register numbers are
bytes. The inductive invariants stand at the end of the modules they are about,
those of the device backends in front of their proofs, and each was checked by
TLC on the instance of its run as well.

`TextProofs`, the front end, about `Spec` of `Assembler`: `TokensTheorem`,
`LabelsTheorem`, `InstsTheorem` and `ParserTypes`, for every source text. The
first needs `LexerInv`: the lexer rests only where no token is half read
(`Boundary`), and the tokens handed out, the buffered one included, are as many
as the beginnings it has passed, or all of them and ends of file. For the other
two `ParserInv` says what the token in front of `pos` tells about the place
(`PlaceInv`: an operand list ends behind an operand, a name at the top is not
behind an opcode), that labels follow the definitions in front of `pos`
(`LabelsInv`), and that each instruction has the operands of its list so far, or
that its list will never be a plain one (`Reading`). Everything there rests on
one lemma, `Ranked`: the k-th member of a set of places is the one with k - 1
members in front of it.

`TextProofs`, the encoder, about `EncodeSpec` of `BlockEncoder`:
`TileTheorem`, `RoundTripTheorem`, `FusedTheorem` and `EncodeTypeTheorem`, for
every program, order and value of an operand. `EncoderInv` says that the places
of the words follow each other by the size of the group or by one
(`PlacesFollow`), and that each word is the one its place calls for
(`WordsOfPlaces`); it is inductive because the walk never touches the order or
the marks again. What a word shows is then a matter of its bits. `StdBits` and
`FusedBits` list the bits set, and `StdSlot`, `StdCode`, `StdCycle` and
`StdFlags` what each field holds: a slot holds its operand, except that the
marks lie in the third. `UnsignedIsTotal` (in `WordProofs`) turns the fold that reads a
field into a sum of sixteen terms, by the least counterexample in place of an
induction, and `UnsignedBits` sums it: each bit takes from the number what
stands above it. `RegShown`, `ImmShown`, `MemShown` and `MemsShown` then give
back the operand. The order comes from a CHOOSE by rank; `RankTaken` shows that
every rank is taken. The group must have two instructions or more
(`GroupAssumption`, 8 in the code): a fused word of one could not be told from
others by what it covers.

`TextProofs`, from text to word, about `Spec` of `Assembler`:
`BranchTheorem`. `AssemblerInv` says that the encoder's program is the parser's
instructions with their labels looked up (`Linked`), and carries `EncoderInv`,
which asks of the program only that operands can be counted. With as many words
as instructions each word is one instruction's (`OneEach`); `LabelsExact` tells
where the label stands, and `ImmShown` that the distance is printed when it fits
fourteen bits, which is a condition of `SourceBranchLands`: beyond it the
encoder clamps, and the branch goes elsewhere.

`WordProofs`, the patcher, about `PatchSpec`, the patcher called in any order with
any words. `WindowOfTemplate` needs `PatchInv`: the vector has as many rows as the
file it was read from, whatever was patched into it, so a text section inside the
file is a window inside the vector (`WindowInside`), and a window that is not
empty always came from some template. `PatchTheorem` says what a call leaves: the
rows written are counted along the window (`Enumerated`), so each gets its word
and every other row keeps what it held.

`DeviceProofs`, about `Spec` of `Toolchain`, for every program, result of the
optimizer, entry point, group size from two on, template and sequence of calls.
`EncodeCases` reads every action of an encoder as one of two steps, words behind
an instruction or behind a group (`Encode`), and each invariant then asks one
thing of the words only. `DeviceTypes` has words of 64 bits, one origin for each,
and an encoder inside its program (`DeviceTypeTheorem`). On top of it stand five
invariants, one per property or class:

- `HopperWords` counts, along the walk, two words for an opcode the maps have and
  the words of the whole program for one they lack (`HopperLengthTheorem`);
- `PascalWords` says of each word which instruction or which group it is the word
  of, and where the next begins (`Stands`). A word of Pascal is read bit by bit
  (`PascalBits`), over the families by what all have in common: constant
  bits below the byte on top, registers below bit 40 (`Families`). So the byte on
  top is the family (`PascalTop`), and of a fused word unless a register from 56 to
  63 sets one of its bits (`FusedTop`), which is why `PascalTiles` names those
  registers (`PascalTilesTheorem`);
- `PairedWords` says that Volta and Ampere leave two words for each instruction,
  and `OneWordEach` that x86 and AMD leave one for each instruction of the table, in
  order. What a reader finds in them follows from the bits, the same lemmas of
  `WordProofs` the text format rests on, and from facts about the tables: codes of
  sixteen bits that are not zero (`JitCodes`, `CodeBits`), a row for each opcode
  that `supports()` admits (`SupportedRows`), and values of eight bits but for
  UNKNOWN that tell opcodes apart (`ValueApart`), so that the mask of the disassembler
  loses nothing; that two programs with different registers below 64 have different
  words (`RegistersShown`) needs only that the fields do not overlap below 64, not
  where they stand (`ReadBackTheorem`);
- `ListedWords` puts line l at word l, or at word 3l - 2 for the wide backends; the
  listing then names and shows what the words hold, and the operation words with a
  line are those of every third instruction (`EveryThird`, `ListingTheorem`).

`ToolchainPatches` is the refinement: a toolchain, whose patcher gets the words of
a backend, implements `PatchSpec`, whose patcher gets any words, because
`DeviceTypes` says that they are words. `ToolchainWindow` and `ToolchainExact`
carry the two theorems about the patcher over to it.

`OptimizerProofs`: about `P0Spec`, `ReuseTheorem` and
`DeadTheorem` follow from `P0Inv`. The sort is a CHOOSE by rank; `RankFacts`
shows that ranks number a total order without gaps, and `Sorted` keeps of the
sort only that the k-th entry has k - 1 in front of it, which is enough for
both. `MarkedSoFar` states the flags as the inner loop finds them, stopping at
the first reader or writer; `FirstReader` shows that `ReuseAgreed`
follows from it. About `Spec` of `ConstProp`, `ConstPropKnown`: `TableInv` ties the table to
the vector `optimize_p0` left although the code reads the one it edits; that is
sound because the walk has not touched what is in front of it
(`AheadUntouched`).

`OptimizerProofs` again, about `P1Spec` of `OptimizeP1`: `LiveOnceTheorem` and
`BehindTerminatorTheorem` follow from `P1Inv` (`P1Invariance`), which hands a
different fact from pass to pass. The front passes leave distinct source
positions with a terminator at most at the end (`HandedOn`). While `loop_unroll`
walks, everything in front of some border is copied once, or twice before a loop
end, everything behind it is untouched, and a branch stands at the border, so no
later body reaches over it (`UntouchedFrom`). Behind it `base` keeps that vector
(`BaseInv`); the allocator renames in place (`InPlace`). `IssueInv` holds the
order `ilp_schedule` builds: no place twice, each recorded write is one of an
instruction issued, and once a terminator is issued everything behind it, and
everything that waits, mentions a register written in front of it: the
terminator is last in the vector, so a cycle that takes it takes all that was
ready, and what is left waits for a write already issued. From then on the
vector is a rearrangement of `base` with bars in between (`Arranged`), which one
move and one insertion keep (`MovedArranged`, `GuardedArranged`).
`FlowExplainedTheorem` adds `FlowInv`, about names: two ranges that hold one
physical register follow each other in `base` (`RangesApart`), which is
inductive because the scan goes by first mention (`ScannedInOrder`), and every
entry of the vector is a bar or an instruction of `base` with its registers
renamed (`FromBase`), whatever the passes behind do to the order. At the end
both meet in `Explained`: the writer an instruction now reads from either was
between the two in `base`, and then had another name (`NamesDiffer`), or was
not, and then changed places with one of them. The theorems hold for any
register file, body size, issue width and latency, not for the scaled ones of
the run.

`RegAllocProofs`: `Invariance` proves the strengthening `IInv`, `TypeCorrect`
its type part, `FlowTheorem` the property. `FlowPreserved` alone is not
inductive: it speaks of the renamed operands, and says nothing before renaming
starts. `IInv` adds that the ranges cover all mentions scanned so far, that they
are taken in order of first use (`Sorted`), that a range not yet expired still
holds its register in `active` (`StillHeld`), and hence that two assigned ranges
with one register do not overlap (`Apart`); renaming then inherits it (`OutOK`).
`PressureTheorem` needs the converse of `StillHeld`, in `Pressure`: the active
vector holds nothing else (`ActiveHeld`), and a range begins and ends at a
mention (`RangesTight`). A spill then finds `MaxRegs` distinct ranges live at the
place of the one it spills; and a place where too many are live spills the last
of them, because registers held at one place are distinct.

`ILPSchedulerProofs`: `TypeCorrect`, `LatencyTheorem` and `OvertakingTheorem`
follow from an `IInv` that ties `lastWriter` to the issue cycles (`WritersOK`),
orders the clock (`ClockOK`) and describes the ready queue within a cycle: all
that is in it is unblocked, all that is outside is scheduled or blocked
(`QueueOK`). `EmissionTheorem` proves the refinement of `IssueOrder`: the initial
states map to initial states and each step to a step or a stutter.
`StallTheorem` adds `StallInv`: the newest entry of the result was issued last
(`NewestIsLatest`), and the clock is at most a latency ahead of it (`ClockNear`),
because a cycle that issued nothing found a write in flight.

`HardwarePlanningProofs`: the second scheduler has no ready queue but a scan, and
a forced issue when a scan issues nothing. `IInv` has five parts. `CycleInv`
says that every cycle that has ended issued something, which the forced issue
ensures, so the clock never passes the number of instructions (`CallsEnd`).
`OnceInv` says that `done` and the result hold the same positions, so a forced
instruction cannot be issued again (`ScheduledOnceTheorem`, which counts with
cardinalities). `RateInv` ties `slot_issued` to the entries of the current cycle
at the end of the result. `WriterInv` says that a last writer is the last write
in the result, or what the call found. `PassedInv` says that what the scan has
passed over is done or waits for a write *it could see*: without it
`OvertakingJustified` is not inductive, because an issue further on refers to
the reasons of all positions before it. Between the reasons and the state lie
the writes of the same cycle further on in the program, which `WritesSeen`
leaves out. `EstimateTheorem` is about the other call: `CountInv` says that an
estimate writes no register down, and that on a scheduler that has none recorded
the instructions are counted in program order, a full width per cycle
(`AsListed`). `PlanTheorem` has no induction: a plan is computed at once, and
the lemmas are about rounding; it holds for the problems whose sums and products fit
an int. `ShorterChainWins` is the one that says most: the
chain of 16 is never chosen, whatever the sizes.

`EditProofs`, about `Spec` of `Scoreboard`: `ReachingDefs` speaks of the finished analysis, so `IInv`
adds that `last_writer` holds the closest earlier write (`WriterInv`) and that
the dependences found so far are exact for the instructions passed
(`FoundInv`). For the insertion the lemma `Inserted` says what one insertion does
to the vector; `VisitStep` combines it with the order of the visits: every
dependence left has its consumer at or in front of the place edited, so its
recorded position is either untouched or now holds the new bar
(`PositionsValid`, which is proved and in no run). `ScoreboardBarsPlaced` counts
on top of it: `BarsInv` says that in front of each consumer stand as many bars
as critical dependences of it were visited, and one visit adds one to both, the
bars by a bijection that shifts them (`BarsShifted`).

`EditProofs`, about `UnrollSpec`: the lemma `Unrolled` gives the length of the edited vector;
type correctness keeps the walk inside it, and each step is a decrease. That an
instruction is copied at most once needs what the walk leaves behind: the rest
of the vector is the end of the input (`TailUntouched`), and every copy is
sealed by a branch that was walked over (`CopiesSealed`), so a body, which may
hold no branch, never reaches one. `NoThird` and `BlocksRepeat` follow, and with
them `LoopUnrollCopiedOnce` and `LoopUnrollCopiesAreBlocks`.

`EditProofs`, about `BankSpec`: the lemma `Moved` gives, for every place of the edited
vector, the place its entry came from (`Old`), an order-preserving permutation
but for the moved entry; `OrderKept` and `PrefixFixed` follow. `BankNeverWorse`
maps each conflict of the edited vector to one of the old vector (`Cause`); the
map is an injection because the one conflict a removal can create takes the
place of the one that was separated.

Only model-checked, and why:

- `Terminates`: liveness under fairness.
- The properties of the runs marked *violated* above, which are false.

## What is not modelled, and the plan

Left out: the HAL and the command line tools (file and driver input and output),
the stateless guards, the pattern library and the encoder of the description
language (they inspect or print finished code), the HIP tuner (it starts
processes), the emission of AMD machine code and the text of generated launch
code, the text of the disassembler and its addresses, the optional report of the
scoreboard, and the floating-point geometry of the manifold scheduler, for which
any weights stand in. Third-party code, benchmarks and data are not part of the
assembler. Branches are instructions like any other to the passes, as they are
in the code; no module executes a program. `Toolchain` puts the constant operator
`Optimized` in front of the Pascal encoding, which allows more than `optimize_p1`
does: what `optimize_p1` itself does is the subject of `OptimizeP1`.

What the model would take up next:

1. `OptimizeP1` in place of `Optimized` in `Toolchain`, and with it the facts about
   the optimizer in front of `PascalTiles`.
2. The emission of AMD machine code, by instruction format.
3. The base register of an address and the registers of a loop in `RegAlloc`: both
   need a data flow over memory operands and backward branches that the allocator
   itself does not look at.
