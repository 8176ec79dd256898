# A TLA+ model of the PADLOC instrumentation client

PADLOC (`src/api/samples/padloc.cpp` and `src/api/samples/padloc/`) is a
DynamoRIO client. It replaces every floating-point instruction of an
application by a call to a backend function (Verrou's stochastic rounding),
which it makes through an inline trampoline. This directory models what the
client does to a basic block and what the rewritten block does on the
processor, and it checks the rewritten block against the original one. It also
models the filter that decides which modules and blocks are rewritten, from
the command line to the lookup table, and the catalog pass that lists the
symbols holding floating-point code.

## 1. The system

### Parts and how they interact

| Part | Source | State | Operations |
|---|---|---|---|
| Client lifecycle | `padloc.cpp` `dr_client_main`, `api_initialisation`, `tls_register`, `thread_init/exit`, `event_exit` | three TLS fields per thread: result pointer (8 B), GPR image (17 x 8 B), SIMD image (16 x 16/32 B or 32 x 64 B) | registration and allocation, once |
| Module and symbol filter | `symbol_config.{hpp,cpp}`, `padloc.cpp` `module_load_handler` | the mode, `modules_vector` (the parsed lists), `lookup_vector` (address ranges of the listed modules loaded so far) | `symbol_argument_parser`, `symbol_client_mode_manager`, `should_instrument_module` on every module load, `needs_to_instrument(bb)` on every block |
| Operation classifier | `padloc_operations.{hpp,cpp}` | none: a pure function | `plc_get_operation_category`, `get_size_flag`, `plc_is_*` |
| Block rewriter | `padloc.cpp` `app2app_bb_event` | locals `instr`, `next_instr`, `oc`, `registers_saved`, `should_continue`; the instruction list `bb` | one pass over the block |
| Trampoline emitters | `padloc_client.cpp` `insert_*` | none: each emits meta-instructions | save/restore GPRs+flags and SIMD, set the destination TLS, set the operand addresses, restore RSP, call |
| Backend dispatch | `padloc_client.cpp` `insert_call`, `insert_corresponding_vect_call{,_fused}`, `padloc_backend{,_fused}::apply` | the result TLS and the images, at run time | choose the specialisation; apply the operation lane by lane; zero the AVX upper lanes |
| Backend operations | `backend/backend.hxx`, `backend_verrou/interflop_verrou.cxx` | Verrou's random state | `add sub mul div fmadd fmsub nfmadd nfmsub` |
| SSE order self-test | `analyse.cpp` `analyse_symbol_test_sse_src`, `test_sse_src_order` | `NEED_SSE_INVERSE` | decide whether the decoder lists SSE sources swapped |
| Catalog generation | `padloc.cpp` `symbol_lookup_event`, `symbol_config.cpp` `log_symbol` | `modules_vector` as a catalog; the statics `oldModule`, `oldPos` | log the (module, symbol) of every block that holds an FP instruction |

At run time, DynamoRIO hands every new basic block to `app2app_bb_event`.
- The handler asks the filter whether the block needs instrumenting.
- It classifies each application instruction.
- For a run of consecutive instrumented instructions it inserts:
  1. a save of the GPRs, flags and SIMD registers into the thread's images, once, before the run;
  2. per instruction: the destination's image slot into the result TLS, and the operand addresses into RDI/RSI/RDX (OP_A/B/C);
  3. on the first instruction of the run only: RSP reloaded from the image and lowered by 32;
  4. a clean call to `apply`;
  5. a restore of the SIMD and GPR state, once, after the run.
- It removes the original instruction.
- The backend reads the operands through the three pointers and writes the result lanes into the destination's image. The restore then brings the result into the real register.

Before that, at startup:
- `symbol_argument_parser` sets the mode from `-n`, `-w`, `-b` and `-g`.
- `symbol_client_mode_manager` parses the lists into `modules_vector`.
- It gives every listed module already mapped a lookup entry.
- `api_register` registers `module_load_handler` and `app2app_bb_event`, or in GENERATE mode only `symbol_lookup_event`.

At run time, each module load sets the module's should-instrument flag through
`should_instrument_module`. That call may append a lookup entry. The host gives
`app2app_bb_event` only the blocks of flagged modules, and `needs_to_instrument`
then looks the block's address up in `lookup_vector`.

### What is hard here

The code has no concurrency between its own parts: each thread has its own
buffers, and the handler runs to completion on one block. What is hard is the
*order of effects on one machine*:
- registers used as scratch (RCX, RDI, RSI, RDX, RAX for lahf) while the application's values of them are still needed;
- RSP moved while the operands are addressed relative to it;
- flags clobbered by the call and by `sub rsp, 32`;
- a result written into an image that is later restored over the real register;
- runs of several instructions sharing one save.

These are exactly the things a unit test of one instruction does not reach.
The model runs the whole rewritten block on a symbolic machine, from the
application's initial state, and compares the result with the original block
run by the processor (Intel SDM semantics). The hazards are listed, each at the
line where it bites, in `PROJECT.json`.

The filter is a different story. Its state lives across the whole run, and the
host changes the address space under it: modules are loaded, unloaded, loaded
again elsewhere, and mapped into the holes of non-contiguous modules. The lookup
table is keyed by address and no unload event is registered. What the filter
decides for a block therefore depends on the history of the address space, not
only on the lists.

## 2. Modules

| Module | Models | Notes |
|---|---|---|
| `Classifier` | `plc_get_operation_category`, `get_size_flag`, the flag enum, `plc_is_*` | An `OPERATION_CATEGORY` is the set of its `PLC_OP_*` flag names; `PLC_OTHER` = `PLC_UNSUPPORTED` = `{}`. An instruction is its opcode features, its EVEX prefix and its operands in Intel order. |
| `Rewriter` | `app2app_bb_event` | One action per step of the loop (below). The rewritten block `out` is a sequence of *pieces*, each named after the helper that emits it. |
| `Trampoline` | the `insert_*` helpers, `insert_call`, `apply`, the reference processor | `Expand(piece)` is the meta-instruction sequence of each helper; `Exec` runs one meta-instruction on the machine `m`. `NatBlock` is the original block run natively (a fold over `bb`). `Spec` = rewrite, then run the pieces. |
| `MCTrampoline` | the instance for TLC | Registers, displacements and the blocks. |
| `RewriterProofs` | TLAPS proofs about `Rewriter` | See section 4. |
| `ReplayProofs` | TLAPS lemmas about `Kept`, the pieces of a rewritten block that stand for an original instruction | See section 4. |
| `BlockSubstitution` | what the rewriter promises for a block (spec sections 1 and 4) | Abstract: the block is translated one instruction at a time, in order. A `Replaceable` instruction becomes one backend call; any other is kept. A block the filter rejects is returned whole. Not mapped to code. |
| `SubstProofs` | TLAPS proof that `Rewriter` refines `BlockSubstitution` | See section 4. |
| `FilterTable` | the data of `symbol_config.{hpp,cpp}`: `parse_line`, the list builders and their cleanup, `lookup_or_load_module`'s entry, `lookup_entry_t::contains`, `lookup_find`, `should_instrument_module`, `needs_to_instrument` | Pure operators. A list line is already trimmed: a (module, symbol-or-`Whole`) pair or `Blank`. A module image `Layout[m]` gives, per address, its symbol, `NoSym` or `Gap` (a hole between segments). Recursion is a recursive function, so TLAPS can use the module. |
| `SymbolFilter` | the filter in its process: option parsing, the mode manager, module loads and unloads, block events, `log_symbol` | State and actions below. |
| `MCSymbolFilter` | the instance for TLC | Two modules, two symbols, ten addresses. |
| `Catalog` | what the GENERATE-mode catalog promises (spec section 4.5, `-g <file>`) | Abstract: a set of (module, symbol) pairs, empty at startup, that grows by one pair of a module and one of its own symbols per step. Not mapped to code. |
| `FilterProofs` | TLAPS proofs about `SymbolFilter` | See section 4. |

### `Rewriter`: actions against the code (`padloc.cpp`)

| Action | Lines | What |
|---|---|---|
| `Init` | 140-144 | The handler is entered with a block from `Blocks`; the filter's answer `needs` is a free boolean. |
| `SkipBlock` | 146-147 | `!needs_to_instrument(bb)`: return, block unchanged. |
| `StartBlock`, `OuterIter`, `OuterEnd` | 150-153 | The `for` loop: classify `instr`, reset `registers_saved` and `should_continue`. |
| `KeepInstr` | 156-158, 204-205 | A do-while pass on an instruction that is not instrumented. |
| `Instrument` | 156-205 | A pass on an instrumented instruction: `Prologue` (168-190), then classify `next_instr` (191), `should_continue` (192), `Epilogue` (194-198), remove (200). |

When `next_instr` is NULL, `Instrument` goes to `pc = "crashed"`: line 191
classifies it before line 192 tests it.

### `Trampoline`: the machine

- `m.gpr`: the 16 GPRs (the model uses 8: rax rcx rdx rbx rsp rsi rdi r8);
- `m.simd`: the vector registers, as lanes of 64 bits;
- `m.flags`: the byte lahf/sahf moves (`arith`), and OF;
- `m.spill`: DynamoRIO's spill slot;
- the three TLS buffers;
- `m.stack`: the displacements below the application's RSP overwritten so far;
- `m.wild`: set by an access through a pointer that is neither a buffer nor an operand address.

Values are symbolic: `AppGpr(r)`, `AppLane(r, l)`, buffer pointers, effective
addresses, operation terms. So "the register holds the application's value"
is an equality, not a coincidence of numbers.

### `SymbolFilter`: actions against the code

| Action | Source | What |
|---|---|---|
| `ParseArg` (`WithFile`, `Abort`) | `symbol_config.cpp` 611-722 | One word of the command line: `-w`/`-b` combine into `WL_ONLY`, `BL_ONLY` or `BL_WL`; `-g` without a file, or with a file that cannot be opened, gives HELP and stops; in GENERATE mode every option is ignored; an unknown word counts an error. |
| `ArgsEnd` | `arguments_parser` (utils.cpp, not in the tree: from the spec) | The line is read: errors abort, otherwise go on to the lists. |
| `ModeManager` | 724-757 | In a list mode: a list that cannot be opened aborts. Otherwise the lists are parsed (`ListedTable`) and `load_lookup_from_modules_vector` (363-376) runs. In the other modes nothing happens. |
| `StartupModuleLoad`, `ModuleLoad` | `padloc.cpp` 36-44 | `module_load_handler`: `lookup_or_load_module`, then the flag from `should_instrument_module`. Outside GENERATE only, as `api_register` says. |
| `ModuleUnload` | host | The host unmaps a module. The client has no handler, so nothing of the filter changes. |
| `BlockEvent` | `padloc.cpp` 137-145 | `app2app_bb_event`'s filter test. `last` records the module, the symbol and the decision: the module's flag and `needs_to_instrument`. |
| `SymbolLookupEvent` (`log_symbol`, `LogSameModule`, `LogSearch`) | `padloc.cpp` 222-246, `symbol_config.cpp` 220-285 | In GENERATE mode: the block's symbol is added to its module's catalog entry. The shortcut path uses the module of the previous call; the search path is taken otherwise. `oldModule` and `oldPos` keep their 0-based C values. |

The host's freedom is set by three constants:
- `ReuseAddrs`: a module may be mapped where another was unmapped.
- `ReloadStartup`: a module mapped at startup may be loaded again.
- `InGap`: a module may be mapped into the hole of another.

When all three are FALSE, the host only maps modules at fresh addresses.

## 3. Runs

All runs use `MCTrampoline`. The instance:
- three XMM/YMM registers;
- the eight GPRs above;
- displacements `{8, -8}`;
- four 64-bit lanes (256-bit registers).

The instructions:
- `subsd`;
- `subpd` with a base+index memory operand (index RDI, clobbered by the trampoline);
- `vsubsd xmm2, xmm2, xmm0`;
- `vdivpd` with memory `[rsi-8]`;
- scalar `vfmsub231sd`;
- `vfnmadd132pd` with `[rsp-8]`;
- `vfmadd213pd` with an absolute address;
- an integer `add` and an EVEX `vaddpd`, which are not instrumented;
- a final `jmp`.

The blocks are every sequence of one to three of these instructions followed by the `jmp`. This covers:
- runs of one, two and three instructions;
- runs separated by a non-FP instruction;
- every operand form;
- each fused order;
- SSE and AVX, scalar and packed.

| Run | cfg | Expect | Checks |
|---|---|---|---|
| `trampoline_block` | `MCTrampoline.cfg` | pass | `TypeOK`, `LoopInv`, `RunBracketing`, `BracketInv`, `SubstInv`, `AppStatePreserved`, `SimdMatchesNative`, `NoWildAccess`; property `SubstRefinement` (24,958 states) |
| `null_next` | `MCTrampoline_NullNext.cfg` | violation | `NoNullDeref`, on blocks that do not end with a branch |
| `overflow_flag` | `MCTrampoline_OverflowFlag.cfg` | violation | `FlagsPreserved` |
| `avx_merge_lane` | `MCTrampoline_AvxMergeLane.cfg` | violation | `SimdMatchesNative`, on `vsubsd xmm2, xmm1, xmm0` |
| `red_zone` | `MCTrampoline_RedZone.cfg` | violation | `SimdMatchesNative`, on an operand at `[rsp-40]` |
| `fma_order_host` | `MCTrampoline_FmaOrderHost.cfg` | violation | `SimdMatchesNative` with `ImplicitSrcLast = FALSE` |

The properties of the passing run:
- **`RunBracketing`**: every piece that uses the saved state runs between a save and its restore; no application instruction and no second save runs inside; a finished block leaves nothing saved.
- **`SubstRefinement`**: `Rewriter` implements `BlockSubstitution`. The refinement mapping is as follows:
  - the abstract block is `bb`, and the filter's decision is `needs`;
  - the abstract result is `Kept(out)`, the pieces of kind `app` and `call` in order;
  - the stage is `"closed"` once `pc = "done"`.

  `Replaceable` is `SpecReplaceable`: an add/sub/mul/div/fma-family instruction without an EVEX prefix, taken from the spec, not from the classifier. So the property also checks that `plc_get_operation_category` instruments exactly those instructions. The saves, operand setup and restores around a call are invisible to it. Dropping the EVEX test at the top of `plc_get_operation_category` (`padloc_operations.cpp:74`) breaks it: the EVEX `vaddpd` of the instance becomes a call.
- **`SubstInv`**: the inductive form of `SubstRefinement` (section 4). In the loop, `Kept(out)` is the translation of `bb[1..pos-1]`. In the do-while body, `oc` is the category of `bb[pos]`. Only an accepted block gets past `"start"`.
- **`AppStatePreserved`**: the GPRs and the lahf byte of the flags end as the native block leaves them.
- **`SimdMatchesNative`**: every vector register ends as the native block leaves it.
- **`NoWildAccess`**: no access goes through a bad pointer.
- **`LoopInv`**: the loop invariant of the handler.
- **`BracketInv`**: the inductive form of `RunBracketing` (section 4). It says `registers_saved` and `should_continue` agree with whether the block built so far ends inside a save/restore bracket.

### The filter runs

All use `MCSymbolFilter`:
- modules `A` (image `f, NoSym, Gap, Gap, g`: two segments with a hole) and `B` (`f, g`);
- ten addresses, with `A` mapped at 1 at startup and up to three further loads;
- command lines for every mode and every abort: none, `-n`, `-w f`, `-b f`, `-w f -b f`, `-b f -w f -ar`, `-g f -w` (options ignored in GENERATE), `-w f -n`, `-b` without a file, and a stray word `f`;
- whitelists and blacklists that mix whole-module and symbol lines, a blank line, and lines for modules that are never loaded.

| Run | cfg | Expect | Checks |
|---|---|---|---|
| `symbol_filter` | `MCSymbolFilter.cfg` | pass | `TypeOK`, `FilterDecisionCorrect`, `CatalogExact`, `CatalogInv`, `CatalogRefinement`, `ListsFrozenAfterStartup` (14,272 states) |
| `stale_lookup_reuse` | `MCSymbolFilter_Reuse.cfg` | violation | `FilterDecisionCorrect` with `ReuseAddrs` |
| `reload_startup_module` | `MCSymbolFilter_Reload.cfg` | violation | `FilterDecisionCorrect` with `ReloadStartup` |
| `segment_hole` | `MCSymbolFilter_Hole.cfg` | violation | `FilterDecisionCorrect` with `InGap`, on `-w f -b f` with `A` whole in the whitelist and `A!g` in the blacklist |
| `lookup_writes_after_startup` | `MCSymbolFilter_Writes.cfg` | violation | `LookupFrozenAfterStartup` |

The properties:
- **`FilterDecisionCorrect`**: every block `app2app_bb_event` sees is rewritten exactly when the lists say so for its module and symbol. The reference is `Intended`, taken from the header comment of `symbol_config.cpp` and spec section 4.5. It is checked after any history of loads, whatever order the list lines come in.
- **`CatalogExact`**: in GENERATE mode, `modules_vector` holds each logged (module, symbol) pair exactly once, and nothing else. The shortcut and the search path of `log_symbol` must agree for this to hold.
- **`CatalogInv`**: the inductive form of `CatalogExact` (section 4). It also says that `oldModule` indexes `modules_vector`, so `modules_vector[oldModule]` is a valid read.
- **`CatalogRefinement`**: `SymbolFilter` implements `Catalog`. The refinement mapping is `CatalogView`: `Catalogued(modules_vector)` in GENERATE mode, the empty set otherwise (there `modules_vector` holds the parsed lists, not a catalog). Every step either leaves the view as it is or is one `Log(m, s)` step, with `s` a symbol of module `m`'s own image. Dropping the `NoSym` test of `log_symbol` breaks it.
- **`ListsFrozenAfterStartup`**: outside GENERATE mode, no step in phase `run` changes `modules_vector`. Module load events on any thread read it in `lookup_or_load_module`; this action property says they never race with a write to it. Registering `symbol_lookup_event` in every mode breaks it.
- **`LookupFrozenAfterStartup`**: no step after startup changes `lookup_vector` (spec section 5).

Each of these is broken by a plausible fault in the code; the faulty variants are defined next to the definitions they replace (`PROJECT.json` "mutants").

### Findings

1. **`null_next`** (`padloc.cpp:191`): a block whose last application instruction is FP makes the handler dereference a NULL `next_instr`. DynamoRIO blocks normally end with a control transfer, but blocks are also cut at size limits and at other points, so this is reachable in principle.
2. **`overflow_flag`** (`padloc_client.cpp:480`, `513`): OF is not preserved. spec.md 4.4 promises the full flag state.
3. **`avx_merge_lane`** (`padloc_client.cpp:545` with `apply`): for a VEX scalar instruction whose destination is not its first source, bits 127:64 of the result come from the old destination, not from the first source.
4. **`red_zone`** (`padloc.cpp:184`): only 32 bytes are reserved below RSP. The call's frame overwrites the System V red zone before `apply` reads an operand there. This assumes `dr_insert_call`'s clean call runs on the application stack at the lowered RSP, which is what the `sub rsp, 32` suggests.
5. **`fma_order_host`** (`padloc_client.cpp:773`): the FMA permutation table is right only if the decoder puts the implicit source last, which nothing tests (spec.md section 9).
6. **`stale_lookup_reuse`** (`symbol_config.cpp:302`): `lookup_or_load_module` returns early when some entry already contains the module's start address. No unload event removes the entry of an unmapped module, so a module mapped at the same address inherits it.
7. **`reload_startup_module`** (`symbol_config.cpp:375`): `load_lookup_from_modules_vector` erases the entries of the startup modules from `modules_vector`. Such a module, unloaded and loaded elsewhere, is then unlisted: not instrumented with a whitelist, or wholly instrumented with a blacklist.
8. **`segment_hole`** (`symbol_config.hpp:152`): for a whole module with exceptions, `contains` tests the full range, not the segments (the comment at line 155 notes this). A module mapped in the hole is decided by the first module's entry.
9. **`lookup_writes_after_startup`** (`symbol_config.cpp:352`): spec.md line 61 says no writes to the lookup table occur after startup. `module_load_handler` appends to it whenever a listed module is loaded. Other threads' block events read the table without a lock, and `push_back` may reallocate it under them.

### Assumptions and abstractions

- **Precision:** double precision only: one lane is one double. Single precision has the same control flow, with twice the lanes.
- **Operand sizes:** the host reports a scalar register operand with its element size (8 bytes), so scalar categories carry no width flag.
- **Addressing:** the scale of an index is not modelled; the address is a symbolic term over the registers.
- **Spill slot:** `dr_save_reg` and `dr_restore_reg` use one spill slot.
- **Call effects:** the call clobbers the caller-saved GPRs, every vector register and all the flags. This is the System V ABI.
- **Filter in `Rewriter`:** `needs_to_instrument` is a free choice there. `SymbolFilter` models it separately, and the two modules are not composed: the filter's answer only selects which blocks the rewriter sees.
- **List lines:** comment stripping and blank trimming in `parse_line` are abstracted. A line arrives as a (module, symbol) pair.
- **Symbols:** `drsym_lookup_address` and `drsym_lookup_symbol` are read off `Layout`. A symbol occupies one address range.
- **Host events:** events are serialized. Load events of the startup modules come before any block.
- **Excluded instructions:** AVX-512 (EVEX) instructions are not instrumented, as in the code.

### Bounds

- **Block length:** three FP instructions give runs of length 3 and a run split by an integer instruction.
- **Registers:** three vector registers allow a destination that differs from both sources.
- **Displacements:** two allow an operand above and below RSP.
- **Lanes:** four 64-bit lanes exercise the packed 256-bit case and the AVX upper-lane zeroing.
- **Not covered:** 512-bit registers would need eight lanes; that hazard is not yet covered.
- **Filter modules:** two modules, one of them non-contiguous, are enough for every shape of entry: whole, symbols, whole with exceptions, contiguous or not, and a second module to reuse an address or to fit in a hole. Two symbols give a listed and an unlisted symbol in one module.
- **Loads:** three loads after startup allow unload, reload and reuse sequences.

### Fairness

`Spec` has weak fairness on `Next`. No liveness property is checked yet, so it constrains nothing. The code's justification would be that both the handler and the code cache run to completion on one thread. Deadlock checking is off because a finished block, `pc = "done"` with every piece run, has no successor by design.

`SymbolFilter`'s `Spec` has no fairness: its properties are safety properties. Its runs turn deadlock checking off for two reasons:
- an aborted client (`phase = "aborted"`: HELP, a list that cannot be opened, a bad option) does nothing more;
- a run with every module unloaded stops once the bound `MaxLoads` is reached.

## 4. Proofs (`RewriterProofs`, `ReplayProofs`, `SubstProofs`, `FilterProofs`, TLAPS)

| Theorem | Statement |
|---|---|
| `LoopInvariant` | `RSpec => []LoopInv` |
| `TypeCorrect` | `RSpec => []TypeOK` |
| `BracketInvariant` | `RSpec => []BracketInv` |
| `BracketingCorrect` | `RSpec => []RunBracketing` |

These hold for every set of blocks `Blocks \subseteq Seq(Instr)`.

**Loop invariant.** `TypeOK` alone is not inductive. In the loop body, `bb[pos]` needs `pos <= Len(bb)`. That holds because:
- the body is only re-entered when `should_continue` holds;
- `should_continue` holds only when the category `oc` of the next instruction is instrumented;
- so `KeepInstr` never runs with `should_continue` set.

`LoopInv` adds these two facts and is inductive (`LoopInvInit`, `LoopInvStep`). `TypeCorrect` follows from it.

**Bracketing.** `RunBracketing` is not inductive either. Whether the next prologue saves the registers depends on the local `registers_saved`, not on `out`. `BracketInv` strengthens it with three facts, where `Open(out)` means the block built so far ends inside a bracket:
- before the first piece, and at the head of the `for` loop, `out` is closed;
- in the `do`-`while` body, `Open(out)` holds exactly when `registers_saved` does;
- in the body, `registers_saved` holds exactly when `should_continue` does.

TLC checks `BracketInv` in `trampoline_block`. The step proof works per appended piece:
- `AppendBracketed` says that appending one piece keeps `out` bracketed when the piece needs the saved state exactly when a bracket is open;
- `PrologueBracketed` and `EpilogueBracketed` chain it over the pieces of the prologue and of the epilogue;
- `InsidePrefix` and `InsideSuffix` describe `Inside` over a concatenation.

The lemmas it rests on:
- `CategoryType`: the classifier only sets `PLC_OP_*` flags;
- `BaseFlagsType` and `SizeFlagType`;
- `PrologueType` and `EpilogueType`: the pieces inserted are well typed;
- the `Inside`/`Append*` lemmas above.

Writing the proof led to two changes in `Classifier`:
- `plc_get_operation_category` became an `IF` chain, because a `CASE` with overlapping guards would not express the code's early returns.
- `Opcode` was restricted so that only fused opcodes carry an operand order.

### `ReplayProofs`

This module holds no theorem of its own, only the lemmas that `SubstProofs` builds on. They are stated about `Kept(s)`, the pieces of kind `app` and `call` of `s`, in order. `Kept` is written with ranks (the `j`-th kept piece is the one with `j` kept pieces up to it) rather than with `SelectSeq`, so that TLAPS can reason about it.
- `RankRange`, `RankMono` and `RankOnto`: the rank of a kept piece is in `1..N`, strictly increasing, and a bijection onto `1..N` (through `FS_Injection` of `FiniteSetTheorems`).
- `KeptEq`: two sequences with the same kept pieces at the same ranks are equal.
- `KeptAppendKept`, `KeptConcatUnkept`, `KeptEmpty`, `KeptAllApp`: appending a kept piece appends it, and appending unkept pieces changes nothing.
- `KeptInstrument`: the pieces one instrumented instruction adds keep exactly one piece, the call for it.

### `SubstProofs`

| Theorem | Statement |
|---|---|
| `SubstInvariant` | `RSpec => []SubstInv` |
| `SubstRefinementCorrect` | `RSpec => SubstRefinement`, that is `RSpec => Sub!Spec` |

These hold for every set of blocks. The refinement proof has three parts:
- `Init` maps to `Sub!Init`, because `Kept(<<>>) = <<>>`.
- `SubstStep`: every step between two states of `SubstInv` is a `Sub!Next` step or a stutter of the mapped variables.
  - `SkipBlock` maps to `Keep`.
  - `KeepInstr` and `Instrument` map to `Translate`. This includes the `Instrument` step that crashes on the last instruction: by then it has emitted the call.
  - `OuterEnd` maps to `Close`.
  - `StartBlock` and `OuterIter` change only locals.
- Temporal logic combines them with `SubstInvariant`.

`SubstInv` is needed for two reasons. The abstract step decides call or kept instruction from the instruction itself, while `Instrument` decides from the local `oc`. So the invariant must say that `oc` is the category of `bb[pos]` in the body. `KeepInstr` relies on `should_continue` being false to return to the `for` head. And `Len(Kept(out)) = pos - 1` is what makes `bb[pos]` the abstract next instruction.

The lemmas:
- `CategoryReplaceable`: `plc_is_instrumented(plc_get_operation_category(ins))` holds exactly when `SpecReplaceable(ins)` holds. An EVEX or non-FP instruction gets `PLC_OTHER`. Any other gets at least its precision flag.
- `PieceIsChunk`, `TranslationExtend`, `TranslationBounds`: how the abstract translation of a prefix grows.

The theorem is about `RSpec`, the rewriter alone. The run checks the same property on `Trampoline`'s specification. There, the steps that run the pieces leave the rewriter's variables unchanged.

What stays with TLC:
- **`Trampoline`:** its properties compare a fold of the rewritten block with a fold of the original (`FoldLeft` from the community modules is recursive). TLAPS cannot reason about what a recursive definition computes for every input. The equivalence is therefore checked on the instance above.
- **Liveness:** none is stated yet; liveness and `ENABLED` are out of TLAPS's reach anyway.

### `FilterProofs`

| Theorem | Statement |
|---|---|
| `CatalogInvariant` | `Spec => []CatalogInv` |
| `CatalogExactInvariant` | `Spec => []CatalogExact` |
| `CatalogRefinementCorrect` | `Spec => CatalogRefinement`, that is `Spec => Abs!Spec` |
| `ListsFrozen` | `Spec => ListsFrozenAfterStartup` |

This holds for every set of modules, symbols, layouts, command lines and lists that satisfies `FilterConstantsAssumption` and `SymbolFilterAssumption`.

`CatalogExact` is not inductive as it stands. Three facts are missing:
- **The catalog starts empty:** before the lists are read, the catalog and `seen` are empty, so the mode manager cannot start GENERATE mode on a non-empty vector.
- **Nothing is logged outside GENERATE:** outside that mode `seen` stays empty. `symbol_lookup_event` is registered only in GENERATE.
- **`GenOK`:** in GENERATE mode, `oldModule < Len(modules_vector)` once the vector is non-empty. Without it, the shortcut path reads `modules_vector[oldModule]` and the proof cannot tell which entry is extended.

`CatalogInv` adds these facts; TLC checks it in `symbol_filter`. The step proof has one case per action. Only `SymbolLookupEvent` needs work, through `LookupStep`, which rests on these lemmas:
- `LogSameModuleStep` and `LogSearchStep`: each path of `log_symbol` keeps `GenOK` and adds exactly the logged pair to `Catalogued`;
- `AppendSym` and `AppendEntry`: the vector updates of those paths;
- `VecIdx` and `ModIdxSpec`: what `vec_idx_of` returns.

**Refinement.** `CatalogRefinementCorrect` follows the usual three steps: `Init` maps to `Abs!Init` (the mode is `NOLOOKUP` at startup, so the view is empty); every step between two states of `CatalogInv` maps to an `Abs!Next` step or a stutter of `CatalogView` (`RefinementStep`); and temporal logic combines them with `CatalogInvariant`. `RefinementStep` rests on `ViewIsSeen` (under `CatalogInv`, `CatalogView = seen`, so only `SymbolLookupEvent` changes it) and `SymAtSyms` (a symbol `drsym` gives a block is one of its module's own symbols).

**Frozen lists.** `FrozenStep` shows, one case per action, that no step in phase `run` outside GENERATE writes `modules_vector`; `ListsFrozen` lifts it to the action property. No invariant is needed: every writer is guarded by the phase or the mode.

`ModeManager`'s list branch uses `SelectSeq`, which the provers cannot unfold. It is never taken in GENERATE mode, and the proof only needs that fact.

What stays with TLC:
- `TypeOK` of `SymbolFilter`: its `lookup_vector` and `modules_vector` conjuncts go through recursive functions (`load_lookup_from_modules_vector`, `ParseFile`) and `SelectSeq` (`Cleanup`, the mode manager). TLAPS gets the defining equation of a recursive function only through the library's recursion theorems. Those take an operator parameter, which the installed provers cannot instantiate;
- `FilterDecisionCorrect`, whose reference `Intended` and whose lookup go through the list parsing (`ParseFile`, `Cleanup` with `SelectSeq`);
- the violation runs.

## 5. Plan and what is left

1. Compose `SymbolFilter` with `Rewriter`, so that `needs` is the filter's answer. Model `write_symbols_to_file` and the catalog analysis of `analyse.cpp`.
2. Prove a `FilterDecisionCorrect` restricted to the host without reuse, reload or holes. This needs lemmas about `SelectSeq`.
3. Model per-thread buffers with two threads sharing the code cache. The static `nb` counter of `app2app_bb_event` is a shared, unsynchronised counter, used for logging only.
4. Run an eight-lane instance for the AVX-512 upper bits.
5. Refine `BlockSubstitution` further down: each call with the same operands as the instruction it replaces. This needs the `Trampoline` machine, whose folds keep it with TLC.
