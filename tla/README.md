# TLA+ models of the P-Code to IR conversion of cwe_checker

The modelled code is `src/src/cwe_checker_lib/src/pcode/term.rs`. It takes the
P-Code project that the Ghidra plugin exports, deserialized into `Project`, and
turns it into the internal IR. It does this in three stages, which the caller
runs in this order:

1. **`Project::normalize`** (lines 636-689) makes two passes over the project:
   - pass (a), `Blk::add_load_defs_for_implicit_ram_access` (225-296), turns
     every operand that reads a constant memory address into an explicit `LOAD`
     into a temporary `$load_temp<n>`;
   - pass (b) empties every sub that is non-empty but has no block at its own
     address, and logs one message for each.
2. **`Program::into_ir_program`** (452-476) lifts the program:
   - it lifts every sub (330-370), swapping the entry block to the front or
     panicking when there is none;
   - it lifts every block, def and jump (65-223) and every extern symbol
     (390-434);
   - it computes `address_base_offset` from the hex string `image_base`.
3. **`Project::into_ir_project`** (520-634) rewrites every sub-register
   (`EAX`, `AX`, ...) into a subpiece of its base register (`RAX`). It:
   - walks the defs of each block with a peekable iterator, so that a
     following zero extension can be folded in;
   - collects the tids of the folded defs in one `zero_extend_tids` set,
     shared by all blocks;
   - then drops those defs from each block.
   Last it builds the IrProject, with the calling conventions lifted
   (494-503).

The whole conversion is one sequential batch with no I/O or concurrency. The
hard behaviours are therefore orderings inside a loop, state carried across
loop iterations (the peeked def, the shared tid set, the temporary names),
panics in the middle of a pass, and numeric edges of the hex parsing.

## Inventory

| Component | Code | State | Operations | Module |
|---|---|---|---|---|
| Implicit loads (normalize a) | 225-296, 658-666 | defs, jumps, `refactored_defs` | def-loop iteration, jump-loop iteration (rewrite, skip, panic), final assignment; one iteration per sub | `ImplicitLoads` (one block), `EntryBlock` (all subs) |
| Entry-block validation (normalize b) | 668-685 | subs, log messages | one iteration per sub | `EntryBlock` |
| Sub lifting | 330-370, 461 | lifted subs | swap the entry block or panic, then lift the blocks | `EntryBlock` with `Lifter` |
| Abstract conversion | spec §4.4, §4.5(b), §7, §8 | result, dropped subs, failure | one atomic step | `EntryBlockSpec` |
| Image-base offset | 467-468 | offset | parse and u64 subtraction | `ImageBase`, `HexParse` |
| Hex parsing (`from_str_radix`, `trim_start_matches`) | 401-410, 467-468 | (pure) | operators | `HexParse` |
| Sub-register canonicalization | 520-634 | blocks, `zero_extend_tids` | def rewrite with peek, jump rewrite, retain | `SubRegisters` |
| P-Code terms | 23-63, 119-135 | (records) | none | `PcodeTerms` |
| Jmp/Def/Blk lifting | 65-223 | lifted defs, jumps, hints | def step, hints, jump step, finish | `Lifter` (operators), `Pipeline` (after pass (a)) |
| Extern symbol lifting | 390-434 | parameters, return values | one step per argument, finish | `ExternSymbol` |
| Calling conventions and the IrProject | 494-503, 623-634 | `irConventions` | field renaming, project assembly | `SubRegisters` |
| serde structs | throughout | | derive macros | not modelled: generated code |

The following are defined outside `term.rs` and are modelled from `spec.md`:
- `Variable::to_load_def`;
- `Tid::with_id_suffix`;
- `Expression::cast_sub_registers_to_base_register_subpieces` (§4.5(c));
- the `Variable` record and the IR conversions of `Variable` and
  `Expression` (`IrExpr`, `IrRhs`, §4.3).

PROJECT.json marks them `spec_modelled`.

## Modules

- **`PcodeTerms`** defines the shared records: varnodes, labels, calls and
  jumps. Both `ImplicitLoads` and `Lifter` use them, so `Pipeline` can compose
  the two.

- **`ImplicitLoads`** models one block through pass (a).
  - A varnode is a record of three options: name, constant value and address.
    An option is encoded as a sequence of length 0 or 1.
  - Actions:
    - `ProcessDef` is one iteration of the def loop. `CleanDef` returns the
      loads of the slots in order, together with the cleaned def.
    - `EndDefLoop` ends the def loop.
    - `ProcessJmp` has three disjuncts:
      - the panic of a BRANCHIND or CALLIND whose target (`TargetOf`, lines
        268-280) is missing or `Direct`;
      - the rewrite of an addressed target (`WithTarget`);
      - the skip.
    - `Commit` is line 294.
- **`EntryBlock`** composes the program-level loops: normalize pass (a)
  over every sub, then pass (b), then the sub loop of `into_ir_program`.
  - A block is its position in the input, its address and its jump. Defs are
    left out: the `pipeline` run shows that a malformed def is rejected by the
    lift, just as a malformed jump is.
  - Pass (a)'s rewrite of addressed targets is left out too. It replaces one
    indirect label with another, which lifts alike, and an `ASSUME` keeps such
    targets out of `Jmps`.
  - Actions:
    - `LoadSub` (pass (a) over a sub's blocks; panics through
      `TargetUnwrapPanics`) and `EndLoads`;
    - `NormalizeSub` and `EndNormalize`;
    - `LiftSub`: swap, then the line 349 panic, or a rejected term
      (`LiftRejects`, through `LiftJmp`), or the lifted sub;
    - `FinishLift`.
- **`EntryBlockSpec`** is the abstract promise:
  - the conversion fails exactly on the inputs it rejects
    (`Rejected`): a BRANCHIND or CALLIND without an indirect target in any
    sub, or a term the lifter rejects in a sub that keeps its blocks;
  - otherwise, every sub comes out with its own blocks, starting at its
    entry, or empty exactly when no block is at its address;
  - the dropped subs are logged in program order;
  - the conversion finishes.

  `EntryBlock` instantiates it with a refinement mapping. The mapping exposes
  the result only once the lift is done.
- **`HexParse`** is a library of operators: Rust's `from_str_radix(_, 16)`,
  with its sign handling and range checks, and `trim_start_matches`.
- **`ImageBase`** models the offset computation. `U64Sub` gives both outcomes of
  an underflow: a panic with overflow checks, and a wrapped value without them.
  Which build runs is not fixed.
- **`SubRegisters`** models the loops of `into_ir_project` over a sequence of
  blocks.
  - `RewriteDef` peeks the next def as it was before rewriting.
  - `RewriteJmps` covers the jump match.
  - `RetainDefs` does the retain and then moves to the next block.
  - `zeroExtendTids` is never reset, as in the code.
  - `Props` looks a name up in `register_map`. The map is a HashMap collected
    from `register_properties` in order, so of two entries with the same name
    the later one wins.
  - `AssembleProject` is the last step. It builds the IrProject, with the
    calling conventions lifted in their order by `LiftCallingConvention`:
    `unaffected_register` becomes `callee_saved_register`, and
    `killed_by_call_register` is dropped.

- **`Lifter`** holds the conversions as pure operators, each returning
  `Lifted(term)` or `Fatal` (a panic):
  - `LiftJmp` covers the seven mnemonics with every `unwrap` and label-kind
    panic;
  - `LiftDef` covers the LOAD, STORE, SUBPIECE, cast and default arms;
  - `BlockHints` is the `find_map` of lines 204-208.
- **`Pipeline`** extends `ImplicitLoads` and `Lifter`. After pass (a) commits,
  it lifts the block one term per step:
  - `LiftDefStep` lifts one def;
  - `TakeHints` takes the hints;
  - `LiftJmpStep` lifts one jump;
  - `FinishBlock` builds the block.

  A panic in either stage ends the run.
- **`ExternSymbol`** models the argument loop of lines 395-433:
  - `LiftArg` lifts one argument and pushes it by intent (`IrArgOf`,
    `PushArg`);
  - `Finish` builds the symbol.
  Stack offsets are parsed by `HexParse` after `TrimStartMatches`.
  `SpecOffset` is the spec's reading of an offset: an optional sign, one
  optional `0x`, then hexadecimal digits in the range of i64.

## Runs

| Run | Bounds | Checks |
|---|---|---|
| `entry_block` | 2 subs, ≤3 blocks each, 2 addresses; each block ends with a well-formed BRANCH, a BRANCH given an indirect label, or a BRANCHIND given a direct label | `TypeOK`; `NoLiftPanic` (the panic at line 349 is unreachable once normalize ran); `EntryBlockInvariant`; `ConversionRefinement` (implements `EntryBlockSpec`: it fails exactly on the rejected inputs, although three loops each see only part of them, and it ends) |
| `entry_block_malformed` (violation) | as `entry_block` | `MalformedInputFatal`: a malformed BRANCH in a dropped sub never fails the conversion (finding 5) |
| `implicit_loads` | ≤2 defs with any of {none, register, memory} per slot, ≤2 jumps: BRANCHIND with goto none, direct, register or memory; CALLIND with no call or a call to those labels; BRANCH direct | `TypeOK` (a block grows by at most 3 loads per def and 1 per jump); `NoImplicitLoads`; `LoadsFeedTheirUses` (each rewritten operand's last writer is a load of its own address, although jump and def temporaries share names); `UniqueTids` |
| `sub_registers` | RAX/EAX/AX/RCX table, 14 def shapes, 6 jump shapes, one calling convention; one block of up to three defs, that block shared by two subs, or two blocks | `TypeOK`; `AliasFree` (no sub-register left anywhere); `ZextRemovedExactly` (exactly the zero extensions that follow a write of their sub-register are removed, although the tid set is shared) |
| `image_base_examples` (violation) | the spec's examples | `OffsetExamples`: `"0x1000"` panics (finding 1) |
| `pipeline` | ≤1 def over LOAD/STORE/SUBPIECE/INT_ZEXT/INT_ADD × {none, register, memory, constant} per slot; ≤1 jump over all 7 mnemonics × 4 labels × 6 calls × condition | `PanicsExactlyOnMalformed`: pass (a) and the lift together panic exactly when a term breaks the contract of spec §3/§4.3, so the loads and targets the pass synthesizes always lift |
| `pipeline_hints` (violation) | 2 BRANCH jumps with hints none, empty, or one | `HintsFromFirstNonEmpty` (finding 2) |
| `pipeline_cast_target` (violation) | one INT_ZEXT into a memory varnode | `MemoryWritesAreStores` (finding 3) |
| `extern_symbol` | ≤3 arguments; var none or RSP; locations none, `"0x8"`, `"10"`, `"-8"`, `"0xz"`, `"-0x8"`, `"+8"`, `"-"`, and `"7f"`, `"-80"`, `"80"`, `"-81"` at and just past the bounds of i64 modelled as 8 bits; LOAD without input0, LOAD of a register, INT_ADD; both intents | `ArgumentPartition`: a lift that returns splits the arguments by intent, in order, each standing for its argument (stack offsets as the number `SpecOffset` reads from the text) |
| `extern_symbol_args` (violation) | as `extern_symbol`, less `"-0x8"`, on which the code and `SpecOffset` differ | `MalformedArgFatal` (finding 4) |
| `extern_symbol_offsets` (violation) | ≤2 INPUT stack arguments with offsets `"0x8"`, `"-0x8"`, `"0x-8"`, `"0x0x8"` | `OffsetsResolveAsWritten`: `"-0x8"` panics (finding 6) |

The bounds make every interesting case happen:
- a sub whose entry block is second or third, or missing;
- jump temporaries that collide with def temporaries;
- a zero extension that follows, does not follow, or only resembles the write
  of its sub-register;
- a def that is peeked (and found to be a redundant zero extension) before
  it is rewritten itself, with a third def after it;
- the same block visited twice;
- every lifter arm with each of its operands or labels missing or of the wrong
  kind;
- a panic at the first, second or third argument, after earlier ones were
  pushed.

Each property has a mutant in PROJECT.json: a fault in a mapped definition that
makes TLC report the property violated.

## Fairness

The conversion is a single thread running one batch. `EntryBlock` and
`EntryBlockSpec` therefore assume weak fairness on their whole next-state
relation: whenever a step is possible, the thread takes one. The other
modules state only safety properties.

`HexParse` models Rust's standard library, not code of this repository, so no
property is about it alone. It is used by `image_base_examples` (unsigned)
and by the three `extern_symbol` runs (signed, at the bounds of i64).

## Findings

1. **Line 468:** `u64::from_str_radix` does not accept a `0x` prefix. Spec §8
   gives `image_base` as `"0x1000"`, and that panics at the `unwrap`. The
   stack-offset parse at line 407 strips `0x` first.
2. **Line 207:** `find_map` takes the hints of the first jump whose hints are
   `Some`, even when the list is empty, so the hints of a later jump are lost.
   Spec §4.3 says the first non-empty list supplies them.
3. **Line 158 (spec gap):** only the default arm (line 168) turns a target that
   has an address into a `Store`. A cast, SUBPIECE or LOAD into such a target
   becomes an `Assign` to the varnode, and the spec does not say what that
   means.
4. **Line 396:** an `Arg` with both `var` and `location` set is lifted as a
   register argument. Spec §3 and §7 say an Arg with two operand fields set
   is fatal.
5. **Line 683:** a sub without a block at its address loses its blocks in
   normalize, before they are lifted. A malformed jump in it, such as a BRANCH
   given an indirect label, is never rejected, and the conversion returns.
   A BRANCHIND or CALLIND without an indirect target in the same sub does
   still panic, because pass (a) runs first. Spec §7 says malformed input
   fails the whole conversion rather than being silently approximated.
6. **Line 407 (spec gap):** `trim_start_matches("0x")` strips the prefix as
   often as it starts the text, and never after a sign. So `"-0x8"` panics at
   the `unwrap`, while `"0x-8"` and `"0x0x8"` are accepted as -8 and 8. The
   spec says the offset is a signed number in hexadecimal text, and that an
   unresolvable offset is fatal. It does not say how a sign and `0x` combine.

One more divergence is seen in the code but not checked by a run, because a
property about it would only restate one constant: line 679 logs a dropped
sub with `LogMessage::new_error`, while spec §4.5(b) and §8 say the message
is warning-level.

## Not modelled

- **Properties of the calling conventions:** their lifting is modelled as part
  of `AssembleProject`, but no property is stated about it. It is a field copy
  with no branch and no failure, so any property would only restate it.
- **The architecture name and the stack pointer of the IrProject:** they are
  copied unchanged.
- **Register tables with two entries of one name:** the MC table has unique
  names. `Props` keeps the last entry, as the code does. The spec gives no rule
  for duplicates, so no property states which entry should win.
- **serde derives:** generated code.
- **A property of `from_str_radix` alone:** `HexParse` models Rust's standard
  library. Checking it against a reference of the same grammar would show
  nothing about this repository.
- **What an extern-symbol panic leaves behind:** a Rust panic unwinds, so no
  partial symbol can escape the loop. There is nothing to check.

## Plan: what is left

- Sub-register canonicalization composed after the lift. It only reads lifted
  blocks and cannot fail, so composing it adds no behaviour. Its properties
  are checked on every block shape it can meet.
- Blocks of more than one def and one jump in `pipeline`. This is limited by
  state space. Interactions between several terms of one block are checked in
  `implicit_loads`.
