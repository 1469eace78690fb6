----------------------------- MODULE EntryBlock -----------------------------
(***************************************************************************)
(* A program's subs through normalize and into_ir_program (term.rs).      *)
(*                                                                         *)
(* Project::normalize first runs pass (a) over every block of every sub    *)
(* (lines 658-666), which panics on a BRANCHIND or CALLIND whose target    *)
(* label is missing or direct.  Two loops over the subs then touch the     *)
(* order of their blocks:                                                  *)
(*   - Project::normalize, second pass (lines 668-685): a non-empty sub    *)
(*     whose first block is not at the sub's address and that has no      *)
(*     block at that address anywhere is logged and loses all its blocks;  *)
(*   - From<Term<Sub>> for Term<IrSub> (lines 335-369), called by          *)
(*     Program::into_ir_program for every sub in order (line 461): when    *)
(*     the first block is not at the sub's address, the first block that   *)
(*     is gets swapped to the front, and if there is none the lift panics. *)
(*     Each block is then lifted (lines 352-359), which panics on a term  *)
(*     the lifter rejects.                                                 *)
(* The caller runs normalize before into_ir_project.  One step of the      *)
(* model is one iteration of one of those loops.  A block is its position  *)
(* in the input (its identity), its address and its jump; its defs are    *)
(* left out (a malformed def is rejected by the lift like a malformed      *)
(* jump, see Pipeline), and so is the rewrite of addressed targets by pass *)
(* (a), which replaces one indirect label by another that lifts alike.    *)
(***************************************************************************)
EXTENDS Naturals, Sequences, SequencesExt, Lifter

CONSTANTS
  Addr,       \* addresses a sub or a block can have
  NumSubs,    \* number of subs in the program
  MaxBlocks,  \* maximal number of blocks of one sub
  Jmps        \* the jump terms a block may end with

ASSUME NumSubs \in Nat \ {0} /\ MaxBlocks \in Nat /\ Addr # {}
ASSUME \A j \in Jmps : IsIndirect(TargetOf(j)) => TargetOf(j)[1].indirect.address = <<>>

VARIABLES
  input,   \* the subs as parsed (history variable, never changes)
  subs,    \* program.term.subs as the normalization leaves them
  phase,   \* which loop runs: "loads", "normalize", "lift", "done", or the
           \* panics "panicked" (line 349) and "fatal" (a rejected term)
  idx,     \* loop index into subs
  log,     \* log_messages: [sub, level] of each message, sub an index of subs
  irSubs   \* the lifted subs produced so far

vars == <<input, subs, phase, idx, log, irSubs>>

(***************************************************************************)
(* Blk terms (lines 184-191) and Sub terms (lines 319-328): a block is     *)
(* identified by its position id in the parsed list and carries the        *)
(* address of its tid and its jump; the order of blocks is the parsed      *)
(* order, which the comment of line 326 warns may not start with the entry *)
(* block.                                                                  *)
(***************************************************************************)
Block == [id : 1..MaxBlocks, addr : Addr, jmp : Jmps]

(* The subs a program can hold, as a set TLC tests membership in lazily, *)
(* and as one it can enumerate.                                           *)
SubShape ==
  { s \in [addr : Addr, blocks : Seq(Block)] :
      Len(s.blocks) <= MaxBlocks /\ \A k \in DOMAIN s.blocks : s.blocks[k].id = k }

SubTerm ==
  { s \in [addr : Addr, blocks : UNION { [1..n -> Block] : n \in 0..MaxBlocks }] :
      \A k \in DOMAIN s.blocks : s.blocks[k].id = k }

(* Pass (a) over the blocks of a sub panics on one of their jumps.          *)
LoadPassPanics(sub) == \E k \in DOMAIN sub.blocks : TargetUnwrapPanics(sub.blocks[k].jmp)

(* The map of lines 352-359 panics on a block whose jump is rejected.      *)
LiftRejects(sub) == \E k \in DOMAIN sub.blocks : ~LiftJmp(sub.blocks[k].jmp).ok

(***************************************************************************)
(* The condition under which both loops act: the block list is non-empty   *)
(* and its first block is not at the sub's address (lines 338, 670-671).   *)
(***************************************************************************)
NeedsRepair(sub) ==
  /\ sub.blocks # <<>>
  /\ sub.addr # sub.blocks[1].addr

(* The index of the first block at the sub's address, 0 if there is none   *)
(* (the search loop of lines 339-345 and the find of lines 672-677).       *)
EntryIndex(sub) == SelectInSeq(sub.blocks, LAMBDA b : b.addr = sub.addr)

(* Fault: the normalization tests is_some() instead of is_none().          *)
StartBlockMissingInverted(sub) == NeedsRepair(sub) /\ EntryIndex(sub) # 0

(* The normalization's test for a function without a starting block        *)
(* (lines 670-677).                                                        *)
StartBlockMissing(sub) == NeedsRepair(sub) /\ EntryIndex(sub) = 0

(* Fault: the swap only copies the old first block to the entry's place.   *)
SwapBlocksHalfA(s, a, b) == [s EXCEPT ![b] = s[a]]

(* Fault: the swap only copies the entry block to the front.               *)
SwapBlocksHalfB(s, a, b) == [s EXCEPT ![a] = s[b]]

(* LogMessage::new_error naming the sub (lines 679-682); the text of the   *)
(* message is left out.                                                    *)
NoStartBlockMessage(i) == [sub |-> i, level |-> "Error"]

(* Fault: the entry block is inserted at the front instead of swapped.     *)
SwapBlocksToFront(s, a, b) == <<s[b]>> \o s

(* Vec::swap(0, start_block_index) of line 347.                            *)
SwapBlocks(s, a, b) == [s EXCEPT ![a] = s[b], ![b] = s[a]]

-----------------------------------------------------------------------------
Init ==
  /\ input \in [1..NumSubs -> SubTerm]
  /\ subs = input
  /\ phase = "loads"
  /\ idx = 1
  /\ log = <<>>
  /\ irSubs = <<>>

(* One iteration of the first loop of Project::normalize (lines 658-666):  *)
(* pass (a) over the blocks of one sub.                                    *)
LoadSub ==
  /\ phase = "loads"
  /\ idx \in DOMAIN subs
  /\ IF LoadPassPanics(subs[idx])
       THEN phase' = "fatal" /\ UNCHANGED idx
       ELSE idx' = idx + 1 /\ UNCHANGED phase
  /\ UNCHANGED <<input, subs, log, irSubs>>

(* Pass (a) is over; pass (b) starts at the first sub.                      *)
EndLoads ==
  /\ phase = "loads"
  /\ idx = Len(subs) + 1
  /\ phase' = "normalize"
  /\ idx' = 1
  /\ UNCHANGED <<input, subs, log, irSubs>>

(***************************************************************************)
(* One iteration of the second loop of Project::normalize (lines 668-685): *)
(* a sub without starting block is logged and its blocks are dropped.      *)
(***************************************************************************)
NormalizeSub ==
  /\ phase = "normalize"
  /\ idx \in DOMAIN subs
  /\ IF StartBlockMissing(subs[idx])
       THEN /\ log' = Append(log, NoStartBlockMessage(idx))
            /\ subs' = [subs EXCEPT ![idx].blocks = <<>>]
       ELSE UNCHANGED <<log, subs>>
  /\ idx' = idx + 1
  /\ UNCHANGED <<input, phase, irSubs>>

(* normalize returns its log messages (line 687) and the caller goes on    *)
(* with into_ir_project.                                                   *)
EndNormalize ==
  /\ phase = "normalize"
  /\ idx = Len(subs) + 1
  /\ phase' = "lift"
  /\ idx' = 1
  /\ UNCHANGED <<input, subs, log, irSubs>>

(***************************************************************************)
(* The conversion of one sub (lines 335-369) inside the map of line 461:  *)
(* swap the entry block to the front, or panic when there is none; then    *)
(* lift its blocks, which panics on a rejected term.                       *)
(***************************************************************************)
LiftSub ==
  LET sub == subs[idx]
      j   == EntryIndex(sub)
  IN
  /\ phase = "lift"
  /\ idx \in DOMAIN subs
  /\ IF NeedsRepair(sub) /\ j = 0
       THEN /\ phase' = "panicked"
            /\ UNCHANGED <<irSubs, idx>>
       ELSE IF LiftRejects(sub)
       THEN /\ phase' = "fatal"
            /\ UNCHANGED <<irSubs, idx>>
       ELSE /\ irSubs' = Append(irSubs,
                 IF NeedsRepair(sub)
                   THEN [sub EXCEPT !.blocks = SwapBlocks(@, 1, j)]
                   ELSE sub)
            /\ idx' = idx + 1
            /\ UNCHANGED phase
  /\ UNCHANGED <<input, subs, log>>

(* into_ir_program has lifted every sub and returns (lines 460-475).       *)
FinishLift ==
  /\ phase = "lift"
  /\ idx = Len(subs) + 1
  /\ phase' = "done"
  /\ UNCHANGED <<input, subs, idx, log, irSubs>>

Next == LoadSub \/ EndLoads \/ NormalizeSub \/ EndNormalize \/ LiftSub \/ FinishLift

(* The conversion is one sequential batch: whenever a step is possible the *)
(* single thread running it takes one.                                     *)
Spec == Init /\ [][Next]_vars /\ WF_vars(Next)

-----------------------------------------------------------------------------
TypeOK ==
  /\ input \in [1..NumSubs -> SubShape]
  /\ subs \in [1..NumSubs -> SubShape]
  /\ phase \in {"loads", "normalize", "lift", "done", "panicked", "fatal"}
  /\ idx \in 1..NumSubs + 1
  /\ log \in Seq([sub : 1..NumSubs, level : {"Debug", "Info", "Error"}])
  /\ irSubs \in Seq([addr : Addr, blocks : Seq(Block)])
  /\ Len(irSubs) <= NumSubs
  /\ \A k \in DOMAIN irSubs : Len(irSubs[k].blocks) <= MaxBlocks

(***************************************************************************)
(* The panic of line 349 ("Non-empty function without correct starting    *)
(* block") is unreachable when normalize ran first: the spec's open        *)
(* question of section 9, asked of every program of the bounds.            *)
(***************************************************************************)
NoLiftPanic == phase # "panicked"

(***************************************************************************)
(* Entry-block invariant (spec section 8): every sub the conversion        *)
(* emits has no blocks or starts with the block at its own address.        *)
(***************************************************************************)
EntryBlockInvariant ==
  \A k \in DOMAIN irSubs :
    irSubs[k].blocks = <<>> \/ irSubs[k].blocks[1].addr = irSubs[k].addr

(***************************************************************************)
(* The conversion implements the abstract promise of EntryBlockSpec: it   *)
(* fails exactly on the rejected inputs, although pass (a), the drop of    *)
(* dead subs and the lift each see only part of them; otherwise the blocks *)
(* of each sub come out reordered but complete, or dropped and logged      *)
(* exactly when no block of the sub is at its address; and the conversion  *)
(* eventually ends.                                                        *)
(***************************************************************************)
Abstract == INSTANCE EntryBlockSpec WITH
  result <- IF phase = "done" THEN irSubs ELSE <<>>,
  dropped <- IF phase = "done" THEN [k \in DOMAIN log |-> log[k].sub] ELSE <<>>,
  finished <- (phase \in {"done", "fatal"}),
  failed <- (phase = "fatal")

ConversionRefinement == Abstract!Spec

(***************************************************************************)
(* Malformed input is fatal (spec section 7: fail the whole conversion     *)
(* rather than silently approximating; section 8, fatal-path coverage):    *)
(* the conversion of a program fails exactly when one of its jumps breaks  *)
(* the contract of its mnemonic, in whichever sub it is.                   *)
(***************************************************************************)
MalformedInputFatal ==
  phase \in {"done", "fatal"} =>
    (phase = "fatal" <=>
       \E k \in DOMAIN input : \E b \in DOMAIN input[k].blocks :
         ~WellFormedJmp(input[k].blocks[b].jmp))
=============================================================================
