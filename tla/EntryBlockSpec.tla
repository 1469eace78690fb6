--------------------------- MODULE EntryBlockSpec ---------------------------
(***************************************************************************)
(* What normalize followed by into_ir_program promises about the blocks of *)
(* each sub, stated in one atomic step (spec sections 4.4, 4.5(b), 7, 8):  *)
(*   - the conversion fails when a BRANCHIND or CALLIND anywhere lacks an  *)
(*     indirect target, or a term of a sub that keeps its blocks is        *)
(*     rejected by the lifter; otherwise:                                  *)
(*   - a non-empty sub none of whose blocks is at the sub's address comes  *)
(*     out with no blocks, and is named in the log, in program order;      *)
(*   - every other sub comes out with the same blocks, in an order that    *)
(*     starts with a block at the sub's address when it has blocks;        *)
(*   - the conversion returns.                                             *)
(***************************************************************************)
EXTENDS Naturals, Sequences, SequencesExt, Lifter

CONSTANTS Addr, NumSubs, MaxBlocks, Jmps

VARIABLES
  input,     \* the parsed subs
  result,    \* the lifted subs once the conversion has returned
  dropped,   \* the indices of the subs named in the log
  finished,  \* whether the conversion has ended
  failed     \* whether it ended in a panic

vars == <<input, result, dropped, finished, failed>>

Block == [id : 1..MaxBlocks, addr : Addr, jmp : Jmps]

ParsedSub ==
  { s \in [addr : Addr, blocks : Seq(Block)] :
      Len(s.blocks) <= MaxBlocks /\ \A k \in DOMAIN s.blocks : s.blocks[k].id = k }

(* The jumps of the sub's blocks.                                          *)
JmpsOf(sub) == { sub.blocks[k].jmp : k \in DOMAIN sub.blocks }

(* No block of the sub is at its address although it has blocks.          *)
Unrepairable(sub) ==
  sub.blocks # <<>> /\ \A k \in DOMAIN sub.blocks : sub.blocks[k].addr # sub.addr

(* The orders of the blocks of s.                                          *)
Reorderings(s) ==
  { p \in [DOMAIN s -> ToSet(s)] : ToSet(p) = ToSet(s) }

(* The block lists a lifted sub may have.                                  *)
Admissible(sub) ==
  IF Unrepairable(sub)
    THEN {<<>>}
    ELSE { p \in Reorderings(sub.blocks) : p = <<>> \/ p[1].addr = sub.addr }

(* The inputs the conversion rejects: a target the implicit-load pass      *)
(* cannot unwrap in any sub, or a term the lifter rejects in a sub that    *)
(* keeps its blocks.                                                       *)
Rejected(in) ==
  \E k \in 1..NumSubs :
    \/ \E j \in JmpsOf(in[k]) : TargetUnwrapPanics(j)
    \/ ~Unrepairable(in[k]) /\ \E j \in JmpsOf(in[k]) : ~LiftJmp(j).ok

(* The log names the unrepairable subs in the order of the program.        *)
DropLog(in) ==
  SetToSortSeq({ k \in DOMAIN in : Unrepairable(in[k]) }, <)

Init ==
  /\ input \in [1..NumSubs -> ParsedSub]
  /\ result = <<>>
  /\ dropped = <<>>
  /\ finished = FALSE
  /\ failed = FALSE

Fail ==
  /\ ~finished
  /\ finished' = TRUE
  /\ Rejected(input)
  /\ failed' = TRUE
  /\ UNCHANGED <<input, result, dropped>>

Convert ==
  /\ ~finished
  /\ finished' = TRUE
  /\ ~Rejected(input)
  /\ \E bl \in [1..NumSubs -> UNION { Admissible(input[k]) : k \in 1..NumSubs }] :
       /\ \A k \in 1..NumSubs : bl[k] \in Admissible(input[k])
       /\ result' = [k \in 1..NumSubs |-> [input[k] EXCEPT !.blocks = bl[k]]]
  /\ dropped' = DropLog(input)
  /\ UNCHANGED <<input, failed>>

Next == Fail \/ Convert

Spec == Init /\ [][Next]_vars /\ WF_vars(Next)
=============================================================================
