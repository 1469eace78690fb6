----------------------------- MODULE PcodeTerms -----------------------------
(***************************************************************************)
(* The P-Code terms of term.rs as the passes and the lifter see them.      *)
(* Every Rust Option is a sequence of length 0 (None) or 1 (Some).         *)
(*                                                                         *)
(*   Variable  [name, value, address]          (pcode Variable)            *)
(*   Label     Direct | Indirect(variable)     (lines 119-126)             *)
(*   Call      [target, return_, call_string]  (lines 23-33)               *)
(*   Jmp term  [tid, mnemonic, goto, call, condition, hints] (35-63)       *)
(*   Def term  [tid, lhs, mnemonic, in]        (lines 128-135), in being   *)
(*             the operand slots input0, input1, input2                   *)
(*                                                                         *)
(* Byte sizes do not influence any control decision of term.rs and are     *)
(* left out; a direct label's tid is one block.                           *)
(***************************************************************************)
EXTENDS Sequences

RegVar(r)     == [name |-> <<r>>, value |-> <<>>, address |-> <<>>]
MemVar(a)     == [name |-> <<>>, value |-> <<>>, address |-> <<a>>]
ConstVar(c)   == [name |-> <<>>, value |-> <<c>>, address |-> <<>>]
VirtualVar(n) == [name |-> <<n>>, value |-> <<>>, address |-> <<>>]

Direct      == [direct |-> "blk"]
Indirect(v) == [indirect |-> v]

Call(target, return_, callString) ==
  [target |-> target, return_ |-> return_, call_string |-> callString]

Jmp(tid, mnemonic, goto, call, condition, hints) ==
  [tid |-> tid, mnemonic |-> mnemonic, goto |-> goto, call |-> call,
   condition |-> condition, hints |-> hints]

(* An optional label is present and direct, or present and indirect.      *)
IsDirect(o)   == o # <<>> /\ o[1] = Direct
IsIndirect(o) == o # <<>> /\ o[1] # Direct

(***************************************************************************)
(* The label the loop of Blk::add_load_defs_for_implicit_ram_access        *)
(* inspects (lines 268-280): goto of a BRANCHIND, call.target of a        *)
(* CALLIND; <<>> where an unwrap finds None.                              *)
(***************************************************************************)
TargetOf(j) ==
  IF j.mnemonic = "BRANCHIND" THEN j.goto
  ELSE IF j.call = <<>> THEN <<>> ELSE j.call[1].target

(* The unwraps of lines 271-279 panic: the inspected label of a BRANCHIND   *)
(* or CALLIND is missing or direct.                                        *)
TargetUnwrapPanics(j) ==
  j.mnemonic \in {"BRANCHIND", "CALLIND"} /\ ~IsIndirect(TargetOf(j))

-----------------------------------------------------------------------------
(***************************************************************************)
(* The input contract of spec sections 3 and 4.3: the fields a jump's      *)
(* mnemonic requires, labels of the kind it expects, and a return label   *)
(* that names a block (the IR's return is a tid).                          *)
(***************************************************************************)
WellFormedJmp(j) ==
  LET ret(c) == c.return_ = <<>> \/ c.return_[1] = Direct
  IN
  CASE j.mnemonic = "BRANCH"    -> IsDirect(j.goto)
    [] j.mnemonic = "CBRANCH"   -> IsDirect(j.goto) /\ j.condition # <<>>
    [] j.mnemonic \in {"BRANCHIND", "RETURN"} -> IsIndirect(j.goto)
    [] j.mnemonic = "CALL"      -> j.call # <<>> /\ IsDirect(j.call[1].target) /\ ret(j.call[1])
    [] j.mnemonic = "CALLIND"   -> j.call # <<>> /\ IsIndirect(j.call[1].target) /\ ret(j.call[1])
    [] j.mnemonic = "CALLOTHER" -> j.call # <<>> /\ j.call[1].call_string # <<>> /\ ret(j.call[1])
=============================================================================
