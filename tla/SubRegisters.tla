---------------------------- MODULE SubRegisters ----------------------------
(***************************************************************************)
(* Sub-register canonicalization in Project::into_ir_project (term.rs      *)
(* lines 525-634), run over the lifted blocks of all subs.                 *)
(*                                                                         *)
(* For every block in program order the loop walks the defs with a         *)
(* peekable iterator: each def's expressions are rewritten by              *)
(* Expression::cast_sub_registers_to_base_register_subpieces, which gets   *)
(* the def's output variable (Assign, Load) or None (Store) and the next   *)
(* def of the block as it was before any rewriting.  When the output is a  *)
(* sub-register and the next def zero-extends it into its base register,  *)
(* the function returns that def's tid, which goes into zero_extend_tids.  *)
(* The jumps' expressions are rewritten without output and peek.  Then     *)
(* every def of the block whose tid is in zero_extend_tids is dropped.     *)
(* zero_extend_tids is created once, before the loops (line 535), and is   *)
(* never cleared: it is shared by all blocks of all subs.                 *)
(*                                                                         *)
(* cast_sub_registers_to_base_register_subpieces is not part of term.rs;   *)
(* it is modelled from spec section 4.5(c).  Expressions are flat: an      *)
(* operation on a sequence of operands, an operand being a register name,  *)
(* a subpiece of a base register, or a nested expression.                 *)
(***************************************************************************)
EXTENDS Naturals, Sequences, SequencesExt

CONSTANTS
  RegisterProperties,  \* register_properties: records [register, base_register, lsb, size]
  Programs,            \* the block sequences (each block [id, defs, jmps]) to start from
  CallingConventions   \* register_calling_convention: records [name, parameter_register,
                       \* return_register, unaffected_register, killed_by_call_register]

VARIABLES
  inBlocks,       \* the lifted blocks before the pass (history, never changes)
  blocks,         \* the blocks of all subs, in the order the loops visit them
  bi,             \* index of the block being rewritten
  di,             \* index of the def being rewritten
  phase,          \* "defs", "jmps", "retain", "assemble" or "done"
  zeroExtendTids, \* zero_extend_tids
  irConventions   \* the calling_conventions of the IrProject, <<>> until it is built

vars == <<inBlocks, blocks, bi, di, phase, zeroExtendTids, irConventions>>

(* register_map of lines 530-534: a register name to its properties.       *)
(* The HashMap is collected from the list in order, so of two entries     *)
(* with the same name the later one is kept.                               *)
Props(r) == RegisterProperties[SelectLastInSeq(RegisterProperties,
                                               LAMBDA p : p.register = r)]
Known(r) == \E p \in ToSet(RegisterProperties) : p.register = r

(* A sub-register: a known register that is not its own base register.    *)
IsSubRegister(r) == Known(r) /\ Props(r).base_register # r
Base(r) == Props(r).base_register

(* The canonical byte-range view of a sub-register within its base.       *)
Subpiece(r) == [base |-> Base(r), lsb |-> Props(r).lsb, size |-> Props(r).size]

Reg(r)      == [reg |-> r]
Var(r)      == [op |-> "var", args |-> <<Reg(r)>>]
ZExt(e)     == [op |-> "zext", args |-> <<e>>]
Piece(b, e) == [op |-> "piece", args |-> <<Reg(b), e>>]

(* Replace every sub-register operand, at any depth, by its subpiece.      *)
RECURSIVE ReplaceInputs(_)
ReplaceInputs(e) ==
  [e EXCEPT !.args =
     [i \in DOMAIN @ |->
        IF "reg" \in DOMAIN @[i]
          THEN IF IsSubRegister(@[i].reg) THEN Subpiece(@[i].reg) ELSE @[i]
          ELSE IF "op" \in DOMAIN @[i] THEN ReplaceInputs(@[i]) ELSE @[i]]]

(* Fault: any zero extension into the base register counts.                *)
ZeroExtendsAnyArg(peeked, r) ==
  /\ peeked # <<>>
  /\ peeked[1].kind = "Assign"
  /\ peeked[1].var = Base(r)
  /\ peeked[1].value.op = "zext"

(* The peeked def zero-extends the sub-register r into its base register:  *)
(* the disassembler's idiom for "write r, clear the rest of the base".     *)
ZeroExtends(peeked, r) ==
  /\ peeked # <<>>
  /\ peeked[1].kind = "Assign"
  /\ peeked[1].var = Base(r)
  /\ peeked[1].value = ZExt(Var(r))

(* A write to sub-register r of value e becomes a write of the base        *)
(* register that keeps its other bytes.                                    *)
WriteIntoBase(r, e) == Piece(Base(r), e)

(***************************************************************************)
(* cast_sub_registers_to_base_register_subpieces(self, output, peeked):    *)
(* the rewritten expression, the rewritten output and the tid of a         *)
(* redundant zero extension (<<>> for none).                               *)
(***************************************************************************)
CastSubRegisters(e, output, peeked) ==
  IF output # <<>> /\ IsSubRegister(output[1])
    THEN IF ZeroExtends(peeked, output[1])
           THEN [expr |-> ZExt(ReplaceInputs(e)), out |-> <<Base(output[1])>>,
                 tid |-> <<peeked[1].tid>>]
           ELSE [expr |-> WriteIntoBase(output[1], ReplaceInputs(e)),
                 out |-> <<Base(output[1])>>, tid |-> <<>>]
    ELSE [expr |-> ReplaceInputs(e), out |-> output, tid |-> <<>>]

(***************************************************************************)
(* The match of lines 543-578 on one def with the peeked next def.         *)
(***************************************************************************)
CanonicalDef(d, peeked) ==
  CASE d.kind = "Assign" ->
         LET r == CastSubRegisters(d.value, <<d.var>>, peeked)
         IN  [def |-> [d EXCEPT !.var = r.out[1], !.value = r.expr], tid |-> r.tid]
    [] d.kind = "Load" ->
         LET r == CastSubRegisters(d.address, <<d.var>>, peeked)
         IN  [def |-> [d EXCEPT !.var = r.out[1], !.address = r.expr], tid |-> r.tid]
    [] d.kind = "Store" ->
         [def |-> [d EXCEPT !.address = CastSubRegisters(@, <<>>, <<>>).expr,
                            !.value = CastSubRegisters(@, <<>>, <<>>).expr],
          tid |-> <<>>]

(* Fault: the CBranch arm is missing from the jump match.                  *)
CanonicalJmpNoCondition(j) ==
  IF j.kind \in {"BranchInd", "CallInd", "Return"}
    THEN [j EXCEPT !.expr = CastSubRegisters(@, <<>>, <<>>).expr]
    ELSE j

(* The match of lines 581-611 on one jump.                                 *)
CanonicalJmp(j) ==
  IF j.kind \in {"BranchInd", "CBranch", "CallInd", "Return"}
    THEN [j EXCEPT !.expr = CastSubRegisters(@, <<>>, <<>>).expr]
    ELSE j

(* From<CallingConvention> for IrCallingConvention (lines 494-503): the    *)
(* unaffected registers become the callee-saved ones; the killed-by-call   *)
(* registers are dropped.                                                  *)
LiftCallingConvention(c) ==
  [name |-> c.name, parameter_register |-> c.parameter_register,
   return_register |-> c.return_register,
   callee_saved_register |-> c.unaffected_register]

-----------------------------------------------------------------------------
Init ==
  /\ inBlocks \in Programs
  /\ blocks = inBlocks
  /\ bi = 1
  /\ di = 1
  /\ phase = IF inBlocks = <<>> THEN "assemble" ELSE "defs"
  /\ zeroExtendTids = {}
  /\ irConventions = <<>>

(* One iteration of the def loop of lines 541-579.  The peeked def is the  *)
(* next one in the block, which the loop has not rewritten yet.            *)
RewriteDef ==
  LET defs   == blocks[bi].defs
      peeked == IF di < Len(defs) THEN <<defs[di + 1]>> ELSE <<>>
      r      == CanonicalDef(defs[di], peeked)
  IN  /\ phase = "defs"
      /\ di \in DOMAIN defs
      /\ blocks' = [blocks EXCEPT ![bi].defs[di] = r.def]
      /\ zeroExtendTids' = zeroExtendTids \cup ToSet(r.tid)
      /\ di' = di + 1
      /\ UNCHANGED <<inBlocks, bi, phase, irConventions>>

EndDefLoop ==
  /\ phase = "defs"
  /\ di = Len(blocks[bi].defs) + 1
  /\ phase' = "jmps"
  /\ UNCHANGED <<inBlocks, blocks, bi, di, zeroExtendTids, irConventions>>

(* The jump loop of lines 580-612.                                         *)
RewriteJmps ==
  /\ phase = "jmps"
  /\ blocks' = [blocks EXCEPT ![bi].jmps = [k \in DOMAIN @ |-> CanonicalJmp(@[k])]]
  /\ phase' = "retain"
  /\ UNCHANGED <<inBlocks, bi, di, zeroExtendTids, irConventions>>

(* Fault: the def index is not reset for the next block.                   *)
RetainDefsKeepIndex ==
  /\ phase = "retain"
  /\ blocks' = [blocks EXCEPT ![bi].defs =
                  SelectSeq(@, LAMBDA d : d.tid \notin zeroExtendTids)]
  /\ bi' = bi + 1
  /\ phase' = IF bi = Len(blocks) THEN "assemble" ELSE "defs"
  /\ UNCHANGED <<inBlocks, di, zeroExtendTids, irConventions>>

(* blk.term.defs.retain of lines 615-620, then the next block.             *)
RetainDefs ==
  /\ phase = "retain"
  /\ blocks' = [blocks EXCEPT ![bi].defs =
                  SelectSeq(@, LAMBDA d : d.tid \notin zeroExtendTids)]
  /\ bi' = bi + 1
  /\ di' = 1
  /\ phase' = IF bi = Len(blocks) THEN "assemble" ELSE "defs"
  /\ UNCHANGED <<inBlocks, zeroExtendTids, irConventions>>

(* The IrProject of lines 623-634: the rewritten program and the lifted    *)
(* calling conventions in their order; the architecture name and the stack *)
(* pointer are copied and not modelled.                                    *)
AssembleProject ==
  /\ phase = "assemble"
  /\ irConventions' = [k \in DOMAIN CallingConventions |->
                          LiftCallingConvention(CallingConventions[k])]
  /\ phase' = "done"
  /\ UNCHANGED <<inBlocks, blocks, bi, di, zeroExtendTids>>

Next == RewriteDef \/ EndDefLoop \/ RewriteJmps \/ RetainDefs \/ AssembleProject

Spec == Init /\ [][Next]_vars

-----------------------------------------------------------------------------
TypeOK ==
  /\ Len(blocks) = Len(inBlocks)
  /\ \A b \in DOMAIN blocks : Len(blocks[b].defs) <= Len(inBlocks[b].defs)
  /\ phase \in {"defs", "jmps", "retain", "assemble", "done"}
  /\ irConventions \in {<<>>, [k \in DOMAIN CallingConventions |->
                                 LiftCallingConvention(CallingConventions[k])]}
  /\ bi \in 1..Len(inBlocks) + 1
  /\ phase \in {"assemble", "done"} \/ di \in 1..Len(blocks[bi].defs) + 1
  \* the variable a def writes is a register, never an expression
  /\ \A b \in DOMAIN blocks : \A k \in DOMAIN blocks[b].defs :
       blocks[b].defs[k].kind \in {"Assign", "Load"} =>
         blocks[b].defs[k].var \in { p.register : p \in ToSet(RegisterProperties) }
  /\ zeroExtendTids \subseteq UNION { { d.tid : d \in ToSet(inBlocks[b].defs) } :
                                        b \in DOMAIN inBlocks }

(* The register names an expression reads, at any depth.                   *)
RECURSIVE RegsOf(_)
RegsOf(e) ==
  UNION { IF "reg" \in DOMAIN e.args[i] THEN {e.args[i].reg}
          ELSE IF "op" \in DOMAIN e.args[i] THEN RegsOf(e.args[i]) ELSE {} :
            i \in DOMAIN e.args }

DefRegs(d) ==
  CASE d.kind = "Assign" -> {d.var} \cup RegsOf(d.value)
    [] d.kind = "Load"   -> {d.var} \cup RegsOf(d.address)
    [] d.kind = "Store"  -> RegsOf(d.address) \cup RegsOf(d.value)

JmpRegs(j) == IF "expr" \in DOMAIN j THEN RegsOf(j.expr) ELSE {}

(***************************************************************************)
(* Alias elimination (spec section 8): after the pass no def and no jump   *)
(* of any block names a sub-register, neither as the written variable nor *)
(* in any expression, a jump condition or an indirect target included.     *)
(***************************************************************************)
AliasFree ==
  phase = "done" =>
    \A b \in DOMAIN blocks :
      /\ \A k \in DOMAIN blocks[b].defs :
           \A r \in DefRegs(blocks[b].defs[k]) : ~IsSubRegister(r)
      /\ \A k \in DOMAIN blocks[b].jmps :
           \A r \in JmpRegs(blocks[b].jmps[k]) : ~IsSubRegister(r)

(* Def k of ds zero-extends, into the base register, the sub-register the  *)
(* def before it writes.                                                   *)
RedundantZeroExtension(ds, k) ==
  /\ k > 1
  /\ ds[k - 1].kind \in {"Assign", "Load"}
  /\ IsSubRegister(ds[k - 1].var)
  /\ ds[k].kind = "Assign"
  /\ ds[k].var = Base(ds[k - 1].var)
  /\ ds[k].value = ZExt(Var(ds[k - 1].var))

TidsOf(ds) == [k \in DOMAIN ds |-> ds[k].tid]

(***************************************************************************)
(* Redundant zero-extend removal (spec section 8), with nothing else       *)
(* removed: after the pass each block holds exactly the defs it had, in    *)
(* their order, less those that zero-extend the sub-register written by    *)
(* the def before them.  zero_extend_tids is shared by all blocks, and a   *)
(* block that belongs to two subs appears twice with the same tids.        *)
(***************************************************************************)
ZextRemovedExactly ==
  phase = "done" =>
    \A b \in DOMAIN blocks :
      LET ds == inBlocks[b].defs
      IN  TidsOf(blocks[b].defs)
            = TidsOf(SelectSeq([k \in DOMAIN ds |->
                                  [tid |-> ds[k].tid,
                                   keep |-> ~RedundantZeroExtension(ds, k)]],
                               LAMBDA x : x.keep))
=============================================================================
