---------------------------- MODULE ImplicitLoads ----------------------------
(***************************************************************************)
(* Blk::add_load_defs_for_implicit_ram_access (term.rs lines 225-296), the *)
(* first pass of Project::normalize (lines 658-666), on one block.         *)
(*                                                                         *)
(* Ghidra encodes a read of a constant memory address as an operand that   *)
(* carries the address.  The pass walks the defs in order; for each of the *)
(* operand slots input0, input1, input2 holding such an operand it emits a *)
(* LOAD of the address into the temporary "$load_temp<slot>" and lets the  *)
(* slot read that temporary, then emits the cleaned def.  It then walks    *)
(* the jumps; the target of a BRANCHIND or CALLIND holding such an operand *)
(* gets a LOAD into "$load_temp<jump index>" appended after all defs.      *)
(* Finally the new list replaces the block's defs.  One step of the model  *)
(* is one iteration of one of the two loops, or the final assignment.     *)
(***************************************************************************)
EXTENDS Naturals, Sequences, FiniteSets, SequencesExt, TLC, PcodeTerms

CONSTANTS
  MemAddr,      \* constant addresses (hex strings) of implicit memory reads
  DefHead,      \* the [mnemonic, lhs] a parsed def may have
  DefOperand,   \* the values an operand slot of a parsed def may hold
  JmpShape,     \* the [mnemonic, goto, call, condition, hints] of a parsed jump
  MaxDefs,      \* maximal number of defs in the block
  MaxJmps       \* maximal number of jumps in the block

VARIABLES
  inDefs,      \* the block's defs as parsed (history, never changes)
  inJmps,      \* the block's jumps as parsed (history, never changes)
  defs,        \* self.defs
  jmps,        \* self.jmps, whose targets the jump loop rewrites in place
  refactored,  \* refactored_defs
  di,          \* position of the def loop
  ji,          \* position of the jump loop
  phase        \* "defs", "jmps", "done" or "panicked"

vars == <<inDefs, inJmps, defs, jmps, refactored, di, ji, phase>>

(* `if let Some(input) = ... { if input.address.is_some()` (lines 232-233) *)
Addressed(slot) == slot # <<>> /\ slot[1].address # <<>>

(* Tid::with_id_suffix: the suffix is appended to the id string.           *)
WithIdSuffix(tid, suffix) == tid \o suffix

(* Fault: the address goes into the first operand slot, input0.          *)
ToLoadDefFirstSlot(var, tempName) ==
  [lhs |-> <<VirtualVar(tempName)>>, mnemonic |-> "LOAD",
   in |-> << <<ConstVar(var.address[1])>>, <<>>, <<>> >>]

(***************************************************************************)
(* Variable::to_load_def: a def loading the varnode's address into a fresh *)
(* virtual register of the given name (spec section 4.2).                  *)
(***************************************************************************)
ToLoadDef(var, tempName) ==
  [lhs |-> <<VirtualVar(tempName)>>, mnemonic |-> "LOAD",
   in |-> << <<>>, <<ConstVar(var.address[1])>>, <<>> >>]

(* Term { tid, term }: a def together with its tid.                         *)
DefTerm(tid, d) == [tid |-> tid, lhs |-> d.lhs, mnemonic |-> d.mnemonic, in |-> d.in]

(* Fault: the synthesized tid does not name the operand slot.              *)
SlotSuffixNoIndex(k) == "_load"

(* The suffixes "_load0", "_load1", "_load2" of lines 237, 247, 257.       *)
SlotSuffix(k) == "_load" \o ToString(k)

(* The LOAD term emitted for operand slot k (0-based) of a def term.       *)
SlotLoad(d, k) ==
  DefTerm(WithIdSuffix(d.tid, SlotSuffix(k)),
          ToLoadDef(d.in[k + 1][1], "$load_temp" \o ToString(k)))

ParsedDef(tid) ==
  { [tid |-> tid, lhs |-> h.lhs, mnemonic |-> h.mnemonic, in |-> ops] :
      h \in DefHead, ops \in DefOperand \X DefOperand \X DefOperand }

(* Fault: the loop forgets operand slot input2.                            *)
CleanDefTwoSlots(d) ==
  LET ks == SelectSeq(<<0, 1>>, LAMBDA k : Addressed(d.in[k + 1]))
  IN  << [i \in DOMAIN ks |-> SlotLoad(d, ks[i])],
         [d EXCEPT !.in = [k \in 1..3 |->
            IF k < 3 /\ Addressed(d.in[k]) THEN SlotLoad(d, k - 1).lhs ELSE d.in[k]]] >>

(***************************************************************************)
(* The body of the def loop for one def (lines 231-261): the LOAD terms to *)
(* insert, in slot order, and the cleaned def.                             *)
(***************************************************************************)
CleanDef(d) ==
  LET ks == SelectSeq(<<0, 1, 2>>, LAMBDA k : Addressed(d.in[k + 1]))
  IN  << [i \in DOMAIN ks |-> SlotLoad(d, ks[i])],
         [d EXCEPT !.in = [k \in 1..3 |->
            IF Addressed(d.in[k]) THEN SlotLoad(d, k - 1).lhs ELSE d.in[k]]] >>

(* Fault: the loads are pushed twice.                                       *)
EmitCleanedTwice(loads, cleaned) == loads \o loads \o <<cleaned>>

(* The loads are pushed before the cleaned def (lines 236, 246, 256, 262). *)
EmitCleaned(loads, cleaned) == loads \o <<cleaned>>

-----------------------------------------------------------------------------
(* *input = ... of line 284: the inspected label is overwritten in place.  *)
WithTarget(j, l) ==
  IF j.mnemonic = "BRANCHIND" THEN [j EXCEPT !.goto = <<l>>]
  ELSE [j EXCEPT !.call[1].target = <<l>>]

ParsedJmp(tid) ==
  { Jmp(tid, s.mnemonic, s.goto, s.call, s.condition, s.hints) : s \in JmpShape }

(* Block sizes and tids: the defs are "d1", "d2", ..., the jumps "j1", ... *)
DefTid(k) == "d" \o ToString(k)
JmpTid(k) == "j" \o ToString(k)

Init ==
  /\ \E n \in 0..MaxDefs :
       inDefs \in { ds \in [1..n -> UNION {ParsedDef(DefTid(k)) : k \in 1..n}] :
                      \A k \in 1..n : ds[k].tid = DefTid(k) }
  /\ \E n \in 0..MaxJmps :
       inJmps \in { js \in [1..n -> UNION {ParsedJmp(JmpTid(k)) : k \in 1..n}] :
                      \A k \in 1..n : js[k].tid = JmpTid(k) }
  /\ defs = inDefs
  /\ jmps = inJmps
  /\ refactored = <<>>
  /\ di = 1
  /\ ji = 1
  /\ phase = "defs"

(* One iteration of the def loop (lines 230-263).                          *)
ProcessDef ==
  LET r == CleanDef(defs[di])
  IN  /\ phase = "defs"
      /\ di \in DOMAIN defs
      /\ refactored' = refactored \o EmitCleaned(r[1], r[2])
      /\ di' = di + 1
      /\ UNCHANGED <<inDefs, inJmps, defs, jmps, ji, phase>>

EndDefLoop ==
  /\ phase = "defs"
  /\ di = Len(defs) + 1
  /\ phase' = "jmps"
  /\ UNCHANGED <<inDefs, inJmps, defs, jmps, refactored, di, ji>>

(* Fault: every jump loads into "$load_temp0".                             *)
JmpTempFixed(index) == "$load_temp0"

(* format!("$load_temp{}", index) of line 282.                             *)
JmpTemp(index) == "$load_temp" \o ToString(index)

(***************************************************************************)
(* One iteration of the jump loop (lines 265-293), index = ji - 1.  A      *)
(* BRANCHIND or CALLIND whose inspected label is missing (the unwraps of  *)
(* lines 269, 274) or direct (lines 271, 276) panics.                      *)
(***************************************************************************)
ProcessJmp ==
  LET j    == jmps[ji]
      temp == JmpTemp(ji - 1)
  IN
  /\ phase = "jmps"
  /\ ji \in DOMAIN jmps
  /\ \/ /\ TargetUnwrapPanics(j)
        /\ phase' = "panicked"
        /\ UNCHANGED <<jmps, refactored, ji>>
     \/ /\ j.mnemonic \in {"BRANCHIND", "CALLIND"}
        /\ IsIndirect(TargetOf(j))
        /\ Addressed(<<TargetOf(j)[1].indirect>>)
        /\ jmps' = [jmps EXCEPT ![ji] = WithTarget(j, Indirect(VirtualVar(temp)))]
        /\ refactored' = Append(refactored,
              DefTerm(WithIdSuffix(j.tid, "_load"),
                      ToLoadDef(TargetOf(j)[1].indirect, temp)))
        /\ ji' = ji + 1
        /\ UNCHANGED phase
     \/ /\ \/ j.mnemonic \notin {"BRANCHIND", "CALLIND"}
           \/ IsIndirect(TargetOf(j)) /\ ~Addressed(<<TargetOf(j)[1].indirect>>)
        /\ ji' = ji + 1
        /\ UNCHANGED <<jmps, refactored, phase>>
  /\ UNCHANGED <<inDefs, inJmps, defs, di>>

(* self.defs = refactored_defs (line 294).                                 *)
Commit ==
  /\ phase = "jmps"
  /\ ji = Len(jmps) + 1
  /\ defs' = refactored
  /\ phase' = "done"
  /\ UNCHANGED <<inDefs, inJmps, jmps, refactored, di, ji>>

Next == ProcessDef \/ EndDefLoop \/ ProcessJmp \/ Commit

Spec == Init /\ [][Next]_vars

-----------------------------------------------------------------------------
Var == [name : Seq(STRING), value : Seq(STRING), address : Seq(STRING)]

TypeOK ==
  /\ \A k \in DOMAIN defs :
       defs[k].lhs \in Seq(Var) /\ \A s \in 1..3 : defs[k].in[s] \in Seq(Var)
  /\ \A k \in DOMAIN jmps :
       IsIndirect(TargetOf(jmps[k])) => TargetOf(jmps[k])[1].indirect \in Var
  /\ phase \in {"defs", "jmps", "done", "panicked"}
  /\ di \in 1..Len(inDefs) + 1
  /\ ji \in 1..Len(inJmps) + 1
  \* a block grows by at most three loads per def and one per jump
  /\ Len(refactored) <= 4 * Len(inDefs) + Len(inJmps)

(* The last def before position pos that writes the varnode v, 0 if none. *)
Writer(ds, pos, v) == SelectLastInSubSeq(ds, 1, pos - 1, LAMBDA d : d.lhs = <<v>>)

(* The def at position w is a LOAD from the constant address of var.       *)
LoadsFrom(ds, w, var) ==
  w > 0 /\ ds[w].mnemonic = "LOAD" /\ ds[w].in[2] = <<ConstVar(var.address[1])>>

IsIndirectTarget(j) ==
  j.mnemonic \in {"BRANCHIND", "CALLIND"} /\ IsIndirect(TargetOf(j))

(***************************************************************************)
(* Implicit-load elimination (spec section 8): once the pass has run, no   *)
(* operand slot of any def, and no target of a BRANCHIND or CALLIND, is a  *)
(* varnode with an address.                                                *)
(***************************************************************************)
NoImplicitLoads ==
  phase = "done" =>
    /\ \A k \in DOMAIN defs : \A s \in 1..3 : ~Addressed(defs[k].in[s])
    /\ \A k \in DOMAIN jmps :
         IsIndirectTarget(jmps[k]) => ~Addressed(<<TargetOf(jmps[k])[1].indirect>>)

(***************************************************************************)
(* The pass keeps what the block computes.  Once it has run:               *)
(*   - the parsed defs are still there, in their order, and each slot      *)
(*     either is unchanged or reads a temporary whose last writer before   *)
(*     the def is a LOAD of the address the slot held;                     *)
(*   - each rewritten jump target reads a temporary whose last writer in   *)
(*     the block is a LOAD of the address the target held;                 *)
(*   - nothing else was added: one LOAD per rewritten operand.             *)
(* Temporaries are shared between defs ("$load_temp0" for every slot 0)    *)
(* and between defs and jumps (jump 0 also uses "$load_temp0"), so this    *)
(* depends on the order in which the loads are emitted.                   *)
(***************************************************************************)
LoadsFeedTheirUses ==
  phase = "done" =>
    LET pos(k) == SelectInSeq(defs, LAMBDA d : d.tid = inDefs[k].tid)
        nSlots == Cardinality({ <<k, s>> \in (DOMAIN inDefs) \X (1..3) :
                                  Addressed(inDefs[k].in[s]) })
        nJmps  == Cardinality({ k \in DOMAIN inJmps :
                                  IsIndirectTarget(inJmps[k])
                                  /\ Addressed(<<TargetOf(inJmps[k])[1].indirect>>) })
    IN
    /\ \A k \in DOMAIN inDefs : pos(k) > 0
    /\ \A k \in DOMAIN inDefs : \A l \in DOMAIN inDefs : k < l => pos(k) < pos(l)
    /\ \A k \in DOMAIN inDefs : \A s \in 1..3 :
         LET old == inDefs[k].in[s]
             new == defs[pos(k)].in[s]
         IN  IF Addressed(old)
               THEN new # <<>> /\ LoadsFrom(defs, Writer(defs, pos(k), new[1]), old[1])
               ELSE new = old
    /\ \A k \in DOMAIN inJmps :
         IsIndirectTarget(inJmps[k]) /\ Addressed(<<TargetOf(inJmps[k])[1].indirect>>) =>
           LoadsFrom(defs, Writer(defs, Len(defs) + 1, TargetOf(jmps[k])[1].indirect),
                     TargetOf(inJmps[k])[1].indirect)
    /\ Len(defs) = Len(inDefs) + nSlots + nJmps

(***************************************************************************)
(* The tids of the block's defs stay pairwise distinct: the synthesized    *)
(* loads get tids derived from the def or jump they serve, and later       *)
(* passes (the zero-extension removal of into_ir_project) find defs by    *)
(* tid.                                                                    *)
(***************************************************************************)
UniqueTids ==
  \A k, l \in DOMAIN defs : k # l => defs[k].tid # defs[l].tid
=============================================================================
