------------------------------- MODULE Lifter -------------------------------
(***************************************************************************)
(* The conversions of one term into the IR (term.rs lines 65-223):         *)
(*   - From<Jmp> for IrJmp (65-117): dispatch on the mnemonic, unwrapping  *)
(*     the fields the mnemonic needs and panicking on a missing one or on  *)
(*     a label of the wrong kind;                                          *)
(*   - From<Def> for IrDef (137-182): dispatch on the right-hand side's    *)
(*     mnemonic;                                                           *)
(*   - the target hints of From<Blk> for IrBlk (204-208).                  *)
(* A conversion returns Lifted(term) or Fatal (a panic).                   *)
(*                                                                         *)
(* The conversions of a Variable or an Expression into the IR are not part *)
(* of term.rs; they are modelled from spec section 4.3: a constant becomes *)
(* a constant expression, any other varnode a variable expression (which   *)
(* keeps the varnode, address included, so that properties can see it),   *)
(* and an operation its mnemonic applied to its present operands.         *)
(***************************************************************************)
EXTENDS Sequences, SequencesExt, PcodeTerms

Lifted(t) == [ok |-> TRUE, term |-> t]
Fatal     == [ok |-> FALSE, term |-> <<>>]

(* Into<IrExpression> of a varnode.                                        *)
IrExpr(v) ==
  IF v.value # <<>> THEN [op |-> "const", args |-> v.value]
  ELSE [op |-> "var", args |-> <<v>>]

(* Into<IrExpression> of an expression: its mnemonic on its operands.      *)
IrRhs(d) ==
  [op |-> d.mnemonic,
   args |-> [k \in DOMAIN SelectSeq(d.in, LAMBDA o : o # <<>>) |->
               IrExpr(SelectSeq(d.in, LAMBDA o : o # <<>>)[k][1])]]

(* Variable::parse_to_bitvector of an addressed target: its address.       *)
IrConstAddress(v) == [op |-> "const", args |-> v.address]

(* Variable::parse_to_bytesize: the constant's value; a varnode without a  *)
(* value cannot be parsed and panics.                                      *)
ByteCount(o) == o # <<>> /\ o[1].value # <<>>

(* The IR defs: one record shape for the three variants.                   *)
IrLoad(var, address)   == [kind |-> "Load", var |-> <<var>>, address |-> <<address>>, value |-> <<>>]
IrStore(address, value) == [kind |-> "Store", var |-> <<>>, address |-> <<address>>, value |-> <<value>>]
IrAssign(var, value)   == [kind |-> "Assign", var |-> <<var>>, address |-> <<>>, value |-> <<value>>]

CastOps == {"INT_ZEXT", "INT_SEXT", "INT2FLOAT", "FLOAT2FLOAT", "TRUNC", "POPCOUNT"}

(* The default arm of lines 166-179.                                       *)
LiftOther(d) ==
  IF d.lhs = <<>> THEN Fatal
  ELSE IF d.lhs[1].address # <<>>
         THEN Lifted(IrStore(IrConstAddress(d.lhs[1]), IrRhs(d)))
         ELSE Lifted(IrAssign(d.lhs[1], IrRhs(d)))

(***************************************************************************)
(* From<Def> for IrDef (lines 139-181).  Every unwrap of a missing lhs or  *)
(* operand is a panic.                                                     *)
(***************************************************************************)
LiftDef(d) ==
  LET in0 == d.in[1]
      in1 == d.in[2]
      in2 == d.in[3]
  IN
  CASE d.mnemonic = "LOAD" ->
         IF d.lhs = <<>> \/ in1 = <<>> THEN Fatal
         ELSE Lifted(IrLoad(d.lhs[1], IrExpr(in1[1])))
    [] d.mnemonic = "STORE" ->
         IF in1 = <<>> \/ in2 = <<>> THEN Fatal
         ELSE Lifted(IrStore(IrExpr(in1[1]), IrExpr(in2[1])))
    [] d.mnemonic = "SUBPIECE" ->
         IF d.lhs = <<>> \/ ~ByteCount(in1) \/ in0 = <<>> THEN Fatal
         ELSE Lifted(IrAssign(d.lhs[1], [op |-> "subpiece",
                                         args |-> <<IrExpr(in1[1]), IrExpr(in0[1])>>]))
    [] d.mnemonic \in CastOps ->
         IF d.lhs = <<>> \/ in0 = <<>> THEN Fatal
         ELSE Lifted(IrAssign(d.lhs[1], [op |-> d.mnemonic, args |-> <<IrExpr(in0[1])>>]))
    [] OTHER -> LiftOther(d)

(* An IR jump: one record shape for the seven variants.                    *)
IrJmp(kind, target, condition, return_, description) ==
  [kind |-> kind, target |-> target, condition |-> condition,
   return_ |-> return_, description |-> description]

(* call.return_.map(unwrap_label_direct): an indirect return label panics. *)
ReturnOk(c) == c.return_ = <<>> \/ IsDirect(c.return_)

(* The indirect label's varnode as an IR expression.                       *)
IrTarget(o) == <<IrExpr(o[1].indirect)>>

(***************************************************************************)
(* From<Jmp> for IrJmp (lines 67-116).                                     *)
(***************************************************************************)
LiftJmp(j) ==
  LET g == j.goto
      c == j.call
  IN
  CASE j.mnemonic = "BRANCH" ->
         IF IsDirect(g) THEN Lifted(IrJmp("Branch", g, <<>>, <<>>, <<>>)) ELSE Fatal
    [] j.mnemonic = "CBRANCH" ->
         IF IsDirect(g) /\ j.condition # <<>>
           THEN Lifted(IrJmp("CBranch", g, <<IrExpr(j.condition[1])>>, <<>>, <<>>))
           ELSE Fatal
    [] j.mnemonic = "BRANCHIND" ->
         IF IsIndirect(g) THEN Lifted(IrJmp("BranchInd", IrTarget(g), <<>>, <<>>, <<>>))
         ELSE Fatal
    [] j.mnemonic = "CALL" ->
         IF c # <<>> /\ IsDirect(c[1].target) /\ ReturnOk(c[1])
           THEN Lifted(IrJmp("Call", c[1].target, <<>>, c[1].return_, <<>>))
           ELSE Fatal
    [] j.mnemonic = "CALLIND" ->
         IF c # <<>> /\ IsIndirect(c[1].target) /\ ReturnOk(c[1])
           THEN Lifted(IrJmp("CallInd", IrTarget(c[1].target), <<>>, c[1].return_, <<>>))
           ELSE Fatal
    [] j.mnemonic = "CALLOTHER" ->
         IF c # <<>> /\ c[1].call_string # <<>> /\ ReturnOk(c[1])
           THEN Lifted(IrJmp("CallOther", <<>>, <<>>, c[1].return_, c[1].call_string))
           ELSE Fatal
    [] j.mnemonic = "RETURN" ->
         IF IsIndirect(g) THEN Lifted(IrJmp("Return", IrTarget(g), <<>>, <<>>, <<>>))
         ELSE Fatal

(***************************************************************************)
(* indirect_jmp_targets (lines 204-208): find_map over the jumps takes the *)
(* target_hints of the first jump whose hints are Some, empty or not;      *)
(* unwrap_or_default gives the empty list when none is.                   *)
(***************************************************************************)
BlockHints(js) ==
  LET k == SelectInSeq(js, LAMBDA j : j.hints # <<>>)
  IN  IF k = 0 THEN <<>> ELSE js[k].hints[1]
=============================================================================
