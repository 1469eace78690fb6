------------------------------ MODULE Pipeline ------------------------------
(***************************************************************************)
(* One block through the pre-lift pass and the lift, in the order the      *)
(* caller runs them: Project::normalize's first pass,                      *)
(* Blk::add_load_defs_for_implicit_ram_access (ImplicitLoads), then        *)
(* From<Blk> for IrBlk (term.rs lines 193-223), which lifts the defs, then *)
(* takes the target hints, then lifts the jumps.  A panic anywhere ends    *)
(* the conversion.                                                        *)
(***************************************************************************)
EXTENDS ImplicitLoads, Lifter

VARIABLES
  irDefs,   \* the lifted def terms so far
  irJmps,   \* the lifted jump terms so far
  irHints,  \* indirect_jmp_targets
  li,       \* index of the term being lifted
  lift      \* "defs", "jmps", "done" or "panicked"

liftVars == <<irDefs, irJmps, irHints, li, lift>>
allVars  == <<vars, liftVars>>

PInit ==
  /\ Init
  /\ irDefs = <<>>
  /\ irJmps = <<>>
  /\ irHints = <<>>
  /\ li = 1
  /\ lift = "defs"

(* One def of the map of lines 196-203, after the pass has committed.      *)
LiftDefStep ==
  LET r == LiftDef(defs[li])
  IN  /\ phase = "done"
      /\ lift = "defs"
      /\ li \in DOMAIN defs
      /\ IF r.ok
           THEN /\ irDefs' = Append(irDefs, [tid |-> defs[li].tid, term |-> r.term])
                /\ li' = li + 1
                /\ UNCHANGED lift
           ELSE /\ lift' = "panicked"
                /\ UNCHANGED <<irDefs, li>>
      /\ UNCHANGED <<vars, irJmps, irHints>>

(* The hints of lines 204-208, between the def and the jump conversions.   *)
TakeHints ==
  /\ phase = "done"
  /\ lift = "defs"
  /\ li = Len(defs) + 1
  /\ irHints' = BlockHints(jmps)
  /\ lift' = "jmps"
  /\ li' = 1
  /\ UNCHANGED <<vars, irDefs, irJmps>>

(* One jump of the map of lines 209-216.                                   *)
LiftJmpStep ==
  LET r == LiftJmp(jmps[li])
  IN  /\ lift = "jmps"
      /\ li \in DOMAIN jmps
      /\ IF r.ok
           THEN /\ irJmps' = Append(irJmps, [tid |-> jmps[li].tid, term |-> r.term])
                /\ li' = li + 1
                /\ UNCHANGED lift
           ELSE /\ lift' = "panicked"
                /\ UNCHANGED <<irJmps, li>>
      /\ UNCHANGED <<vars, irDefs, irHints>>

(* The IrBlk is built (lines 217-221).                                     *)
FinishBlock ==
  /\ lift = "jmps"
  /\ li = Len(jmps) + 1
  /\ lift' = "done"
  /\ UNCHANGED <<vars, irDefs, irJmps, irHints, li>>

PNext ==
  \/ Next /\ UNCHANGED liftVars
  \/ LiftDefStep \/ TakeHints \/ LiftJmpStep \/ FinishBlock

PSpec == PInit /\ [][PNext]_allVars

-----------------------------------------------------------------------------
Terminated == phase = "panicked" \/ lift \in {"done", "panicked"}
Panicked   == phase = "panicked" \/ lift = "panicked"

(***************************************************************************)
(* The operands each rule of spec section 4.3 reads: the address (input1;  *)
(* input0 of a P-Code LOAD or STORE names the address space), the stored   *)
(* value, the byte count of a SUBPIECE (a constant), the source of a       *)
(* SUBPIECE or cast, and the target of every def but a STORE.              *)
(***************************************************************************)
WellFormedDef(d) ==
  CASE d.mnemonic = "LOAD"     -> d.lhs # <<>> /\ d.in[2] # <<>>
    [] d.mnemonic = "STORE"    -> d.in[2] # <<>> /\ d.in[3] # <<>>
    [] d.mnemonic = "SUBPIECE" -> d.lhs # <<>> /\ d.in[1] # <<>>
                                  /\ d.in[2] # <<>> /\ d.in[2][1].value # <<>>
    [] d.mnemonic \in CastOps  -> d.lhs # <<>> /\ d.in[1] # <<>>
    [] OTHER                   -> d.lhs # <<>>

Malformed ==
  \/ \E k \in DOMAIN inDefs : ~WellFormedDef(inDefs[k])
  \/ \E k \in DOMAIN inJmps : ~WellFormedJmp(inJmps[k])

(***************************************************************************)
(* Fatal-path coverage (spec sections 7 and 8): normalizing and lifting a  *)
(* block fails exactly when its input breaks the contract.  The pass runs  *)
(* first and panics on some malformed jumps itself; the defs it adds and   *)
(* the targets it rewrites must lift, and no malformed term may slip       *)
(* through either step.                                                    *)
(***************************************************************************)
PanicsExactlyOnMalformed == Terminated => (Panicked <=> Malformed)

(***************************************************************************)
(* Indirect-jump hints (spec section 4.3): the block's hint list is that   *)
(* of the first jump that carries a non-empty list, empty if none does.    *)
(***************************************************************************)
HintsFromFirstNonEmpty ==
  lift = "done" =>
    LET k == SelectInSeq(inJmps, LAMBDA j : j.hints # <<>> /\ j.hints[1] # <<>>)
    IN  irHints = IF k = 0 THEN <<>> ELSE inJmps[k].hints[1]

(***************************************************************************)
(* Memory writes stay memory writes (spec sections 1 and 4.3: a target     *)
(* with an address denotes a memory location): a lifted block writes such  *)
(* a varnode only through a Store to its constant address.                 *)
(***************************************************************************)
MemoryWritesAreStores ==
  lift = "done" =>
    \A k \in DOMAIN irDefs :
      irDefs[k].term.var # <<>> => irDefs[k].term.var[1].address = <<>>
=============================================================================
