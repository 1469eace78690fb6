---------------------------- MODULE ExternSymbol ----------------------------
(***************************************************************************)
(* From<ExternSymbol> for IrExternSymbol (term.rs lines 390-434): the loop *)
(* over the symbol's arguments.  Each Arg (lines 298-317) lifts to a       *)
(* register argument when its var is set; otherwise its location must be  *)
(* a LOAD whose input0 has an address, which is parsed as a hexadecimal   *)
(* i64 stack offset after trimming "0x"; every other shape panics.  The    *)
(* lifted argument is pushed to the parameters or the return values by    *)
(* its intent.  One step of the model is one iteration of the loop.       *)
(* Sizes, the symbol's tid, addresses, name, calling convention and       *)
(* no_return flag are copied unchanged and left out.                      *)
(***************************************************************************)
EXTENDS Integers, Sequences, SequencesExt, HexParse, PcodeTerms

CONSTANTS
  ArgShape,  \* the Args a symbol may have: [var, location, intent]
  MaxArgs,   \* maximal number of arguments of the symbol
  Width      \* bit width of i64 in the model

ASSUME MaxArgs \in Nat /\ Width \in 2..30

VARIABLES
  inArgs,        \* symbol.arguments (history, never changes)
  ai,            \* loop index into the arguments
  parameters,    \* the lifted input arguments so far
  returnValues,  \* the lifted output arguments so far
  phase          \* "args", "done" or "panicked"

vars == <<inArgs, ai, parameters, returnValues, phase>>

(* IrArg::Register and IrArg::Stack in one record shape.                   *)
Register(v) == [kind |-> "Register", var |-> <<v>>, offset |-> 0]
Stack(o)    == [kind |-> "Stack", var |-> <<>>, offset |-> o]

ArgLifted(a) == [ok |-> TRUE, arg |-> a]
ArgFatal     == [ok |-> FALSE, arg |-> Stack(0)]

(***************************************************************************)
(* The argument conversion of lines 396-417: the var wins when it is set;  *)
(* a location is a LOAD whose input0 and its address are unwrapped and     *)
(* whose offset is parsed and unwrapped (lines 401-410).                   *)
(***************************************************************************)
IrArgOf(arg) ==
  IF arg.var # <<>> THEN ArgLifted(Register(arg.var[1]))
  ELSE IF arg.location = <<>> \/ arg.location[1].mnemonic # "LOAD" THEN ArgFatal
  ELSE LET in0 == arg.location[1].input0
       IN  IF in0 = <<>> \/ in0[1].address = <<>> THEN ArgFatal
           ELSE LET p == FromStrRadix(TrimStartMatches(in0[1].address[1], <<"0", "x">>),
                                      TRUE, Width)
                IN  IF p.ok THEN ArgLifted(Stack(p.value)) ELSE ArgFatal

(* Fault: every argument is pushed to the parameters.                      *)
PushArgIgnoringIntent(params, rets, arg, a) == <<Append(params, a), rets>>

(* The match on the intent of lines 418-421.                               *)
PushArg(params, rets, arg, a) ==
  IF arg.intent = "INPUT" THEN <<Append(params, a), rets>>
  ELSE <<params, Append(rets, a)>>

Init ==
  /\ inArgs \in UNION { [1..n -> ArgShape] : n \in 0..MaxArgs }
  /\ ai = 1
  /\ parameters = <<>>
  /\ returnValues = <<>>
  /\ phase = "args"

(* One iteration of the loop of lines 395-422.                             *)
LiftArg ==
  LET r == IrArgOf(inArgs[ai])
      p == PushArg(parameters, returnValues, inArgs[ai], r.arg)
  IN  /\ phase = "args"
      /\ ai \in DOMAIN inArgs
      /\ IF r.ok
           THEN /\ parameters' = p[1]
                /\ returnValues' = p[2]
                /\ ai' = ai + 1
                /\ UNCHANGED phase
           ELSE /\ phase' = "panicked"
                /\ UNCHANGED <<parameters, returnValues, ai>>
      /\ UNCHANGED inArgs

(* The IrExternSymbol is built (lines 423-432).                            *)
Finish ==
  /\ phase = "args"
  /\ ai = Len(inArgs) + 1
  /\ phase' = "done"
  /\ UNCHANGED <<inArgs, ai, parameters, returnValues>>

Next == LiftArg \/ Finish

Spec == Init /\ [][Next]_vars

-----------------------------------------------------------------------------
(***************************************************************************)
(* The stack offset a location's text denotes (spec section 4.4: a signed  *)
(* stack offset parsed from hexadecimal text): an optional sign, one       *)
(* optional "0x", then hexadecimal digits, in the range of i64; the value  *)
(* by the positional reference of HexParse.  Any other text is an          *)
(* unresolvable offset (spec section 7).                                   *)
(***************************************************************************)
SpecOffset(s) ==
  LET sign   == IF s # <<>> /\ Head(s) \in {"+", "-"} THEN <<Head(s)>> ELSE <<>>
      rest   == SubSeq(s, Len(sign) + 1, Len(s))
      digits == IF IsPrefix(<<"0", "x">>, rest) THEN SubSeq(rest, 3, Len(rest)) ELSE rest
  IN  IF digits = <<>> \/ Head(digits) \in {"+", "-"}
        THEN Err
        ELSE ReferenceParse(sign \o digits, TRUE, Width)

(* The lifted argument a stands for the parsed argument arg.               *)
Denotes(a, arg) ==
  IF arg.var # <<>> THEN a = Register(arg.var[1])
  ELSE a = Stack(SpecOffset(arg.location[1].input0[1].address[1]).value)

(***************************************************************************)
(* Argument partition (spec section 8): a symbol with N INPUT and M OUTPUT *)
(* arguments lifts to N parameters and M return values, each group in the  *)
(* order of the arguments and each entry standing for its argument.       *)
(***************************************************************************)
ArgumentPartition ==
  phase = "done" =>
    LET ins  == SelectSeq(inArgs, LAMBDA x : x.intent = "INPUT")
        outs == SelectSeq(inArgs, LAMBDA x : x.intent = "OUTPUT")
    IN  /\ Len(parameters) = Len(ins) /\ Len(returnValues) = Len(outs)
        /\ \A k \in DOMAIN ins : Denotes(parameters[k], ins[k])
        /\ \A k \in DOMAIN outs : Denotes(returnValues[k], outs[k])

(***************************************************************************)
(* The Arg contract (spec sections 3, 4.4 and 7): exactly one of var and   *)
(* location is set, and a location is a LOAD whose first operand carries   *)
(* an address that is a hexadecimal number.                               *)
(***************************************************************************)
WellFormedArg(arg) ==
  \/ arg.var # <<>> /\ arg.location = <<>>
  \/ /\ arg.var = <<>> /\ arg.location # <<>>
     /\ arg.location[1].mnemonic = "LOAD"
     /\ arg.location[1].input0 # <<>>
     /\ arg.location[1].input0[1].address # <<>>
     /\ SpecOffset(arg.location[1].input0[1].address[1]).ok

(***************************************************************************)
(* Malformed arguments are fatal (spec sections 3 and 7): lifting the      *)
(* symbol panics exactly when one of its arguments breaks the contract,    *)
(* including an Arg with both fields set.                                  *)
(***************************************************************************)
MalformedArgFatal ==
  phase \in {"done", "panicked"} =>
    (phase = "panicked" <=> \E k \in DOMAIN inArgs : ~WellFormedArg(inArgs[k]))
(***************************************************************************)
(* Stack offsets resolve as written (spec sections 4.4 and 7): for a       *)
(* symbol none of whose arguments sets both fields, the lift panics        *)
(* exactly when one argument breaks the Arg contract, an offset being      *)
(* read as signed hexadecimal text.  The trim_start_matches and            *)
(* from_str_radix of lines 407-408 decide what is accepted: "0x" is        *)
(* stripped as often as it starts the text, so never after a sign.         *)
(***************************************************************************)
OffsetsResolveAsWritten ==
  /\ phase \in {"done", "panicked"}
  /\ \A k \in DOMAIN inArgs : inArgs[k].var = <<>> \/ inArgs[k].location = <<>>
  => (phase = "panicked" <=> \E k \in DOMAIN inArgs : ~WellFormedArg(inArgs[k]))
=============================================================================
