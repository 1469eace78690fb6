--------------------------- MODULE MCExternSymbol ---------------------------
(* Model of ExternSymbol for TLC.  An argument has a register, a location, *)
(* both or neither.  A location is a LOAD of a stack address written with *)
(* or without "0x", with a sign, at the bounds of i64 (Width 8: 7f and    *)
(* -80, and 80 and -81 just past them), or not a number; a LOAD without   *)
(* input0 or without address; or another operation.  The shapes of the    *)
(* violation runs are subsets or variants of these.                        *)
EXTENDS ExternSymbol

R == RegVar("RSP")

StackLoad(chars) == <<[mnemonic |-> "LOAD", input0 |-> <<MemVar(chars)>>]>>

MCLocation ==
  { <<>>,
    StackLoad(<<"0", "x", "8">>), StackLoad(<<"1", "0">>), StackLoad(<<"-", "8">>),
    StackLoad(<<"0", "x", "z">>), StackLoad(<<"-", "0", "x", "8">>),
    StackLoad(<<"+", "8">>), StackLoad(<<"7", "f">>), StackLoad(<<"8", "0">>),
    StackLoad(<<"-", "8", "0">>), StackLoad(<<"-", "8", "1">>), StackLoad(<<"-">>),
    <<[mnemonic |-> "LOAD", input0 |-> <<>>]>>,
    <<[mnemonic |-> "LOAD", input0 |-> <<R>>]>>,
    <<[mnemonic |-> "INT_ADD", input0 |-> <<MemVar(<<"8">>)>>]>> }

MCArgShape ==
  [var : { <<>>, <<R>> }, location : MCLocation, intent : {"INPUT", "OUTPUT"}]

(* The shapes on which the code's parse and the spec's reading of an       *)
(* offset agree: all but "-0x8".                                           *)
MCStructuralArgShape ==
  { a \in MCArgShape : a.location # StackLoad(<<"-", "0", "x", "8">>) }

(* Offsets written with "0x" and a sign in either order, or "0x" twice.   *)
MCOffsetArgShape ==
  [var : { <<>> },
   location : { StackLoad(<<"0", "x", "8">>), StackLoad(<<"-", "0", "x", "8">>),
                StackLoad(<<"0", "x", "-", "8">>), StackLoad(<<"0", "x", "0", "x", "8">>) },
   intent : {"INPUT"}]
=============================================================================
