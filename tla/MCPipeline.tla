----------------------------- MODULE MCPipeline -----------------------------
(* Model of Pipeline for TLC: one address, one register, one constant.    *)
(* The def heads cover every arm of the def dispatch, with and without a   *)
(* target and with a target in memory; the jump shapes cover every        *)
(* mnemonic with a missing, direct, register or memory goto label, a call  *)
(* descriptor missing or with its fields present or not, and a condition  *)
(* present or not.                                                         *)
EXTENDS Pipeline

MCMemAddr == {"0x10"}

R == RegVar("RAX")
M == MemVar("0x10")

MCDefHead ==
  { [mnemonic |-> "LOAD", lhs |-> <<R>>], [mnemonic |-> "STORE", lhs |-> <<>>],
    [mnemonic |-> "SUBPIECE", lhs |-> <<R>>] }
  \cup { [mnemonic |-> "INT_ZEXT", lhs |-> o] : o \in {<<R>>, <<M>>} }
  \cup { [mnemonic |-> "INT_ADD", lhs |-> o] : o \in {<<>>, <<R>>, <<M>>} }

MCDefOperand == { <<>>, <<R>>, <<M>>, <<ConstVar("0x4")>> }

Shape(m, g, c, cond, h) ==
  [mnemonic |-> m, goto |-> g, call |-> c, condition |-> cond, hints |-> h]

MCCall ==
  { <<>>, <<Call(<<Direct>>, <<>>, <<>>)>>, <<Call(<<Indirect(R)>>, <<>>, <<>>)>>,
    <<Call(<<>>, <<>>, <<"syscall">>)>>, <<Call(<<Direct>>, <<Indirect(R)>>, <<>>)>>,
    <<Call(<<Indirect(M)>>, <<Direct>>, <<"syscall">>)>> }

MCJmpShape ==
  { Shape(m, g, c, cond, <<>>) :
      m \in {"BRANCH", "CBRANCH", "BRANCHIND", "CALL", "CALLIND", "CALLOTHER", "RETURN"},
      g \in { <<>>, <<Direct>>, <<Indirect(R)>>, <<Indirect(M)>> },
      c \in MCCall,
      cond \in { <<>>, <<R>> } }

(* Jumps that differ in their hint lists only: none, empty, or one target. *)
MCHintShape ==
  { Shape("BRANCH", <<Direct>>, <<>>, <<>>, h) : h \in { <<>>, << <<>> >>, << <<"0x10">> >> } }

(* A cast whose target is in memory, and nothing else.                      *)
MCCastHead == { [mnemonic |-> "INT_ZEXT", lhs |-> <<M>>] }
MCRegOperand == { <<R>> }
=============================================================================
