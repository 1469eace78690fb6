--------------------------- MODULE MCImplicitLoads ---------------------------
(* Model of ImplicitLoads for TLC.  Two addresses tell a load of the wrong *)
(* address from the right one; a def slot is empty or reads one of them.  *)
(* A jump is a direct BRANCH, or a BRANCHIND or CALLIND whose inspected    *)
(* label is missing, direct (malformed), a register or one of the          *)
(* addresses; a CALLIND may also lack its call descriptor.                 *)
EXTENDS ImplicitLoads

MCMemAddr == {"0x10", "0x20"}

MCDefHead == { [mnemonic |-> "INT_ADD", lhs |-> <<RegVar("RAX")>>] }

MCDefOperand == { <<>> } \cup { <<MemVar(a)>> : a \in MCMemAddr }

MCLabel == { <<>>, <<Direct>>, <<Indirect(RegVar("RAX"))>> }
             \cup { <<Indirect(MemVar(a))>> : a \in MCMemAddr }

Shape(m, g, c) == [mnemonic |-> m, goto |-> g, call |-> c, condition |-> <<>>, hints |-> <<>>]

MCJmpShape ==
  { Shape("BRANCHIND", l, <<>>) : l \in MCLabel }
  \cup { Shape("CALLIND", <<>>, c) :
           c \in { <<>> } \cup { <<Call(l, <<>>, <<>>)>> : l \in MCLabel } }
  \cup { Shape("BRANCH", <<Direct>>, <<>>) }
=============================================================================
