---------------------------- MODULE MCEntryBlock ----------------------------
(* Model of EntryBlock for TLC: two addresses (a sub's own and one other)  *)
(* are enough for every case of the repair: entry first, entry later,      *)
(* several blocks at the entry address, no entry at all, and no blocks;   *)
(* a block's jump is accepted, or rejected by one of the two passes.      *)
EXTENDS EntryBlock

CONSTANTS a1, a2

MCAddr == {a1, a2}

(* A block ends with a well-formed BRANCH, a BRANCH given an indirect      *)
(* label (rejected by the lift), or a BRANCHIND given a direct label       *)
(* (rejected by the implicit-load pass before the lift).                   *)
MCJmps ==
  LET B(m, g) == Jmp("t", m, <<g>>, <<>>, <<>>, <<>>)
  IN  { B("BRANCH", Direct), B("BRANCH", Indirect(RegVar("RAX"))), B("BRANCHIND", Direct) }
=============================================================================
