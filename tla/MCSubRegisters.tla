--------------------------- MODULE MCSubRegisters ---------------------------
(* Model of SubRegisters for TLC on an x86-64-like register file: RAX with *)
(* its sub-registers EAX and AX, and RCX.  Programs are one block of up to *)
(* three defs and a jump, that block twice (a block shared by two subs,   *)
(* with the same tids), or two different blocks of at most one def each.  *)
(* One calling convention, with all four register lists.                   *)
EXTENDS SubRegisters, TLC

MCRegisterProperties ==
  << [register |-> "RAX", base_register |-> "RAX", lsb |-> 0, size |-> 8],
     [register |-> "EAX", base_register |-> "RAX", lsb |-> 0, size |-> 4],
     [register |-> "AX",  base_register |-> "RAX", lsb |-> 0, size |-> 2],
     [register |-> "RCX", base_register |-> "RCX", lsb |-> 0, size |-> 8] >>

MCCallingConventions ==
  << [name |-> "sysv", parameter_register |-> <<"RCX">>,
      return_register |-> <<"RAX">>, unaffected_register |-> <<"RCX">>,
      killed_by_call_register |-> <<"RAX">>] >>

DefShapes ==
  { [kind |-> "Assign", var |-> v, value |-> e] :
      v \in {"EAX", "RAX", "RCX"},
      e \in {Var("RCX"), Var("EAX"), ZExt(Var("EAX")), ZExt(Var("AX"))} }
  \cup { [kind |-> "Load", var |-> "EAX", address |-> Var("RCX")] }
  \cup { [kind |-> "Store", address |-> Var("AX"), value |-> Var("RCX")] }

JmpShapes ==
  { <<>>, << [kind |-> "Branch"] >> } \cup
  { << [kind |-> k, expr |-> Var(r)] >> :
      <<k, r>> \in { <<"CBranch", "EAX">>, <<"BranchInd", "AX">>,
                     <<"CallInd", "EAX">>, <<"Return", "EAX">> } }

(* The blocks with id i and at most n defs; def k has tid <<i, k>>.        *)
BlocksOf(i, n) ==
  { [id |-> i, defs |-> [k \in DOMAIN ds |-> ("tid" :> <<i, k>>) @@ ds[k]], jmps |-> js] :
      ds \in UNION { [1..m -> DefShapes] : m \in 0..n }, js \in JmpShapes }

MCPrograms ==
  { <<b>> : b \in BlocksOf(1, 3) } \cup { <<b, b>> : b \in BlocksOf(1, 3) }
  \cup { <<b1, b2>> : b1 \in BlocksOf(1, 1), b2 \in BlocksOf(2, 1) }
=============================================================================
