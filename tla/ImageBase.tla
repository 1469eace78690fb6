------------------------------ MODULE ImageBase ------------------------------
(***************************************************************************)
(* The address base offset of Program::into_ir_program (term.rs lines      *)
(* 467-468):                                                               *)
(*   u64::from_str_radix(&self.image_base, 16).unwrap() - binary_base_address *)
(* image_base is the hexadecimal string Ghidra reports; binary_base_address *)
(* comes from the binary's program headers.  A parse error panics at the   *)
(* unwrap.  A negative difference panics in a build with overflow checks   *)
(* (debug) and wraps modulo 2^64 in one without (release); which build     *)
(* runs is not fixed, so both outcomes are possible.  Width stands for the *)
(* 64 bits of u64 (TLC's integers are narrower).                          *)
(***************************************************************************)
EXTENDS Integers, Sequences, HexParse

CONSTANTS
  ImageBases,    \* image_base strings, as sequences of characters
  BinaryBases,   \* binary_base_address values
  Width          \* bit width of u64 in the model

ASSUME Width \in 1..30

VARIABLES imageBase, binaryBase, offset

vars == <<imageBase, binaryBase, offset>>

(* The outcome of the conversion: not yet run, a panic, or an offset.      *)
Pending   == [state |-> "pending", value |-> 0]
Panic     == [state |-> "panic", value |-> 0]
Offset(v) == [state |-> "returned", value |-> v]

Init ==
  /\ imageBase \in ImageBases
  /\ binaryBase \in BinaryBases
  /\ offset = Pending

(***************************************************************************)
(* u64 subtraction a - b (line 468): exact when a >= b; otherwise a panic  *)
(* with overflow checks and the difference modulo 2^64 without them.      *)
(***************************************************************************)
U64Sub(a, b) ==
  IF a >= b THEN {Offset(a - b)}
  ELSE {Panic, Offset((a - b) % (2 ^ Width))}

(* The computation of address_base_offset (lines 467-468).                 *)
IntoIrProgram ==
  LET parsed == FromStrRadix(imageBase, FALSE, Width)
  IN  /\ offset = Pending
      /\ \/ /\ ~parsed.ok
            /\ offset' = Panic
         \/ /\ parsed.ok
            /\ offset' \in U64Sub(parsed.value, binaryBase)
      /\ UNCHANGED <<imageBase, binaryBase>>

Next == IntoIrProgram

Spec == Init /\ [][Next]_vars

(* The characters of a string literal, for stating examples.               *)
Chars(str) ==
  CASE str = "0x1000"   -> <<"0", "x", "1", "0", "0", "0">>
    [] str = "0x401000" -> <<"0", "x", "4", "0", "1", "0", "0", "0">>
    [] str = "1000"     -> <<"1", "0", "0", "0">>
    [] str = "401000"   -> <<"4", "0", "1", "0", "0", "0">>

(***************************************************************************)
(* Image-base offset (spec section 8): image_base "0x1000" with binary     *)
(* base 0 gives the offset 0x1000, and "0x401000" with binary base         *)
(* 0x400000 gives 0x1000.                                                  *)
(***************************************************************************)
OffsetExamples ==
  offset # Pending =>
    /\ imageBase = Chars("0x1000") /\ binaryBase = 0 => offset = Offset(4096)
    /\ imageBase = Chars("0x401000") /\ binaryBase = 4194304 => offset = Offset(4096)
=============================================================================
