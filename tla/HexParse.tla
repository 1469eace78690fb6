------------------------------ MODULE HexParse ------------------------------
(***************************************************************************)
(* The hexadecimal conversions term.rs relies on, as Rust's standard       *)
(* library performs them:                                                  *)
(*   - u64::from_str_radix(&image_base, 16) (line 468);                    *)
(*   - i64::from_str_radix(address.trim_start_matches("0x"), 16)           *)
(*     (lines 401-408).                                                    *)
(* A string is a sequence of one-character strings.  from_str_radix takes  *)
(* an optional sign ('+', or '-' for a signed type) followed by at least   *)
(* one digit, accumulates the value most significant digit first and fails *)
(* on an empty input, a character that is not a digit, or a value outside  *)
(* the type.  The Result is a record: Ok(v) or Err; the callers unwrap it. *)
(***************************************************************************)
EXTENDS Integers, Sequences, SequencesExt

Err   == [ok |-> FALSE, value |-> 0]
Ok(v) == [ok |-> TRUE, value |-> v]

HexValue ==
  [c \in {"0", "1", "2", "3", "4", "5", "6", "7", "8", "9",
          "a", "b", "c", "d", "e", "f", "A", "B", "C", "D", "E", "F"} |->
     CASE c = "0" -> 0 [] c = "1" -> 1 [] c = "2" -> 2 [] c = "3" -> 3
       [] c = "4" -> 4 [] c = "5" -> 5 [] c = "6" -> 6 [] c = "7" -> 7
       [] c = "8" -> 8 [] c = "9" -> 9
       [] c \in {"a", "A"} -> 10 [] c \in {"b", "B"} -> 11
       [] c \in {"c", "C"} -> 12 [] c \in {"d", "D"} -> 13
       [] c \in {"e", "E"} -> 14 [] c \in {"f", "F"} -> 15]

IsHexDigit(c) == c \in DOMAIN HexValue

(* The range of a Rust integer type of the given width and signedness.     *)
MinOf(signed, width) == IF signed THEN -(2 ^ (width - 1)) ELSE 0
MaxOf(signed, width) == IF signed THEN 2 ^ (width - 1) - 1 ELSE 2 ^ width - 1

(***************************************************************************)
(* The digit loop: acc = acc * 16 + d for a positive number, acc * 16 - d  *)
(* for a negative one, failing as soon as acc leaves the type's range.     *)
(***************************************************************************)
RECURSIVE Accumulate(_, _, _, _, _)
Accumulate(ds, acc, neg, signed, width) ==
  IF ds = <<>> THEN Ok(acc)
  ELSE IF ~IsHexDigit(Head(ds)) THEN Err
  ELSE LET next == IF neg THEN acc * 16 - HexValue[Head(ds)]
                          ELSE acc * 16 + HexValue[Head(ds)]
       IN  IF next < MinOf(signed, width) \/ next > MaxOf(signed, width)
             THEN Err
             ELSE Accumulate(Tail(ds), next, neg, signed, width)

(* <integer type>::from_str_radix(s, 16).                                  *)
FromStrRadix(s, signed, width) ==
  IF s = <<>> THEN Err
  ELSE IF Head(s) \in {"+", "-"} /\ Len(s) = 1 THEN Err
  ELSE IF Head(s) = "+" THEN Accumulate(Tail(s), 0, FALSE, signed, width)
  ELSE IF Head(s) = "-" /\ signed THEN Accumulate(Tail(s), 0, TRUE, signed, width)
  ELSE Accumulate(s, 0, FALSE, signed, width)

(* str::trim_start_matches(pat): removes the prefix pat as often as it     *)
(* occurs.                                                                 *)
RECURSIVE TrimStartMatches(_, _)
TrimStartMatches(s, pat) ==
  IF pat # <<>> /\ IsPrefix(pat, s)
    THEN TrimStartMatches(SubSeq(s, Len(pat) + 1, Len(s)), pat)
    ELSE s

(***************************************************************************)
(* Reference: the value a hexadecimal numeral denotes, by positional sum,  *)
(* and the strings from_str_radix documents as valid.                     *)
(***************************************************************************)
Numeral(ds) ==
  LET RECURSIVE S(_)
      S(k) == IF k = 0 THEN 0 ELSE S(k - 1) + HexValue[ds[k]] * 16 ^ (Len(ds) - k)
  IN  S(Len(ds))

ReferenceParse(s, signed, width) ==
  LET sign   == IF s # <<>> /\ (Head(s) = "+" \/ (signed /\ Head(s) = "-"))
                  THEN Head(s) ELSE "none"
      digits == IF sign = "none" THEN s ELSE Tail(s)
      value  == IF sign = "-" THEN -Numeral(digits) ELSE Numeral(digits)
  IN  IF digits = <<>> \/ \E k \in DOMAIN digits : ~IsHexDigit(digits[k])
        THEN Err
        ELSE IF value < MinOf(signed, width) \/ value > MaxOf(signed, width)
               THEN Err
               ELSE Ok(value)
=============================================================================
