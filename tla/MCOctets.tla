------------------------------ MODULE MCOctets ------------------------------
(***************************************************************************)
(* A root field and two byte strings that grow one step at a time, so that *)
(* TLC meets every short one, with the functions of Octets compared at     *)
(* each with what they are for.                                            *)
(***************************************************************************)
EXTENDS Octets

CONSTANTS
  Alphabet,     (* of the root field                        *)
  MaxText,      (* bound: its length                        *)
  Bytes,        (* of the byte strings                      *)
  MaxBytes      (* bound: their lengths                     *)

VARIABLES text, got, want

vars == <<text, got, want>>

Init == text = <<>> /\ got = <<>> /\ want = <<>>

GrowText ==
  /\ Len(text) < MaxText
  /\ \E c \in Alphabet : text' = Append(text, c)
  /\ UNCHANGED <<got, want>>

GrowGot ==
  /\ text = <<>>
  /\ Len(got) < MaxBytes
  /\ \E b \in Bytes : got' = Append(got, b)
  /\ UNCHANGED <<text, want>>

GrowWant ==
  /\ text = <<>>
  /\ Len(want) < MaxBytes
  /\ \E b \in Bytes : want' = Append(want, b)
  /\ UNCHANGED <<text, got>>

Next ==
  \/ got = <<>> /\ want = <<>> /\ GrowText
  \/ GrowGot
  \/ GrowWant

Spec == Init /\ [][Next]_vars

-----------------------------------------------------------------------------
(* The texts that denote a root: its digits, "usually 0x-prefixed".        *)
InLowerCase(t) == [i \in DOMAIN t |-> IF IsHexDigit(t[i]) THEN HexDigit[DigitValue[t[i]] + 1]
                                      ELSE t[i]]

Denotes(t, root) ==
  InLowerCase(t) \in {HexString(root), <<"0", "x">> \o HexString(root)}

(* The roots that can be spelled with the digits of the alphabet. *)
Spelled ==
  LET values == {DigitValue[c] : c \in Alphabet \cap DOMAIN DigitValue} IN
  [1 .. RootBytes -> {16 * h + l : h \in values, l \in values}]

(***************************************************************************)
(* A field is taken for a root exactly when it denotes one, and then for   *)
(* that one: no sign, no second prefix and no missing digit is made good   *)
(* (decode_root against hex_string, src/ssz_static.rs:31-60).              *)
(***************************************************************************)
RootFaithful ==
  /\ DecodeRoot(text) # NotARoot => Denotes(text, DecodeRoot(text))
  /\ \A root \in Spelled : Denotes(text, root) => DecodeRoot(text) = root

(***************************************************************************)
(* The position reported for two byte strings is where what they have in   *)
(* common ends, also when one of them is the beginning of the other        *)
(* (byte_diff_detail, src/verdict.rs:12-22).                               *)
(***************************************************************************)
FirstDiffIsFirst ==
  FirstDiff(got, want) = Len(LongestCommonPrefix({got, want}))
=============================================================================
