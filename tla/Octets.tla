------------------------------- MODULE Octets -------------------------------
(***************************************************************************)
(* The functions on bytes: a root to its hexadecimal digits and back       *)
(* (src/ssz_static.rs), and where two byte strings begin to differ         *)
(* (src/verdict.rs).  A byte is a number, a text a sequence of characters. *)
(***************************************************************************)
EXTENDS Integers, Sequences, SequencesExt

CONSTANT RootBytes   (* the length of a root; 32 in the code *)

ASSUME OctetsAssumption == RootBytes \in Nat \ {0}

Byte == 0 .. 255

HexDigit ==
  <<"0", "1", "2", "3", "4", "5", "6", "7", "8", "9", "a", "b", "c", "d", "e", "f">>

UpperHexDigit == [HexDigit EXCEPT ![11] = "A", ![12] = "B", ![13] = "C",
                                  ![14] = "D", ![15] = "E", ![16] = "F"]

(* hex_string: two lowercase digits for each byte, the high one first. *)
HexString(bytes) ==
  FlattenSeq([i \in DOMAIN bytes |->
                <<HexDigit[(bytes[i] \div 16) + 1], HexDigit[(bytes[i] % 16) + 1]>>])

(* The characters is_ascii_hexdigit accepts, to their values. *)
DigitValue ==
  [c \in {HexDigit[i] : i \in 1 .. 16} \cup {UpperHexDigit[i] : i \in 1 .. 16} |->
     (CHOOSE i \in 1 .. 16 : c \in {HexDigit[i], UpperHexDigit[i]}) - 1]

IsHexDigit(c) == c \in DOMAIN DigitValue

(* u8::from_str_radix(.., 16) of two characters: a sign counts as none     *)
(* (external).  -1 stands for its error.                                   *)
FromStrRadix(pair) ==
  CASE IsHexDigit(pair[1]) /\ IsHexDigit(pair[2]) ->
         16 * DigitValue[pair[1]] + DigitValue[pair[2]]
    [] pair[1] = "+" /\ IsHexDigit(pair[2]) -> DigitValue[pair[2]]
    [] OTHER -> -1

StripPrefix(hex) ==
  IF IsPrefix(<<"0", "x">>, hex) THEN SubSeq(hex, 3, Len(hex)) ELSE hex

(* decode_root's error, of any wording. *)
NotARoot == <<>>

(* A variant of DecodeRoot that leaves the digits to from_str_radix. *)
DecodeRootUnchecked(text) ==
  LET hex == StripPrefix(text)
      out == [k \in 1 .. RootBytes |-> FromStrRadix(SubSeq(hex, 2 * k - 1, 2 * k))]
  IN
  IF Len(hex) # 2 * RootBytes \/ \E k \in 1 .. RootBytes : out[k] = -1
  THEN NotARoot ELSE out

(* decode_root *)
DecodeRoot(text) ==
  LET hex == StripPrefix(text)
      out == [k \in 1 .. RootBytes |-> FromStrRadix(SubSeq(hex, 2 * k - 1, 2 * k))]
  IN
  IF \/ Len(hex) # 2 * RootBytes
     \/ \E i \in DOMAIN hex : ~IsHexDigit(hex[i])
     \/ \E k \in 1 .. RootBytes : out[k] = -1
  THEN NotARoot ELSE out

-----------------------------------------------------------------------------
LeastLength(got, want) == IF Len(got) < Len(want) THEN Len(got) ELSE Len(want)

(* A variant of FirstDiff that takes the length of got for the shorter one. *)
FirstDiffOfGot(got, want) ==
  LET differing == {i \in 1 .. LeastLength(got, want) : got[i] # want[i]} IN
  IF differing = {} THEN Len(got)
                    ELSE (CHOOSE i \in differing : \A j \in differing : i <= j) - 1

(* byte_diff_detail: the position, counted from 0. *)
FirstDiff(got, want) ==
  LET differing == {i \in 1 .. LeastLength(got, want) : got[i] # want[i]} IN
  IF differing = {} THEN LeastLength(got, want)
                    ELSE (CHOOSE i \in differing : \A j \in differing : i <= j) - 1
=============================================================================
