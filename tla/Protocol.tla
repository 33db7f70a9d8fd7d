------------------------------ MODULE Protocol ------------------------------
(***************************************************************************)
(* Request lines of the wire protocol (src/protocol.rs).  A line is    *)
(* the tuple of its tab-separated fields, after the trailing CR/LF has     *)
(* been trimmed, so that a line of nothing but CRs is <<"">>; the line     *)
(* that was empty before is <<>>.  A field is a text, except that          *)
(*   - the inputs field of a 10-field line is the sequence of its          *)
(*     comma-separated pieces (an empty field is <<"">>), and              *)
(*   - the root field of an ssz_static line is a RootText.                 *)
(***************************************************************************)
EXTENDS Integers, Sequences

CONSTANTS
  Numeral,    (* the texts Rust parses as unsigned integers, with their value *)
  ByteBase,   (* values of a byte; 256 in the program                         *)
  WordBytes   (* bytes of a u64; 8 in the program                             *)

ASSUME WordAssumption ==
  /\ ByteBase \in Nat \ {0, 1}
  /\ WordBytes \in Nat \ {0}
  /\ \A t \in DOMAIN Numeral : t \in STRING /\ Numeral[t] \in Nat

(* How many values k bytes have. *)
Power[k \in 0 .. WordBytes] == IF k = 0 THEN 1 ELSE ByteBase * Power[k - 1]

U64Max == Power[WordBytes] - 1

Absent == "-"

(* split_fields: the framing check both request parsers share. *)
HasFields(line, want) == Len(line) = want

(* str::parse::<uN>() succeeds on this text for a type with this maximum. *)
Parses(text, max) == text \in DOMAIN Numeral /\ Numeral[text] <= max

OptPath(text) == {text} \ {Absent}

OptU64Parses(text) == text = Absent \/ Parses(text, U64Max)

(* Rust's split never yields zero pieces, hence the empty-field case. *)
InputPaths(pieces) == IF pieces = <<"">> THEN <<>> ELSE pieces

CaseRequestParses(line) ==
  /\ HasFields(line, 10)
  /\ Parses(line[5], 255)
  /\ Parses(line[6], U64Max)
  /\ OptU64Parses(line[7])
  /\ OptU64Parses(line[9])

(* fork_epoch, fork_block and execution_valid are parsed and never read. *)
CaseRequest(line) ==
  [runner       |-> line[1],
   handler      |-> line[2],
   pre          |-> OptPath(line[3]),
   post         |-> OptPath(line[4]),
   bls_setting  |-> Numeral[line[5]],
   blocks_count |-> Numeral[line[6]],
   inputs       |-> InputPaths(line[8])]

SszStaticRequestParses(line) == HasFields(line, 4)

SszStaticRequest(line) ==
  [runner     |-> line[1],
   handler    |-> line[2],
   serialized |-> line[3],
   root_hex   |-> line[4]]
=============================================================================
