------------------------------- MODULE MCWire -------------------------------
(***************************************************************************)
(* Short requests and details for TLC.  A field may be empty and may hold  *)
(* a carriage return, a detail any of the characters that end a field or a *)
(* line, in any order.                                                     *)
(***************************************************************************)
EXTENDS Wire

MCCharacters == {"x", "ok", "bug", Tab, CR, LF}

Texts(chars, n) == BoundedSeq(chars, n)

MCRequests ==
  {<<a, b, c>> : a \in { <<"x">>, <<"x", CR>> }, b \in Texts({"x", CR}, 1),
                 c \in { <<>>, <<"x">>, <<CR, "x">>, <<"x", "x">> }}

MCVerdicts ==
  {[passed |-> FALSE, bucket |-> "bug", detail |-> d] : d \in Texts({Tab, CR, LF, "x"}, 3)}
    \cup {[passed |-> TRUE, bucket |-> "ok", detail |-> <<>>]}

(* The two streams share no variable, so that it is enough to look at one  *)
(* of them at a time.                                                      *)
OneStream ==
  \/ asked = <<>> /\ ~ended /\ AnswerNext
  \/ said = <<>> /\ RequestNext

OneStreamSpec == Init /\ [][OneStream]_vars
=============================================================================
