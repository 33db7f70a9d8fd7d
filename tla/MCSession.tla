------------------------------ MODULE MCSession -----------------------------
(***************************************************************************)
(* A worklist of five cases with different answers for TLC, two of which   *)
(* end the process that takes them.                                        *)
(***************************************************************************)
EXTENDS SessionProperties

MCNumeral == [t \in {"0"} |-> 0]

MCHandlers == [operations |-> {"attestation"}]

Case(line) ==
  [line  |-> line,
   files |-> [p \in {"pre", "post", "a"} |->
                CASE p = "pre" -> [kind |-> "state", st |-> [slot |-> 0, log |-> <<>>]]
                  [] p = "post" -> [kind |-> "state", st |-> [slot |-> 0, log |-> <<"a">>]]
                  [] p = "a" -> [kind |-> "op", effect |-> "accept"]],
   run   |-> "accept",
   ser   |-> "ok"]

Operation(post) ==
  Case(<<"operations", "attestation", "pre", post, "0", "0", "-", <<"a">>, "-", "1">>)

Right == Operation("post")                        (* pass ok             *)
Accepted == Operation("-")                        (* fail accept-invalid *)
Skipping == Case(<<"fork", "fork">>)              (* fail skip           *)
Malformed == Case(<<"operations", "attestation">>)
Unknown == Case(<<"nonsense", "x">>)

MCCases == {Right, Accepted, Skipping, Malformed, Unknown}

MCFate ==
  [c \in MCCases |-> IF c = Malformed THEN "garbled"
                     ELSE IF c = Unknown THEN "lethal" ELSE "clean"]

MCWorklist == <<Right, Malformed, Skipping, Unknown, Accepted>>
=============================================================================
