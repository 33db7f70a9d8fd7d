-------------------------------- MODULE Wire --------------------------------
(***************************************************************************)
(* The two pipes as streams of characters, which know nothing of lines.    *)
(* Each reader finds the lines again: the runner with lines() and          *)
(* split_fields, the harness with the rules of text streams, for which a   *)
(* carriage return ends a line as well.                                    *)
(***************************************************************************)
EXTENDS Framing

CONSTANTS
  Characters, (* of the texts                                       *)
  Requests,   (* what the harness may ask: sequences of fields      *)
  Width,      (* the number of fields of a request                  *)
  Verdicts,   (* what the runner may answer                         *)
  MaxLines    (* bound: lines in either direction                   *)

(* The harness keeps tabs and line feeds out of its fields and does not   *)
(* end the last one in a carriage return; a bucket is a fixed word; a      *)
(* detail is any text.                                                     *)
ASSUME WireAssumption ==
  /\ Width \in Nat \ {0, 1}
  /\ \A r \in Requests :
       /\ r \in Seq(Seq(Characters \ {Tab, LF})) /\ Len(r) = Width
       /\ r[Width] = <<>> \/ Last(r[Width]) # CR
  /\ \A v \in Verdicts :
       v \in [passed : BOOLEAN, bucket : Characters \ Breaks, detail : Seq(Characters)]
  /\ MaxLines \in Nat

VARIABLES
  up,        (* characters on their way to the runner             *)
  ended,     (* no more will come                                 *)
  cut,       (* the harness ended in the middle of a line         *)
  begun,     (* what the runner has read of a line                *)
  asked,     (* history: the requests sent                        *)
  taken,     (* history: the fields of every line, or Refused     *)
  down,      (* characters on their way to the harness            *)
  half,      (* what the harness has read of a line               *)
  said,      (* history: the verdicts of the runner               *)
  heard      (* history: the fields of every line of the harness  *)

requestVars == <<up, ended, cut, begun, asked, taken>>
answerVars == <<down, half, said, heard>>
vars == <<requestVars, answerVars>>

Init ==
  /\ up = <<>> /\ begun = <<>> /\ asked = <<>> /\ taken = <<>>
  /\ ended = FALSE /\ cut = FALSE
  /\ down = <<>> /\ half = <<>> /\ said = <<>> /\ heard = <<>>

-----------------------------------------------------------------------------
(* The harness asks (external). *)

Terminators == { <<LF>>, <<CR, LF>>, <<LF, LF>> }

SendLine ==
  /\ ~ended
  /\ Len(asked) < MaxLines
  /\ \E r \in Requests, t \in Terminators :
       /\ asked' = Append(asked, r)
       /\ up' = up \o Join(r, Tab) \o t
  /\ UNCHANGED <<ended, cut, begun, taken, answerVars>>

(* The last line need not be terminated. *)
SendLastLine ==
  /\ ~ended
  /\ Len(asked) < MaxLines
  /\ \E r \in Requests :
       /\ asked' = Append(asked, r)
       /\ up' = up \o Join(r, Tab)
  /\ ended' = TRUE
  /\ UNCHANGED <<cut, begun, taken, answerVars>>

(* The harness ends, and what it had not passed on is lost. *)
CutOff ==
  /\ ~ended
  /\ up # <<>>
  /\ \E n \in 0 .. Len(up) - 1 : up' = SubSeq(up, 1, n)
  /\ ended' = TRUE
  /\ cut' = TRUE
  /\ UNCHANGED <<begun, asked, taken, answerVars>>

-----------------------------------------------------------------------------
(* The runner: the loop of main and split_fields. *)

(* A variant of Took for which an empty line is a request as well. *)
TookEmpty(line) == Append(taken, SplitFields(line, Width))

(* A line that is not empty goes to respond. *)
Took(line) ==
  IF line = <<>> THEN taken ELSE Append(taken, SplitFields(line, Width))

(* lines() takes one carriage return with the line feed (external). *)
Chomp(line) == IF line # <<>> /\ Last(line) = CR THEN Front(line) ELSE line

ReadCharacter ==
  /\ up # <<>>
  /\ up' = Tail(up)
  /\ \/ /\ Head(up) = LF
        /\ taken' = Took(Chomp(begun))
        /\ begun' = <<>>
     \/ /\ Head(up) # LF
        /\ begun' = Append(begun, Head(up))
        /\ UNCHANGED taken
  /\ UNCHANGED <<ended, cut, asked, answerVars>>

(* At the end of the input lines() yields what has been read of a line. *)
ReadEnd ==
  /\ up = <<>>
  /\ ended
  /\ begun # <<>>
  /\ taken' = Took(begun)
  /\ begun' = <<>>
  /\ UNCHANGED <<up, ended, cut, asked, answerVars>>

(* writeln!: the answer and a line feed. *)
WriteLine ==
  /\ Len(said) < MaxLines
  /\ \E v \in Verdicts :
       /\ said' = Append(said, v)
       /\ down' = down \o ResponseLine(v) \o <<LF>>
  /\ UNCHANGED <<half, heard, requestVars>>

-----------------------------------------------------------------------------
(* The harness listens (external). *)
HearCharacter ==
  /\ down # <<>>
  /\ down' = Tail(down)
  /\ \/ /\ Head(down) \in LineEnds
        /\ heard' = Append(heard, Split(half, {Tab}))
        /\ half' = <<>>
     \/ /\ Head(down) \notin LineEnds
        /\ half' = Append(half, Head(down))
        /\ UNCHANGED heard
  /\ UNCHANGED <<said, requestVars>>

RequestNext ==
  \/ SendLine
  \/ SendLastLine
  \/ CutOff
  \/ ReadCharacter
  \/ ReadEnd

AnswerNext ==
  \/ WriteLine
  \/ HearCharacter

Next == RequestNext \/ AnswerNext

Spec == Init /\ [][Next]_vars

-----------------------------------------------------------------------------
(* Of a line that was cut off, what is left in its last field looks whole. *)
Shortened(fields, request) ==
  /\ Len(fields) = Width
  /\ SubSeq(fields, 1, Width - 1) = SubSeq(request, 1, Width - 1)
  /\ IsPrefix(fields[Width], request[Width])

(***************************************************************************)
(* Every request that is asked is taken once, in order and field by field  *)
(* as it was meant, empty fields included, however its line is terminated  *)
(* and whether or not empty lines follow.  A line that was cut off is      *)
(* refused, unless the cut is in its last field.                           *)
(***************************************************************************)
RequestsReadBack ==
  /\ \A i \in DOMAIN taken :
       \/ i \in DOMAIN asked /\ taken[i] = asked[i]
       \/ /\ cut
          /\ i = Len(taken)
          /\ i \in DOMAIN asked
          /\ taken[i] = Refused \/ Shortened(taken[i], asked[i])
  /\ up = <<>> /\ begun = <<>> /\ ~cut => Len(taken) = Len(asked)

(* What can be seen of the first k characters of a text. *)
Inked(text) ==
  LET ink[k \in 0 .. Len(text)] ==
        IF k = 0 THEN <<>>
        ELSE IF text[k] \in Breaks \cup {Blank} THEN ink[k - 1] ELSE Append(ink[k - 1], text[k])
  IN ink

Ink(text) == Inked(text)[Len(text)]

(***************************************************************************)
(* Every answer is heard as one line of three fields that names the        *)
(* verdict, whatever text of a path or of another crate is in the detail,  *)
(* and nothing of that text but its breaks is lost ("so it can never break *)
(* the framing", src/protocol.rs:145).                                     *)
(***************************************************************************)
AnswersReadBack ==
  /\ \A i \in DOMAIN heard :
       /\ i \in DOMAIN said
       /\ Len(heard[i]) = 3
       /\ heard[i][1] = <<IF said[i].passed THEN "pass" ELSE "fail">>
       /\ heard[i][2] = <<said[i].bucket>>
       /\ Ink(heard[i][3]) = Ink(said[i].detail)
  /\ down = <<>> => Len(heard) = Len(said)

(* Every line that has been heard, and every line still on its way, is the *)
(* answer said at its place, and no answer is broken off: that the reader  *)
(* and the writer, which share nothing but the characters in between,      *)
(* cannot fall out of step ("so it can never break the framing",           *)
(* src/protocol.rs:145).                                                   *)
AnswersInStep ==
  LET lines == Split(half \o down, {LF}) IN
  /\ Len(heard) <= Len(said)
  /\ Len(lines) = Len(said) - Len(heard) + 1
  /\ Last(lines) = <<>>
  /\ \A i \in 1 .. Len(heard) : heard[i] = Split(ResponseLine(said[i]), {Tab})
  /\ \A i \in 1 .. Len(said) - Len(heard) : lines[i] = ResponseLine(said[Len(heard) + i])

(* The lines a request may be written as. *)
Written(request) == {Join(request, Tab), Append(Join(request, Tab), CR)}

(* Every line that has been taken is the request asked at its place; of    *)
(* the lines still to be read, those that are not empty are the requests   *)
(* asked after it, in order and whole, but for the last line of an input   *)
(* that was cut off, which is a beginning of one (the loop of              *)
(* src/main.rs:109-131, which gives every line to split_fields of          *)
(* src/protocol.rs:9-16).                                                  *)
RequestsInStep ==
  LET lines == Split(begun \o up, {LF})
      told == Words(lines)
      request(i) == asked[Len(taken) + i]
  IN
  /\ cut => ended
  /\ ~ended => Last(lines) = <<>>
  /\ Len(taken) + Len(told) <= Len(asked)
  /\ ~cut => Len(taken) + Len(told) = Len(asked)
  /\ \A i \in 1 .. Len(told) :
       \/ told[i] \in Written(request(i))
       \/ /\ cut /\ i = Len(told) /\ Last(lines) # <<>>
          /\ IsPrefix(told[i], Append(Join(request(i), Tab), CR))
  /\ \A i \in 1 .. Len(taken) :
       \/ taken[i] = asked[i]
       \/ /\ cut /\ up = <<>> /\ begun = <<>> /\ i = Len(taken)
          /\ taken[i] = Refused \/ Shortened(taken[i], asked[i])
=============================================================================
