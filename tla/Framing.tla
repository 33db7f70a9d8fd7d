------------------------------ MODULE Framing -------------------------------
(***************************************************************************)
(* The text of a line (src/protocol.rs): fields between tabs in a request, *)
(* three fields in an answer, the last of which is flattened.  A text is a *)
(* sequence of characters; a word that no property looks into, such as a   *)
(* bucket, is one character.                                               *)
(***************************************************************************)
EXTENDS Naturals, Sequences, SequencesExt

Tab == "\t"
LF == "\n"
CR == "\r"
Blank == " "

LineEnds == {CR, LF}
Breaks == {Tab, CR, LF}

(* The pieces between the characters of seps, of the first k characters.   *)
Pieces(text, seps) ==
  LET pieces[k \in 0 .. Len(text)] ==
        IF k = 0 THEN << <<>> >>
        ELSE LET before == pieces[k - 1] IN
             IF text[k] \in seps
             THEN Append(before, <<>>)
             ELSE Append(Front(before), Append(Last(before), text[k]))
  IN pieces

(* str::split, which yields one piece at least. *)
Split(text, seps) == Pieces(text, seps)[Len(text)]

(* The first k pieces with sep between them. *)
Joined(pieces, sep) ==
  LET text[k \in 0 .. Len(pieces)] ==
        IF k = 0 THEN <<>>
        ELSE text[k - 1] \o (IF k = 1 THEN <<>> ELSE <<sep>>) \o pieces[k]
  IN text

Join(pieces, sep) == Joined(pieces, sep)[Len(pieces)]

-----------------------------------------------------------------------------
(* A variant of TrimEnd that trims all white space. *)
TrimEndOfSpace(text) ==
  SubSeq(text, 1, Max({0} \cup {i \in DOMAIN text : text[i] \notin Breaks}))

(* str::trim_end_matches *)
TrimEnd(text) ==
  SubSeq(text, 1, Max({0} \cup {i \in DOMAIN text : text[i] \notin LineEnds}))

(* What a line is refused as: "expected n fields, got m". *)
Refused == <<"bad request line">>

(* A variant of SplitFields for which missing fields are as good as empty. *)
SplitFieldsOfAnyWidth(line, want) ==
  Split(TrimEnd(line), {Tab})

SplitFields(line, want) ==
  LET f == Split(TrimEnd(line), {Tab}) IN
  IF Len(f) = want THEN f ELSE Refused

-----------------------------------------------------------------------------
(* Those of the first k pieces that are not empty. *)
Filled(pieces) ==
  LET words[k \in 0 .. Len(pieces)] ==
        IF k = 0 THEN <<>>
        ELSE IF pieces[k] = <<>> THEN words[k - 1] ELSE Append(words[k - 1], pieces[k])
  IN words

Words(pieces) == Filled(pieces)[Len(pieces)]

(* A variant of Flatten that leaves the tabs. *)
FlattenLines(detail) == Join(Words(Split(detail, LineEnds)), Blank)

(* A variant of Flatten that leaves the line ends. *)
FlattenTabs(detail) == Join(Words(Split(detail, {Tab})), Blank)

(* "detail is flattened so it can never break the framing" *)
Flatten(detail) == Join(Words(Split(detail, Breaks)), Blank)

(* Verdict::line *)
ResponseLine(v) ==
  Join(<< <<IF v.passed THEN "pass" ELSE "fail">>, <<v.bucket>>, Flatten(v.detail) >>,
       Tab)
=============================================================================
