---------------------------- MODULE SessionProofs ----------------------------
(***************************************************************************)
(* Proofs of the safety properties of a session, for every worklist, every *)
(* fate of its cases and every bound.  What a case is promised stays       *)
(* unexpanded throughout: nothing here depends on the verdicts.            *)
(***************************************************************************)
EXTENDS SessionProperties, SequenceTheorems, TLAPS

Line == [case : Cases, pad : BOOLEAN]

LEMMA PromiseTyped == ASSUME NEW c \in Cases PROVE R!Promise(c) \in Promises
BY DEF Promises

(* As long as no file goes, one answer alone is allowed. *)
LEMMA OneAnswer ==
  ASSUME gone = {}, NEW a \in R!Allowed(asked, gone)
  PROVE  a = R!Promise(asked)
BY DEF R!Allowed

LEMMA Empty ==
  /\ <<>> \in Seq(Line) /\ <<>> \in Seq(Promises) /\ <<>> \in Seq(Promises \cup {Lost})
  /\ Len(<<>>) = 0
BY EmptySeq

LEMMA Lengths ==
  /\ Len(Worklist) \in Nat
  /\ TypeOK => /\ Len(ledger) \in Nat /\ Len(stdout) \in Nat
               /\ Len(out) \in Nat /\ Len(stdin) \in Nat
BY SessionAssumption, LenProperties DEF TypeOK

(* Taking away the empty line before a line leaves the lines as they are. *)
LEMMA Unpadded ==
  ASSUME stdin \in Seq(Line), SkipBlank
  PROVE  /\ stdin' \in Seq(Line)
         /\ Len(stdin') = Len(stdin)
         /\ \A i \in 1 .. Len(stdin) : stdin'[i].case = stdin[i].case
<1> DEFINE e == [stdin[1] EXCEPT !.pad = FALSE]
<1>1. 1 \in 1 .. Len(stdin)
  BY EmptySeq DEF SkipBlank, LineReady
<1>2. stdin[1] \in Line
  BY <1>1, ElementOfSeq
<1>3. e \in Line /\ e.case = stdin[1].case
  BY <1>2 DEF Line
<1>4. stdin' = [stdin EXCEPT ![1] = e]
  BY DEF SkipBlank
<1> HIDE DEF e
<1> QED
  BY <1>1, <1>3, <1>4, ExceptSeq

(* A process that ends leaves an empty buffer, whether it returned from    *)
(* main or not: there was nothing in it that somebody could still hear.    *)
Gone ==
  /\ stdin' = <<>>
  /\ out' = <<>>
  /\ written' = FALSE
  /\ UNCHANGED <<stdout, eof, deaf, harnessVars>>

LEMMA Leaving ==
  ASSUME TypeOK, ReadError \/ EndOfInput \/ WriteFails \/ Die \/ Kill
  PROVE  Gone
<1>1. CASE ReadError \/ EndOfInput
  <2>1. out = <<>> /\ Returns
    BY <1>1 DEF ReadError, EndOfInput, R!Close, TypeOK
  <2>2. stdout \o out = stdout
    BY <2>1, ConcatEmptySeq DEF TypeOK
  <2> QED
    BY <2>1, <2>2 DEF Returns, Ends, Gone
<1>2. CASE WriteFails
  BY <1>2 DEF WriteFails, Returns, Ends, Gone
<1>3. CASE Die \/ Kill
  BY <1>3 DEF Die, Kill, Dies, Ends, Gone
<1> QED
  BY <1>1, <1>2, <1>3

LEMMA InitTyped == Init => TypeOK
<1> SUFFICES ASSUME Init PROVE TypeOK
  OBVIOUS
<1>1. sent \in Len(ledger) .. Len(Worklist) /\ kills \in 0 .. MaxKills
  BY SessionAssumption, Empty, Lengths DEF Init
<1>2. /\ stdin \in Seq([case : Cases, pad : BOOLEAN])
      /\ out \in Seq(Promises) /\ stdout \in Seq(Promises)
      /\ ledger \in Seq(Promises \cup {Lost})
  BY Empty DEF Init, Line
<1> QED
  BY <1>1, <1>2 DEF Init, R!Init, TypeOK

LEMMA EndTyped ==
  ASSUME TypeOK, ReadError \/ EndOfInput \/ WriteFails \/ Die \/ Kill
  PROVE  TypeOK'
<1>1. Gone
  BY Leaving
<1>2. /\ open' = FALSE /\ asked' = None /\ answer' = None /\ gone' = {}
      /\ wasted' = wasted
  BY DEF ReadError, EndOfInput, WriteFails, Die, Kill, Dies, history,
         R!Close, R!Lose, R!Forget, TypeOK
<1>3. kills' \in 0 .. MaxKills
  BY SessionAssumption DEF ReadError, EndOfInput, WriteFails, Die, Kill, history, TypeOK
<1> QED
  BY <1>1, <1>2, <1>3, Empty DEF Gone, TypeOK, Line, harnessVars

LEMMA TypeStep == TypeOK /\ [Next]_vars => TypeOK'
<1> SUFFICES ASSUME TypeOK, [Next]_vars PROVE TypeOK'
  OBVIOUS
<1> USE SessionAssumption DEF TypeOK, Line
<1>1. CASE SkipBlank
  BY <1>1, Unpadded DEF SkipBlank, LineReady, runnerVars, harnessVars, history
<1>2. CASE TakeLine
  BY <1>2 DEF TakeLine, LineReady, NextLine, harnessVars, R!Ask
<1>3. CASE ReadError \/ EndOfInput \/ WriteFails \/ Die \/ Kill
  BY <1>3, EndTyped
<1>4. CASE Reply
  <2>1. answer' \in Promises
    BY <1>4, OneAnswer, PromiseTyped DEF Reply, R!Reply
  <2> QED
    BY <1>4, <2>1 DEF Reply, R!Reply, harnessVars, history
<1>5. CASE Write
  BY <1>5 DEF Write, runnerVars, harnessVars, history
<1>6. CASE Flush
  <2>1. stdout \o out \in Seq(Promises)
    BY ConcatProperties
  <2> QED
    BY <1>6, <2>1, Empty DEF Flush, R!Deliver, R!Forget, harnessVars, history
<1>7. CASE Spill
  BY <1>7 DEF Spill, runnerVars, harnessVars, history
<1>8. CASE Send
  BY <1>8 DEF Send, runnerVars, history
<1>9. CASE Receive
  BY <1>9 DEF Receive, Waiting, runnerVars, history
<1>10. CASE Blame
  <2>1. Append(ledger, Lost) \in Seq(Promises \cup {Lost})
        /\ Len(Append(ledger, Lost)) = Len(ledger) + 1
    BY AppendProperties
  <2>2. ledger' \in Seq(Promises \cup {Lost})
    <3>1. ledger' = ledger \/ ledger' = Append(ledger, Lost)
      BY <1>10 DEF Blame
    <3> QED
      BY <3>1, <2>1
  <2>3. tries' \in Nat
    BY <1>10 DEF Blame
  <2>4. Len(ledger') \in Nat /\ Len(ledger') <= Len(Worklist)
    BY <1>10, <2>1, Lengths DEF Blame, Waiting
  <2>5. sent' \in Len(ledger') .. Len(Worklist)
    BY <1>10, <2>4, Lengths DEF Blame
  <2> QED
    BY <1>10, <2>2, <2>3, <2>5 DEF Blame, runnerVars, history
<1>11. CASE Respawn
  BY <1>11 DEF Respawn, harnessVars, history
<1>12. CASE HangUp
  BY <1>12 DEF HangUp, runnerVars, harnessVars, history
<1>13. CASE Abandon
  BY <1>13 DEF Abandon, runnerVars, harnessVars, history
<1>14. CASE UNCHANGED vars
  BY <1>14 DEF vars, runnerVars, harnessVars, history
<1> QED
  BY <1>1, <1>2, <1>3, <1>4, <1>5, <1>6, <1>7, <1>8, <1>9, <1>10, <1>11,
     <1>12, <1>13, <1>14
  DEF Next, Runner, Harness

-----------------------------------------------------------------------------
(***************************************************************************)
(* The pairing.  Every action is shown to leave the arithmetic of InFlight *)
(* alone: what leaves one of its buffers enters the next.                  *)
(***************************************************************************)

LEMMA Counts ==
  ASSUME TypeOK
  PROVE  /\ Answered \in Nat /\ Begun \in Nat
         /\ asked # None /\ ~written => Begun = Answered + 1
         /\ asked = None \/ written => Begun = Answered
         /\ out = <<>> => Answered = Len(ledger) + Len(stdout)
         /\ ~written => out = <<>>
         /\ asked = None => ~written
         /\ ~open => asked = None
         /\ Len(Worklist) \in Nat /\ sent \in Nat /\ sent <= Len(Worklist)
<1>1. Answered \in Nat
  BY Lengths DEF Answered
<1>2. /\ Begun \in Nat
      /\ asked # None /\ ~written => Begun = Answered + 1
      /\ asked = None \/ written => Begun = Answered
  BY <1>1 DEF Begun
<1>3. out = <<>> => Answered = Len(ledger) + Len(stdout)
  BY Empty, Lengths DEF Answered
<1>4. /\ ~written => out = <<>>
      /\ asked = None => ~written
      /\ ~open => asked = None
  BY DEF TypeOK
<1>5. sent \in Nat /\ sent <= Len(Worklist)
  BY Lengths DEF TypeOK
<1> QED
  BY <1>1, <1>2, <1>3, <1>4, <1>5, Lengths

(* A process that ends leaves what is in the pipe and in the ledger.       *)
LEMMA EndStep ==
  ASSUME TypeOK, InFlight, Gone, asked' = None, answer' = None, open' = FALSE
  PROVE  InFlight'
<1>1. /\ UNCHANGED <<stdout, ledger, sent>>
      /\ stdin' = <<>> /\ out' = <<>> /\ written' = FALSE
  BY DEF Gone, harnessVars
<1>2. Begun' = Len(ledger) + Len(stdout)
  BY <1>1, Empty, Lengths DEF Begun, Answered
<1>3. Begun' <= Begun
  BY <1>2, Lengths, Counts DEF Begun, Answered
<1>4. Begun' <= sent'
  BY <1>1, <1>2, <1>3, Counts, Lengths DEF InFlight
<1> QED
  BY <1>1, <1>4, Empty DEF InFlight

LEMMA TakeStep == ASSUME TypeOK, InFlight, TakeLine PROVE InFlight'
<1>1. /\ asked = None /\ ~written /\ open /\ stdin # <<>>
      /\ asked' = stdin[1].case /\ stdin' = Tail(stdin)
      /\ UNCHANGED <<answer, open, out, written, stdout, sent, ledger>>
  BY DEF TakeLine, LineReady, NextLine, TypeOK, R!Ask, harnessVars
<1>2. stdin \in Seq(Line) /\ Len(stdin) \in Nat \ {0}
  BY <1>1, EmptySeq DEF TypeOK, Line
<1>3. asked' # None
  <2>1. stdin[1] \in Line
    BY <1>2, ElementOfSeq
  <2> QED
    BY <1>1, <2>1, SessionAssumption DEF Line
<1>4. Begun' = Begun + 1 /\ Begun \in Nat
  BY <1>1, <1>3, Counts DEF Begun, Answered
<1>5. Len(stdin) = sent - Begun
  BY <1>1 DEF InFlight
<1>6. /\ Len(stdin') = Len(stdin) - 1
      /\ \A i \in 1 .. Len(stdin') : stdin'[i] = stdin[i + 1]
  BY <1>1, <1>2, HeadTailProperties
<1>7. asked' = Worklist[Begun + 1]
  BY <1>1, <1>2 DEF InFlight
<1>8. \A i \in 1 .. Len(stdin') : stdin'[i].case = Worklist[Begun' + i]
  <2> TAKE i \in 1 .. Len(stdin')
  <2>1. i + 1 \in 1 .. Len(stdin)
    BY <1>2, <1>6
  <2>2. stdin[i + 1].case = Worklist[Begun + (i + 1)]
    BY <2>1 DEF InFlight
  <2> QED
    BY <2>1, <2>2, <1>4, <1>6
<1>9. Begun' <= sent' /\ Len(stdin') = sent' - Begun'
  BY <1>1, <1>2, <1>4, <1>5, <1>6, Counts
<1>10. answer' = None
  BY <1>1 DEF TypeOK
<1> QED
  BY <1>1, <1>4, <1>7, <1>8, <1>9, <1>10 DEF InFlight

LEMMA ReplyStep == ASSUME TypeOK, InFlight, Reply PROVE InFlight'
<1>1. /\ asked # None /\ ~written
      /\ UNCHANGED <<asked, open, stdin, out, written, stdout, sent, ledger>>
  BY DEF Reply, R!Reply, TypeOK, harnessVars
<1>2. answer' = R!Promise(asked)
  BY OneAnswer DEF Reply, R!Reply, TypeOK
<1>3. Begun' = Begun
  BY <1>1 DEF Begun, Answered
<1> QED
  BY <1>1, <1>2, <1>3 DEF InFlight

LEMMA WriteStep == ASSUME TypeOK, InFlight, Write PROVE InFlight'
<1>1. /\ answer # None /\ ~written /\ written' = TRUE /\ asked # None
      /\ out = <<>> /\ out' = Append(out, answer)
      /\ UNCHANGED <<asked, answer, open, stdin, stdout, sent, ledger>>
  BY Counts DEF Write, TypeOK, runnerVars, harnessVars
<1>2. Len(out') = 1 /\ out'[1] = answer
  BY <1>1, Empty, AppendProperties DEF TypeOK
<1>3. Begun' = Begun /\ Begun = Len(ledger) + Len(stdout) + 1
  BY <1>1, <1>2, Empty, Lengths DEF Begun, Answered
<1>4. answer = R!Promise(Worklist[Begun])
  BY <1>1 DEF InFlight
<1> QED
  BY <1>1, <1>2, <1>3, <1>4 DEF InFlight

(* What is buffered goes to the pipe behind what is there. *)
LEMMA Passed ==
  ASSUME TypeOK, InFlight, stdout' = stdout \o out, ledger' = ledger
  PROVE  /\ Len(stdout') = Len(stdout) + Len(out)
         /\ \A i \in 1 .. Len(stdout') :
              stdout'[i] = R!Promise(Worklist[Len(ledger') + i])
<1>1. /\ Len(stdout') = Len(stdout) + Len(out)
      /\ \A i \in 1 .. Len(stdout) + Len(out) :
            stdout'[i] = IF i <= Len(stdout) THEN stdout[i] ELSE out[i - Len(stdout)]
  BY ConcatProperties DEF TypeOK
<1>2. ASSUME NEW i \in 1 .. Len(stdout')
      PROVE  stdout'[i] = R!Promise(Worklist[Len(ledger) + i])
  <2>1. CASE i <= Len(stdout)
    <3>1. i \in 1 .. Len(stdout)
      BY <2>1, Lengths
    <3> QED
      BY <1>1, <2>1, <3>1 DEF InFlight
  <2>2. CASE ~(i <= Len(stdout))
    <3>1. i - Len(stdout) \in 1 .. Len(out)
      BY <1>1, <2>2, Lengths
    <3>2. Len(ledger) + Len(stdout) + (i - Len(stdout)) = Len(ledger) + i
      BY Lengths
    <3>3. out[i - Len(stdout)] = R!Promise(Worklist[Len(ledger) + i])
      BY <3>1, <3>2 DEF InFlight
    <3> QED
      BY <1>1, <2>2, <3>3
  <2> QED
    BY <2>1, <2>2
<1> QED
  BY <1>1, <1>2

LEMMA SpillStep == ASSUME TypeOK, InFlight, Spill PROVE InFlight'
<1>1. /\ stdout' = stdout \o out /\ out' = <<>>
      /\ UNCHANGED <<asked, answer, open, stdin, written, sent, ledger>>
  BY DEF Spill, runnerVars, harnessVars
<1>2. Begun' = Begun
  BY <1>1, Passed, Empty, Lengths DEF Begun, Answered
<1> QED
  BY <1>1, <1>2, Passed, Empty DEF InFlight

LEMMA FlushStep == ASSUME TypeOK, InFlight, Flush PROVE InFlight'
<1>1. /\ written /\ written' = FALSE
      /\ stdout' = stdout \o out /\ out' = <<>>
      /\ asked' = None /\ answer' = None
      /\ UNCHANGED <<open, stdin, sent, ledger>>
  BY DEF Flush, R!Deliver, R!Forget, harnessVars
<1>2. Begun' = Begun
  BY <1>1, Passed, Empty, Lengths DEF Begun, Answered
<1> QED
  BY <1>1, <1>2, Passed, Empty DEF InFlight

LEMMA SendStep == ASSUME TypeOK, InFlight, Send PROVE InFlight'
<1>1. /\ open /\ sent < Len(Worklist) /\ sent' = sent + 1
      /\ UNCHANGED <<asked, answer, open, out, written, stdout, ledger>>
  BY DEF Send, runnerVars
<1>2. PICK pad \in BOOLEAN :
        stdin' = Append(stdin, [case |-> Worklist[sent + 1], pad |-> pad])
  BY DEF Send
<1> DEFINE line == [case |-> Worklist[sent + 1], pad |-> pad]
<1>3. sent + 1 \in 1 .. Len(Worklist)
  BY <1>1, Counts
<1>4. line \in Line /\ line.case = Worklist[sent + 1]
  BY <1>3, SessionAssumption, ElementOfSeq DEF Line
<1> HIDE DEF line
<1>5. /\ Len(stdin') = Len(stdin) + 1
      /\ \A i \in 1 .. Len(stdin) : stdin'[i] = stdin[i]
      /\ stdin'[Len(stdin) + 1] = line
  BY <1>2, <1>4, AppendProperties DEF TypeOK, Line, line
<1>6. Begun' = Begun
  BY <1>1 DEF Begun, Answered
<1>7. Len(stdin) = sent - Begun
  BY <1>1 DEF InFlight
<1>8. ASSUME NEW i \in 1 .. Len(stdin')
      PROVE  stdin'[i].case = Worklist[Begun + i]
  <2>1. CASE i \in 1 .. Len(stdin)
    BY <2>1, <1>5 DEF InFlight
  <2>2. CASE i = Len(stdin) + 1
    BY <2>2, <1>4, <1>5, <1>7, Counts
  <2> QED
    BY <2>1, <2>2, <1>5, Lengths
<1>9. Begun' <= sent' /\ Len(stdin') = sent' - Begun'
  BY <1>1, <1>5, <1>6, <1>7, Counts DEF InFlight
<1> QED
  BY <1>1, <1>6, <1>8, <1>9 DEF InFlight

LEMMA ReceiveStep == ASSUME TypeOK, InFlight, Receive PROVE InFlight'
<1>1. /\ stdout # <<>> /\ stdout' = Tail(stdout)
      /\ ledger' = Append(ledger, Head(stdout))
      /\ UNCHANGED <<asked, answer, open, stdin, out, written, sent>>
  BY DEF Receive, runnerVars
<1>2. /\ Head(stdout) \in Promises
      /\ Len(stdout') = Len(stdout) - 1
      /\ \A i \in 1 .. Len(stdout') : stdout'[i] = stdout[i + 1]
  BY <1>1, HeadTailProperties DEF TypeOK
<1>3. Len(ledger') = Len(ledger) + 1
  BY <1>1, <1>2, AppendProperties DEF TypeOK
<1>4. /\ Begun' = Begun
      /\ Len(ledger') + Len(stdout') = Len(ledger) + Len(stdout)
  BY <1>1, <1>2, <1>3, Lengths DEF Begun, Answered
<1>5. ASSUME NEW i \in 1 .. Len(stdout')
      PROVE  stdout'[i] = R!Promise(Worklist[Len(ledger') + i])
  <2>1. i + 1 \in 1 .. Len(stdout)
    BY <1>2, Lengths
  <2>2. stdout[i + 1] = R!Promise(Worklist[Len(ledger) + (i + 1)])
    BY <2>1 DEF InFlight
  <2>3. Len(ledger) + (i + 1) = Len(ledger') + i
    BY <1>3, Lengths
  <2> QED
    BY <1>2, <2>2, <2>3
<1> QED
  BY <1>1, <1>4, <1>5 DEF InFlight

LEMMA SkipStep == ASSUME TypeOK, InFlight, SkipBlank PROVE InFlight'
<1>1. UNCHANGED <<asked, answer, open, out, written, stdout, sent, ledger>>
  BY DEF SkipBlank, runnerVars, harnessVars
<1>2. Begun' = Begun
  BY <1>1 DEF Begun, Answered
<1>3. /\ Len(stdin') = Len(stdin)
      /\ \A i \in 1 .. Len(stdin) : stdin'[i].case = stdin[i].case
  BY Unpadded DEF TypeOK, Line
<1> QED
  BY <1>1, <1>2, <1>3 DEF InFlight

(* A runner that has ended and has been heard out leaves nothing behind. *)
LEMMA Silent ==
  ASSUME TypeOK, ~open, stdout = <<>>
  PROVE  /\ asked = None /\ answer = None /\ out = <<>> /\ stdin = <<>>
         /\ Begun = Len(ledger)
<1>1. asked = None /\ answer = None /\ ~written /\ out = <<>> /\ stdin = <<>>
  BY DEF TypeOK
<1> QED
  BY <1>1, Empty, Lengths DEF Begun, Answered

LEMMA BlameStep == ASSUME TypeOK, TypeOK', InFlight, Blame PROVE InFlight'
<1>1. /\ ~open /\ stdout = <<>> /\ sent' = Len(ledger')
      /\ UNCHANGED <<asked, answer, open, stdin, out, written, stdout>>
  BY DEF Blame, runnerVars
<1>2. Begun' = Len(ledger')
  <2>1. Answered' = Len(ledger')
    BY <1>1, Silent, Empty, Lengths, LenProperties DEF Answered, TypeOK
  <2> QED
    BY <1>1, <2>1, Silent DEF Begun
<1>3. Len(ledger') \in Nat
  BY LenProperties DEF TypeOK
<1> QED
  BY <1>1, <1>2, <1>3, Silent, Empty DEF InFlight

LEMMA RespawnStep == ASSUME TypeOK, InFlight, Respawn PROVE InFlight'
<1>1. /\ ~open /\ stdout = <<>> /\ Waiting = 0
      /\ UNCHANGED <<asked, answer, stdin, out, written, stdout, sent, ledger>>
  BY DEF Respawn, harnessVars
<1>2. Begun' = Begun
  BY <1>1 DEF Begun, Answered
<1>3. Len(stdin') = sent' - Begun'
  BY <1>1, <1>2, Silent, Empty, Counts, Lengths DEF Waiting
<1> QED
  BY <1>1, <1>2, <1>3, Silent, Empty DEF InFlight

LEMMA InFlightStep == TypeOK /\ TypeOK' /\ InFlight /\ [Next]_vars => InFlight'
<1> SUFFICES ASSUME TypeOK, TypeOK', InFlight, [Next]_vars PROVE InFlight'
  OBVIOUS
<1>1. CASE ReadError \/ EndOfInput \/ WriteFails \/ Die \/ Kill
  <2>1. Gone /\ asked' = None /\ answer' = None /\ open' = FALSE
    BY <1>1, Leaving DEF ReadError, EndOfInput, WriteFails, Die, Kill, Dies, TypeOK,
                R!Close, R!Lose, R!Forget
  <2> QED
    BY <2>1, EndStep
<1>2. CASE HangUp \/ Abandon \/ UNCHANGED vars
  <2>1. UNCHANGED <<asked, answer, open, stdin, out, written, stdout, sent, ledger>>
    BY <1>2 DEF HangUp, Abandon, vars, runnerVars, harnessVars
  <2>2. Begun' = Begun
    BY <2>1 DEF Begun, Answered
  <2> QED
    BY <2>1, <2>2 DEF InFlight
<1> QED
  BY <1>1, <1>2, SkipStep, TakeStep, ReplyStep, WriteStep, SpillStep, FlushStep,
     SendStep, ReceiveStep, BlameStep, RespawnStep
  DEF Next, Runner, Harness

(* The next answer to be read is that of the case it is entered for. *)
LEMMA NextAnswer ==
  ASSUME TypeOK, InFlight, Receive
  PROVE  /\ ledger' = Append(ledger, R!Promise(Worklist[Len(ledger) + 1]))
         /\ Len(ledger) < Len(Worklist)
<1>1. stdout # <<>> /\ Len(stdout) \in Nat \ {0}
  BY EmptySeq DEF Receive, TypeOK
<1>2. Head(stdout) = stdout[1] /\ 1 \in 1 .. Len(stdout)
  BY <1>1
<1>3. stdout[1] = R!Promise(Worklist[Len(ledger) + 1])
  BY <1>2 DEF InFlight
<1>4. Len(ledger) < Len(Worklist)
  BY Counts, Lengths DEF Receive, Waiting
<1> QED
  BY <1>2, <1>3, <1>4 DEF Receive

(* A step makes no entry or one, and that an answer or Lost. *)
LEMMA EntryStep ==
  ASSUME TypeOK, InFlight, [Next]_vars
  PROVE  \/ ledger' = ledger
         \/ Receive /\ ledger' = Append(ledger, R!Promise(Worklist[Len(ledger) + 1]))
         \/ Blame /\ tries + 1 >= MaxTries /\ ledger' = Append(ledger, Lost)
<1>1. CASE Receive
  BY <1>1, NextAnswer
<1>2. CASE Blame
  BY <1>2 DEF Blame
<1>3. CASE ReadError \/ EndOfInput \/ WriteFails \/ Die \/ Kill
  BY <1>3, Leaving DEF Gone, harnessVars
<1>4. CASE SkipBlank \/ TakeLine \/ Reply \/ Write \/ Flush \/ Spill
  BY <1>4 DEF SkipBlank, TakeLine, Reply, Write, Flush, Spill, harnessVars
<1>5. CASE Send \/ Respawn \/ HangUp \/ Abandon \/ UNCHANGED vars
  BY <1>5 DEF Send, Respawn, HangUp, Abandon, vars, harnessVars
<1> QED
  BY <1>1, <1>2, <1>3, <1>4, <1>5 DEF Next, Runner, Harness

LEMMA PairedStep == TypeOK /\ InFlight /\ Paired /\ [Next]_vars => Paired'
<1> SUFFICES ASSUME TypeOK, InFlight, Paired, [Next]_vars,
                    NEW i \in DOMAIN ledger'
             PROVE  ledger'[i] \in {R!Promise(Worklist[i]), Lost}
  BY DEF Paired
<1>1. CASE ledger' = ledger
  BY <1>1 DEF Paired
<1>2. ASSUME NEW entry, ledger' = Append(ledger, entry),
             entry \in {R!Promise(Worklist[Len(ledger) + 1]), Lost}
      PROVE  ledger'[i] \in {R!Promise(Worklist[i]), Lost}
  <2>1. ledger \in Seq(Promises \cup {Lost, entry})
    BY SeqMonotonic DEF TypeOK
  <2>2. /\ DOMAIN ledger' = 1 .. Len(ledger) + 1
        /\ \A j \in 1 .. Len(ledger) : ledger'[j] = ledger[j]
        /\ ledger'[Len(ledger) + 1] = entry
    <3>1. entry \in Promises \cup {Lost, entry}
      OBVIOUS
    <3> QED
      BY <1>2, <2>1, <3>1, AppendProperties, LenProperties
  <2>3. DOMAIN ledger = 1 .. Len(ledger)
    BY LenProperties DEF TypeOK
  <2>4. CASE i = Len(ledger) + 1
    BY <1>2, <2>2, <2>4
  <2>5. CASE i # Len(ledger) + 1
    <3>1. i \in 1 .. Len(ledger)
      BY <2>2, <2>5, Lengths
    <3> QED
      BY <2>2, <2>3, <3>1 DEF Paired
  <2> QED
    BY <2>4, <2>5
<1> QED
  BY <1>1, <1>2, EntryStep

-----------------------------------------------------------------------------
(***************************************************************************)
(* The blame.  A process that ends while the harness listens was killed,   *)
(* or the first case without an answer is to blame, or there is no such    *)
(* case.                                                                   *)
(***************************************************************************)

Tried(n) == Len(ledger) < Len(Worklist) /\ Clean(Len(ledger) + 1) => n <= kills

Excused ==
  ~open /\ Unheard <= sent /\ Clean(Unheard) =>
    kills >= 1 + (IF stdout = <<>> THEN tries ELSE 0)

LEMMA Numbers ==
  ASSUME TypeOK
  PROVE  /\ Len(ledger) \in Nat /\ Len(stdout) \in Nat /\ sent \in Nat
         /\ Unheard = Len(ledger) + Len(stdout) + 1
         /\ stdout = <<>> => Unheard = Len(ledger) + 1
         /\ stdout # <<>> => Len(stdout) > 0
         /\ tries \in Nat /\ kills \in Nat /\ MaxTries \in Nat /\ wasted \in Nat
<1>1. kills \in Nat /\ MaxTries \in Nat
  BY SessionAssumption DEF TypeOK
<1>2. stdout # <<>> => Len(stdout) > 0
  BY EmptySeq DEF TypeOK
<1> QED
  BY <1>1, <1>2, Empty, Lengths, Counts DEF Unheard, TypeOK

(* The runner takes its last line, or ends, with the next case unheard. *)
LEMMA NextUnheard ==
  ASSUME TypeOK, InFlight
  PROVE  /\ asked = None => Begun + 1 = Unheard
         /\ asked # None /\ answer = None => Begun = Unheard
<1>1. asked = None => Begun + 1 = Unheard
  BY Counts, Lengths DEF Unheard
<1>2. asked # None /\ answer = None => Begun = Unheard
  BY Counts, Lengths DEF Unheard, TypeOK
<1> QED
  BY <1>1, <1>2

LEMMA BlamelessStep == TypeOK /\ TypeOK' /\ InFlight /\ Blameless /\ [Next]_vars => Blameless'
<1> SUFFICES ASSUME TypeOK, TypeOK', InFlight, Blameless, [Next]_vars, ~deaf'
             PROVE  Tried(tries)' /\ Excused'
  BY DEF Blameless, Tried, Excused
<1>0. ~deaf => Tried(tries) /\ Excused
  BY DEF Blameless, Tried, Excused
<1>1. CASE ReadError
  <2>1. /\ asked = None /\ stdin # <<>> /\ Fate[stdin[1].case] = "garbled"
        /\ UNCHANGED <<ledger, stdout, deaf, sent, tries, kills>>
    <3>1. UNCHANGED <<ledger, stdout, deaf, sent, tries>>
      BY <1>1, Leaving DEF Gone, harnessVars
    <3> QED
      BY <1>1, <3>1 DEF ReadError, LineReady, NextLine, history
  <2>2. 1 \in 1 .. Len(stdin)
    BY <2>1, EmptySeq DEF TypeOK
  <2>3. stdin[1].case = Worklist[Unheard]
    BY <2>1, <2>2, NextUnheard DEF InFlight
  <2>4. ~Clean(Unheard)
    BY <2>1, <2>3 DEF Clean
  <2> QED
    BY <1>0, <2>1, <2>4 DEF Tried, Excused, Unheard, Clean
<1>2. CASE EndOfInput
  <2>1. /\ asked = None /\ open /\ stdin = <<>>
        /\ UNCHANGED <<ledger, stdout, deaf, sent, tries, kills>>
    BY <1>2, Leaving DEF EndOfInput, R!Close, Gone, harnessVars, history
  <2>2. 0 = sent - Begun
    BY <2>1, Empty DEF InFlight
  <2>3. ~(Unheard <= sent)
    BY <2>1, <2>2, NextUnheard, Counts
  <2> QED
    BY <1>0, <2>1, <2>3 DEF Tried, Excused, Unheard, Clean
<1>3. CASE Die
  <2>1. /\ asked # None /\ answer = None /\ Fate[asked] = "lethal"
        /\ UNCHANGED <<ledger, stdout, deaf, sent, tries, kills>>
    BY <1>3, Leaving DEF Die, Gone, harnessVars, history
  <2>2. asked = Worklist[Unheard]
    BY <2>1, NextUnheard DEF InFlight
  <2>3. ~Clean(Unheard)
    BY <2>1, <2>2 DEF Clean
  <2> QED
    BY <1>0, <2>1, <2>3 DEF Tried, Excused, Unheard, Clean
<1>4. CASE Kill
  <2>1. /\ kills' = kills + 1
        /\ UNCHANGED <<ledger, stdout, deaf, sent, tries>>
    BY <1>4, Leaving DEF Kill, Gone, harnessVars
  <2>2. Tried(tries)'
    BY <1>0, <2>1, Numbers DEF Tried, Clean
  <2>3. CASE stdout = <<>> /\ Unheard <= sent /\ Clean(Unheard)
    <3>1. Len(ledger) < Len(Worklist) /\ Clean(Len(ledger) + 1)
      BY <2>3, Numbers, Counts
    <3>2. tries <= kills
      BY <1>0, <2>1, <3>1 DEF Tried
    <3> QED
      BY <2>1, <2>2, <3>2, Numbers DEF Excused
  <2>4. CASE ~(stdout = <<>> /\ Unheard <= sent /\ Clean(Unheard))
    BY <2>1, <2>2, <2>4, Numbers DEF Excused, Unheard, Clean
  <2> QED
    BY <2>3, <2>4
<1>5. CASE Receive
  <2>1. /\ ~deaf /\ stdout # <<>> /\ tries' = 0
        /\ UNCHANGED <<open, sent, kills>>
    BY <1>5 DEF Receive, runnerVars, history
  <2>2. Tried(tries)'
    BY <2>1, Numbers DEF Tried
  <2>3. Unheard' = Unheard
    <3>1. Len(stdout') = Len(stdout) - 1
      BY <1>5, HeadTailProperties DEF Receive, TypeOK
    <3>2. Head(stdout) \in Promises \cup {Lost}
      BY <2>1, HeadTailProperties DEF TypeOK
    <3>3. Len(ledger') = Len(ledger) + 1
      BY <1>5, <3>2, AppendProperties DEF Receive, TypeOK
    <3> QED
      BY <3>1, <3>3, Lengths DEF Unheard
  <2>4. Excused'
    BY <1>0, <2>1, <2>3, Numbers DEF Excused, Clean
  <2> QED
    BY <2>2, <2>4
<1>6. CASE Blame
  <2>1. /\ ~open /\ ~deaf /\ stdout = <<>> /\ Waiting > 0
        /\ sent' = Len(ledger') /\ UNCHANGED <<stdout, kills>>
    BY <1>6 DEF Blame, history
  <2>2. ~(Unheard' <= sent')
    <3>1. Len(ledger') \in Nat /\ Len(stdout') = 0
      BY <2>1, Empty, LenProperties DEF TypeOK
    <3> QED
      BY <2>1, <3>1 DEF Unheard
  <2>3. CASE tries' = 0
    BY <2>2, <2>3, Numbers, <2>1 DEF Tried, Excused
  <2>4. CASE tries' = tries + 1 /\ ledger' = ledger
    <3>1. Unheard <= sent /\ Unheard = Len(ledger) + 1
      BY <2>1, Numbers DEF Waiting
    <3>2. Clean(Len(ledger) + 1) => kills >= 1 + tries
      BY <1>0, <2>1, <3>1 DEF Excused
    <3>3. Tried(tries)'
      BY <2>1, <2>4, <3>2, Numbers DEF Tried, Clean
    <3> QED
      BY <2>2, <3>3 DEF Excused
  <2> QED
    BY <1>6, <2>3, <2>4 DEF Blame
<1>7. CASE Spill \/ Flush
  <2>1. open /\ UNCHANGED <<open, ledger, deaf, tries, kills>>
    BY <1>7 DEF Spill, Flush, R!Deliver, TypeOK, runnerVars, harnessVars, history
  <2> QED
    BY <1>0, <2>1 DEF Tried, Excused, Clean
<1>8. CASE Send \/ Respawn
  <2>1. open' /\ UNCHANGED <<ledger, deaf, tries, kills>>
    BY <1>8 DEF Send, Respawn, runnerVars, harnessVars, history
  <2> QED
    BY <1>0, <2>1 DEF Tried, Excused, Clean
<1>9. CASE SkipBlank \/ TakeLine \/ Reply \/ Write \/ HangUp \/ UNCHANGED vars
  <2>1. UNCHANGED <<open, stdout, ledger, sent, deaf, tries, kills>>
    BY <1>9 DEF SkipBlank, TakeLine, R!Ask, Reply, R!Reply, Write, HangUp, vars,
                runnerVars, harnessVars, history
  <2> QED
    BY <1>0, <2>1 DEF Tried, Excused, Unheard, Clean
<1>10. CASE WriteFails \/ Abandon
  BY <1>10, Leaving DEF WriteFails, Gone, Abandon
<1> QED
  BY <1>1, <1>2, <1>3, <1>4, <1>5, <1>6, <1>7, <1>8, <1>9, <1>10
  DEF Next, Runner, Harness

LEMMA KillsGrow == TypeOK /\ [Next]_vars => kills' >= kills
<1> SUFFICES ASSUME TypeOK, [Next]_vars PROVE kills' >= kills
  OBVIOUS
<1>1. kills \in Nat
  BY Numbers
<1>2. kills' \in {kills, kills + 1}
  BY DEF Next, Runner, Harness, SkipBlank, TakeLine, ReadError, EndOfInput, Reply,
         Write, Flush, WriteFails, Die, Spill, Send, Receive, Blame, Respawn,
         HangUp, Abandon, Kill, vars, history
<1> QED
  BY <1>1, <1>2

(* A clean case that is given up was not the one to end its process. *)
LEMMA LostClean ==
  ASSUME TypeOK, Blameless, Blame, tries + 1 >= MaxTries, Clean(Len(ledger) + 1)
  PROVE  kills >= MaxTries
<1>1. /\ ~open /\ ~deaf /\ stdout = <<>> /\ Waiting > 0
  BY DEF Blame
<1>2. Unheard <= sent /\ Unheard = Len(ledger) + 1
  BY <1>1, Numbers DEF Waiting
<1>3. kills >= 1 + tries
  BY <1>1, <1>2 DEF Blameless
<1> QED
  BY <1>3, Numbers

LEMMA GuiltyStep ==
  TypeOK /\ TypeOK' /\ InFlight /\ Blameless /\ OnlyTheGuiltyLost /\ [Next]_vars
    => OnlyTheGuiltyLost'
<1> SUFFICES ASSUME TypeOK, TypeOK', InFlight, Blameless, OnlyTheGuiltyLost, [Next]_vars,
                    NEW i \in DOMAIN ledger', ledger'[i] = Lost, Clean(i)
             PROVE  kills' >= MaxTries
  BY DEF OnlyTheGuiltyLost, Clean
<1>1. kills' >= kills /\ kills \in Nat /\ kills' \in Nat /\ MaxTries \in Nat
  BY KillsGrow, Numbers, SessionAssumption DEF TypeOK
<1>2. CASE i \in DOMAIN ledger /\ ledger[i] = Lost
  BY <1>1, <1>2 DEF OnlyTheGuiltyLost
<1>3. ASSUME NEW entry \in Promises \cup {Lost}, ledger' = Append(ledger, entry),
             ~(i \in DOMAIN ledger /\ ledger[i] = Lost)
      PROVE  i = Len(ledger) + 1 /\ entry = Lost
  <2>1. /\ DOMAIN ledger' = 1 .. Len(ledger) + 1
        /\ \A j \in 1 .. Len(ledger) : ledger'[j] = ledger[j]
        /\ ledger'[Len(ledger) + 1] = entry
    BY <1>3, AppendProperties, LenProperties DEF TypeOK
  <2>2. DOMAIN ledger = 1 .. Len(ledger)
    BY LenProperties DEF TypeOK
  <2> QED
    BY <1>3, <2>1, <2>2, Lengths
<1>4. CASE Receive
  <2>1. PICK entry \in Promises : ledger' = Append(ledger, entry)
    BY <1>4, HeadTailProperties DEF Receive, TypeOK
  <2>2. entry # Lost
    BY <2>1, LostAssumption DEF Promises
  <2> QED
    BY <1>2, <1>3, <2>1, <2>2
<1>5. CASE Blame /\ tries + 1 >= MaxTries /\ ledger' = Append(ledger, Lost)
  BY <1>1, <1>2, <1>3, <1>5, LostClean, Numbers
<1> QED
  BY <1>2, <1>4, <1>5, EntryStep

-----------------------------------------------------------------------------
(* Without a listener the first answer ends the loop. *)
LEMMA LastCaseStep == TypeOK /\ LastCase /\ [Next]_vars => LastCase'
<1> SUFFICES ASSUME TypeOK, LastCase, [Next]_vars, wasted' > 0
             PROVE  deaf' /\ wasted' = 1 /\ (open' => asked' # None)
                      /\ (written' => out' # <<>>)
  BY DEF LastCase
<1>1. wasted \in Nat
  BY DEF TypeOK
<1>2. CASE SkipBlank
  BY <1>2 DEF SkipBlank, LineReady, LastCase, runnerVars, history
<1>3. CASE TakeLine
  <2>1. /\ open /\ asked = None /\ ~written' /\ deaf' = deaf /\ asked' = stdin[1].case
        /\ wasted' = IF deaf THEN wasted + 1 ELSE wasted
    BY <1>3 DEF TakeLine, LineReady, NextLine, TypeOK
  <2>2. wasted = 0 /\ deaf
    BY <1>1, <2>1 DEF LastCase
  <2>3. asked' # None
    <3>1. stdin \in Seq(Line) /\ 1 \in 1 .. Len(stdin)
      BY <1>3, EmptySeq DEF TakeLine, LineReady, TypeOK, Line
    <3>2. stdin[1] \in Line
      BY <3>1, ElementOfSeq
    <3> QED
      BY <2>1, <3>2, SessionAssumption DEF Line
  <2> QED
    BY <2>1, <2>2, <2>3
<1>4. CASE ReadError \/ EndOfInput \/ WriteFails \/ Die \/ Kill
  BY <1>4, Leaving DEF ReadError, EndOfInput, WriteFails, Die, Kill, Dies, LastCase,
              R!Close, R!Lose, Gone, history
<1>5. CASE Reply
  BY <1>5 DEF Reply, R!Reply, LastCase, history
<1>6. CASE Write
  <2>1. Append(out, answer) # <<>>
    BY <1>6, AppendProperties DEF Write, TypeOK
  <2> QED
    BY <1>6, <2>1 DEF Write, LastCase, runnerVars, history
<1>7. CASE Spill \/ Flush
  BY <1>7 DEF Spill, Flush, Room, LastCase, runnerVars, history
<1>8. CASE Send \/ Receive \/ Blame \/ HangUp \/ Abandon \/ UNCHANGED vars
  BY <1>8 DEF Send, Receive, Blame, HangUp, Abandon, LastCase, vars, runnerVars, history
<1>9. CASE Respawn
  BY <1>9 DEF Respawn, LastCase, history
<1> QED
  BY <1>2, <1>3, <1>4, <1>5, <1>6, <1>7, <1>8, <1>9 DEF Next, Runner, Harness

-----------------------------------------------------------------------------
LEMMA InitInvariant == Init => IInv
<1> SUFFICES ASSUME Init PROVE IInv
  OBVIOUS
<1>1. TypeOK
  BY InitTyped
<1>2. /\ asked = None /\ answer = None /\ open
      /\ stdin = <<>> /\ out = <<>> /\ ~written /\ stdout = <<>> /\ ledger = <<>>
      /\ sent = 0 /\ tries = 0 /\ kills = 0 /\ wasted = 0
  BY DEF Init, R!Init
<1>3. Begun = 0
  BY <1>2, Empty DEF Begun, Answered
<1>4. InFlight
  BY <1>2, <1>3, Empty DEF InFlight
<1>5. DOMAIN ledger = {}
  BY <1>2
<1>6. Paired /\ OnlyTheGuiltyLost
  BY <1>5 DEF Paired, OnlyTheGuiltyLost
<1>7. Blameless /\ LastCase
  BY <1>2 DEF Blameless, LastCase
<1> QED
  BY <1>1, <1>4, <1>6, <1>7 DEF IInv

LEMMA StepInvariant == IInv /\ [Next]_vars => IInv'
BY TypeStep, InFlightStep, PairedStep, BlamelessStep, GuiltyStep, LastCaseStep DEF IInv

(***************************************************************************)
(* The inductive invariant of a session: what is on its way is what is     *)
(* still to be entered, and every process that ended had a reason.         *)
(***************************************************************************)
THEOREM SessionInvariance == Spec => []IInv
BY InitInvariant, StepInvariant, PTL DEF Spec

(***************************************************************************)
(* Every entry is the answer of its own case, or Lost: for every worklist, *)
(* whatever fails and however often the runner is started again.           *)
(***************************************************************************)
THEOREM AnswersPaired == Spec => []Paired
<1>1. IInv => Paired
  BY DEF IInv
<1> QED
  BY <1>1, SessionInvariance, PTL

(***************************************************************************)
(* A case that was served is never given up for one that was not, unless   *)
(* processes are killed as often as a case is tried.                       *)
(***************************************************************************)
THEOREM GuiltyLost == Spec => []OnlyTheGuiltyLost
<1>1. IInv => OnlyTheGuiltyLost
  BY DEF IInv
<1> QED
  BY <1>1, SessionInvariance, PTL

(***************************************************************************)
(* At most one case is begun for a harness that has gone.                  *)
(***************************************************************************)
THEOREM DeafRunnerStops == Spec => []DeafStops
<1>1. IInv => DeafStops
  BY DEF IInv, TypeOK, LastCase, DeafStops
<1> QED
  BY <1>1, SessionInvariance, PTL

-----------------------------------------------------------------------------
(* The entries the census allows for case i. *)
LEMMA Allows ==
  ASSUME NEW i \in 1 .. Len(Worklist)
  PROVE  /\ i \in 1 .. Len(Outcomes) /\ Len(Outcomes) = Len(Worklist)
         /\ R!Promise(Worklist[i]) \in Outcomes[i]
         /\ ~Clean(i) \/ MaxKills >= MaxTries => Lost \in Outcomes[i]
<1>1. Len(Worklist) \in Nat
  BY Lengths
<1>2. Len(Outcomes) = Len(Worklist)
  BY <1>1, LenProperties DEF Outcomes
<1> QED
  BY <1>1, <1>2 DEF Outcomes

LEMMA CensusStep == IInv /\ IInv' /\ [Next]_vars => [Ledger!Next]_(Ledger!censusVars)
<1> SUFFICES ASSUME IInv, IInv', [Next]_vars
             PROVE  Ledger!Record \/ Ledger!Abandon \/ UNCHANGED <<ledger, deaf>>
  BY DEF Ledger!Next, Ledger!censusVars
<1> USE DEF IInv
<1>1. CASE Receive
  <2>1. /\ ledger' = Append(ledger, R!Promise(Worklist[Len(ledger) + 1]))
        /\ Len(ledger) + 1 \in 1 .. Len(Worklist)
    BY <1>1, NextAnswer, Lengths
  <2> QED
    BY <1>1, <2>1, Allows, Lengths DEF Receive, Ledger!Record
<1>2. CASE Blame /\ ledger' = Append(ledger, Lost) /\ tries + 1 >= MaxTries
  <2>1. Len(ledger) + 1 \in 1 .. Len(Worklist)
    BY <1>2, Counts, Lengths DEF Blame, Waiting
  <2>2. ~Clean(Len(ledger) + 1) \/ MaxKills >= MaxTries
    <3>1. MaxTries \in Nat /\ MaxKills \in Nat /\ kills \in 0 .. MaxKills
      BY SessionAssumption DEF TypeOK
    <3> QED
      BY <1>2, <3>1, LostClean
  <2> QED
    BY <1>2, <2>1, <2>2, Allows, Lengths DEF Blame, Ledger!Record
<1>3. CASE Abandon
  BY <1>3 DEF Abandon, harnessVars, Ledger!Abandon
<1>4. CASE ledger' = ledger /\ ~Abandon
  <2>1. deaf' = deaf
    BY <1>4, Leaving DEF Next, Runner, Harness, SkipBlank, TakeLine, Gone,
         Reply, Write, Flush, Spill, Send, Receive, Blame,
         Respawn, HangUp, Kill, vars
  <2> QED
    BY <1>4, <2>1
<1> QED
  BY <1>1, <1>2, <1>3, <1>4, EntryStep

(***************************************************************************)
(* The safety part of ImplementsCensus: each step of a session makes the   *)
(* next entry of the census, one the case may have, or gives the session   *)
(* up, or leaves both as they are.                                         *)
(***************************************************************************)
THEOREM SessionIsACensus == Spec => Ledger!Spec
<1>1. Init => Ledger!Init
  BY DEF Init, Ledger!Init
<1> QED
  BY <1>1, CensusStep, SessionInvariance, PTL DEF Spec, Ledger!Spec
=============================================================================
