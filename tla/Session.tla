------------------------------ MODULE Session -------------------------------
(***************************************************************************)
(* The runner and the harness as two processes with two pipes between them *)
(* (main of src/main.rs).  An answer carries no name of its case: which    *)
(* case it belongs to is told by its place in the stream alone, so that    *)
(* one answer too many or too few would spoil all that follow.             *)
(*                                                                         *)
(* What a runner answers is that of Contract, whose steps are conjoined    *)
(* here with what they do to the pipes; files stay where they are.         *)
(***************************************************************************)
EXTENDS Protocol

CONSTANTS
  Cases, None, Skipped, Handlers, BlsGated, MaxAdvance,   (* of Contract *)
  Worklist,    (* the cases the harness goes through                      *)
  Fate,        (* "garbled": its line is not UTF-8; "lethal": running it  *)
               (* ends the process (abort, stack overflow); else "clean"  *)
  Lost,        (* the entry of a case that was given up                   *)
  Ahead,       (* bound: cases sent and not yet answered                  *)
  PipeLines,   (* bound: lines a pipe holds                               *)
  MaxTries,    (* bound: processes a case is given                        *)
  MaxKills     (* bound: processes killed from outside                    *)

ASSUME SessionAssumption ==
  /\ Worklist \in Seq(Cases)
  /\ Fate \in [Cases -> {"clean", "garbled", "lethal"}]
  /\ None \notin Cases
  /\ \A c \in Cases : c.line # <<>>
  /\ Ahead \in Nat \ {0} /\ PipeLines \in Nat \ {0} /\ MaxTries \in Nat \ {0}
  /\ MaxKills \in Nat

VARIABLES
  asked, gone, answer, open,   (* of Contract: the case at hand, the files *)
                               (* removed, its answer, the process lives   *)
  stdin,     (* lines sent and not taken; pad: an empty line is before it *)
  out,       (* answers in the buffer of standard output                  *)
  written,   (* writeln! has returned, flush has not                      *)
  stdout,    (* answers in the pipe                                       *)
  eof,       (* the harness has closed its end of standard input          *)
  deaf,      (* the harness has closed its end of standard output too     *)
  sent,      (* harness: cases sent                                       *)
  ledger,    (* harness: the entries made                                 *)
  tries,     (* harness: processes that ended on the next case            *)
  kills,     (* history: processes killed from outside                    *)
  wasted     (* history: cases begun since nobody listens                 *)

runnerVars == <<asked, gone, answer, open>>
harnessVars == <<sent, ledger, tries>>
history == <<kills, wasted>>
vars == <<runnerVars, stdin, out, written, stdout, eof, deaf, harnessVars, history>>

R == INSTANCE Contract

Init ==
  /\ R!Init
  /\ stdin = <<>> /\ out = <<>> /\ written = FALSE /\ stdout = <<>>
  /\ eof = FALSE /\ deaf = FALSE
  /\ sent = 0 /\ ledger = <<>> /\ tries = 0
  /\ kills = 0 /\ wasted = 0

-----------------------------------------------------------------------------
(* The runner: the loop of main. *)

NextLine == Head(stdin)

(* The loop waits for a line and there is one. *)
LineReady == open /\ asked = None /\ stdin # <<>>

(* A variant of SkipBlank that answers an empty line as an unknown verb. *)
BlankAnswered ==
  /\ LineReady
  /\ NextLine.pad
  /\ stdin' = [stdin EXCEPT ![1].pad = FALSE]
  /\ stdout' = Append(stdout, R!V(FALSE, "todo"))
  /\ UNCHANGED <<runnerVars, out, written, eof, deaf, harnessVars, history>>

(* An empty line is not a case. *)
SkipBlank ==
  /\ LineReady
  /\ NextLine.pad
  /\ stdin' = [stdin EXCEPT ![1].pad = FALSE]
  /\ UNCHANGED <<runnerVars, out, written, stdout, eof, deaf, harnessVars, history>>

TakeLine ==
  /\ LineReady
  /\ ~NextLine.pad
  /\ Fate[NextLine.case] # "garbled"
  /\ R!Ask
  /\ asked' = NextLine.case
  /\ stdin' = Tail(stdin)
  /\ wasted' = IF deaf THEN wasted + 1 ELSE wasted
  /\ UNCHANGED <<out, written, stdout, eof, deaf, harnessVars, kills>>

Room == ~deaf /\ Len(stdout) + Len(out) <= PipeLines

(* A process that ends takes with it where it was and the lines nobody reads. *)
Ends ==
  /\ stdin' = <<>>
  /\ written' = FALSE
  /\ UNCHANGED <<eof, deaf, harnessVars>>

(* main returns: the library passes on what is still in the buffer. *)
Returns ==
  /\ out = <<>> \/ deaf \/ Room
  /\ stdout' = IF deaf THEN stdout ELSE stdout \o out
  /\ out' = <<>>
  /\ Ends

(* A variant of ReadError that goes on with the next line. *)
ReadErrorSkipped ==
  /\ LineReady
  /\ ~NextLine.pad
  /\ Fate[NextLine.case] = "garbled"
  /\ stdin' = Tail(stdin)
  /\ UNCHANGED <<runnerVars, out, written, stdout, eof, deaf, harnessVars, history>>

(* lines() fails on a line that is not UTF-8, which ends the loop. *)
ReadError ==
  /\ LineReady
  /\ ~NextLine.pad
  /\ Fate[NextLine.case] = "garbled"
  /\ R!Close
  /\ Returns
  /\ UNCHANGED history

(* A variant of EndOfInput that takes the end for one more empty line. *)
EndOfInputSkipped ==
  /\ open /\ asked = None /\ stdin = <<>> /\ eof
  /\ UNCHANGED vars

(* The end of the input, after the last line in the pipe. *)
EndOfInput ==
  /\ stdin = <<>>
  /\ eof
  /\ R!Close
  /\ Returns
  /\ UNCHANGED history

(* respond, or the handler of catch_unwind, has the verdict. *)
Reply ==
  /\ open
  /\ R!Reply
  /\ Fate[asked] = "clean"
  /\ UNCHANGED <<stdin, out, written, stdout, eof, deaf, harnessVars, history>>

(* writeln! puts the answer into the buffer of standard output. *)
Write ==
  /\ answer # None
  /\ ~written
  /\ out' = Append(out, answer)
  /\ written' = TRUE
  /\ UNCHANGED <<runnerVars, stdin, stdout, eof, deaf, harnessVars, history>>

(* The library may pass on what it buffers before it is told to (external). *)
Spill ==
  /\ out # <<>>
  /\ Room
  /\ stdout' = stdout \o out
  /\ out' = <<>>
  /\ UNCHANGED <<runnerVars, stdin, written, eof, deaf, harnessVars, history>>

(* A variant of Flush that leaves the answer in the buffer. *)
FlushOmitted ==
  /\ written
  /\ R!Deliver
  /\ written' = FALSE
  /\ UNCHANGED <<stdin, out, stdout, eof, deaf, harnessVars, history>>

(* flush passes on what is buffered, and the loop goes on. *)
Flush ==
  /\ written
  /\ out = <<>> \/ Room
  /\ R!Deliver
  /\ stdout' = stdout \o out
  /\ out' = <<>>
  /\ written' = FALSE
  /\ UNCHANGED <<stdin, eof, deaf, harnessVars, history>>

(* A variant of WriteFails that goes on with the next line. *)
WriteFailureIgnored ==
  /\ deaf
  /\ written => out # <<>>
  /\ R!Deliver
  /\ out' = <<>>
  /\ written' = FALSE
  /\ UNCHANGED <<stdin, stdout, eof, deaf, harnessVars, history>>

(* Writing or flushing fails once nobody listens, which ends the loop. *)
WriteFails ==
  /\ deaf
  /\ written => out # <<>>
  /\ R!Lose
  /\ Returns
  /\ UNCHANGED history

(* The process ends in the middle of something: its buffer is lost. *)
Dies ==
  /\ open' = FALSE
  /\ R!Forget
  /\ out' = <<>>
  /\ Ends
  /\ UNCHANGED stdout

(* catch_unwind catches panics only. *)
Die ==
  /\ asked # None
  /\ answer = None
  /\ Fate[asked] = "lethal"
  /\ Dies
  /\ UNCHANGED history

-----------------------------------------------------------------------------
(* The harness (external). *)

Waiting == sent - Len(ledger)

Send ==
  /\ open /\ ~eof
  /\ sent < Len(Worklist)
  /\ Waiting < Ahead
  /\ Len(stdin) < PipeLines
  /\ \E pad \in BOOLEAN :
       stdin' = Append(stdin, [case |-> Worklist[sent + 1], pad |-> pad])
  /\ sent' = sent + 1
  /\ UNCHANGED <<runnerVars, out, written, stdout, eof, deaf, ledger, tries, history>>

(* The next answer is that of the first case that waits for one. *)
Receive ==
  /\ ~deaf
  /\ stdout # <<>>
  /\ Waiting > 0
  /\ ledger' = Append(ledger, Head(stdout))
  /\ stdout' = Tail(stdout)
  /\ tries' = 0
  /\ UNCHANGED <<runnerVars, stdin, out, written, eof, deaf, sent, history>>

(* The runner has ended and all it said has been read: the first case that *)
(* waits is the one to blame.  The others have to be sent again.           *)
Blame ==
  /\ ~open /\ ~deaf
  /\ stdout = <<>>
  /\ Waiting > 0
  /\ \/ /\ tries + 1 < MaxTries
        /\ tries' = tries + 1
        /\ UNCHANGED ledger
     \/ /\ tries + 1 >= MaxTries
        /\ tries' = 0
        /\ ledger' = Append(ledger, Lost)
  /\ sent' = Len(ledger')
  /\ UNCHANGED <<runnerVars, stdin, out, written, stdout, eof, deaf, history>>

(* "harness will respawn" (src/main.rs:110). *)
Respawn ==
  /\ ~open /\ ~deaf
  /\ stdout = <<>>
  /\ Waiting = 0
  /\ sent < Len(Worklist)
  /\ open' = TRUE
  /\ eof' = FALSE
  /\ UNCHANGED <<asked, gone, answer, stdin, out, written, stdout, deaf,
                 harnessVars, history>>

(* All is sent; the answers are still awaited. *)
HangUp ==
  /\ open /\ ~eof
  /\ sent = Len(Worklist)
  /\ eof' = TRUE
  /\ UNCHANGED <<runnerVars, stdin, out, written, stdout, deaf, harnessVars, history>>

(* The harness closes both its ends, for instance because it ends. *)
Abandon ==
  /\ ~deaf
  /\ deaf' = TRUE
  /\ eof' = TRUE
  /\ UNCHANGED <<runnerVars, stdin, out, written, stdout, harnessVars, history>>

(* The process is killed from outside. *)
Kill ==
  /\ open
  /\ kills < MaxKills
  /\ kills' = kills + 1
  /\ Dies
  /\ UNCHANGED wasted

-----------------------------------------------------------------------------
Runner ==
  \/ SkipBlank \/ TakeLine \/ ReadError \/ EndOfInput
  \/ Reply \/ Write \/ Flush \/ WriteFails
  \/ Die

Harness == Send \/ Receive \/ Blame \/ Respawn

Next ==
  \/ Runner
  \/ Spill
  \/ Harness
  \/ HangUp
  \/ Abandon
  \/ Kill

Spec == Init /\ [][Next]_vars

(***************************************************************************)
(* The runner is one thread that waits for input and for room in the pipe  *)
(* only.  A harness that does not give up sends, reads and respawns.       *)
(* Nothing makes the library pass on what was not flushed, and nothing     *)
(* makes the harness hang up.                                              *)
(***************************************************************************)
FairSpec ==
  /\ Spec
  /\ WF_vars(Runner)
  /\ WF_vars(Send) /\ WF_vars(Receive) /\ WF_vars(Blame) /\ WF_vars(Respawn)
=============================================================================
