-------------------------- MODULE SessionProperties -------------------------
(***************************************************************************)
(* The correctness properties of a session.                                *)
(***************************************************************************)
EXTENDS Session

(* A case is never entered as Lost because that is its answer. *)
ASSUME LostAssumption == \A c \in Cases : R!Promise(c) # Lost

Promises == {R!Promise(c) : c \in Cases}

(***************************************************************************)
(* The type invariant, which also says which locals of the loop are live   *)
(* when: nothing of an answer is left when the next line is taken, and     *)
(* nothing of a process when it has ended.                                 *)
(***************************************************************************)
TypeOK ==
  /\ open \in BOOLEAN /\ written \in BOOLEAN /\ eof \in BOOLEAN /\ deaf \in BOOLEAN
  /\ asked \in Cases \cup {None}
  /\ answer \in Promises \cup {None}
  /\ gone = {}
  /\ stdin \in Seq([case : Cases, pad : BOOLEAN])
  /\ out \in Seq(Promises) /\ stdout \in Seq(Promises)
  /\ ledger \in Seq(Promises \cup {Lost})
  /\ sent \in Len(ledger) .. Len(Worklist)
  /\ tries \in Nat /\ kills \in 0 .. MaxKills /\ wasted \in Nat
  /\ out = <<>> \/ (written /\ Len(out) = 1)
  /\ written => answer # None
  /\ answer # None => asked # None
  /\ asked # None => open
  /\ ~open => stdin = <<>>
  /\ deaf => eof

-----------------------------------------------------------------------------
(* Cases whose answer has been made, and cases that have been begun. *)

Answered == Len(ledger) + Len(stdout) + Len(out)

Begun == IF asked # None /\ ~written THEN Answered + 1 ELSE Answered

(***************************************************************************)
(* The inductive invariant on which the pairing rests: what is in the      *)
(* buffers, in the pipes and in the process are the answers and the lines  *)
(* of the cases that follow the ledger, none missing and none twice.       *)
(***************************************************************************)
InFlight ==
  /\ Begun <= sent
  /\ asked # None => Begun > 0 /\ asked = Worklist[Begun]
  /\ open => Len(stdin) = sent - Begun
  /\ \A i \in 1 .. Len(stdin) : stdin[i].case = Worklist[Begun + i]
  /\ answer # None => answer = R!Promise(asked)
  /\ \A i \in 1 .. Len(out) :
        out[i] = R!Promise(Worklist[Len(ledger) + Len(stdout) + i])
  /\ \A i \in 1 .. Len(stdout) :
        stdout[i] = R!Promise(Worklist[Len(ledger) + i])

(***************************************************************************)
(* Every answer the harness enters is that of the case it enters it for:   *)
(* an answer is told from another by its place only ("one per line",       *)
(* src/main.rs:4), so none may be missing, doubled or made to an empty     *)
(* line, however the process ends and whatever is sent again.              *)
(***************************************************************************)
Paired ==
  \A i \in DOMAIN ledger : ledger[i] \in {R!Promise(Worklist[i]), Lost}

-----------------------------------------------------------------------------
Clean(i) == Fate[Worklist[i]] = "clean"

(***************************************************************************)
(* The inductive invariant behind the blame: a process that ended did so   *)
(* on the first case that has no answer, or was killed.                    *)
(***************************************************************************)
Unheard == Len(ledger) + Len(stdout) + 1

Blameless ==
  ~deaf =>
    /\ Len(ledger) < Len(Worklist) /\ Clean(Len(ledger) + 1) => tries <= kills
    /\ ~open /\ Unheard <= sent /\ Clean(Unheard) =>
         kills >= 1 + (IF stdout = <<>> THEN tries ELSE 0)

(***************************************************************************)
(* Only a case that ended its process is given up: flushing every answer   *)
(* (src/main.rs:127) means that the first case without one is the culprit. *)
(* A clean case is lost only when processes were killed from outside as    *)
(* often as a case is tried.                                               *)
(***************************************************************************)
OnlyTheGuiltyLost ==
  \A i \in DOMAIN ledger :
    ledger[i] = Lost /\ Clean(i) => kills >= MaxTries

(***************************************************************************)
(* A runner nobody listens to begins one more case at most: the first      *)
(* answer it cannot pass on ends it (src/main.rs:127-129).                 *)
(***************************************************************************)
DeafStops == wasted <= 1

(* The inductive invariant behind it. *)
LastCase ==
  wasted > 0 =>
    /\ deaf
    /\ wasted = 1
    /\ open => asked # None
    /\ written => out # <<>>

IInv == TypeOK /\ InFlight /\ Paired /\ Blameless /\ OnlyTheGuiltyLost /\ LastCase

(***************************************************************************)
(* Once the harness has hung up, the process ends, and is not left behind. *)
(***************************************************************************)
NoOrphan == eof ~> ~open

-----------------------------------------------------------------------------
Outcomes ==
  [i \in 1 .. Len(Worklist) |->
     {R!Promise(Worklist[i])}
       \cup {Lost : x \in {k \in {0} : ~Clean(i) \/ MaxKills >= MaxTries}}]

Ledger == INSTANCE Census WITH abandoned <- deaf

(***************************************************************************)
(* The session implements the census: entries in order, each once, none    *)
(* revised, and all of them made if the harness does not give up.  For     *)
(* this every answer must reach the harness while it waits for nothing     *)
(* else, and every end of the runner must be noticed and made good.        *)
(***************************************************************************)
ImplementsCensus == Ledger!FairSpec

-----------------------------------------------------------------------------
(***************************************************************************)
(* "For each case the runner writes one response line on stdout", and bug  *)
(* is the answer to "malformed lines of implemented runners" (README.md:12 *)
(* and 28): a line that is not UTF-8 is answered, if only with bug.        *)
(***************************************************************************)
GarbledIsAnswered ==
  \A i \in DOMAIN ledger :
    Fate[Worklist[i]] = "garbled" => ledger[i] # Lost
=============================================================================
