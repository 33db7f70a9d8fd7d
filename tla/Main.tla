-------------------------------- MODULE Main --------------------------------
(***************************************************************************)
(* The program (src/main.rs): check the invocation, then answer request    *)
(* lines one at a time until standard input or output is gone.  The steps  *)
(* of a runner are those of its own module; the harness acts between any   *)
(* two of them.                                                            *)
(***************************************************************************)
EXTENDS Operations, Epoch, Blocks, SszStatic

CONSTANTS
  CompiledPreset,   (* the preset compiled into the binary             *)
  Invocations,      (* argument vectors it may be started with         *)
  MaxVanish         (* bound: files the harness removes under one case *)

ASSUME MainAssumption == MaxVanish \in Nat

(* state_runner: the runners that share the 10-field line, to their entry. *)
StateRunner ==
  [operations |-> "operations", epoch_processing |-> "epoch_processing",
   sanity |-> "blocks", finality |-> "blocks", random |-> "blocks"]

(* A variant of UnmodeledUpstream that gives up a runner still planned. *)
GivenUp == {"fork", "genesis", "transition", "fork_choice"}

UnmodeledUpstream == {"fork", "genesis", "transition"}

Planned == {"fork_choice", "rewards"}

(* A variant of Idle that keeps the state of the case before. *)
IdleKeepingState ==
  /\ case' = None
  /\ gone' = {}
  /\ req' = None
  /\ reads' = <<>>
  /\ next' = 1
  /\ result' = None
  /\ verdict' = None
  /\ UNCHANGED state

(* Everything a case had was local to respond. *)
Idle ==
  /\ case' = None
  /\ gone' = {}
  /\ req' = None
  /\ reads' = <<>>
  /\ state' = None
  /\ next' = 1
  /\ result' = None
  /\ verdict' = None

Init ==
  /\ pc = "boot"
  /\ case = None
  /\ gone = {}
  /\ req = None
  /\ reads = <<>>
  /\ state = None
  /\ next = 1
  /\ result = None
  /\ verdict = None

(* main checks its arguments; a wrong invocation exits with code 2. *)
Boot ==
  /\ pc = "boot"
  /\ \E argv \in Invocations :
       pc' = IF argv = <<"gloas", CompiledPreset>> THEN "idle" ELSE "exit2"
  /\ UNCHANGED <<case, gone, req, reads, state, next, result, verdict>>

(* The next line of standard input.  An empty line is skipped, which the   *)
(* code decides before it trims: a line of carriage returns is answered.   *)
TakeLine ==
  /\ pc = "idle"
  /\ \E c \in Cases : c.line # <<>> /\ case' = c
  /\ pc' = "respond"
  /\ UNCHANGED <<gone, req, reads, state, next, result, verdict>>

(* End of input or a read error: the loop ends and main returns. *)
StdinEnds ==
  /\ pc = "idle"
  /\ pc' = "exit0"
  /\ UNCHANGED <<case, gone, req, reads, state, next, result, verdict>>

(* respond: dispatch on the first field, then parse. *)
Respond ==
  LET line == case.line
      first == line[1]
      malformed == Answer(Bug("bad request line")) /\ UNCHANGED req
  IN
  /\ pc = "respond"
  /\ UNCHANGED <<case, gone, reads, state, next, result>>
  /\ \/ /\ first \in DOMAIN StateRunner
        /\ ~CaseRequestParses(line)
        /\ malformed
     \/ /\ first \in DOMAIN StateRunner
        /\ CaseRequestParses(line)
        /\ req' = CaseRequest(line)
        /\ Goto(StateRunner[first])
     \/ /\ first = "ssz_static"
        /\ ~SszStaticRequestParses(line)
        /\ malformed
     \/ /\ first = "ssz_static"
        /\ SszStaticRequestParses(line)
        /\ req' = SszStaticRequest(line)
        /\ Goto("ssz_static")
     \/ /\ first \in UnmodeledUpstream
        /\ Answer(Fail("skip", "unmodeled upstream"))
        /\ UNCHANGED req
     \/ /\ first \in Planned
        /\ Answer(Fail("todo", "unsupported"))
        /\ UNCHANGED req
     \/ /\ first \notin DOMAIN StateRunner \cup {"ssz_static"}
                          \cup UnmodeledUpstream \cup Planned
        /\ Answer(Fail("todo", "unsupported"))
        /\ UNCHANGED req

(* Write the response line; a closed output ends the loop. *)
WriteVerdict ==
  /\ pc = "write"
  /\ pc' \in {"idle", "exit0"}
  /\ Idle

(* The harness removes a file of the case (external). *)
Vanish(p) ==
  /\ case # None
  /\ verdict = None
  /\ Cardinality(gone) < MaxVanish
  /\ p \notin gone
  /\ gone' = gone \cup {p}
  /\ UNCHANGED <<pc, case, req, reads, state, next, result, verdict>>

Work ==
  \/ Boot
  \/ Respond
  \/ OperationsRoute \/ EpochRoute \/ BlocksRoute
  \/ DecodePre
  \/ OperationsApply \/ EpochApply
  \/ ApplyBlock \/ BlocksApplied \/ ApplySlots
  \/ Finish
  \/ SszRun
  \/ WriteVerdict

Next ==
  \/ Work
  \/ TakeLine
  \/ StdinEnds
  \/ \E p \in Path : Vanish(p)

Spec == Init /\ [][Next]_vars

(* The program is one thread that never waits except for input. *)
FairSpec == Spec /\ WF_vars(Work)
=============================================================================
