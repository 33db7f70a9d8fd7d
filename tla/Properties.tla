----------------------------- MODULE Properties -----------------------------
(***************************************************************************)
(* The correctness properties of the runner.                               *)
(***************************************************************************)
EXTENDS Main

Labels == {"boot", "idle", "respond", "operations", "epoch_processing",
           "blocks", "ssz_static", "decode_pre", "apply", "finish", "write",
           "exit0", "exit2"}

(* Where no case is being answered. *)
Waiting == {"boot", "idle", "exit0", "exit2"}

(* Where a state-transition runner has a request, and where it has a state *)
(* whose transition is still to be made. *)
Routing == {"operations", "epoch_processing", "blocks"}

Running == {"decode_pre", "apply", "finish"}

CaseRequests ==
  [runner : DOMAIN StateRunner, handler : STRING,
   pre : SUBSET STRING, post : SUBSET STRING,
   bls_setting : Nat, blocks_count : Nat, inputs : Seq(STRING)]

SszRequests ==
  [runner : {"ssz_static"}, handler : STRING, serialized : STRING,
   root_hex : RootTexts]

(***************************************************************************)
(* The type invariant, which also says which locals are live at which step *)
(* of main and of a runner: a case keeps nothing of the case before it.    *)
(***************************************************************************)
TypeOK ==
  /\ pc \in Labels
  /\ gone \subseteq Path
  /\ reads \in Seq(STRING)
  /\ next \in Nat \ {0}
  /\ pc \in Waiting => case = None /\ gone = {}
  /\ pc \notin Waiting => case \in Cases
  /\ pc \in Waiting \cup {"respond"} => req = None
  /\ pc \in Routing \cup Running => req \in CaseRequests
  /\ pc = "ssz_static" => req \in SszRequests
  /\ pc = "write" => req \in CaseRequests \cup SszRequests \cup {None}
  /\ pc \in {"apply", "finish"} => state \in BeaconStates
  /\ pc = "write" => state \in BeaconStates \cup {None}
  /\ pc \notin {"apply", "finish", "write"} => state = None
  /\ pc = "finish" => result \in Results
  /\ pc = "write" => result \in Results \cup {None}
  /\ pc \notin {"finish", "write"} => result = None
  /\ pc = "write" => verdict \in Verdicts
  /\ pc # "write" => verdict = None
  /\ pc \notin {"apply", "finish", "write"} => reads = <<>> /\ next = 1

-----------------------------------------------------------------------------
(* Coverage, read off the request line alone. *)

Supported(line) ==
  \/ line[1] = "operations" /\ line[2] \in InputHandlers \cup StateOnlyHandlers
  \/ line[1] = "epoch_processing" /\ line[2] \in EpochHandlers
  \/ line[1] = "ssz_static" /\ line[2] \in Containers
  \/ <<line[1], line[2]>> \in BlocksShape \cup SlotsShape

BlsServed(line) ==
  line[1] \in {"ssz_static", "epoch_processing"} \/ Numeral[line[5]] # 2

(* A blocks request says how many inputs it has; a slots request has one. *)
Consistent(line) ==
  /\ <<line[1], line[2]>> \in BlocksShape =>
       Numeral[line[6]] = Len(InputPaths(line[8]))
  /\ <<line[1], line[2]>> \in SlotsShape => Len(InputPaths(line[8])) = 1

WellFormed(line) ==
  \/ line[1] = "ssz_static" /\ SszStaticRequestParses(line)
  \/ line[1] \in DOMAIN StateRunner /\ CaseRequestParses(line)

Runnable(line) ==
  WellFormed(line) /\ Supported(line) /\ BlsServed(line) /\ Consistent(line)

(***************************************************************************)
(* Every gate precedes every read: once a file of the case has been        *)
(* opened, the request is well formed, its handler is known, its           *)
(* bls_setting can be served and its counts agree.  A case that answers    *)
(* todo, skip or bug at a gate therefore never depends on the files it     *)
(* names ("route before any filesystem I/O", src/operations.rs:133,        *)
(* src/blocks.rs:141 and 150, src/epoch.rs).                               *)
(***************************************************************************)
RoutedBeforeIo == reads # <<>> => Runnable(case.line)

(***************************************************************************)
(* The inductive invariant behind both: what the request in memory has to  *)
(* do with the line, and how far the gates have been passed.               *)
(***************************************************************************)
Gated ==
  /\ pc \in Routing \cup Running =>
       /\ case.line[1] \in DOMAIN StateRunner
       /\ CaseRequestParses(case.line)
       /\ req = CaseRequest(case.line)
  /\ pc \in Routing => pc = StateRunner[case.line[1]]
  /\ pc = "ssz_static" =>
       /\ case.line[1] = "ssz_static"
       /\ SszStaticRequestParses(case.line)
       /\ req = SszStaticRequest(case.line)
  /\ pc \in Running => Runnable(case.line)
  /\ RoutedBeforeIo

IInv == TypeOK /\ Gated

-----------------------------------------------------------------------------
(* The file was not there when the case was asked. *)
NeverThere(p) == p \in Path => case.files[p].kind = "missing"

(***************************************************************************)
(* Of several things that are wrong with a case, the answer names the file *)
(* that is opened first: "a malformed root on an unreadable case still     *)
(* surfaces the read error first" (src/ssz_static.rs:199), and in the      *)
(* state-transition runners a pre-state that cannot be read comes before   *)
(* whatever is wrong with the inputs or the post (src/runner.rs:32).       *)
(***************************************************************************)
FirstFileBlamedFirst ==
  verdict # None /\ Runnable(case.line) =>
    /\ case.line[1] = "ssz_static" /\ NeverThere(case.line[3]) =>
         verdict = Bug("read serialized")
    /\ case.line[1] # "ssz_static" =>
         \A p \in OptPath(case.line[3]) : NeverThere(p) => verdict = Bug("read pre")

-----------------------------------------------------------------------------
(* What a state-transition runner opens for a request, in order. *)

Singleton(option) == IF option = {} THEN <<>> ELSE <<CHOOSE p \in option : TRUE>>

InputsUsed(r) ==
  IF r.runner = "epoch_processing" \/ r.handler \in StateOnlyHandlers THEN <<>>
  ELSE IF r.handler \in InputHandlers
    THEN IF r.inputs = <<>> THEN <<>> ELSE <<r.inputs[1]>>
  ELSE r.inputs

Before(r) == Singleton(r.pre) \o InputsUsed(r)

(***************************************************************************)
(* The files of a case are opened in wire order: pre, inputs, post.  The   *)
(* post is opened last and, unless the transition failed, after every      *)
(* input the handler consumes (read_input of src/runner.rs and its         *)
(* callers).                                                               *)
(***************************************************************************)
ReadsInWireOrder ==
  req # None /\ case.line[1] \in DOMAIN StateRunner =>
    \/ IsPrefix(reads, Before(req))
    \/ /\ result # None
       /\ \E n \in 1 .. Len(Before(req)) :
            /\ reads = SubSeq(Before(req), 1, n) \o Singleton(req.post)
            /\ result.ok => n = Len(Before(req))

(***************************************************************************)
(* A transition that ended well applied every input of a blocks case, each *)
(* once, in wire order and in strictly increasing slots, to the pre-state  *)
(* ("a mis-ordered sequence can't pass silently", src/blocks.rs:89).       *)
(***************************************************************************)
BlockSlots(r, k) ==
  IF k = 0 THEN case.files[CHOOSE p \in r.pre : TRUE].st.slot
           ELSE case.files[r.inputs[k]].slot

AcceptedMeansAllApplied ==
  result # None /\ result # Err("transition") /\ Shape \in BlocksShape =>
    /\ state.log = case.files[CHOOSE p \in req.pre : TRUE].st.log \o req.inputs
    /\ \A k \in 1 .. req.blocks_count :
         BlockSlots(req, k - 1) < BlockSlots(req, k)
    /\ state.slot = BlockSlots(req, req.blocks_count)

(***************************************************************************)
(* After a transition error nothing more is decoded into or applied to the *)
(* state, no further input is opened, and the case cannot end in a verdict *)
(* that compares the half-changed state with the expected one: finish      *)
(* serializes only on success (src/runner.rs:52).                          *)
(***************************************************************************)
FinalIfErrored ==
  pc # "write" /\ result # None /\ ~result.ok =>
    /\ UNCHANGED <<state, next, result>>
    /\ reads' \in {reads} \cup {Append(reads, p) : p \in req.post}
    /\ pc' = "write" => verdict'.bucket \in {"reject", "reject-valid", "bug"}

ErroredStateIsFinal == [][FinalIfErrored]_vars

(***************************************************************************)
(* Slots only move forward, by a blob-given advance only within the sane   *)
(* range, and never past the end of a u64 (src/blocks.rs:76 and 118).      *)
(***************************************************************************)
AdvancesForward ==
  pc = "apply" /\ state' # state /\ result' # Err("transition") =>
    /\ state'.slot \in state.slot .. U64Max
    /\ Shape \in SlotsShape =>
         state'.slot - state.slot \in 1 .. 2 * SlotsPerHistoricalRoot

AdvanceBounded == [][AdvancesForward]_vars

-----------------------------------------------------------------------------
(* The runner status table of README.md:21-26: the answers of each runner. *)
StateAnswers ==
  {<<TRUE, "ok">>, <<TRUE, "reject">>, <<FALSE, "mismatch">>,
   <<FALSE, "reject-valid">>, <<FALSE, "accept-invalid">>, <<FALSE, "todo">>,
   <<FALSE, "bug">>}

DocumentedAnswers(first) ==
  CASE first \in DOMAIN StateRunner -> StateAnswers
    [] first = "ssz_static" ->
         StateAnswers \ {<<TRUE, "reject">>, <<FALSE, "accept-invalid">>}
    [] first \in {"fork", "genesis", "transition"} -> {<<FALSE, "skip">>}
    [] OTHER -> {<<FALSE, "todo">>}

(***************************************************************************)
(* Each runner answers only what the status table documents for it, and a  *)
(* valid vector, one that names its post, is never answered as an invalid  *)
(* one nor the other way round.                                            *)
(***************************************************************************)
BucketsAsDocumented ==
  verdict # None =>
    /\ <<verdict.passed, verdict.bucket>> \in DocumentedAnswers(case.line[1])
    /\ verdict.bucket \in {"reject", "accept-invalid"} => req.post = {}

-----------------------------------------------------------------------------
(* The promise to the harness. *)

(* The handlers each runner serves. *)
Served ==
  [operations       |-> InputHandlers \cup StateOnlyHandlers,
   epoch_processing |-> EpochHandlers,
   sanity           |-> {"blocks", "slots"},
   finality         |-> {"finality"},
   random           |-> {"random"},
   ssz_static       |-> Containers]

C == INSTANCE Contract WITH
       asked    <- case,
       gone     <- gone,
       answer   <- IF verdict = None THEN None
                   ELSE [passed |-> verdict.passed, bucket |-> verdict.bucket],
       open     <- pc \notin {"exit0", "exit2"},
       Skipped  <- {"fork", "genesis", "transition"},
       Handlers <- Served,
       BlsGated <- {"operations", "sanity", "finality", "random"},
       MaxAdvance <- 2 * SlotsPerHistoricalRoot

(***************************************************************************)
(* The runner implements its contract: every step is a step of Contract or *)
(* invisible to the harness, so the answer to a case is the honest verdict *)
(* or, when a file it names was removed meanwhile, bug.                    *)
(***************************************************************************)
ImplementsContract == C!Spec

Answered == [passed |-> verdict.passed, bucket |-> verdict.bucket]

(* The state after the first k - 1 inputs. *)
Reached(k) ==
  [slot |-> C!SlotBefore(case, req, k),
   log  |-> C!PreOf(case, req).log \o SubSeq(req.inputs, 1, k - 1)]

(***************************************************************************)
(* The inductive invariant behind the promise: the state in memory and the *)
(* files opened are at every step those of the inputs taken so far, the    *)
(* result is the outcome the contract determines, and the verdict one that *)
(* it allows.                                                              *)
(***************************************************************************)
AppliedSoFar ==
  pc = "apply" =>
    /\ C!HasPre(case, req)
    /\ next \in 1 .. Len(Before(req))
    /\ Shape \notin BlocksShape => next = 1
    /\ \A k \in 1 .. next - 1 : C!Taken(case, req, k)
    /\ state = Reached(next)
    /\ reads = SubSeq(Before(req), 1, next)

Concluded ==
  pc = "finish" =>
    /\ C!Outcome(case, req) = IF result.ok THEN "accept" ELSE "reject"
    /\ result.ok => state = C!PostState(case, req)
    /\ Shape \in BlocksShape => result \in {Ok, Err("transition")}
    /\ \E n \in 1 .. Len(Before(req)) :
         /\ reads = SubSeq(Before(req), 1, n)
         /\ result.ok => n = Len(Before(req))

AnsweredHonestly ==
  pc = "write" =>
    /\ Answered \in C!Allowed(case, gone)
    /\ case.line[1] \in DOMAIN StateRunner /\ CaseRequestParses(case.line) =>
         req = CaseRequest(case.line)

OnTrack ==
  /\ AppliedSoFar
  /\ Concluded
  /\ AnsweredHonestly
  /\ ReadsInWireOrder
  /\ AcceptedMeansAllApplied

(***************************************************************************)
(* Every request line taken is answered: no panic, error or early return   *)
(* ends the loop before the response line is written (src/main.rs:116).    *)
(***************************************************************************)
EveryCaseAnswered == pc = "respond" ~> pc = "write"

-----------------------------------------------------------------------------
(* What the documentation says and the code does not do. *)

(***************************************************************************)
(* "An inconsistent request is a bug caught before reads"                  *)
(* (src/blocks.rs:150), and there is "one operation per entry for          *)
(* operations tests" (src/protocol.rs:38): an operations request that      *)
(* carries another number of inputs than the one its handler decodes is    *)
(* answered bug.                                                           *)
(***************************************************************************)
InconsistentRequestIsBug ==
  verdict # None /\ req # None /\ case.line[1] = "operations"
    /\ req.bls_setting # 2 /\ req.handler \in InputHandlers
    /\ Len(req.inputs) # 1
  => verdict.bucket = "bug"

(***************************************************************************)
(* "bug is reserved for harness-contract violations only" - malformed      *)
(* lines, file I/O errors, pre-state decode failures, panics               *)
(* (.gemini/styleguide.md:15): a case whose files all decode, and in which *)
(* nothing panics, is not answered bug once the client accepted it.        *)
(***************************************************************************)
BugMeansHarnessFault ==
  verdict # None /\ result = Ok /\ gone = {} /\ verdict # Panic
    /\ (\A p \in req.post : Readable(p))
  => verdict.bucket # "bug"

(***************************************************************************)
(* "- marks an absent field" (src/protocol.rs:2, README.md:11): a request  *)
(* whose inputs field is - has no inputs.                                  *)
(***************************************************************************)
DashIsAbsent ==
  req # None /\ case.line[1] \in DOMAIN StateRunner
    /\ case.line[8] = <<Absent>>
  => req.inputs = <<>>

(***************************************************************************)
(* "A mis-ordered sequence can't pass silently" (src/blocks.rs:89): two    *)
(* blocks that the client takes in the order of their slots are not        *)
(* answered pass when they come the other way round.                       *)
(***************************************************************************)
MisorderedCannotPass ==
  verdict # None /\ req # None /\ <<case.line[1], case.line[2]>> \in BlocksShape
    /\ Len(req.inputs) = 2
    /\ (\A i \in 1 .. 2 : /\ DecodeFile(req.inputs[i], "block") = "decoded"
                          /\ Content(req.inputs[i]).effect = "accept"
                          /\ Content(req.inputs[i]).slot > 0)
    /\ Content(req.inputs[2]).slot < Content(req.inputs[1]).slot
  => ~verdict.passed
=============================================================================
