----------------------------- MODULE MainProofs -----------------------------
(***************************************************************************)
(* Proofs about the runner, for every set of cases and every value of the  *)
(* constants.                                                              *)
(***************************************************************************)
EXTENDS NumberProofs

-----------------------------------------------------------------------------
(* What the helpers return. *)

(* A file that is gone or was never there reads as missing; any other *)
(* reads as one of the contents the case gives it.                    *)
LEMMA ContentType ==
  ASSUME case \in Cases, NEW p
  PROVE  Content(p) \in Contents
<1>1. case.files \in [Path -> Contents]
  BY CasesAssumption DEF CaseOK
<1>2. [kind |-> "missing"] \in Contents
  BY DEF Contents
<1> QED
  BY <1>1, <1>2 DEF Content

(* A file decoded as a state, a block, an operation holds one. *)
LEMMA DecodedType ==
  ASSUME case \in Cases, NEW p
  PROVE  /\ DecodeFile(p, "state") = "decoded" => Content(p).st \in BeaconStates
         /\ DecodeFile(p, "block") = "decoded" => Content(p).slot \in 0 .. U64Max
<1>1. Content(p) \in Contents
  BY ContentType
<1>2. Content(p).kind = "state" => Content(p).st \in BeaconStates
  BY <1>1 DEF Contents
<1>3. Content(p).kind = "block" => Content(p).slot \in 0 .. U64Max
  BY <1>1 DEF Contents
<1> QED
  BY <1>2, <1>3 DEF DecodeFile

(* A 10-field line that parses is a well-typed request. *)
LEMMA CaseRequestType ==
  ASSUME NEW c \in Cases, CaseRequestParses(c.line),
         c.line[1] \in DOMAIN StateRunner
  PROVE  CaseRequest(c.line) \in CaseRequests
<1> DEFINE line == c.line
<1>1. /\ \A i \in {2, 3, 4, 5, 6, 7, 9, 10} : line[i] \in STRING
      /\ line[8] \in Seq(STRING)
  BY CasesAssumption DEF CaseOK, LineOK, CaseRequestParses, HasFields
<1>2. Numeral[line[5]] \in Nat /\ Numeral[line[6]] \in Nat
  BY WordAssumption DEF CaseRequestParses, Parses
<1>3. InputPaths(line[8]) \in Seq(STRING)
  <2>1. <<>> \in Seq(STRING)
    OBVIOUS
  <2> QED
    BY <1>1, <2>1, Zenon DEF InputPaths
<1>4. OptPath(line[3]) \in SUBSET STRING /\ OptPath(line[4]) \in SUBSET STRING
  BY <1>1 DEF OptPath
<1> QED
  BY <1>1, <1>2, <1>3, <1>4 DEF CaseRequest, CaseRequests

(* A 4-field ssz_static line is a well-typed request. *)
LEMMA SszRequestType ==
  ASSUME NEW c \in Cases, SszStaticRequestParses(c.line),
         c.line[1] = "ssz_static"
  PROVE  SszStaticRequest(c.line) \in SszRequests
  BY CasesAssumption DEF CaseOK, LineOK, SszStaticRequestParses, HasFields,
     SszStaticRequest, SszRequests

(* Verdicts by construction. *)
LEMMA FailType ==
  ASSUME NEW b \in Buckets, NEW d \in Details
  PROVE  Fail(b, d) \in Verdicts /\ Pass(b, d) \in Verdicts
  BY DEF Fail, Pass, Verdicts

LEMMA BugType ==
  ASSUME NEW d \in Details
  PROVE  Bug(d) \in Verdicts /\ Panic \in Verdicts
  BY DEF Bug, Panic, Fail, Verdicts, Buckets, Details

(* The verdict table only gives verdicts. *)
LEMMA ClassifyType ==
  ASSUME NEW r \in Results, NEW g, NEW e
  PROVE  Classify(r, g, e) \in Verdicts
<1>1. r.err \in Details
  BY DEF Results, Details
<1>2. /\ Pass("ok", "") \in Verdicts
      /\ Fail("accept-invalid", "ran clean") \in Verdicts
      /\ Fail("mismatch", "post differs") \in Verdicts
      /\ Pass("reject", r.err) \in Verdicts
      /\ Fail("reject-valid", r.err) \in Verdicts
  BY <1>1, FailType DEF Buckets, Details, Errors
<1> QED
  BY <1>2 DEF Classify

(* So does one container. *)
LEMMA RunOneType ==
  ASSUME NEW p, NEW root
  PROVE  RunOne(p, root) \in Verdicts
<1>1. /\ Panic \in Verdicts
      /\ Pass("ok", "") \in Verdicts
      /\ Fail("reject-valid", "decode") \in Verdicts
      /\ Fail("reject-valid", "re-serialize") \in Verdicts
      /\ Fail("reject-valid", "hash_tree_root") \in Verdicts
      /\ Fail("mismatch", "round-trip differs") \in Verdicts
      /\ Fail("mismatch", "root") \in Verdicts
  BY BugType, FailType DEF Buckets, Details, Errors
<1> QED
  BY <1>1 DEF RunOne

(* A state stays one when an input, or a failure, is logged. *)
LEMMA StateType ==
  ASSUME NEW s \in BeaconStates, NEW mark \in STRING \cup {None}
  PROVE  [s EXCEPT !.log = Append(@, mark)] \in BeaconStates
<1>1. Append(s.log, mark) \in Seq(STRING \cup {None})
  BY DEF BeaconStates
<1> QED
  BY <1>1 DEF BeaconStates

LEMMA PartialType ==
  ASSUME NEW s \in BeaconStates
  PROVE  Partial(s) \in BeaconStates
  BY StateType DEF Partial
-----------------------------------------------------------------------------
(* Type correctness. *)

LEMMA ResultType ==
  /\ Ok \in Results
  /\ Err("transition") \in Results
  /\ Err("decode op") \in Results
  BY DEF Ok, Err, Results, Errors

(* A step of a running transition that only touches what it may. *)
LEMMA ApplyType ==
  ASSUME TypeOK, pc = "apply", UNCHANGED <<case, gone, req>>,
         reads' \in Seq(STRING), next' \in Nat \ {0},
         state' \in BeaconStates,
         \/ pc' = "apply" /\ UNCHANGED <<result, verdict>>
         \/ pc' = "finish" /\ result' \in Results /\ UNCHANGED verdict
         \/ pc' = "write" /\ verdict' \in Verdicts /\ UNCHANGED result
  PROVE  TypeOK'
  BY DEF TypeOK, Labels, Waiting, Routing, Running

(* What Transition leaves behind is what ApplyType asks for. *)
LEMMA TransitionType ==
  ASSUME NEW e, NEW post \in BeaconStates, state \in BeaconStates,
         Transition(e, post)
  PROVE  /\ state' \in BeaconStates
         /\ \/ pc' = "finish" /\ result' \in Results /\ UNCHANGED verdict
            \/ pc' = "write" /\ verdict' \in Verdicts /\ UNCHANGED result
<1>1. Panic \in Verdicts /\ Partial(state) \in BeaconStates
  BY BugType, PartialType DEF Details
<1> QED
  BY <1>1, ResultType DEF Transition, Goto, Answer

(* What TypeOK says of a transition that is about to be made. *)
LEMMA ApplyFacts ==
  ASSUME TypeOK, pc = "apply"
  PROVE  /\ case \in Cases
         /\ req \in CaseRequests
         /\ req.inputs \in Seq(STRING)
         /\ req.handler \in STRING
         /\ state \in BeaconStates
         /\ reads \in Seq(STRING)
         /\ next \in Nat \ {0}
  BY DEF TypeOK, Waiting, Running, CaseRequests

LEMMA FirstType ==
  ASSUME NEW S, NEW s \in Seq(S), s # <<>>
  PROVE  s[1] \in S
  OBVIOUS

LEMMA AppendType ==
  ASSUME NEW S, NEW s \in Seq(S), NEW t \in S
  PROVE  Append(s, t) \in Seq(S)
  OBVIOUS

LEMMA OperationsApplyType ==
  ASSUME TypeOK, OperationsApply
  PROVE  TypeOK'
<1>1. /\ pc = "apply" /\ UNCHANGED <<case, gone, req, next>>
      /\ Bug("read op") \in Verdicts /\ Panic \in Verdicts
  BY BugType DEF OperationsApply, Details
<1>2. CASE req.handler \in InputHandlers /\ ApplyInput
  <2>1. CASE req.inputs = <<>> /\ UNCHANGED <<reads, state>>
                /\ result' = Err("decode op") /\ Goto("finish")
    BY <1>1, <2>1, ApplyFacts, ResultType, ApplyType DEF Goto
  <2>2. CASE req.inputs # <<>> /\ reads' = Append(reads, OpInput)
    <3>1. OpInput \in STRING
      BY <1>1, <2>2, ApplyFacts, FirstType DEF OpInput
    <3>2. reads' \in Seq(STRING)
      BY <1>1, <2>2, <3>1, ApplyFacts, AppendType
    <3>3. CASE Answer(Bug("read op")) /\ UNCHANGED <<state, result>>
      BY <1>1, <3>2, <3>3, ApplyFacts, ApplyType DEF Answer
    <3>4. CASE Answer(Panic) /\ UNCHANGED <<state, result>>
      BY <1>1, <3>2, <3>4, ApplyFacts, ApplyType DEF Answer
    <3>5. CASE result' = Err("decode op") /\ Goto("finish") /\ UNCHANGED state
      BY <1>1, <3>2, <3>5, ApplyFacts, ResultType, ApplyType DEF Goto
    <3>6. CASE Transition(Content(OpInput).effect, AppliedTo(state, OpInput))
      <4>1. AppliedTo(state, OpInput) \in BeaconStates
        BY <1>1, <3>1, ApplyFacts, StateType DEF AppliedTo
      <4> QED
        BY <1>1, <3>2, <3>6, <4>1, ApplyFacts, TransitionType, ApplyType
    <3>7. \/ Answer(Bug("read op")) /\ UNCHANGED <<state, result>>
          \/ Answer(Panic) /\ UNCHANGED <<state, result>>
          \/ result' = Err("decode op") /\ Goto("finish") /\ UNCHANGED state
          \/ Transition(Content(OpInput).effect, AppliedTo(state, OpInput))
      BY <1>2, <2>2, Zenon DEF ApplyInput
    <3> QED
      BY <3>3, <3>4, <3>5, <3>6, <3>7
  <2>3. \/ /\ req.inputs = <<>> /\ UNCHANGED <<reads, state>>
           /\ result' = Err("decode op") /\ Goto("finish")
        \/ req.inputs # <<>> /\ reads' = Append(reads, OpInput)
    BY <1>2, Zenon DEF ApplyInput
  <2> QED
    BY <2>1, <2>2, <2>3
<1>3. CASE Transition(case.run, AppliedTo(state, req.handler)) /\ UNCHANGED reads
  <2>1. AppliedTo(state, req.handler) \in BeaconStates
    BY <1>1, ApplyFacts, StateType DEF AppliedTo
  <2> QED
    BY <1>1, <1>3, <2>1, ApplyFacts, TransitionType, ApplyType
<1> QED
  BY <1>2, <1>3 DEF OperationsApply

LEMMA EpochApplyType ==
  ASSUME TypeOK, EpochApply
  PROVE  TypeOK'
<1>1. pc = "apply" /\ UNCHANGED <<case, gone, req, reads, next>>
  BY DEF EpochApply
<1>2. [state EXCEPT !.log = Append(@, req.handler)] \in BeaconStates
  BY <1>1, ApplyFacts, StateType
<1> QED
  BY <1>1, <1>2, ApplyFacts, TransitionType, ApplyType DEF EpochApply
LEMMA ApplyBlockType ==
  ASSUME TypeOK, ApplyBlock
  PROVE  TypeOK'
<1> DEFINE p == BlockInput
<1>1. /\ pc = "apply" /\ UNCHANGED <<case, gone, req>>
      /\ ~(next > Len(req.inputs))
      /\ reads' = Append(reads, p)
  BY DEF ApplyBlock, AllBlocksApplied
<1>2. /\ Bug("read block") \in Verdicts
      /\ Bug("decode block") \in Verdicts
      /\ Panic \in Verdicts
  BY BugType DEF Details
<1>3. p \in STRING
  BY <1>1, ApplyFacts DEF BlockInput
<1>4. reads' \in Seq(STRING)
  BY <1>1, <1>3, ApplyFacts, AppendType
<1>5. CASE /\ \/ Answer(Bug("read block"))
              \/ Answer(Bug("decode block"))
              \/ Answer(Panic)
           /\ UNCHANGED <<state, next, result>>
  BY <1>1, <1>2, <1>4, <1>5, ApplyFacts, ApplyType DEF Answer
<1>6. CASE /\ DecodeFile(p, "block") = "decoded"
           /\ state' = [slot |-> Content(p).slot, log |-> Append(state.log, p)]
           /\ next' = next + 1
           /\ UNCHANGED <<pc, result, verdict>>
  <2>1. Append(state.log, p) \in Seq(STRING \cup {None})
    BY <1>1, <1>3, ApplyFacts, AppendType DEF BeaconStates
  <2>2. Content(p).slot \in 0 .. U64Max
    BY <1>1, <1>6, ApplyFacts, DecodedType
  <2>3. state' \in BeaconStates
    BY <1>6, <2>1, <2>2 DEF BeaconStates
  <2> QED
    BY <1>1, <1>4, <1>6, <2>3, ApplyFacts, ApplyType
<1>7. CASE RejectBlock
  BY <1>1, <1>4, <1>7, ApplyFacts, ResultType, PartialType, ApplyType
     DEF RejectBlock, Goto
<1>8. \/ Answer(Bug("read block")) /\ UNCHANGED <<state, next, result>>
      \/ Answer(Bug("decode block")) /\ UNCHANGED <<state, next, result>>
      \/ Answer(Panic) /\ UNCHANGED <<state, next, result>>
      \/ /\ DecodeFile(p, "block") = "decoded"
         /\ state' = [slot |-> Content(p).slot, log |-> Append(state.log, p)]
         /\ next' = next + 1
         /\ UNCHANGED <<pc, result, verdict>>
      \/ RejectBlock
  BY DEF ApplyBlock
<1> QED
  BY <1>5, <1>6, <1>7, <1>8

LEMMA BlocksAppliedType ==
  ASSUME TypeOK, BlocksApplied
  PROVE  TypeOK'
  BY ApplyFacts, ResultType, ApplyType DEF BlocksApplied, Goto

LEMMA ApplySlotsType ==
  ASSUME IInv, ApplySlots
  PROVE  TypeOK'
<1> DEFINE p == req.inputs[1]
           advance == SlotsCount(Content(p).bytes)
<1>0. TypeOK /\ Gated
  BY DEF IInv
<1>1. /\ pc = "apply" /\ UNCHANGED <<case, gone, req, next>>
      /\ reads' = Append(reads, p)
  BY DEF ApplySlots
<1>2. /\ Bug("read slots_count") \in Verdicts
      /\ Bug("slots blob") \in Verdicts
      /\ Bug("slots advance") \in Verdicts
      /\ Bug("overflows u64") \in Verdicts
  BY BugType DEF Details
<1>3. p \in STRING
  <2>1. req = CaseRequest(case.line) /\ Consistent(case.line)
    BY <1>0, <1>1 DEF Gated, Running, Runnable
  <2>2. Shape = <<case.line[1], case.line[2]>>
    BY <2>1 DEF Shape, CaseRequest
  <2>3. Len(req.inputs) = 1
    BY <2>1, <2>2 DEF Consistent, CaseRequest, ApplySlots
  <2> QED
    BY <1>0, <1>1, <2>3, ApplyFacts, FirstType
<1>4. reads' \in Seq(STRING)
  BY <1>0, <1>1, <1>3, ApplyFacts, AppendType
<1>5. CASE /\ \/ Answer(Bug("read slots_count"))
              \/ Answer(Bug("slots blob"))
              \/ Answer(Bug("slots advance"))
              \/ Answer(Bug("overflows u64"))
           /\ UNCHANGED <<state, result>>
  BY <1>0, <1>1, <1>2, <1>4, <1>5, ApplyFacts, ApplyType DEF Answer
<1>6. CASE /\ SaneAdvance(advance)
           /\ state.slot + advance <= U64Max
           /\ Transition(case.run, [state EXCEPT !.slot = @ + advance])
  <2>1. advance \in Nat
    BY <1>6, PresetAssumption DEF SaneAdvance, MaxSlotsAdvance
  <2>2. state.slot + advance \in 0 .. U64Max
    BY <1>0, <1>1, <1>6, <2>1, U64MaxType, ApplyFacts DEF BeaconStates
  <2>3. [state EXCEPT !.slot = @ + advance] \in BeaconStates
    BY <1>0, <1>1, <2>2, ApplyFacts DEF BeaconStates
  <2> QED
    BY <1>0, <1>1, <1>4, <1>6, <2>3, ApplyFacts, TransitionType, ApplyType
<1> QED
  BY <1>5, <1>6, Zenon DEF ApplySlots

LEMMA FinishType ==
  ASSUME TypeOK, Finish
  PROVE  TypeOK'
<1>1. pc = "finish" /\ UNCHANGED <<case, gone, req, state, next, result>>
  BY DEF Finish
<1>2. /\ case \in Cases /\ req \in CaseRequests /\ result \in Results
      /\ state \in BeaconStates /\ reads \in Seq(STRING)
  BY <1>1 DEF TypeOK, Waiting, Running
<1>3. pc' = "write" /\ verdict' \in Verdicts
  <2>1. /\ Bug("serialize post") \in Verdicts
        /\ Bug("read post") \in Verdicts
        /\ Panic \in Verdicts
    BY BugType DEF Details
  <2>2. /\ Classify(result, Serialized(state), {}) \in Verdicts
        /\ \A p : Judge(p) \in Verdicts
    BY <1>2, <2>1, ClassifyType DEF Judge
  <2> QED
    BY <2>1, <2>2 DEF Finish, Answer
<1>4. reads' \in Seq(STRING)
  <2>1. CASE UNCHANGED reads
    BY <1>2, <2>1
  <2>2. CASE \E p \in req.post : reads' = Append(reads, p)
    BY <1>2, <2>2, AppendType DEF CaseRequests
  <2> QED
    BY <2>1, <2>2 DEF Finish
<1> QED
  BY <1>1, <1>2, <1>3, <1>4 DEF TypeOK, Labels, Waiting, Routing, Running

LEMMA DecodePreType ==
  ASSUME TypeOK, DecodePre
  PROVE  TypeOK'
<1>1. pc = "decode_pre" /\ UNCHANGED <<case, gone, req, next, result>>
  BY DEF DecodePre
<1>2. /\ case \in Cases /\ req \in CaseRequests /\ reads \in Seq(STRING)
      /\ state = None /\ verdict = None
  BY <1>1 DEF TypeOK, Waiting, Running
<1>3. reads' \in Seq(STRING)
  <2>1. CASE UNCHANGED reads
    BY <1>2, <2>1
  <2>2. CASE \E p \in req.pre : reads' = Append(reads, p)
    BY <1>2, <2>2, AppendType DEF CaseRequests
  <2> QED
    BY <2>1, <2>2 DEF DecodePre
<1>4. \/ pc' = "write" /\ verdict' \in Verdicts /\ state' = None
      \/ pc' = "apply" /\ UNCHANGED verdict /\ state' \in BeaconStates
  <2>1. /\ Bug("case without a pre state") \in Verdicts
        /\ Bug("read pre") \in Verdicts
        /\ Bug("decode pre") \in Verdicts
        /\ Panic \in Verdicts
    BY BugType DEF Details
  <2> QED
    BY <1>2, <2>1, DecodedType DEF DecodePre, Answer, Goto
<1> QED
  BY <1>1, <1>2, <1>3, <1>4 DEF TypeOK, Labels, Waiting, Routing, Running
LEMMA SszRunType ==
  ASSUME TypeOK, SszRun
  PROVE  TypeOK'
<1>1. pc = "ssz_static" /\ UNCHANGED <<case, gone, req, state, next, result>>
  BY DEF SszRun
<1>2. req \in SszRequests /\ reads \in Seq(STRING)
  BY <1>1 DEF TypeOK
<1>3. reads' \in Seq(STRING)
  BY <1>2, AppendType DEF SszRun, ReadAndCheck, SszRequests
<1>4. pc' = "write" /\ verdict' \in Verdicts
  <2>1. /\ Fail("todo", "unsupported") \in Verdicts
        /\ Bug("read serialized") \in Verdicts
        /\ Bug("bad expected root") \in Verdicts
    BY FailType, BugType DEF Buckets, Details
  <2> QED
    BY <2>1, RunOneType DEF SszRun, ReadAndCheck, Answer
<1> QED
  BY <1>1, <1>2, <1>3, <1>4 DEF TypeOK, Labels, Waiting, Routing, Running

LEMMA RouteType ==
  ASSUME TypeOK, OperationsRoute \/ EpochRoute \/ BlocksRoute
  PROVE  TypeOK'
<1>1. pc \in Routing /\ UNCHANGED <<case, gone, req, reads, state, next, result>>
  BY DEF OperationsRoute, EpochRoute, BlocksRoute, Routing
<1>2. \/ pc' = "write" /\ verdict' \in Verdicts
      \/ pc' = "decode_pre" /\ UNCHANGED verdict
  <2>1. /\ Fail("todo", "unsupported") \in Verdicts
        /\ Fail("todo", "bls_setting=2") \in Verdicts
        /\ Bug("input count") \in Verdicts
    BY FailType, BugType DEF Buckets, Details
  <2> QED
    BY <2>1 DEF OperationsRoute, EpochRoute, BlocksRoute, Answer, Goto
<1> QED
  BY <1>1, <1>2 DEF TypeOK, Labels, Waiting, Routing, Running

LEMMA RespondType ==
  ASSUME TypeOK, Respond
  PROVE  TypeOK'
<1>1. pc = "respond" /\ UNCHANGED <<case, gone, reads, state, next, result>>
  BY DEF Respond
<1>2. case \in Cases
  BY <1>1 DEF TypeOK, Waiting
<1>3. CASE pc' = "write" /\ verdict' \in Verdicts /\ UNCHANGED req
  BY <1>1, <1>3 DEF TypeOK, Labels, Waiting, Routing, Running
<1>4. CASE /\ case.line[1] \in DOMAIN StateRunner
           /\ CaseRequestParses(case.line)
           /\ req' = CaseRequest(case.line)
           /\ Goto(StateRunner[case.line[1]])
  <2>1. req' \in CaseRequests
    BY <1>2, <1>4, CaseRequestType
  <2>2. pc' \in Routing /\ UNCHANGED verdict
    BY <1>4 DEF Goto, StateRunner, Routing
  <2> QED
    BY <1>1, <2>1, <2>2 DEF TypeOK, Labels, Waiting, Routing, Running
<1>5. CASE /\ case.line[1] = "ssz_static"
           /\ SszStaticRequestParses(case.line)
           /\ req' = SszStaticRequest(case.line)
           /\ Goto("ssz_static")
  <2>1. req' \in SszRequests
    BY <1>2, <1>5, SszRequestType
  <2> QED
    BY <1>1, <1>5, <2>1 DEF TypeOK, Labels, Waiting, Routing, Running, Goto
<1>6. /\ Fail("todo", "unsupported") \in Verdicts
      /\ Fail("skip", "unmodeled upstream") \in Verdicts
      /\ Bug("bad request line") \in Verdicts
  BY FailType, BugType DEF Buckets, Details
<1> QED
  BY <1>3, <1>4, <1>5, <1>6 DEF Respond, Answer

(***************************************************************************)
(* Every step keeps the types.  Only apply_slots needs more than the types *)
(* for it: its one input exists because the arity gate was passed.         *)
(***************************************************************************)
LEMMA TypeStep ==
  ASSUME IInv, [Next]_vars
  PROVE  TypeOK'
<1>1. TypeOK
  BY DEF IInv
<1>2. CASE Boot
  BY <1>1, <1>2 DEF TypeOK, Boot, Labels, Waiting, Routing, Running
<1>3. CASE Respond
  BY <1>1, <1>3, RespondType
<1>4. CASE OperationsRoute \/ EpochRoute \/ BlocksRoute
  BY <1>1, <1>4, RouteType
<1>5. CASE DecodePre
  BY <1>1, <1>5, DecodePreType
<1>6. CASE OperationsApply
  BY <1>1, <1>6, OperationsApplyType
<1>7. CASE EpochApply
  BY <1>1, <1>7, EpochApplyType
<1>8. CASE ApplyBlock
  BY <1>1, <1>8, ApplyBlockType
<1>9. CASE BlocksApplied
  BY <1>1, <1>9, BlocksAppliedType
<1>10. CASE ApplySlots
  BY <1>10, ApplySlotsType
<1>11. CASE Finish
  BY <1>1, <1>11, FinishType
<1>12. CASE SszRun
  BY <1>1, <1>12, SszRunType
<1>13. CASE WriteVerdict
  BY <1>1, <1>13 DEF TypeOK, WriteVerdict, Idle, Labels, Waiting, Routing, Running
<1>14. CASE TakeLine
  BY <1>1, <1>14 DEF TypeOK, TakeLine, Labels, Waiting, Routing, Running
<1>15. CASE StdinEnds
  BY <1>1, <1>15 DEF TypeOK, StdinEnds, Labels, Waiting, Routing, Running
<1>16. CASE \E p \in Path : Vanish(p)
  BY <1>1, <1>16 DEF TypeOK, Vanish, Labels, Waiting, Routing, Running
<1>17. CASE UNCHANGED vars
  BY <1>1, <1>17 DEF TypeOK, vars, Labels, Waiting, Routing, Running
<1> QED
  BY <1>2, <1>3, <1>4, <1>5, <1>6, <1>7, <1>8, <1>9, <1>10, <1>11, <1>12,
     <1>13, <1>14, <1>15, <1>16, <1>17 DEF Next, Work
-----------------------------------------------------------------------------
(* The gates. *)

(* A step that keeps the case and its request keeps Gated if it only opens *)
(* files, or only starts to run, a case that is Runnable.                  *)
LEMMA GatedKept ==
  ASSUME Gated, UNCHANGED <<case, req>>,
         pc' \in Running \cup {"write"},
         pc' = "write" \/ pc \in Routing \cup Running,
         (pc' = "write" /\ UNCHANGED reads) \/ Runnable(case.line)
  PROVE  Gated'
  BY DEF Gated, RoutedBeforeIo, Routing, Running

LEMMA RouteGated ==
  ASSUME TypeOK, Gated, OperationsRoute \/ EpochRoute \/ BlocksRoute
  PROVE  Gated'
<1>1. /\ pc \in Routing /\ UNCHANGED <<case, req, reads>>
      /\ pc' \in {"write", "decode_pre"}
  BY DEF OperationsRoute, EpochRoute, BlocksRoute, Routing, Answer, Goto
<1>2. /\ case.line[1] \in DOMAIN StateRunner
      /\ pc = StateRunner[case.line[1]]
      /\ WellFormed(case.line)
      /\ req = CaseRequest(case.line)
  BY <1>1 DEF Gated, WellFormed
<1>3. /\ req.runner = case.line[1]
      /\ req.handler = case.line[2]
      /\ req.bls_setting = Numeral[case.line[5]]
      /\ req.blocks_count = Numeral[case.line[6]]
      /\ req.inputs = InputPaths(case.line[8])
  BY <1>2 DEF CaseRequest
<1>4. pc' = "decode_pre" => Runnable(case.line)
  <2>1. CASE OperationsRoute
    <3>1. case.line[1] = "operations"
      BY <1>2, <2>1 DEF OperationsRoute, StateRunner
    <3>2. pc' = "decode_pre" =>
            /\ case.line[2] \in InputHandlers \cup StateOnlyHandlers
            /\ Numeral[case.line[5]] # 2
      BY <1>3, <2>1 DEF OperationsRoute, Answer
    <3> QED
      BY <1>2, <3>1, <3>2
         DEF Runnable, Supported, BlsServed, Consistent, BlocksShape, SlotsShape
  <2>2. CASE EpochRoute
    <3>1. case.line[1] = "epoch_processing"
      BY <1>2, <2>2 DEF EpochRoute, StateRunner
    <3>2. pc' = "decode_pre" => case.line[2] \in EpochHandlers
      BY <1>3, <2>2 DEF EpochRoute, Answer
    <3> QED
      BY <1>2, <3>1, <3>2
         DEF Runnable, Supported, BlsServed, Consistent, BlocksShape, SlotsShape
  <2>3. CASE BlocksRoute
    <3>1. Shape = <<case.line[1], case.line[2]>>
      BY <1>3 DEF Shape
    <3>2. pc' = "decode_pre" =>
            /\ Shape \in BlocksShape \cup SlotsShape
            /\ ArityOK
            /\ Numeral[case.line[5]] # 2
      BY <1>3, <2>3 DEF BlocksRoute, Answer
    <3> QED
      BY <1>2, <1>3, <3>1, <3>2
         DEF Runnable, Supported, BlsServed, Consistent, ArityOK
  <2> QED
    BY <2>1, <2>2, <2>3
<1> QED
  BY <1>1, <1>4, GatedKept DEF Running

LEMMA RespondGated ==
  ASSUME TypeOK, Gated, Respond
  PROVE  Gated'
<1>1. pc = "respond" /\ UNCHANGED <<case, reads>>
  BY DEF Respond
<1>2. reads' = <<>>
  BY <1>1 DEF TypeOK
<1>3. CASE pc' = "write"
  BY <1>2, <1>3 DEF Gated, RoutedBeforeIo, Routing, Running
<1>4. CASE /\ case.line[1] \in DOMAIN StateRunner
           /\ CaseRequestParses(case.line)
           /\ req' = CaseRequest(case.line)
           /\ Goto(StateRunner[case.line[1]])
  <2>1. pc' = StateRunner[case.line[1]] /\ pc' \in Routing
    BY <1>4 DEF Goto, StateRunner, Routing
  <2> QED
    BY <1>1, <1>2, <1>4, <2>1 DEF Gated, RoutedBeforeIo, Routing, Running
<1>5. CASE /\ case.line[1] = "ssz_static"
           /\ SszStaticRequestParses(case.line)
           /\ req' = SszStaticRequest(case.line)
           /\ Goto("ssz_static")
  BY <1>1, <1>2, <1>5 DEF Gated, RoutedBeforeIo, Routing, Running, Goto
<1> QED
  BY <1>3, <1>4, <1>5 DEF Respond, Answer

LEMMA SszRunGated ==
  ASSUME Gated, SszRun
  PROVE  Gated'
<1>1. /\ pc = "ssz_static" /\ pc' = "write" /\ UNCHANGED <<case, req>>
      /\ UNCHANGED reads \/ req.handler \in Containers
  BY DEF SszRun, ReadAndCheck, Answer
<1>2. req.handler \in Containers => Runnable(case.line)
  <2>1. /\ case.line[1] = "ssz_static" /\ WellFormed(case.line)
        /\ req.handler = case.line[2]
    BY <1>1 DEF Gated, WellFormed, SszStaticRequest
  <2> QED
    BY <2>1 DEF Runnable, Supported, BlsServed, Consistent, BlocksShape, SlotsShape
<1> QED
  BY <1>1, <1>2, GatedKept

LEMMA RunningGated ==
  ASSUME Gated,
         \/ DecodePre \/ OperationsApply \/ EpochApply \/ ApplyBlock
         \/ BlocksApplied \/ ApplySlots \/ Finish
  PROVE  Gated'
<1>1. /\ pc \in Running /\ UNCHANGED <<case, req>>
      /\ pc' \in Running \cup {"write"}
  BY DEF DecodePre, OperationsApply, ApplyInput, EpochApply, ApplyBlock,
     RejectBlock, BlocksApplied, ApplySlots, Finish, Transition, Answer, Goto, Running
<1>2. Runnable(case.line)
  BY <1>1 DEF Gated
<1> QED
  BY <1>1, <1>2, GatedKept

LEMMA GatedStep ==
  ASSUME IInv, [Next]_vars
  PROVE  Gated'
<1>1. TypeOK /\ Gated
  BY DEF IInv
<1>2. CASE Respond
  BY <1>1, <1>2, RespondGated
<1>3. CASE OperationsRoute \/ EpochRoute \/ BlocksRoute
  BY <1>1, <1>3, RouteGated
<1>4. CASE \/ DecodePre \/ OperationsApply \/ EpochApply \/ ApplyBlock
           \/ BlocksApplied \/ ApplySlots \/ Finish
  BY <1>1, <1>4, RunningGated
<1>5. CASE SszRun
  BY <1>1, <1>5, SszRunGated
<1>6. CASE Boot \/ TakeLine \/ StdinEnds
  <2>1. reads' = <<>> /\ pc' \in Waiting \cup {"respond"}
    BY <1>1, <1>6 DEF TypeOK, Boot, TakeLine, StdinEnds, Waiting
  <2> QED
    BY <2>1 DEF Gated, RoutedBeforeIo, Waiting, Routing, Running
<1>7. CASE WriteVerdict
  BY <1>7 DEF WriteVerdict, Idle, Gated, RoutedBeforeIo, Routing, Running
<1>8. CASE \E p \in Path : Vanish(p)
  BY <1>1, <1>8 DEF Vanish, Gated, RoutedBeforeIo
<1>9. CASE UNCHANGED vars
  BY <1>1, <1>9 DEF vars, Gated, RoutedBeforeIo
<1> QED
  BY <1>2, <1>3, <1>4, <1>5, <1>6, <1>7, <1>8, <1>9 DEF Next, Work

-----------------------------------------------------------------------------
LEMMA InitIInv ==
  ASSUME Init
  PROVE  IInv
  BY DEF Init, IInv, TypeOK, Gated, RoutedBeforeIo, Labels, Waiting, Routing, Running

(* The types and the gates hold in every reachable state. *)
THEOREM Invariance == Spec => []IInv
<1>1. Init => IInv
  BY InitIInv
<1>2. IInv /\ [Next]_vars => IInv'
  BY TypeStep, GatedStep DEF IInv
<1> QED
  BY <1>1, <1>2, PTL DEF Spec

(* Every variable has its type, and holds something only while the case it *)
(* belongs to is being answered (locals of main and of the runners).       *)
THEOREM TypeCorrect == Spec => []TypeOK
<1>1. IInv => TypeOK
  BY DEF IInv
<1> QED
  BY <1>1, Invariance, PTL

(* No file of a case is opened before its request has passed every gate. *)
THEOREM GatesBeforeIo == Spec => []RoutedBeforeIo
<1>1. IInv => RoutedBeforeIo
  BY DEF IInv, Gated
<1> QED
  BY <1>1, Invariance, PTL

-----------------------------------------------------------------------------
(* What a step may do to the state. *)

(* Only finish, or the removal of a file, follows a failed transition. *)
LEMMA ErroredStep ==
  ASSUME IInv, [Next]_vars
  PROVE  FinalIfErrored
<1> SUFFICES ASSUME pc # "write", result # None, ~result.ok
             PROVE  FinalIfErrored
  BY DEF FinalIfErrored
<1>1. pc = "finish"
  BY DEF IInv, TypeOK
<1>2. CASE Finish
  <2>1. \A e : Classify(result, Serialized(state), e).bucket \in {"reject", "reject-valid"}
    BY DEF Classify, Pass, Fail
  <2>2. Bug("read post").bucket = "bug"
    BY DEF Bug, Fail
  <2>3. verdict'.bucket \in {"reject", "reject-valid", "bug"}
    BY <1>2, <2>1, <2>2 DEF Finish, Judge, Answer
  <2> QED
    BY <1>2, <2>3 DEF Finish, FinalIfErrored
<1>3. CASE \E p \in Path : Vanish(p)
  BY <1>1, <1>3 DEF Vanish, FinalIfErrored
<1>4. CASE UNCHANGED vars
  BY <1>1, <1>4 DEF vars, FinalIfErrored
<1> QED
  BY <1>1, <1>2, <1>3, <1>4
     DEF Next, Work, Boot, Respond, OperationsRoute, EpochRoute, BlocksRoute,
         DecodePre, OperationsApply, EpochApply, ApplyBlock, BlocksApplied,
         ApplySlots, SszRun, WriteVerdict, TakeLine, StdinEnds

(* A failed transition is final: nothing is read into, applied to or       *)
(* compared with the half-changed state (src/runner.rs:52).                *)
THEOREM ErrorsAreFinal == Spec => ErroredStateIsFinal
<1>1. IInv /\ [Next]_vars => [FinalIfErrored]_vars
  BY ErroredStep
<1> QED
  BY <1>1, Invariance, PTL DEF Spec, ErroredStateIsFinal

LEMMA TransitionAdvance ==
  ASSUME NEW e, NEW post, Transition(e, post), state' # state,
         result' # Err("transition")
  PROVE  state' = post
  BY DEF Transition

LEMMA AdvanceStep ==
  ASSUME IInv, [Next]_vars
  PROVE  AdvancesForward
<1> SUFFICES ASSUME pc = "apply", state' # state, result' # Err("transition")
             PROVE  AdvancesForward
  BY DEF AdvancesForward
<1>1. TypeOK /\ Gated
  BY DEF IInv
<1>2. /\ state \in BeaconStates /\ state.slot \in 0 .. U64Max
      /\ U64Max \in Nat
      /\ <<req.runner, req.handler>> = Shape
  BY <1>1, U64MaxType, ApplyFacts DEF BeaconStates, Shape
<1>3. CASE OperationsApply
  <2>1. state'.slot = state.slot
    <3>1. \A mark : AppliedTo(state, mark).slot = state.slot
      BY <1>2 DEF AppliedTo, BeaconStates
    <3> QED
      BY <1>3, <3>1, TransitionAdvance DEF OperationsApply, ApplyInput
  <2>2. Shape \notin SlotsShape
    BY <1>2, <1>3 DEF OperationsApply, SlotsShape
  <2> QED
    BY <1>2, <2>1, <2>2 DEF AdvancesForward
<1>4. CASE EpochApply
  <2>1. state'.slot = state.slot
    BY <1>2, <1>4, TransitionAdvance DEF EpochApply, BeaconStates
  <2>2. Shape \notin SlotsShape
    BY <1>2, <1>4 DEF EpochApply, SlotsShape
  <2> QED
    BY <1>2, <2>1, <2>2 DEF AdvancesForward
<1>5. CASE ApplyBlock
  <2>1. /\ DecodeFile(BlockInput, "block") = "decoded"
        /\ StateTransition(state, Content(BlockInput)) = "accept"
        /\ state' = [slot |-> Content(BlockInput).slot,
                     log  |-> Append(state.log, BlockInput)]
    BY <1>5, Zenon DEF ApplyBlock, RejectBlock
  <2>2. Content(BlockInput).slot \in 0 .. U64Max
    BY <1>1, <2>1, ApplyFacts, DecodedType
  <2>3. ~(Content(BlockInput).slot <= state.slot)
    BY <2>1 DEF StateTransition
  <2>4. Shape \notin SlotsShape
    <3>1. \A s \in BlocksShape : s[2] # "slots"
      BY DEF BlocksShape
    <3>2. \A s \in SlotsShape : s[2] = "slots"
      BY DEF SlotsShape
    <3> QED
      BY <1>5, <3>1, <3>2 DEF ApplyBlock
  <2> QED
    <3> DEFINE from == state.slot
               to == Content(BlockInput).slot
    <3>1. from \in 0 .. U64Max /\ to \in 0 .. U64Max /\ ~(to <= from)
      BY <1>2, <2>2, <2>3
    <3> HIDE DEF from, to
    <3>2. to \in from .. U64Max
      BY <1>2, <3>1
    <3>3. state'.slot \in state.slot .. U64Max
      BY <2>1, <3>2 DEF from, to
    <3> QED
      BY <2>4, <3>3 DEF AdvancesForward
<1>6. CASE ApplySlots
  <2> DEFINE advance == SlotsCount(Content(req.inputs[1]).bytes)
  <2>1. /\ SaneAdvance(advance)
        /\ state.slot + advance <= U64Max
        /\ state' = [state EXCEPT !.slot = @ + advance]
    BY <1>6, TransitionAdvance DEF ApplySlots
  <2>2. advance \in 1 .. 2 * SlotsPerHistoricalRoot
    BY <2>1 DEF SaneAdvance, MaxSlotsAdvance
  <2>3. state'.slot = state.slot + advance
    BY <1>2, <2>1 DEF BeaconStates
  <2> HIDE DEF advance
  <2> QED
    BY <1>2, <2>1, <2>2, <2>3, PresetAssumption DEF AdvancesForward
<1>7. CASE UNCHANGED state
  BY <1>7
<1> QED
  BY <1>3, <1>4, <1>5, <1>6, <1>7
     DEF Next, Work, vars, Boot, Respond, OperationsRoute, EpochRoute,
         BlocksRoute, DecodePre, BlocksApplied, Finish, SszRun, WriteVerdict,
         TakeLine, StdinEnds, Vanish

(* A transition never moves the slot back, and a slots case moves it by    *)
(* 1 .. 2 * SLOTS_PER_HISTORICAL_ROOT without leaving the u64              *)
(* (src/blocks.rs:76 and 118).                                             *)
THEOREM AdvancesStaySane == Spec => AdvanceBounded
<1>1. IInv /\ [Next]_vars => [AdvancesForward]_vars
  BY AdvanceStep
<1> QED
  BY <1>1, Invariance, PTL DEF Spec, AdvanceBounded
=============================================================================
