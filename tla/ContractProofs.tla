--------------------------- MODULE ContractProofs ---------------------------
(***************************************************************************)
(* Proofs that the runner keeps its promise to the harness, for every set  *)
(* of cases and every value of the constants: what it does on the way to a *)
(* verdict is what Contract determines in one step.                        *)
(***************************************************************************)
EXTENDS MainProofs

-----------------------------------------------------------------------------
(* The contract reads request lines as the runner does. *)
LEMMA SameLines ==
  ASSUME NEW line
  PROVE  /\ C!CaseRequest(line) = CaseRequest(line)
         /\ C!CaseRequestParses(line) <=> CaseRequestParses(line)
         /\ C!SszStaticRequest(line) = SszStaticRequest(line)
         /\ C!SszStaticRequestParses(line) <=> SszStaticRequestParses(line)
<1>1. C!U64Max = U64Max
  BY SamePower DEF C!U64Max, U64Max
<1>2. C!CaseRequestParses(line) <=> CaseRequestParses(line)
  BY <1>1 DEF C!CaseRequestParses, CaseRequestParses, C!HasFields, HasFields,
     C!Parses, Parses, C!OptU64Parses, OptU64Parses, C!Absent, Absent
<1>3. C!CaseRequest(line) = CaseRequest(line)
  BY DEF C!CaseRequest, CaseRequest, C!OptPath, OptPath, C!InputPaths,
     InputPaths, C!Absent, Absent
<1>4. /\ C!SszStaticRequest(line) = SszStaticRequest(line)
      /\ C!SszStaticRequestParses(line) <=> SszStaticRequestParses(line)
  BY DEF C!SszStaticRequest, SszStaticRequest, C!SszStaticRequestParses,
     SszStaticRequestParses, C!HasFields, HasFields
<1> QED
  BY <1>2, <1>3, <1>4

LEMMA SameU64Max == C!U64Max = U64Max
  BY SamePower DEF C!U64Max, U64Max

(* An optional path is at most one. *)
LEMMA OnePath ==
  ASSUME NEW line, NEW p
  PROVE  /\ p \in CaseRequest(line).pre => CaseRequest(line).pre = {p}
         /\ p \in CaseRequest(line).post => CaseRequest(line).post = {p}
  BY DEF CaseRequest, OptPath

LEMMA SingletonIs ==
  ASSUME NEW p
  PROVE  /\ Singleton({p}) = <<p>>
         /\ (CHOOSE q \in {p} : TRUE) = p
  BY DEF Singleton

(* A file read is the file of the case unless it was removed. *)
LEMMA ContentIs ==
  ASSUME case \in Cases, NEW p
  PROVE  \/ Content(p) = C!File(case, p)
         \/ p \in gone /\ Content(p).kind = "missing"
<1>1. DOMAIN case.files = Path
  BY CasesAssumption DEF CaseOK
<1> QED
  BY <1>1 DEF Content, C!File

LEMMA ServedIs ==
  /\ DOMAIN Served = DOMAIN StateRunner \cup {"ssz_static"}
  /\ DOMAIN StateRunner =
       {"operations", "epoch_processing", "sanity", "finality", "random"}
  /\ Served["operations"] = InputHandlers \cup StateOnlyHandlers
  /\ Served["epoch_processing"] = EpochHandlers
  /\ Served["sanity"] = {"blocks", "slots"}
  /\ Served["finality"] = {"finality"}
  /\ Served["random"] = {"random"}
  /\ Served["ssz_static"] = Containers
BY DEF Served, StateRunner

(* What a request is promised that is served and can be. *)
LEMMA PromiseServed ==
  ASSUME NEW c \in Cases, c.line[1] \in DOMAIN StateRunner,
         WellFormed(c.line), Supported(c.line), BlsServed(c.line)
  PROVE  C!Promise(c) = C!TransitionVerdict(c, CaseRequest(c.line))
<1>1. c.line[1] \in {"operations", "epoch_processing", "sanity", "finality", "random"}
  BY DEF StateRunner
<1>2. C!LineParses(c.line)
  BY <1>1, SameLines DEF C!LineParses, WellFormed
<1>3. ~C!Gated(c.line)
  BY <1>1 DEF C!Gated, BlsServed
<1>4. c.line[2] \in Served[c.line[1]]
  BY <1>1, ServedIs DEF Supported, BlocksShape, SlotsShape
<1>5. C!Promise(c) = C!TransitionVerdict(c, C!CaseRequest(c.line))
  BY <1>1, <1>2, <1>3, <1>4, ServedIs DEF C!Promise
<1> QED
  BY <1>5, SameLines

LEMMA PromiseIs ==
  ASSUME NEW c \in Cases, c.line[1] \in DOMAIN StateRunner, Runnable(c.line)
  PROVE  C!Promise(c) = C!TransitionVerdict(c, CaseRequest(c.line))
  BY PromiseServed DEF Runnable

(* The files such a request names. *)
LEMMA NamedIs ==
  ASSUME NEW c \in Cases, c.line[1] \in DOMAIN StateRunner, Runnable(c.line),
         NEW r, r = CaseRequest(c.line)
  PROVE  C!Named(c.line) =
           r.pre \cup r.post \cup {r.inputs[i] : i \in DOMAIN r.inputs}
<1>1. c.line[1] \in {"operations", "epoch_processing", "sanity", "finality", "random"}
  BY DEF StateRunner
<1>2. C!LineParses(c.line)
  BY <1>1, SameLines DEF C!LineParses, Runnable, WellFormed
<1>3. C!Named(c.line) = LET q == C!CaseRequest(c.line) IN
           q.pre \cup q.post \cup {q.inputs[i] : i \in DOMAIN q.inputs}
  BY <1>1, <1>2, ServedIs DEF C!Named
<1> QED
  BY <1>3, SameLines

-----------------------------------------------------------------------------
(* The case being run. *)

(* What is known of the case and the request while a state is at hand. *)
LEMMA RunningFacts ==
  ASSUME IInv, pc \in {"apply", "finish"}
  PROVE  /\ case \in Cases
         /\ case.line[1] \in DOMAIN StateRunner
         /\ CaseRequestParses(case.line)
         /\ Runnable(case.line)
         /\ req = CaseRequest(case.line)
         /\ req \in CaseRequests
         /\ req.inputs \in Seq(STRING)
         /\ Shape = <<case.line[1], case.line[2]>>
         /\ state \in BeaconStates
BY DEF IInv, TypeOK, Gated, Waiting, Routing, Running, CaseRequests, Shape,
   CaseRequest

(* bug is allowed once a file that the request names was removed, ... *)
LEMMA RemovedIsBug ==
  ASSUME case \in Cases, case.line[1] \in DOMAIN StateRunner,
         Runnable(case.line), req = CaseRequest(case.line),
         NEW p \in gone,
         p \in req.pre \cup req.post \/ \E i \in DOMAIN req.inputs : p = req.inputs[i]
  PROVE  C!BugV \in C!Allowed(case, gone)
<1>1. p \in C!Named(case.line)
  BY NamedIs
<1> QED
  BY <1>1 DEF C!Allowed

(* ... or when the case itself is faulty. *)
LEMMA FaultIsBug ==
  ASSUME case \in Cases, case.line[1] \in DOMAIN StateRunner,
         Runnable(case.line), req = CaseRequest(case.line),
         C!Outcome(case, req) \in {"fault", "panic"}
  PROVE  C!BugV \in C!Allowed(case, gone)
<1>1. C!TransitionVerdict(case, req) = C!BugV
  BY DEF C!TransitionVerdict
<1>2. C!Promise(case) = C!BugV
  BY <1>1, PromiseIs
<1> QED
  BY <1>2 DEF C!Allowed

(* The answers of the harness's view. *)
LEMMA AnsweredIs ==
  ASSUME NEW v, Answer(v)
  PROVE  /\ pc' = "write"
         /\ Answered' = [passed |-> v.passed, bucket |-> v.bucket]
         /\ \A d : v = Bug(d) => Answered' = C!BugV
         /\ v = Panic => Answered' = C!BugV
<1>1. pc' = "write" /\ verdict' = v
  BY DEF Answer
<1>2. Answered' = [passed |-> v.passed, bucket |-> v.bucket]
  BY <1>1 DEF Answered
<1>3. \A d : Bug(d).passed = FALSE /\ Bug(d).bucket = "bug"
  BY DEF Bug, Fail
<1>4. Panic.passed = FALSE /\ Panic.bucket = "bug"
  BY <1>3 DEF Panic
<1>5. C!BugV = [passed |-> FALSE, bucket |-> "bug"]
  BY DEF C!BugV, C!V
<1> QED
  BY <1>1, <1>2, <1>3, <1>4, <1>5

-----------------------------------------------------------------------------
(* What a runner opens. *)

LEMMA InputsUsedType ==
  ASSUME NEW r \in CaseRequests
  PROVE  InputsUsed(r) \in Seq(STRING)
<1>1. r.inputs \in Seq(STRING)
  BY DEF CaseRequests
<1>2. <<>> \in Seq(STRING) /\ (r.inputs # <<>> => <<r.inputs[1]>> \in Seq(STRING))
  BY <1>1
<1>3. \/ InputsUsed(r) = r.inputs
      \/ InputsUsed(r) = <<>>
      \/ r.inputs # <<>> /\ InputsUsed(r) = <<r.inputs[1]>>
  BY DEF InputsUsed
<1> QED
  BY <1>1, <1>2, <1>3

LEMMA InputsUsedIs ==
  ASSUME NEW r
  PROVE  /\ r.runner = "operations" /\ r.handler \in InputHandlers
              /\ r.inputs = <<>> => InputsUsed(r) = <<>>
         /\ r.runner = "operations" /\ r.handler \in InputHandlers
              /\ r.inputs # <<>> => InputsUsed(r) = <<r.inputs[1]>>
         /\ r.runner = "operations" /\ r.handler \in StateOnlyHandlers =>
              InputsUsed(r) = <<>>
         /\ r.runner = "epoch_processing" => InputsUsed(r) = <<>>
         /\ <<r.runner, r.handler>> \in BlocksShape \cup SlotsShape =>
              InputsUsed(r) = r.inputs
<1>1. InputHandlers \cap StateOnlyHandlers = {}
  BY DEF InputHandlers, StateOnlyHandlers
<1>2. {"blocks", "slots", "finality", "random"}
        \cap (InputHandlers \cup StateOnlyHandlers) = {}
  BY DEF InputHandlers, StateOnlyHandlers
<1>3. <<r.runner, r.handler>> \in BlocksShape \cup SlotsShape =>
         /\ r.runner \in {"sanity", "finality", "random"}
         /\ r.handler \in {"blocks", "slots", "finality", "random"}
  BY DEF BlocksShape, SlotsShape
<1> QED
  BY <1>1, <1>2, <1>3 DEF InputsUsed

LEMMA Extend ==
  ASSUME NEW S, NEW s \in Seq(S), NEW n \in Nat, n + 1 <= Len(s)
  PROVE  Append(SubSeq(s, 1, n), s[n + 1]) = SubSeq(s, 1, n + 1)
<1> DEFINE t == SubSeq(s, 1, n)
<1>1. Len(s) \in Nat /\ \A i \in 1 .. n : s[i] \in S
  BY LenProperties, ElementOfSeq
<1>2. t \in Seq(S) /\ s[n + 1] \in S
  BY <1>1, SubSeqProperties, ElementOfSeq
<1>3. SubSeq(s, 1, n + 1) = SubSeq(s, 1, n + 1 - 1) \o <<s[n + 1]>>
  BY <1>1, SubSeqRecursiveSecond
<1>4. n + 1 - 1 = n
  OBVIOUS
<1>5. Append(t, s[n + 1]) = t \o <<s[n + 1]>>
  BY <1>2, AppendIsConcat
<1> QED
  BY <1>3, <1>4, <1>5

LEMMA PrefixIs ==
  ASSUME NEW S, NEW s \in Seq(S), NEW n \in 0 .. Len(s)
  PROVE  IsPrefix(SubSeq(s, 1, n), s) /\ SubSeq(s, 1, n) \in Seq(S)
<1> DEFINE t == SubSeq(s, 1, n)
<1>1. Len(s) \in Nat /\ \A i \in 1 .. n : s[i] \in S
  BY LenProperties, ElementOfSeq
<1>2. t \in Seq(S) /\ Len(t) = n
  BY <1>1, SubSeqProperties
<1>3. SubSeq(t, 1, Len(t)) = t
  BY <1>2, SubSeqFull
<1> QED
  BY <1>1, <1>2, <1>3 DEF IsPrefix

LEMMA EmptyPrefix ==
  ASSUME NEW S, NEW s \in Seq(S)
  PROVE  IsPrefix(<<>>, s)
<1>1. Len(s) \in Nat /\ SubSeq(s, 1, 0) = <<>>
  BY LenProperties, SubSeqEmpty
<1> QED
  BY <1>1 DEF IsPrefix

LEMMA BeforeType ==
  ASSUME NEW line, NEW r \in CaseRequests, r = CaseRequest(line)
  PROVE  Before(r) \in Seq(STRING)
<1>1. Singleton(r.pre) \in Seq(STRING)
  <2>1. CASE r.pre = {}
    BY <2>1 DEF Singleton
  <2>2. ASSUME NEW p \in r.pre
        PROVE  Singleton(r.pre) \in Seq(STRING)
    <3>1. Singleton(r.pre) = <<p>> /\ p \in STRING
      BY OnePath, SingletonIs DEF CaseRequests
    <3> QED
      BY <3>1
  <2> QED
    BY <2>1, <2>2
<1>2. InputsUsed(r) \in Seq(STRING)
  BY InputsUsedType
<1> QED
  BY <1>1, <1>2 DEF Before

(* The pre-state comes first. *)
LEMMA BeforeIs ==
  ASSUME NEW line, NEW r \in CaseRequests, r = CaseRequest(line), NEW p \in r.pre
  PROVE  /\ Before(r) \in Seq(STRING)
         /\ InputsUsed(r) \in Seq(STRING)
         /\ Len(Before(r)) = 1 + Len(InputsUsed(r))
         /\ Len(InputsUsed(r)) \in Nat
         /\ \A k \in 1 .. Len(InputsUsed(r)) : Before(r)[k + 1] = InputsUsed(r)[k]
         /\ SubSeq(Before(r), 1, 1) = <<p>>
<1>1. r.inputs \in Seq(STRING) /\ p \in STRING
  BY DEF CaseRequests
<1>2. InputsUsed(r) \in Seq(STRING)
  BY InputsUsedType
<1>3. Singleton(r.pre) = <<p>>
  BY OnePath, SingletonIs
<1> DEFINE u == InputsUsed(r)
<1>4. Before(r) = <<p>> \o u
  BY <1>3 DEF Before
<1> HIDE DEF u
<1>5. u \in Seq(STRING) /\ <<p>> \in Seq(STRING) /\ Len(<<p>>) = 1
  BY <1>1, <1>2 DEF u
<1>6. /\ <<p>> \o u \in Seq(STRING)
      /\ Len(<<p>> \o u) = 1 + Len(u)
      /\ Len(u) \in Nat
      /\ \A k \in 1 .. Len(u) : (<<p>> \o u)[k + 1] = u[k]
      /\ (<<p>> \o u)[1] = p
  BY <1>5
<1>7. SubSeq(<<p>> \o u, 1, 1) = <<p>>
  <2> DEFINE s == <<p>>
  <2> HIDE DEF s
  <2>1. s \in Seq(STRING) /\ 1 \in 1 .. Len(s) /\ Len(s) = 1
    BY <1>5 DEF s
  <2>2. SubSeq(s \o u, 1, 1) = SubSeq(s, 1, 1)
    BY <1>5, <2>1, SubSeqOfConcat1
  <2>3. SubSeq(s, 1, 1) = s
    BY <2>1, SubSeqFull
  <2> QED
    BY <2>2, <2>3 DEF s
<1> QED
  BY <1>2, <1>4, <1>6, <1>7 DEF u

-----------------------------------------------------------------------------
(* The steps. *)

(* The verdict bug of a runner that has opened only what it may. *)
LEMMA BugOnTrack ==
  ASSUME UNCHANGED <<case, gone, req>>, pc' = "write",
         Answered' = C!BugV, C!BugV \in C!Allowed(case, gone),
         req = CaseRequest(case.line),
         result' = None,
         IsPrefix(reads', Before(req))
  PROVE  OnTrack'
<1>1. AppliedSoFar' /\ Concluded'
  BY DEF AppliedSoFar, Concluded
<1>2. AnsweredHonestly'
  BY DEF AnsweredHonestly
<1>3. ReadsInWireOrder'
  BY DEF ReadsInWireOrder
<1>4. AcceptedMeansAllApplied'
  BY DEF AcceptedMeansAllApplied
<1> QED
  BY <1>1, <1>2, <1>3, <1>4 DEF OnTrack

LEMMA DecodePreTrack ==
  ASSUME IInv, DecodePre
  PROVE  OnTrack'
<1>1. /\ pc = "decode_pre" /\ UNCHANGED <<case, gone, req, next, result>>
      /\ next = 1 /\ result = None /\ reads = <<>>
      /\ case \in Cases /\ req \in CaseRequests
      /\ case.line[1] \in DOMAIN StateRunner
      /\ CaseRequestParses(case.line)
      /\ Runnable(case.line)
      /\ req = CaseRequest(case.line)
  BY DEF DecodePre, IInv, TypeOK, Gated, Waiting, Routing, Running
<1>2. CASE req.pre = {} /\ Answer(Bug("case without a pre state")) /\ UNCHANGED reads
  <2>1. C!Outcome(case, req) = "fault"
    BY <1>2 DEF C!Outcome, C!HasPre
  <2>2. IsPrefix(reads', Before(req))
    BY <1>1, <1>2, BeforeType, EmptyPrefix
  <2> QED
    BY <1>1, <1>2, <2>1, <2>2, AnsweredIs, FaultIsBug, BugOnTrack
<1>3. ASSUME NEW p \in req.pre, reads' = Append(reads, p)
      PROVE  /\ req.pre = {p} /\ (CHOOSE q \in req.pre : TRUE) = p
             /\ reads' = SubSeq(Before(req), 1, 1)
             /\ Before(req) \in Seq(STRING)
             /\ 1 \in 0 .. Len(Before(req)) /\ 1 \in 1 .. Len(Before(req))
             /\ IsPrefix(reads', Before(req))
  <2>1. req.pre = {p} /\ (CHOOSE q \in req.pre : TRUE) = p
    BY <1>1, OnePath, SingletonIs
  <2>2. reads' = <<p>>
    BY <1>1, <1>3
  <2> DEFINE before == Before(req)
  <2>3. /\ before \in Seq(STRING) /\ SubSeq(before, 1, 1) = <<p>>
        /\ Len(before) = 1 + Len(InputsUsed(req)) /\ Len(InputsUsed(req)) \in Nat
    BY <1>1, BeforeIs
  <2> HIDE DEF before
  <2>4. 1 \in 0 .. Len(before) /\ 1 \in 1 .. Len(before)
    BY <2>3
  <2>5. IsPrefix(SubSeq(before, 1, 1), before)
    BY <2>3, <2>4, PrefixIs
  <2> QED
    BY <2>1, <2>2, <2>3, <2>4, <2>5 DEF before
<1>4. ASSUME NEW p \in req.pre, reads' = Append(reads, p),
             DecodeFile(p, "state") # "decoded",
             \/ Answer(Bug("read pre"))
             \/ Answer(Bug("decode pre"))
             \/ Answer(Panic)
      PROVE  OnTrack'
  <2>1. CASE p \in gone
    <3>1. C!BugV \in C!Allowed(case, gone)
      BY <1>1, <2>1, RemovedIsBug
    <3> QED
      BY <1>1, <1>3, <1>4, <3>1, AnsweredIs, BugOnTrack
  <2>2. CASE p \notin gone
    <3>1. ~C!HasPre(case, req)
      <4>1. Content(p) = C!File(case, p)
        BY <1>1, <2>2, ContentIs
      <4> QED
        BY <1>3, <1>4, <4>1 DEF C!HasPre, C!Holds, DecodeFile
    <3>2. C!Outcome(case, req) = "fault"
      BY <3>1 DEF C!Outcome
    <3> QED
      BY <1>1, <1>3, <1>4, <3>2, AnsweredIs, FaultIsBug, BugOnTrack
  <2> QED
    BY <2>1, <2>2
<1>5. ASSUME NEW p \in req.pre, reads' = Append(reads, p),
             DecodeFile(p, "state") = "decoded",
             state' = Content(p).st, Goto("apply")
      PROVE  OnTrack'
  <2>1. pc' = "apply"
    BY <1>5 DEF Goto
  <2>2. Content(p).kind = "state" /\ Content(p).st \in BeaconStates
    BY <1>1, <1>5, DecodedType DEF DecodeFile
  <2>3. Content(p) = C!File(case, p)
    BY <1>1, <2>2, ContentIs
  <2>4. C!HasPre(case, req) /\ C!PreOf(case, req) = state' /\ state' \in BeaconStates
    BY <1>3, <1>5, <2>2, <2>3 DEF C!HasPre, C!Holds, C!PreOf
  <2>5. Reached(next)' = state'
    <3>1. C!SlotBefore(case, req, 1) = state'.slot
      BY <2>4 DEF C!SlotBefore
    <3>2. SubSeq(req.inputs, 1, 1 - 1) = <<>>
      BY SubSeqEmpty
    <3>3. state'.log \o <<>> = state'.log
      BY <2>4, ConcatEmptySeq DEF BeaconStates
    <3> QED
      BY <1>1, <2>4, <3>1, <3>2, <3>3 DEF Reached, BeaconStates
  <2>6. AppliedSoFar'
    BY <1>1, <1>3, <1>5, <2>4, <2>5 DEF AppliedSoFar, Shape
  <2>7. Concluded' /\ AnsweredHonestly'
    BY <2>1 DEF Concluded, AnsweredHonestly
  <2>8. ReadsInWireOrder' /\ AcceptedMeansAllApplied'
    BY <1>1, <1>3, <1>5 DEF ReadsInWireOrder, AcceptedMeansAllApplied
  <2> QED
    BY <2>6, <2>7, <2>8 DEF OnTrack
<1> QED
  BY <1>2, <1>4, <1>5, Zenon DEF DecodePre

-----------------------------------------------------------------------------
(* A transition about to be made, and its outcome. *)

LEMMA ApplyKnows ==
  ASSUME IInv, OnTrack, pc = "apply"
  PROVE  /\ Before(req) \in Seq(STRING)
         /\ InputsUsed(req) \in Seq(STRING)
         /\ Len(Before(req)) = 1 + Len(InputsUsed(req))
         /\ Len(InputsUsed(req)) \in Nat
         /\ \A k \in 1 .. Len(InputsUsed(req)) :
              Before(req)[k + 1] = InputsUsed(req)[k]
         /\ next \in 1 .. Len(Before(req))
         /\ reads = SubSeq(Before(req), 1, next)
         /\ IsPrefix(reads, Before(req))
         /\ result = None
<1>1. PICK p \in req.pre : TRUE
  BY DEF OnTrack, AppliedSoFar, C!HasPre
<1>2. result = None
  BY DEF IInv, TypeOK
<1>3. /\ next \in 1 .. Len(Before(req))
      /\ reads = SubSeq(Before(req), 1, next)
  BY DEF OnTrack, AppliedSoFar
<1>4. /\ Before(req) \in Seq(STRING)
      /\ InputsUsed(req) \in Seq(STRING)
      /\ Len(Before(req)) = 1 + Len(InputsUsed(req))
      /\ Len(InputsUsed(req)) \in Nat
      /\ \A k \in 1 .. Len(InputsUsed(req)) :
           Before(req)[k + 1] = InputsUsed(req)[k]
  BY <1>1, RunningFacts, BeforeIs
<1>5. IsPrefix(reads, Before(req))
  BY <1>3, <1>4, PrefixIs
<1> QED
  BY <1>2, <1>3, <1>4, <1>5

(* The state-pre of the contract is a state. *)
LEMMA PreIs ==
  ASSUME IInv, OnTrack, pc = "apply"
  PROVE  /\ C!HasPre(case, req)
         /\ C!PreOf(case, req) \in BeaconStates
         /\ next = 1 => state = C!PreOf(case, req)
<1>1. C!HasPre(case, req) /\ state = Reached(next)
  BY DEF OnTrack, AppliedSoFar
<1>2. PICK p \in req.pre : C!File(case, p).kind = "state"
  BY <1>1 DEF C!HasPre, C!Holds
<1>3. C!PreOf(case, req) = C!File(case, p).st
  BY RunningFacts, OnePath, SingletonIs DEF C!PreOf
<1>4. C!File(case, p) \in Contents
  BY <1>2, RunningFacts, CasesAssumption DEF CaseOK, C!File
<1>5. C!PreOf(case, req) \in BeaconStates
  BY <1>2, <1>3, <1>4 DEF Contents
<1>6. ASSUME next = 1
      PROVE  state = C!PreOf(case, req)
  <2> DEFINE pre == C!PreOf(case, req)
  <2>1. state = [slot |-> pre.slot, log |-> pre.log \o SubSeq(req.inputs, 1, 1 - 1)]
    BY <1>1, <1>6 DEF Reached, C!SlotBefore
  <2>2. SubSeq(req.inputs, 1, 1 - 1) = <<>>
    BY SubSeqEmpty
  <2> HIDE DEF pre
  <2>3. pre \in BeaconStates
    BY <1>5 DEF pre
  <2>4. pre.log \o <<>> = pre.log
    BY <2>3, ConcatEmptySeq DEF BeaconStates
  <2>5. state = pre
    BY <2>1, <2>2, <2>3, <2>4 DEF BeaconStates
  <2> QED
    BY <2>5 DEF pre
<1> QED
  BY <1>1, <1>5, <1>6

LEMMA ConcludedOnTrack ==
  ASSUME UNCHANGED <<case, gone, req>>, pc' = "finish",
         C!Outcome(case, req) = IF result'.ok THEN "accept" ELSE "reject",
         result'.ok => state' = C!PostState(case, req),
         Shape \in BlocksShape => result' \in {Ok, Err("transition")},
         Before(req) \in Seq(STRING),
         NEW n \in 1 .. Len(Before(req)),
         reads' = SubSeq(Before(req), 1, n),
         result'.ok => n = Len(Before(req)),
         AcceptedMeansAllApplied'
  PROVE  OnTrack'
<1>1. AppliedSoFar' /\ AnsweredHonestly'
  BY DEF AppliedSoFar, AnsweredHonestly
<1>2. Concluded'
  BY DEF Concluded, Shape
<1>3. ReadsInWireOrder'
  <2>1. Len(Before(req)) \in Nat
    BY LenProperties
  <2>2. IsPrefix(reads', Before(req))
    BY <2>1, PrefixIs
  <2> QED
    BY <2>2 DEF ReadsInWireOrder
<1> QED
  BY <1>1, <1>2, <1>3 DEF OnTrack

(* A transition other than a block's, with the effect that the contract    *)
(* takes for the outcome, after every input.                               *)
LEMMA TransitionOnTrack ==
  ASSUME IInv, OnTrack, pc = "apply", UNCHANGED <<case, gone, req>>,
         Shape \notin BlocksShape,
         NEW e, NEW post, Transition(e, post), C!Outcome(case, req) = e,
         e = "accept" => post = C!PostState(case, req),
         reads' = SubSeq(Before(req), 1, Len(Before(req)))
  PROVE  OnTrack'
<1> DEFINE n == Len(Before(req))
<1>1. Before(req) \in Seq(STRING) /\ n \in 1 .. n /\ n \in 0 .. n /\ result = None
  BY ApplyKnows
<1>2. AcceptedMeansAllApplied'
  BY DEF AcceptedMeansAllApplied, Shape
<1>3. CASE e \in {"accept", "reject"}
  <2>1. /\ pc' = "finish" /\ e = IF result'.ok THEN "accept" ELSE "reject"
        /\ result'.ok => state' = post
    <3>1. Ok.ok = TRUE /\ Err("transition").ok = FALSE
      BY DEF Ok, Err
    <3>2. CASE e = "accept"
      BY <3>1, <3>2 DEF Transition, Goto
    <3>3. CASE e = "reject"
      BY <3>1, <3>3 DEF Transition, Goto
    <3> QED
      BY <1>3, <3>2, <3>3
  <2> QED
    BY <1>1, <1>2, <2>1, ConcludedOnTrack
<1>4. CASE e = "panic"
  <2>1. Answer(Panic) /\ UNCHANGED result
    BY <1>4 DEF Transition
  <2>2. IsPrefix(reads', Before(req))
    BY <1>1, PrefixIs
  <2> QED
    BY <1>1, <1>4, <2>1, <2>2, RunningFacts, AnsweredIs, FaultIsBug, BugOnTrack
<1> QED
  BY <1>3, <1>4 DEF Transition

-----------------------------------------------------------------------------
(* Operations. *)

(* The outcome of an operation, and the state it is applied in. *)
LEMMA OperationIs ==
  ASSUME IInv, OnTrack, pc = "apply", req.runner = "operations",
         req.handler \in InputHandlers
  PROVE  /\ C!Outcome(case, req) = C!InputOutcome(case, req)
         /\ \A mark : mark = req.inputs[1] =>
              AppliedTo(state, mark) = C!PostState(case, req)
         /\ next = 1 /\ Shape \notin BlocksShape
<1>1. req.handler # "withdrawals"
  BY DEF InputHandlers
<1>2. ~C!IsBlocks(req) /\ ~C!IsSlots(req) /\ C!TakesInput(req)
  BY <1>1 DEF C!IsBlocks, C!IsSlots, C!TakesInput
<1>3. Shape \notin BlocksShape
  BY DEF Shape, BlocksShape
<1>4. next = 1
  BY <1>3 DEF OnTrack, AppliedSoFar
<1>5. state = C!PreOf(case, req) /\ state \in BeaconStates /\ C!HasPre(case, req)
  BY <1>4, PreIs
<1>6. \A mark : AppliedTo(state, mark) =
                  [slot |-> state.slot, log |-> Append(state.log, mark)]
  BY <1>5 DEF AppliedTo, BeaconStates
<1>7. C!PostState(case, req) =
         [slot |-> state.slot, log |-> Append(state.log, req.inputs[1])]
  BY <1>2, <1>5 DEF C!PostState
<1> QED
  BY <1>2, <1>3, <1>4, <1>5, <1>6, <1>7 DEF C!Outcome

LEMMA ApplyInputTrack ==
  ASSUME IInv, OnTrack, OperationsApply, req.handler \in InputHandlers, ApplyInput
  PROVE  OnTrack'
<1>1. /\ pc = "apply" /\ req.runner = "operations"
      /\ UNCHANGED <<case, gone, req, next>>
  BY DEF OperationsApply
<1>2. /\ Before(req) \in Seq(STRING) /\ Len(Before(req)) = 1 + Len(InputsUsed(req))
      /\ next = 1 /\ result = None /\ reads = SubSeq(Before(req), 1, 1)
      /\ Shape \notin BlocksShape
      /\ C!Outcome(case, req) = C!InputOutcome(case, req)
      /\ req.inputs = <<>> => InputsUsed(req) = <<>>
      /\ req.inputs # <<>> => InputsUsed(req) = <<req.inputs[1]>>
  BY <1>1, ApplyKnows, OperationIs, RunningFacts, InputsUsedIs
<1>3. AcceptedMeansAllApplied'
  BY <1>1, <1>2 DEF AcceptedMeansAllApplied, Shape
<1>4. Err("decode op").ok = FALSE
  BY DEF Err
<1>5. CASE /\ req.inputs = <<>> /\ UNCHANGED reads
           /\ result' = Err("decode op") /\ Goto("finish")
  <2>1. C!Outcome(case, req) = "reject"
    BY <1>2, <1>5 DEF C!InputOutcome
  <2>2. Len(Before(req)) = 1
    <3>1. InputsUsed(req) = <<>> /\ Len(Before(req)) = 1 + Len(InputsUsed(req))
      BY <1>2, <1>5
    <3>2. Len(<<>>) = 0
      OBVIOUS
    <3> QED
      BY <3>1, <3>2
  <2>3. 1 \in 1 .. Len(Before(req))
    BY <2>2
  <2> QED
    BY <1>1, <1>2, <1>3, <1>4, <1>5, <2>1, <2>3, ConcludedOnTrack DEF Goto
<1>6. ASSUME req.inputs # <<>>, reads' = Append(reads, OpInput)
      PROVE  /\ reads' = SubSeq(Before(req), 1, Len(Before(req)))
             /\ Len(Before(req)) \in 1 .. Len(Before(req))
             /\ IsPrefix(reads', Before(req))
             /\ 1 \in DOMAIN req.inputs
  <2> DEFINE b == Before(req)
  <2>1. Len(b) = 2 /\ b[2] = req.inputs[1]
    <3>1. Len(InputsUsed(req)) = 1 /\ InputsUsed(req)[1] = req.inputs[1]
      BY <1>2, <1>6
    <3>2. \A k \in 1 .. Len(InputsUsed(req)) : b[k + 1] = InputsUsed(req)[k]
      BY <1>1, ApplyKnows
    <3> QED
      BY <1>2, <3>1, <3>2
  <2>2. reads' = Append(SubSeq(b, 1, 1), b[2])
    BY <1>2, <1>6, <2>1 DEF OpInput
  <2>3. b \in Seq(STRING) /\ req.inputs \in Seq(STRING)
    BY <1>1, <1>2, RunningFacts
  <2> HIDE DEF b
  <2>4. Append(SubSeq(b, 1, 1), b[1 + 1]) = SubSeq(b, 1, 1 + 1)
    BY <2>1, <2>3, Extend
  <2>5. reads' = SubSeq(b, 1, Len(b)) /\ Len(b) \in 0 .. Len(b) /\ Len(b) \in 1 .. Len(b)
    BY <2>1, <2>2, <2>4
  <2>6. IsPrefix(reads', b)
    BY <2>3, <2>5, PrefixIs
  <2>7. 1 \in DOMAIN req.inputs
    BY <1>6, <2>3
  <2> QED
    BY <2>5, <2>6, <2>7 DEF b
<1>7. CASE req.inputs # <<>> /\ Content(OpInput) = C!File(case, OpInput)
  <2> DEFINE f == C!File(case, OpInput)
  <2>1. /\ C!Outcome(case, req) =
             IF f.kind = "op" THEN f.effect
             ELSE IF f.kind \in {"missing", "bomb"} THEN "fault" ELSE "reject"
    BY <1>2, <1>7 DEF C!InputOutcome, C!Holds, OpInput
  <2>2. CASE /\ DecodeFile(OpInput, "op") \in {"unreadable", "panic"}
             /\ reads' = Append(reads, OpInput)
             /\ \/ Answer(Bug("read op")) /\ UNCHANGED result
                \/ Answer(Panic) /\ UNCHANGED result
    <3>1. C!Outcome(case, req) = "fault"
      BY <1>7, <2>1, <2>2 DEF DecodeFile
    <3> QED
      BY <1>1, <1>2, <1>6, <1>7, <2>2, <3>1, RunningFacts, AnsweredIs,
         FaultIsBug, BugOnTrack
  <2>3. CASE /\ DecodeFile(OpInput, "op") = "undecodable"
             /\ reads' = Append(reads, OpInput)
             /\ result' = Err("decode op") /\ Goto("finish")
    <3>1. C!Outcome(case, req) = "reject"
      BY <1>7, <2>1, <2>3 DEF DecodeFile
    <3> QED
      BY <1>1, <1>2, <1>3, <1>4, <1>6, <1>7, <2>3, <3>1, ConcludedOnTrack DEF Goto
  <2>4. CASE /\ DecodeFile(OpInput, "op") = "decoded"
             /\ reads' = Append(reads, OpInput)
             /\ Transition(Content(OpInput).effect, AppliedTo(state, OpInput))
    <3>1. C!Outcome(case, req) = Content(OpInput).effect
      BY <1>7, <2>1, <2>4 DEF DecodeFile
    <3>2. AppliedTo(state, OpInput) = C!PostState(case, req)
      BY <1>1, OperationIs DEF OpInput
    <3> QED
      BY <1>1, <1>2, <1>6, <1>7, <2>4, <3>1, <3>2, TransitionOnTrack
  <2> QED
    BY <1>7, <2>2, <2>3, <2>4, Zenon DEF ApplyInput
<1>8. CASE req.inputs # <<>> /\ OpInput \in gone /\ Content(OpInput).kind = "missing"
  <2>1. DecodeFile(OpInput, "op") = "unreadable"
    BY <1>8 DEF DecodeFile
  <2>2. /\ reads' = Append(reads, OpInput)
        /\ Answer(Bug("read op")) /\ UNCHANGED result
    BY <1>8, <2>1 DEF ApplyInput
  <2>3. C!BugV \in C!Allowed(case, gone)
    BY <1>1, <1>6, <1>8, <2>2, RunningFacts, RemovedIsBug DEF OpInput
  <2> QED
    BY <1>1, <1>2, <1>6, <1>8, <2>2, <2>3, RunningFacts, AnsweredIs, BugOnTrack
<1>9. \/ Content(OpInput) = C!File(case, OpInput)
      \/ OpInput \in gone /\ Content(OpInput).kind = "missing"
  BY <1>1, RunningFacts, ContentIs
<1> QED
  BY <1>5, <1>7, <1>8, <1>9, Zenon DEF ApplyInput

(* A handler without input file: one transition of the pre-state. *)
LEMMA NoInputTrack ==
  ASSUME IInv, OnTrack, pc = "apply", UNCHANGED <<case, gone, req, reads>>,
         \/ req.runner = "operations" /\ req.handler \in StateOnlyHandlers
         \/ req.runner = "epoch_processing",
         Transition(case.run, [state EXCEPT !.log = Append(@, req.handler)])
  PROVE  OnTrack'
<1> DEFINE post == [state EXCEPT !.log = Append(@, req.handler)]
<1>1. req.runner = "operations" => req.handler = "withdrawals"
  BY DEF StateOnlyHandlers
<1>2. ~C!IsBlocks(req) /\ ~C!IsSlots(req) /\ ~C!TakesInput(req)
  BY <1>1 DEF C!IsBlocks, C!IsSlots, C!TakesInput
<1>3. Shape \notin BlocksShape
  BY DEF Shape, BlocksShape
<1>4. next = 1
  BY <1>3 DEF OnTrack, AppliedSoFar
<1>5. state = C!PreOf(case, req) /\ state \in BeaconStates /\ C!HasPre(case, req)
  BY <1>4, PreIs
<1>6. post = [slot |-> state.slot, log |-> Append(state.log, req.handler)]
  BY <1>5 DEF BeaconStates
<1>7. C!PostState(case, req) = post
  BY <1>2, <1>5, <1>6 DEF C!PostState
<1>8. C!Outcome(case, req) = case.run
  BY <1>2, <1>5 DEF C!Outcome
<1>9. reads' = SubSeq(Before(req), 1, Len(Before(req)))
  <2>1. InputsUsed(req) = <<>>
    BY RunningFacts, InputsUsedIs
  <2>2. Len(<<>>) = 0
    OBVIOUS
  <2>3. Len(Before(req)) = 1
    BY <2>1, <2>2, ApplyKnows
  <2> QED
    BY <1>4, <2>3, ApplyKnows
<1> QED
  BY <1>3, <1>7, <1>8, <1>9, TransitionOnTrack

LEMMA OperationsApplyTrack ==
  ASSUME IInv, OnTrack, OperationsApply
  PROVE  OnTrack'
<1>1. /\ pc = "apply" /\ req.runner = "operations"
      /\ UNCHANGED <<case, gone, req, next>>
  BY DEF OperationsApply
<1>2. CASE req.handler \in InputHandlers /\ ApplyInput
  BY <1>2, ApplyInputTrack
<1>3. CASE /\ req.handler \in StateOnlyHandlers
           /\ Transition(case.run, AppliedTo(state, req.handler))
           /\ UNCHANGED reads
  BY <1>1, <1>3, NoInputTrack DEF AppliedTo
<1> QED
  BY <1>2, <1>3 DEF OperationsApply

LEMMA EpochApplyTrack ==
  ASSUME IInv, OnTrack, EpochApply
  PROVE  OnTrack'
  BY NoInputTrack DEF EpochApply

-----------------------------------------------------------------------------
(* Slots. *)

(* The advances that a blob can stand for: the one it decodes to. *)
LEMMA AdvancesIs ==
  ASSUME IInv, OnTrack, pc = "apply", Shape \in SlotsShape,
         NEW f, f = C!File(case, req.inputs[1])
  PROVE  /\ Len(req.inputs) = 1
         /\ \A n : n \in C!Advances(case, req) <=>
                   /\ f.kind = "blob" /\ SlotsBlobOK(f.bytes)
                   /\ n = SlotsCount(f.bytes) /\ SaneAdvance(n)
<1>1. Len(req.inputs) = 1
  BY RunningFacts DEF Runnable, Consistent, CaseRequest
<1>2. ASSUME f.kind = "blob"
      PROVE  f.bytes \in Seq(Digits)
  <2>1. f \in Contents
    BY <1>2, RunningFacts, CasesAssumption DEF CaseOK, C!File
  <2> QED
    BY <1>2, <2>1 DEF Contents, Digits
<1>3. MaxSlotsAdvance \in Nat
  BY PresetAssumption DEF MaxSlotsAdvance
<1>4. ASSUME NEW n \in 1 .. MaxSlotsAdvance, f.kind = "blob"
      PROVE  C!Represents(f.bytes, n) <=>
               SlotsBlobOK(f.bytes) /\ n = SlotsCount(f.bytes)
  <2>1. n \in Nat
    BY <1>3
  <2> QED
    BY <1>2, <1>4, <2>1, SlotsDecoded
<1>5. \A n : n \in C!Advances(case, req) <=>
               /\ n \in 1 .. MaxSlotsAdvance
               /\ f.kind = "blob"
               /\ C!Represents(f.bytes, n)
  BY <1>1 DEF C!Advances, C!Holds, MaxSlotsAdvance
<1> QED
  BY <1>1, <1>4, <1>5 DEF SaneAdvance

LEMMA ApplySlotsTrack ==
  ASSUME IInv, OnTrack, ApplySlots
  PROVE  OnTrack'
<1> DEFINE p == req.inputs[1]
           advance == SlotsCount(Content(p).bytes)
           isBlob == /\ Readable(p) /\ Content(p).kind = "blob"
                     /\ SlotsBlobOK(Content(p).bytes)
           post == [state EXCEPT !.slot = @ + advance]
<1>1. /\ pc = "apply" /\ UNCHANGED <<case, gone, req, next>>
      /\ Shape \in SlotsShape
      /\ reads' = Append(reads, p)
  BY DEF ApplySlots
<1>2. /\ Shape \notin BlocksShape
      /\ C!IsSlots(req) /\ ~C!IsBlocks(req)
  BY <1>1 DEF Shape, SlotsShape, BlocksShape, C!IsSlots, C!IsBlocks
<1>3. next = 1
  BY <1>1, <1>2 DEF OnTrack, AppliedSoFar
<1>4. state = C!PreOf(case, req) /\ state \in BeaconStates /\ C!HasPre(case, req)
  BY <1>1, <1>3, PreIs
<1>5. C!Outcome(case, req) = C!SlotsOutcome(case, req)
  BY <1>2, <1>4 DEF C!Outcome
<1>6. Len(req.inputs) = 1 /\ InputsUsed(req) = req.inputs /\ req.inputs \in Seq(STRING)
  BY <1>1, AdvancesIs, RunningFacts, InputsUsedIs DEF Shape
<1>7. /\ reads' = SubSeq(Before(req), 1, Len(Before(req)))
      /\ IsPrefix(reads', Before(req))
      /\ 1 \in DOMAIN req.inputs
      /\ result = None
  <2> DEFINE b == Before(req)
  <2>1. /\ b \in Seq(STRING) /\ Len(b) = 2 /\ b[2] = p
        /\ reads = SubSeq(b, 1, 1) /\ result = None
    <3>1. Len(InputsUsed(req)) = 1
      BY <1>6
    <3>2. /\ Len(b) = 1 + Len(InputsUsed(req))
          /\ \A k \in 1 .. Len(InputsUsed(req)) : b[k + 1] = InputsUsed(req)[k]
      BY <1>1, ApplyKnows
    <3>3. b[1 + 1] = InputsUsed(req)[1]
      BY <3>1, <3>2
    <3> QED
      BY <1>1, <1>3, <1>6, <3>1, <3>2, <3>3, ApplyKnows
  <2>2. reads' = Append(SubSeq(b, 1, 1), b[2])
    BY <1>1, <2>1
  <2> HIDE DEF b
  <2>3. Append(SubSeq(b, 1, 1), b[1 + 1]) = SubSeq(b, 1, 1 + 1)
    BY <2>1, Extend
  <2>4. reads' = SubSeq(b, 1, Len(b)) /\ Len(b) \in 0 .. Len(b)
    BY <2>1, <2>2, <2>3
  <2>5. IsPrefix(reads', b)
    BY <2>1, <2>4, PrefixIs
  <2>6. 1 \in DOMAIN req.inputs
    BY <1>6
  <2> QED
    BY <2>1, <2>4, <2>5, <2>6 DEF b
<1>8. \/ ~Readable(p)
      \/ Readable(p) /\ ~isBlob
      \/ isBlob /\ ~SaneAdvance(advance)
      \/ isBlob /\ state.slot + advance > U64Max
      \/ Transition(case.run, post)
  BY DEF ApplySlots
<1>9. CASE p \in gone /\ Content(p).kind = "missing"
  <2>1. Answer(Bug("read slots_count")) /\ UNCHANGED result
    BY <1>9 DEF ApplySlots, Readable
  <2>2. C!BugV \in C!Allowed(case, gone)
    BY <1>1, <1>7, <1>9, RunningFacts, RemovedIsBug
  <2> QED
    BY <1>1, <1>7, <2>1, <2>2, RunningFacts, AnsweredIs, BugOnTrack
<1>10. CASE Content(p) = C!File(case, p)
  <2>1. \A n : n \in C!Advances(case, req) <=>
                 isBlob /\ n = advance /\ SaneAdvance(n)
    BY <1>1, <1>10, AdvancesIs DEF Readable
  <2>2. C!Outcome(case, req) =
          IF isBlob /\ SaneAdvance(advance) /\ state.slot + advance <= U64Max
          THEN case.run ELSE "fault"
    BY <1>4, <1>5, <2>1, SameU64Max DEF C!SlotsOutcome
  <2>3. CASE isBlob /\ SaneAdvance(advance) /\ state.slot + advance <= U64Max
    <3>1. (CHOOSE n \in C!Advances(case, req) : TRUE) = advance
      <4>1. C!Advances(case, req) = {advance}
        BY <2>1, <2>3
      <4> QED
        BY <4>1
    <3>2. C!PostState(case, req) = [slot |-> state.slot + advance, log |-> state.log]
      BY <1>2, <1>4, <3>1 DEF C!PostState
    <3>3. post = [slot |-> state.slot + advance, log |-> state.log]
      BY <1>4 DEF BeaconStates
    <3>4. Transition(case.run, post)
      <4>1. advance \in Nat /\ state.slot \in Nat /\ U64Max \in Nat
        BY <1>4, <2>3, U64MaxType, PresetAssumption
           DEF SaneAdvance, MaxSlotsAdvance, BeaconStates
      <4>2. Readable(p)
        BY <2>3
      <4> HIDE DEF advance, isBlob, post
      <4>3. ~(state.slot + advance > U64Max)
        BY <2>3, <4>1
      <4> QED
        BY <1>8, <2>3, <4>2, <4>3
    <3> QED
      BY <1>1, <1>2, <1>7, <2>2, <2>3, <3>2, <3>3, <3>4, TransitionOnTrack
  <2>4. CASE ~(isBlob /\ SaneAdvance(advance) /\ state.slot + advance <= U64Max)
    <3>1. /\ \/ Answer(Bug("read slots_count"))
             \/ Answer(Bug("slots blob"))
             \/ Answer(Bug("slots advance"))
             \/ Answer(Bug("overflows u64"))
          /\ UNCHANGED result
      BY <2>4, Zenon DEF ApplySlots
    <3>2. C!Outcome(case, req) = "fault"
      BY <2>2, <2>4
    <3> QED
      BY <1>1, <1>7, <3>1, <3>2, RunningFacts, AnsweredIs, FaultIsBug, BugOnTrack
  <2> QED
    BY <2>3, <2>4
<1> QED
  BY <1>1, <1>9, <1>10, RunningFacts, ContentIs

-----------------------------------------------------------------------------
(* Blocks. *)

(* What is known while a sequence of blocks is being applied. *)
LEMMA BlocksFacts ==
  ASSUME IInv, OnTrack, pc = "apply", Shape \in BlocksShape
  PROVE  /\ C!IsBlocks(req) /\ C!HasPre(case, req)
         /\ C!Outcome(case, req) = C!BlocksOutcome(case, req)
         /\ req.inputs \in Seq(STRING) /\ Len(req.inputs) \in Nat
         /\ Len(req.inputs) = req.blocks_count
         /\ DOMAIN req.inputs = 1 .. Len(req.inputs)
         /\ Len(Before(req)) = 1 + Len(req.inputs)
         /\ \A k \in 1 .. Len(req.inputs) : Before(req)[k + 1] = req.inputs[k]
         /\ next \in 1 .. 1 + Len(req.inputs)
         /\ \A k \in 1 .. next - 1 : C!Taken(case, req, k)
         /\ state = Reached(next)
<1>1. C!IsBlocks(req) /\ ~C!IsSlots(req)
  BY DEF Shape, BlocksShape, C!IsBlocks, C!IsSlots
<1>2. /\ C!HasPre(case, req)
      /\ \A k \in 1 .. next - 1 : C!Taken(case, req, k)
      /\ state = Reached(next)
  BY DEF OnTrack, AppliedSoFar
<1>3. /\ req.inputs \in Seq(STRING)
      /\ Len(req.inputs) = req.blocks_count
  BY RunningFacts DEF Runnable, Consistent, CaseRequest
<1>4. Len(req.inputs) \in Nat /\ DOMAIN req.inputs = 1 .. Len(req.inputs)
  BY <1>3, LenProperties
<1>5. InputsUsed(req) = req.inputs
  BY RunningFacts, InputsUsedIs DEF Shape
<1>6. /\ Len(Before(req)) = 1 + Len(req.inputs)
      /\ \A k \in 1 .. Len(req.inputs) : Before(req)[k + 1] = req.inputs[k]
      /\ next \in 1 .. 1 + Len(req.inputs)
  BY <1>5, ApplyKnows
<1>7. C!Outcome(case, req) = C!BlocksOutcome(case, req)
  BY <1>1, <1>2 DEF C!Outcome
<1> QED
  BY <1>1, <1>2, <1>3, <1>4, <1>6, <1>7

(* The first block not taken is the next one if that is not. *)
LEMMA UntakenIs ==
  ASSUME IInv, OnTrack, pc = "apply", Shape \in BlocksShape,
         next \in DOMAIN req.inputs, ~C!Taken(case, req, next),
         NEW b, b = C!Block(case, req, next)
  PROVE  C!Outcome(case, req) =
           IF b.kind = "block" /\ (b.slot > state.slot => b.effect = "reject")
           THEN "reject" ELSE "fault"
<1>1. C!FirstUntaken(case, req) = {next}
  <2>1. next \in C!FirstUntaken(case, req)
    BY BlocksFacts DEF C!FirstUntaken
  <2>2. ASSUME NEW k \in C!FirstUntaken(case, req)
        PROVE  k = next
    <3>1. /\ k \in DOMAIN req.inputs /\ ~C!Taken(case, req, k)
          /\ \A j \in 1 .. k - 1 : C!Taken(case, req, j)
      BY <2>2 DEF C!FirstUntaken
    <3>2. k \in Nat \ {0} /\ next \in Nat \ {0}
      BY <3>1, BlocksFacts
    <3>3. ~(k < next) /\ ~(next < k)
      BY <3>1, <3>2, BlocksFacts
    <3> QED
      BY <3>2, <3>3
  <2> QED
    BY <2>1, <2>2
<1>2. state.slot = C!SlotBefore(case, req, next)
  BY BlocksFacts DEF Reached
<1> QED
  BY <1>1, <1>2, BlocksFacts DEF C!BlocksOutcome, C!Late

(* One more input was applied. *)
LEMMA ReachedNext ==
  ASSUME IInv, OnTrack, pc = "apply", Shape \in BlocksShape,
         next \in DOMAIN req.inputs
  PROVE  Reached(next + 1) =
           [slot |-> C!Block(case, req, next).slot,
            log  |-> Append(state.log, req.inputs[next])]
<1> DEFINE S == STRING \cup {None}
           pre == C!PreOf(case, req).log
           s == req.inputs
           t == SubSeq(s, 1, next - 1)
<1>1. /\ next - 1 \in Nat /\ next - 1 + 1 = next /\ (next + 1) - 1 = next
      /\ next <= Len(s) /\ next + 1 # 1
  BY BlocksFacts
<1>2. pre \in Seq(S)
  BY PreIs DEF BeaconStates
<1>3. s \in Seq(STRING) /\ Len(s) \in Nat /\ s[next] \in S
  BY BlocksFacts, ElementOfSeq
<1>4. s \in Seq(S)
  BY <1>3, SeqMonotonic
<1>5. Append(t, s[next]) = SubSeq(s, 1, next)
  BY <1>1, <1>4, Extend
<1>6. t \in Seq(S)
  BY <1>1, <1>3, <1>4, PrefixIs
<1>7. state.log = pre \o t
  <2>1. Reached(next).log = pre \o t
    BY DEF Reached
  <2> QED
    BY <2>1, BlocksFacts
<1> HIDE DEF pre, t, s
<1>8. pre \o Append(t, s[next]) = Append(pre \o t, s[next])
  <2>1. <<s[next]>> \in Seq(S) /\ pre \o t \in Seq(S)
    BY <1>2, <1>3, <1>6
  <2>2. Append(t, s[next]) = t \o <<s[next]>>
    BY <1>3, <1>6, AppendIsConcat
  <2>3. Append(pre \o t, s[next]) = (pre \o t) \o <<s[next]>>
    BY <1>3, <2>1, AppendIsConcat
  <2>4. (pre \o t) \o <<s[next]>> = pre \o (t \o <<s[next]>>)
    BY <1>2, <1>6, <2>1, ConcatAssociative
  <2> QED
    BY <2>2, <2>3, <2>4
<1>9. C!SlotBefore(case, req, next + 1) = C!Block(case, req, next).slot
  BY <1>1 DEF C!SlotBefore
<1>10. SubSeq(s, 1, (next + 1) - 1) = SubSeq(s, 1, next)
  BY <1>1
<1>11. Reached(next + 1) =
         [slot |-> C!SlotBefore(case, req, next + 1),
          log  |-> pre \o SubSeq(s, 1, (next + 1) - 1)]
  BY DEF Reached, pre, s
<1>12. s[next] = req.inputs[next]
  BY DEF s
<1> QED
  BY <1>5, <1>7, <1>8, <1>9, <1>10, <1>11, <1>12

LEMMA ApplyBlockTrack ==
  ASSUME IInv, OnTrack, ApplyBlock
  PROVE  OnTrack'
<1> DEFINE p == BlockInput
           b == C!Block(case, req, next)
           outcome == StateTransition(state, Content(p))
<1>1. /\ pc = "apply" /\ UNCHANGED <<case, gone, req>>
      /\ Shape \in BlocksShape
      /\ next \in DOMAIN req.inputs
      /\ reads' = Append(reads, p)
      /\ p = req.inputs[next]
      /\ b = C!File(case, p)
  <2>1. /\ pc = "apply" /\ UNCHANGED <<case, gone, req>>
        /\ Shape \in BlocksShape
        /\ ~(next > Len(req.inputs))
        /\ reads' = Append(reads, p)
    BY DEF ApplyBlock, AllBlocksApplied
  <2>2. next \in DOMAIN req.inputs
    BY <2>1, BlocksFacts
  <2>3. p = req.inputs[next] /\ b = C!File(case, p)
    BY DEF BlockInput, C!Block
  <2> QED
    BY <2>1, <2>2, <2>3
<1>2. /\ next + 1 \in 1 .. Len(Before(req))
      /\ reads' = SubSeq(Before(req), 1, next + 1)
      /\ IsPrefix(reads', Before(req))
      /\ Before(req) \in Seq(STRING)
      /\ result = None
  <2> DEFINE w == Before(req)
  <2>1. /\ next \in Nat /\ next + 1 \in 1 .. Len(w) /\ Len(w) \in Nat
        /\ w[next + 1] = p
    BY <1>1, BlocksFacts
  <2>2. w \in Seq(STRING) /\ reads = SubSeq(w, 1, next) /\ result = None
    BY <1>1, ApplyKnows
  <2> HIDE DEF w, p
  <2>3. reads' = SubSeq(w, 1, next + 1)
    BY <1>1, <2>1, <2>2, Extend
  <2>4. IsPrefix(reads', w)
    BY <2>1, <2>2, <2>3, PrefixIs
  <2> QED
    BY <2>1, <2>2, <2>3, <2>4 DEF w
<1>3. ASSUME \/ Answer(Bug("read block"))
             \/ Answer(Bug("decode block"))
             \/ Answer(Panic),
             UNCHANGED result,
             \/ p \in gone
             \/ C!Outcome(case, req) \in {"fault", "panic"}
      PROVE  OnTrack'
  <2>1. C!BugV \in C!Allowed(case, gone)
    <3>1. CASE p \in gone
      BY <1>1, <3>1, RunningFacts, RemovedIsBug
    <3>2. CASE C!Outcome(case, req) \in {"fault", "panic"}
      BY <1>1, <3>2, RunningFacts, FaultIsBug
    <3> QED
      BY <1>3, <3>1, <3>2
  <2> QED
    BY <1>1, <1>2, <1>3, <2>1, RunningFacts, AnsweredIs, BugOnTrack
<1>4. CASE p \in gone /\ Content(p).kind = "missing"
  <2>1. Answer(Bug("read block")) /\ UNCHANGED result
    BY <1>4 DEF ApplyBlock, DecodeFile
  <2> QED
    BY <1>3, <1>4, <2>1
<1>5. CASE Content(p) = b
  <2>1. state.slot \in Nat /\ (b.kind = "block" => b.slot \in Nat /\ b.effect \in Effects)
    <3>1. Content(p) \in Contents
      BY <1>1, RunningFacts, ContentType
    <3>2. b.kind = "block" => b.slot \in 0 .. U64Max /\ b.effect \in Effects
      BY <1>5, <3>1 DEF Contents
    <3>3. state.slot \in 0 .. U64Max
      BY <1>1, RunningFacts DEF BeaconStates
    <3> QED
      BY <3>2, <3>3, U64MaxType
  <2>2. outcome = IF b.slot <= state.slot THEN "reject" ELSE b.effect
    BY <1>5 DEF StateTransition
  <2>3. state.slot = C!SlotBefore(case, req, next)
    <3>1. Reached(next).slot = C!SlotBefore(case, req, next)
      BY DEF Reached
    <3> QED
      BY <1>1, <3>1, BlocksFacts
  <2>4. b.kind = "block" => (C!Taken(case, req, next) <=> outcome = "accept")
    BY <2>1, <2>2, <2>3 DEF C!Taken, C!Late
  <2>5. CASE b.kind # "block"
    <3>1. ~C!Taken(case, req, next)
      BY <2>5 DEF C!Taken
    <3>2. C!Outcome(case, req) = "fault"
      BY <1>1, <2>5, <3>1, UntakenIs
    <3>3. /\ \/ Answer(Bug("read block"))
             \/ Answer(Bug("decode block"))
             \/ Answer(Panic)
          /\ UNCHANGED result
      BY <1>5, <2>5 DEF ApplyBlock, DecodeFile
    <3> QED
      BY <1>3, <3>2, <3>3
  <2>6. CASE b.kind = "block" /\ outcome = "panic"
    <3>1. ~C!Taken(case, req, next) /\ b.slot > state.slot /\ b.effect = "panic"
      BY <2>1, <2>2, <2>4, <2>6
    <3>2. C!Outcome(case, req) = "fault"
      BY <1>1, <2>6, <3>1, UntakenIs
    <3>3. Answer(Panic) /\ UNCHANGED result
      BY <1>5, <2>6 DEF ApplyBlock, DecodeFile
    <3> QED
      BY <1>3, <3>2, <3>3
  <2>7. CASE b.kind = "block" /\ outcome = "reject"
    <3>1. ~C!Taken(case, req, next) /\ (b.slot > state.slot => b.effect = "reject")
      BY <2>1, <2>2, <2>4, <2>7
    <3>2. C!Outcome(case, req) = "reject"
      BY <1>1, <2>7, <3>1, UntakenIs
    <3>3. RejectBlock
      BY <1>5, <2>7 DEF ApplyBlock, DecodeFile
    <3>4. result' = Err("transition") /\ pc' = "finish" /\ result'.ok = FALSE
      BY <3>3 DEF RejectBlock, Goto, Err
    <3>5. AcceptedMeansAllApplied'
      BY <3>4 DEF AcceptedMeansAllApplied
    <3> QED
      BY <1>1, <1>2, <3>2, <3>4, <3>5, ConcludedOnTrack
  <2>8. CASE b.kind = "block" /\ outcome = "accept"
    <3>1. /\ state' = [slot |-> Content(p).slot, log |-> Append(state.log, p)]
          /\ next' = next + 1
          /\ UNCHANGED <<pc, result>>
      BY <1>5, <2>8 DEF ApplyBlock, DecodeFile
    <3>2. state' = Reached(next)'
      <4>1. Reached(next)' = Reached(next + 1)
        BY <1>1, <3>1 DEF Reached
      <4> QED
        BY <1>1, <1>5, <3>1, <4>1, ReachedNext
    <3>3. \A k \in 1 .. next' - 1 : C!Taken(case, req, k)
      BY <1>1, <2>4, <2>8, <3>1, BlocksFacts
    <3>4. AppliedSoFar'
      BY <1>1, <1>2, <3>1, <3>2, <3>3, BlocksFacts DEF AppliedSoFar, Shape
    <3>5. Concluded' /\ AnsweredHonestly'
      BY <1>1, <3>1 DEF Concluded, AnsweredHonestly
    <3>6. ReadsInWireOrder' /\ AcceptedMeansAllApplied'
      BY <1>1, <1>2, <3>1 DEF ReadsInWireOrder, AcceptedMeansAllApplied
    <3> QED
      BY <3>4, <3>5, <3>6 DEF OnTrack
  <2> QED
    BY <2>1, <2>2, <2>5, <2>6, <2>7, <2>8 DEF Effects
<1> QED
  BY <1>1, <1>4, <1>5, RunningFacts, ContentIs

(* The slots of the contract's blocks are those of the property. *)
LEMMA BlockSlotIs ==
  ASSUME IInv, OnTrack, pc = "apply", Shape \in BlocksShape
  PROVE  /\ BlockSlots(req, 0) = C!PreOf(case, req).slot
         /\ C!PreOf(case, req).slot \in Nat
         /\ C!PreOf(case, req) = case.files[CHOOSE p \in req.pre : TRUE].st
         /\ \A k \in 1 .. next - 1 :
              /\ BlockSlots(req, k) = C!Block(case, req, k).slot
              /\ C!Block(case, req, k).slot \in Nat
              /\ C!Block(case, req, k).slot > C!SlotBefore(case, req, k)
<1>1. case \in Cases /\ DOMAIN case.files = Path
  BY RunningFacts, CasesAssumption DEF CaseOK
<1>2. C!PreOf(case, req) = case.files[CHOOSE p \in req.pre : TRUE].st
  <2>1. PICK p \in req.pre : C!File(case, p).kind = "state"
    BY PreIs DEF C!HasPre, C!Holds
  <2>2. (CHOOSE q \in req.pre : TRUE) = p
    BY RunningFacts, OnePath, SingletonIs
  <2>3. C!File(case, p) = case.files[p]
    BY <2>1 DEF C!File
  <2> QED
    BY <2>2, <2>3 DEF C!PreOf
<1>3. BlockSlots(req, 0) = C!PreOf(case, req).slot
  BY <1>2 DEF BlockSlots
<1>4. C!PreOf(case, req).slot \in Nat
  <2>1. C!PreOf(case, req).slot \in 0 .. U64Max
    BY PreIs DEF BeaconStates
  <2> QED
    BY <2>1, U64MaxType
<1>5. ASSUME NEW k \in 1 .. next - 1
      PROVE  /\ BlockSlots(req, k) = C!Block(case, req, k).slot
             /\ C!Block(case, req, k).slot \in Nat
             /\ C!Block(case, req, k).slot > C!SlotBefore(case, req, k)
  <2> DEFINE b == C!Block(case, req, k)
  <2>1. b.kind = "block" /\ b.slot > C!SlotBefore(case, req, k)
    BY BlocksFacts DEF C!Taken, C!Late
  <2>2. b = C!File(case, req.inputs[k])
    BY DEF C!Block
  <2>3. b = case.files[req.inputs[k]] /\ req.inputs[k] \in Path
    BY <1>1, <2>1, <2>2 DEF C!File
  <2>4. b \in Contents
    BY <1>1, <2>3, CasesAssumption DEF CaseOK
  <2>5. b.slot \in 0 .. U64Max
    BY <2>1, <2>4 DEF Contents
  <2>6. k # 0
    BY BlocksFacts
  <2>7. BlockSlots(req, k) = b.slot
    BY <2>3, <2>6 DEF BlockSlots
  <2> QED
    BY <2>1, <2>5, <2>7, U64MaxType
<1> QED
  BY <1>2, <1>3, <1>4, <1>5

LEMMA BlocksAppliedTrack ==
  ASSUME IInv, OnTrack, BlocksApplied
  PROVE  OnTrack'
<1> DEFINE L == Len(req.inputs)
<1>1. /\ pc = "apply" /\ UNCHANGED <<case, gone, req, reads, state, next>>
      /\ Shape \in BlocksShape /\ next > L
      /\ result' = Ok /\ pc' = "finish"
  BY DEF BlocksApplied, AllBlocksApplied, Goto
<1>2. /\ L \in Nat /\ next = L + 1 /\ next - 1 = L
      /\ \A k \in 1 .. L : C!Taken(case, req, k)
  BY <1>1, BlocksFacts
<1>3. C!Outcome(case, req) = "accept"
  <2>1. C!FirstUntaken(case, req) = {}
    BY <1>1, <1>2, BlocksFacts DEF C!FirstUntaken
  <2> QED
    BY <1>1, <2>1, BlocksFacts DEF C!BlocksOutcome
<1>4. state = [slot |-> C!SlotBefore(case, req, L + 1),
               log  |-> C!PreOf(case, req).log \o req.inputs]
  <2>1. SubSeq(req.inputs, 1, L) = req.inputs
    BY <1>1, BlocksFacts, SubSeqFull
  <2>2. Reached(next) = [slot |-> C!SlotBefore(case, req, next),
                         log  |-> C!PreOf(case, req).log
                                    \o SubSeq(req.inputs, 1, next - 1)]
    BY DEF Reached
  <2> QED
    BY <1>1, <1>2, <2>1, <2>2, BlocksFacts
<1>5. state' = C!PostState(case, req)
  <2>1. C!IsBlocks(req) /\ ~C!IsSlots(req)
    BY <1>1, BlocksFacts DEF C!IsBlocks
  <2>2. C!PostState(case, req) =
          [slot |-> C!SlotBefore(case, req, L + 1),
           log  |-> C!PreOf(case, req).log \o req.inputs]
    BY <2>1 DEF C!PostState
  <2> QED
    BY <1>1, <1>4, <2>2
<1>6. AcceptedMeansAllApplied'
  <2> DEFINE slot(k) == BlockSlots(req, k)
  <2>1. ASSUME NEW k \in 1 .. L
        PROVE  C!SlotBefore(case, req, k + 1) = slot(k) /\ slot(k - 1) < slot(k)
    <3>1. /\ slot(k) = C!Block(case, req, k).slot
          /\ slot(k) \in Nat
          /\ slot(k) > C!SlotBefore(case, req, k)
      BY <1>1, <1>2, BlockSlotIs
    <3>2. C!SlotBefore(case, req, k + 1) = slot(k)
      <4>1. (k + 1) - 1 = k /\ k + 1 # 1
        BY <1>2
      <4> QED
        BY <3>1, <4>1 DEF C!SlotBefore
    <3>3. C!SlotBefore(case, req, k) = slot(k - 1) /\ slot(k - 1) \in Nat
      <4>1. CASE k = 1
        BY <1>1, <4>1, BlockSlotIs DEF C!SlotBefore
      <4>2. CASE k # 1
        <5>1. k - 1 \in 1 .. L
          BY <1>2, <4>2
        <5>2. slot(k - 1) = C!Block(case, req, k - 1).slot /\ slot(k - 1) \in Nat
          BY <1>1, <1>2, <5>1, BlockSlotIs
        <5> QED
          BY <4>2, <5>2 DEF C!SlotBefore
      <4> QED
        BY <4>1, <4>2
    <3> QED
      BY <3>1, <3>2, <3>3
  <2>2. C!SlotBefore(case, req, L + 1) = slot(L)
    <3>1. CASE L = 0
      <4>1. L + 1 = 1
        BY <3>1
      <4> QED
        BY <1>1, <3>1, <4>1, BlockSlotIs DEF C!SlotBefore
    <3>2. CASE L # 0
      <4>1. L \in 1 .. L
        BY <1>2, <3>2
      <4> QED
        BY <2>1, <4>1
    <3> QED
      BY <3>1, <3>2
  <2>3. state.slot = slot(req.blocks_count)
    BY <1>1, <1>4, <2>2, BlocksFacts
  <2>4. state.log = case.files[CHOOSE p \in req.pre : TRUE].st.log \o req.inputs
    BY <1>1, <1>4, BlockSlotIs
  <2>5. \A k \in 1 .. req.blocks_count : slot(k - 1) < slot(k)
    BY <1>1, <2>1, BlocksFacts
  <2>6. \A k : BlockSlots(req, k)' = slot(k)
    BY <1>1 DEF BlockSlots
  <2> QED
    BY <1>1, <2>3, <2>4, <2>5, <2>6 DEF AcceptedMeansAllApplied, Shape
<1>7. /\ Before(req) \in Seq(STRING) /\ next \in 1 .. Len(Before(req))
      /\ next = Len(Before(req)) /\ reads' = SubSeq(Before(req), 1, next)
  BY <1>1, <1>2, ApplyKnows, BlocksFacts
<1>8. Ok.ok = TRUE
  BY DEF Ok
<1> QED
  BY <1>1, <1>3, <1>5, <1>6, <1>7, <1>8, ConcludedOnTrack

-----------------------------------------------------------------------------
(* The epilogue. *)

LEMMA ClassifyIs ==
  ASSUME NEW r, NEW g, NEW e
  PROVE  LET v == Classify(r, g, e)
             is(passed, bucket) == v.passed = passed /\ v.bucket = bucket
         IN  IF r.ok
             THEN IF g \in e THEN is(TRUE, "ok")
                  ELSE IF e = {} THEN is(FALSE, "accept-invalid")
                  ELSE is(FALSE, "mismatch")
             ELSE IF e = {} THEN is(TRUE, "reject") ELSE is(FALSE, "reject-valid")
<1>1. \A b, d : /\ Pass(b, d).passed = TRUE /\ Pass(b, d).bucket = b
               /\ Fail(b, d).passed = FALSE /\ Fail(b, d).bucket = b
  BY DEF Pass, Fail
<1> QED
  BY <1>1 DEF Classify

(* The verdict is one the contract allows. *)
LEMMA FinishAllowed ==
  ASSUME IInv, OnTrack, Finish
  PROVE  Answered' \in C!Allowed(case, gone)
<1> DEFINE outcome == C!Outcome(case, req)
           post == C!PostState(case, req)
           promised == C!TransitionVerdict(case, req)
<1>1. pc = "finish" /\ UNCHANGED <<case, gone, req, state, next, result>>
  BY DEF Finish
<1>2. /\ outcome = IF result.ok THEN "accept" ELSE "reject"
      /\ result.ok => state = post
  BY <1>1 DEF OnTrack, Concluded
<1>3. promised \in C!Allowed(case, gone)
  BY <1>1, RunningFacts, PromiseIs DEF C!Allowed
<1>4. /\ C!BugV = [passed |-> FALSE, bucket |-> "bug"]
      /\ \A q, w : C!V(q, w) = [passed |-> q, bucket |-> w]
  BY DEF C!BugV, C!V
<1>5. CASE result.ok /\ case.ser # "ok"
  <2>1. promised = C!BugV
    BY <1>2, <1>5 DEF C!TransitionVerdict
  <2>2. Answer(Bug("serialize post")) \/ Answer(Panic)
    BY <1>5 DEF Finish
  <2> QED
    BY <1>3, <2>1, <2>2, AnsweredIs
<1>6. CASE (result.ok => case.ser = "ok") /\ req.post = {}
                /\ Answer(Classify(result, Serialized(state), {}))
  <2>1. promised = IF result.ok THEN C!V(FALSE, "accept-invalid")
                                ELSE C!V(TRUE, "reject")
    BY <1>2, <1>6 DEF C!TransitionVerdict
  <2>2. Answered' = IF result.ok THEN [passed |-> FALSE, bucket |-> "accept-invalid"]
                                 ELSE [passed |-> TRUE, bucket |-> "reject"]
    <3> DEFINE v == Classify(result, Serialized(state), {})
    <3>1. Answered' = [passed |-> v.passed, bucket |-> v.bucket]
      BY <1>6, AnsweredIs
    <3>2. IF result.ok THEN v.passed = FALSE /\ v.bucket = "accept-invalid"
                       ELSE v.passed = TRUE /\ v.bucket = "reject"
      BY ClassifyIs
    <3> QED
      BY <3>1, <3>2
  <2> QED
    BY <1>3, <1>4, <2>1, <2>2
<1>7. ASSUME result.ok => case.ser = "ok", NEW p \in req.post, Answer(Judge(p))
      PROVE  Answered' \in C!Allowed(case, gone)
  <2>1. req.post = {p}
    BY <1>1, <1>7, RunningFacts, OnePath
  <2>2. CASE p \in gone /\ ~Readable(p)
    <3>1. Answer(Bug("read post"))
      BY <1>7, <2>2 DEF Judge
    <3> QED
      BY <1>1, <1>7, <2>2, <3>1, RunningFacts, RemovedIsBug, AnsweredIs
  <2>3. CASE Content(p) = C!File(case, p) /\ ~Readable(p)
    <3>1. Answer(Bug("read post"))
      BY <1>7, <2>3 DEF Judge
    <3>2. promised = C!BugV
      BY <1>7, <2>3 DEF C!TransitionVerdict, C!Holds, Readable
    <3> QED
      BY <1>3, <3>1, <3>2, AnsweredIs
  <2>4. CASE Content(p) = C!File(case, p) /\ Readable(p)
    <3> DEFINE f == C!File(case, p)
               same == f = [kind |-> "state", st |-> post]
    <3>1. Answer(Classify(result, Serialized(state), {f}))
      BY <1>7, <2>4 DEF Judge
    <3>2. promised = IF ~result.ok THEN C!V(FALSE, "reject-valid")
                     ELSE IF same THEN C!V(TRUE, "ok") ELSE C!V(FALSE, "mismatch")
      BY <1>2, <1>7, <2>1, <2>4 DEF C!TransitionVerdict, C!Holds, Readable
    <3>3. result.ok => (Serialized(state) \in {f} <=> same)
      BY <1>2 DEF Serialized
    <3>4. Answered' = IF ~result.ok THEN [passed |-> FALSE, bucket |-> "reject-valid"]
                      ELSE IF same THEN [passed |-> TRUE, bucket |-> "ok"]
                      ELSE [passed |-> FALSE, bucket |-> "mismatch"]
      <4> DEFINE v == Classify(result, Serialized(state), {f})
      <4>1. Answered' = [passed |-> v.passed, bucket |-> v.bucket]
        BY <3>1, AnsweredIs
      <4>2. IF ~result.ok THEN v.passed = FALSE /\ v.bucket = "reject-valid"
            ELSE IF Serialized(state) \in {f} THEN v.passed = TRUE /\ v.bucket = "ok"
            ELSE v.passed = FALSE /\ v.bucket = "mismatch"
        BY ClassifyIs
      <4> QED
        BY <3>3, <4>1, <4>2
    <3> QED
      BY <1>3, <1>4, <3>2, <3>4
  <2> QED
    BY <1>1, <2>2, <2>3, <2>4, RunningFacts, ContentIs DEF Readable
<1> QED
  BY <1>5, <1>6, <1>7, Zenon DEF Finish

LEMMA FinishTrack ==
  ASSUME IInv, OnTrack, Finish
  PROVE  OnTrack'
<1>1. /\ pc = "finish" /\ UNCHANGED <<case, gone, req, state, next, result>>
      /\ pc' = "write"
  BY DEF Finish, Answer
<1>2. result \in Results /\ result # None
  BY <1>1, CasesAssumption DEF IInv, TypeOK
<1>3. PICK n \in 1 .. Len(Before(req)) :
         /\ reads = SubSeq(Before(req), 1, n)
         /\ result.ok => n = Len(Before(req))
  BY <1>1 DEF OnTrack, Concluded
<1>4. Before(req) \in Seq(STRING) /\ Len(Before(req)) \in Nat
  BY <1>1, RunningFacts, BeforeType, LenProperties
<1>5. IsPrefix(reads, Before(req)) /\ reads \in Seq(STRING)
  BY <1>3, <1>4, PrefixIs
<1>6. ReadsInWireOrder'
  <2>1. CASE UNCHANGED reads
    BY <1>1, <1>5, <2>1 DEF ReadsInWireOrder
  <2>2. CASE \E p \in req.post : reads' = Append(reads, p)
    <3>1. PICK p \in req.post : reads' = Append(reads, p)
      BY <2>2
    <3>2. Singleton(req.post) = <<p>> /\ p \in STRING
      BY <1>1, <3>1, RunningFacts, OnePath, SingletonIs DEF CaseRequests
    <3>3. reads' = SubSeq(Before(req), 1, n) \o Singleton(req.post)
      BY <1>3, <1>5, <3>1, <3>2, AppendIsConcat
    <3> QED
      BY <1>1, <1>2, <1>3, <3>3 DEF ReadsInWireOrder
  <2> QED
    BY <2>1, <2>2 DEF Finish
<1>7. AcceptedMeansAllApplied'
  <2>1. AcceptedMeansAllApplied
    BY DEF OnTrack
  <2>2. \A k : BlockSlots(req, k)' = BlockSlots(req, k)
    BY <1>1 DEF BlockSlots
  <2> QED
    BY <1>1, <2>1, <2>2 DEF AcceptedMeansAllApplied, Shape
<1>8. AppliedSoFar' /\ Concluded'
  BY <1>1 DEF AppliedSoFar, Concluded
<1>9. AnsweredHonestly'
  BY <1>1, FinishAllowed, RunningFacts DEF AnsweredHonestly
<1> QED
  BY <1>6, <1>7, <1>8, <1>9 DEF OnTrack

-----------------------------------------------------------------------------
(* The remaining steps. *)

(* A verdict reached without a transition. *)
LEMMA WriteOnTrack ==
  ASSUME pc' = "write", UNCHANGED <<case, gone>>, result' = None,
         Answered' \in C!Allowed(case, gone),
         case.line[1] \in DOMAIN StateRunner /\ CaseRequestParses(case.line) =>
           req' = CaseRequest(case.line),
         ReadsInWireOrder'
  PROVE  OnTrack'
<1>1. AppliedSoFar' /\ Concluded'
  BY DEF AppliedSoFar, Concluded
<1>2. AnsweredHonestly'
  BY DEF AnsweredHonestly
<1>3. AcceptedMeansAllApplied'
  BY DEF AcceptedMeansAllApplied
<1> QED
  BY <1>1, <1>2, <1>3 DEF OnTrack

(* What of a verdict the harness counts. *)
LEMMA CountedIs ==
  ASSUME NEW v
  PROVE  LET answer == [passed |-> v.passed, bucket |-> v.bucket] IN
         /\ \A d : v = Bug(d) => answer = C!BugV
         /\ v = Panic => answer = C!BugV
         /\ \A b, d : v = Fail(b, d) => answer = C!V(FALSE, b)
         /\ \A b, d : v = Pass(b, d) => answer = C!V(TRUE, b)
<1> DEFINE Count(w) == [passed |-> w.passed, bucket |-> w.bucket]
<1>1. /\ \A b, d : Fail(b, d).passed = FALSE /\ Fail(b, d).bucket = b
      /\ \A b, d : Pass(b, d).passed = TRUE /\ Pass(b, d).bucket = b
  BY DEF Fail, Pass
<1>2. /\ \A b, d : Count(Fail(b, d)) = C!V(FALSE, b)
      /\ \A b, d : Count(Pass(b, d)) = C!V(TRUE, b)
  BY <1>1 DEF C!V
<1> HIDE DEF Count
<1>3. \A d : Count(Bug(d)) = C!BugV
  BY <1>2 DEF Bug, C!BugV
<1>4. /\ \A d : v = Bug(d) => Count(v) = C!BugV
      /\ v = Panic => Count(v) = C!BugV
      /\ \A b, d : v = Fail(b, d) => Count(v) = C!V(FALSE, b)
      /\ \A b, d : v = Pass(b, d) => Count(v) = C!V(TRUE, b)
  BY <1>2, <1>3 DEF Panic
<1> QED
  BY <1>4 DEF Count

(* run_one is the verdict on a container vector. *)
LEMMA RunOneIs ==
  ASSUME case \in Cases, NEW r \in SszRequests,
         Content(r.serialized) = C!File(case, r.serialized),
         NEW v, v = (IF ~Readable(r.serialized) THEN Bug("read serialized")
                     ELSE IF ~RootDecodes(r.root_hex) THEN Bug("bad expected root")
                     ELSE RunOne(r.serialized, r.root_hex.root))
  PROVE  [passed |-> v.passed, bucket |-> v.bucket] = C!SszVerdict(case, r)
<1> DEFINE f == C!File(case, r.serialized)
           answer == [passed |-> v.passed, bucket |-> v.bucket]
           promised == C!SszVerdict(case, r)
<1>1. /\ \A d : v = Bug(d) => answer = C!BugV
      /\ v = Panic => answer = C!BugV
      /\ \A b, d : v = Fail(b, d) => answer = C!V(FALSE, b)
      /\ \A b, d : v = Pass(b, d) => answer = C!V(TRUE, b)
  BY CountedIs
<1>2. CASE f.kind = "missing"
  <2>1. v = Bug("read serialized")
    BY <1>2 DEF Readable
  <2>2. promised = C!BugV
    BY <1>2 DEF C!SszVerdict
  <2> QED
    BY <1>1, <2>1, <2>2
<1>3. CASE f.kind # "missing" /\ ~RootDecodes(r.root_hex)
  <2>1. v = Bug("bad expected root")
    BY <1>3 DEF Readable
  <2>2. promised = C!BugV
    BY <1>3 DEF C!SszVerdict, RootDecodes
  <2> QED
    BY <1>1, <2>1, <2>2
<1>4. CASE f.kind = "bomb" /\ RootDecodes(r.root_hex)
  <2>1. v = Panic
    BY <1>4 DEF Readable, RunOne, DecodeFile
  <2>2. promised = C!BugV
    BY <1>4 DEF C!SszVerdict
  <2> QED
    BY <1>1, <2>1, <2>2
<1>5. CASE f.kind \notin {"missing", "bomb", "ssz"} /\ RootDecodes(r.root_hex)
  <2>1. v = Fail("reject-valid", "decode")
    BY <1>5 DEF Readable, RunOne, DecodeFile
  <2>2. promised = C!V(FALSE, "reject-valid")
    BY <1>5 DEF C!SszVerdict, RootDecodes
  <2> QED
    BY <1>1, <2>1, <2>2
<1>6. CASE f.kind = "ssz" /\ RootDecodes(r.root_hex)
  <2>1. v = IF f.reencode = "panic" THEN Panic
            ELSE IF f.reencode = "err" THEN Fail("reject-valid", "re-serialize")
            ELSE IF f.reencode = "differs" THEN Fail("mismatch", "round-trip differs")
            ELSE IF f.root = "panic" THEN Panic
            ELSE IF f.root = "err" THEN Fail("reject-valid", "hash_tree_root")
            ELSE IF f.root = r.root_hex.root THEN Pass("ok", "")
            ELSE Fail("mismatch", "root")
    BY <1>6 DEF Readable, DecodeFile, RunOne
  <2>2. f.reencode \in {"same", "differs", "err", "panic"}
    <3>1. f \in Contents
      BY ContentType
    <3> QED
      BY <1>6, <3>1 DEF Contents
  <2>3. promised = IF f.reencode = "panic" THEN C!BugV
                   ELSE IF f.reencode = "err" THEN C!V(FALSE, "reject-valid")
                   ELSE IF f.reencode = "differs" THEN C!V(FALSE, "mismatch")
                   ELSE IF f.root = "panic" THEN C!BugV
                   ELSE IF f.root = "err" THEN C!V(FALSE, "reject-valid")
                   ELSE IF f.root = r.root_hex.root THEN C!V(TRUE, "ok")
                   ELSE C!V(FALSE, "mismatch")
    BY <1>6, <2>2 DEF C!SszVerdict, RootDecodes
  <2>4. \/ v = Panic /\ promised = C!BugV
        \/ \E b, d : v = Fail(b, d) /\ promised = C!V(FALSE, b)
        \/ \E b, d : v = Pass(b, d) /\ promised = C!V(TRUE, b)
    <3> HIDE DEF promised, f
    <3> QED
      BY <2>1, <2>3
  <2> QED
    BY <1>1, <2>4
<1> QED
  BY <1>2, <1>3, <1>4, <1>5, <1>6

LEMMA SszRunTrack ==
  ASSUME IInv, SszRun
  PROVE  OnTrack'
<1>1. /\ pc = "ssz_static" /\ UNCHANGED <<case, gone, req, result>>
      /\ pc' = "write" /\ result = None
      /\ case \in Cases /\ req \in SszRequests
      /\ case.line[1] = "ssz_static"
      /\ SszStaticRequestParses(case.line)
      /\ req = SszStaticRequest(case.line)
  BY DEF SszRun, ReadAndCheck, Answer, IInv, TypeOK, Gated, Waiting
<1>2. /\ req.handler = case.line[2] /\ req.serialized = case.line[3]
      /\ req = C!SszStaticRequest(case.line)
  BY <1>1, SameLines DEF SszStaticRequest
<1>3. C!LineParses(case.line)
  BY <1>1, SameLines DEF C!LineParses
<1>4. C!Promise(case) = IF req.handler \in Containers THEN C!SszVerdict(case, req)
                                                     ELSE C!V(FALSE, "todo")
  <2>1. ~C!Gated(case.line)
    BY <1>1 DEF C!Gated
  <2> QED
    BY <1>1, <1>2, <1>3, <2>1, ServedIs DEF C!Promise
<1>5. C!Promise(case) \in C!Allowed(case, gone)
  BY DEF C!Allowed
<1>6. Answered' \in C!Allowed(case, gone)
  <2>1. CASE req.handler \notin Containers
    <3>1. Answer(Fail("todo", "unsupported"))
      BY <2>1 DEF SszRun
    <3>2. Answered' = [passed |-> FALSE, bucket |-> "todo"]
      BY <3>1, AnsweredIs DEF Fail
    <3> QED
      BY <1>4, <1>5, <2>1, <3>2 DEF C!V
  <2>2. CASE /\ req.handler \in Containers
             /\ Content(req.serialized) = C!File(case, req.serialized)
    <3> DEFINE v == IF ~Readable(req.serialized) THEN Bug("read serialized")
                    ELSE IF ~RootDecodes(req.root_hex) THEN Bug("bad expected root")
                    ELSE RunOne(req.serialized, req.root_hex.root)
    <3>1. Answer(v)
      BY <2>2 DEF SszRun, ReadAndCheck
    <3>2. Answered' = [passed |-> v.passed, bucket |-> v.bucket]
      BY <3>1, AnsweredIs
    <3>3. [passed |-> v.passed, bucket |-> v.bucket] = C!SszVerdict(case, req)
      BY <1>1, <2>2, RunOneIs
    <3> QED
      BY <1>4, <1>5, <2>2, <3>2, <3>3
  <2>3. CASE /\ req.handler \in Containers
             /\ req.serialized \in gone /\ ~Readable(req.serialized)
    <3>1. Answer(Bug("read serialized"))
      BY <2>3 DEF SszRun, ReadAndCheck
    <3>2. Answered' = C!BugV
      BY <3>1, AnsweredIs
    <3>3. C!Named(case.line) = {req.serialized}
      BY <1>1, <1>2, <1>3, ServedIs DEF C!Named
    <3> QED
      BY <2>3, <3>2, <3>3 DEF C!Allowed
  <2> QED
    BY <1>1, <2>1, <2>2, <2>3, ContentIs DEF Readable
<1>7. case.line[1] \notin DOMAIN StateRunner
  BY <1>1, ServedIs
<1>8. ReadsInWireOrder'
  BY <1>1, <1>7 DEF ReadsInWireOrder
<1> QED
  BY <1>1, <1>6, <1>7, <1>8, WriteOnTrack

(* What a state-transition request is promised that is not served. *)
LEMMA PromiseTodo ==
  ASSUME NEW c \in Cases, c.line[1] \in DOMAIN StateRunner,
         CaseRequestParses(c.line),
         C!Gated(c.line) \/ c.line[2] \notin Served[c.line[1]]
  PROVE  C!Promise(c) = C!V(FALSE, "todo")
<1>1. c.line[1] \in {"operations", "epoch_processing", "sanity", "finality", "random"}
  BY ServedIs
<1>2. C!LineParses(c.line)
  BY <1>1, SameLines DEF C!LineParses
<1> QED
  BY <1>1, <1>2, ServedIs DEF C!Promise

(* A request whose counts disagree is faulty. *)
LEMMA MiscountedIsBug ==
  ASSUME NEW c \in Cases, c.line[1] \in DOMAIN StateRunner, WellFormed(c.line),
         BlsServed(c.line), NEW r, r = CaseRequest(c.line),
         \/ /\ <<r.runner, r.handler>> \in BlocksShape
            /\ r.blocks_count # Len(r.inputs)
         \/ /\ <<r.runner, r.handler>> \in SlotsShape
            /\ Len(r.inputs) # 1
  PROVE  C!Promise(c) = C!BugV
<1>1. r.runner = c.line[1] /\ r.handler = c.line[2]
  BY DEF CaseRequest
<1>2. Supported(c.line)
  BY <1>1 DEF Supported
<1>3. C!Outcome(c, r) = "fault"
  <2>1. CASE /\ <<r.runner, r.handler>> \in BlocksShape
             /\ r.blocks_count # Len(r.inputs)
    <3>1. C!IsBlocks(r)
      BY <2>1 DEF C!IsBlocks, C!IsSlots, BlocksShape
    <3> QED
      BY <2>1, <3>1 DEF C!Outcome, C!BlocksOutcome
  <2>2. CASE /\ <<r.runner, r.handler>> \in SlotsShape
             /\ Len(r.inputs) # 1
    <3>1. C!IsSlots(r) /\ ~C!IsBlocks(r)
      BY <2>2 DEF C!IsBlocks, C!IsSlots, SlotsShape
    <3>2. C!Advances(c, r) = {}
      BY <2>2 DEF C!Advances
    <3> QED
      BY <3>1, <3>2 DEF C!Outcome, C!SlotsOutcome
  <2> QED
    BY <2>1, <2>2
<1>4. C!TransitionVerdict(c, r) = C!BugV
  BY <1>3 DEF C!TransitionVerdict
<1> QED
  BY <1>2, <1>4, PromiseServed

LEMMA RouteTrack ==
  ASSUME IInv, OperationsRoute \/ EpochRoute \/ BlocksRoute
  PROVE  OnTrack'
<1> DEFINE line == case.line
<1>1. /\ pc \in Routing /\ UNCHANGED <<case, gone, req, reads, result>>
      /\ reads = <<>> /\ result = None
      /\ case \in Cases /\ req \in CaseRequests
      /\ line[1] \in DOMAIN StateRunner
      /\ CaseRequestParses(line)
      /\ req = CaseRequest(line)
      /\ pc = StateRunner[line[1]]
  BY DEF OperationsRoute, EpochRoute, BlocksRoute, IInv, TypeOK, Gated, Waiting,
         Routing, Running
<1>2. /\ req.runner = line[1] /\ req.handler = line[2]
      /\ req.bls_setting = Numeral[line[5]]
  BY <1>1 DEF CaseRequest
<1>3. ReadsInWireOrder'
  BY <1>1, BeforeType, EmptyPrefix DEF ReadsInWireOrder
<1>4. C!Promise(case) \in C!Allowed(case, gone)
  BY DEF C!Allowed
<1>5. ASSUME NEW v, Answer(v), [passed |-> v.passed, bucket |-> v.bucket]
                                 = C!Promise(case)
      PROVE  OnTrack'
  <2>1. pc' = "write" /\ Answered' = C!Promise(case)
    BY <1>5, AnsweredIs
  <2> QED
    BY <1>1, <1>3, <1>4, <2>1, WriteOnTrack
<1>6. CASE Goto("decode_pre")
  <2>1. AppliedSoFar' /\ Concluded' /\ AnsweredHonestly'
    BY <1>6 DEF AppliedSoFar, Concluded, AnsweredHonestly, Goto
  <2>2. AcceptedMeansAllApplied'
    BY <1>1 DEF AcceptedMeansAllApplied
  <2> QED
    BY <1>3, <2>1, <2>2 DEF OnTrack
<1>7. ASSUME NEW d, Answer(Fail("todo", d)),
             C!Gated(line) \/ line[2] \notin Served[line[1]]
      PROVE  OnTrack'
  <2>1. C!Promise(case) = C!V(FALSE, "todo")
    BY <1>1, <1>7, PromiseTodo
  <2> QED
    BY <1>5, <1>7, <2>1, CountedIs
<1>8. CASE OperationsRoute
  <2>1. line[1] = "operations"
    BY <1>1, <1>8 DEF OperationsRoute, StateRunner
  <2>2. req.bls_setting = 2 => C!Gated(line)
    BY <1>2, <2>1 DEF C!Gated
  <2>3. req.handler \notin InputHandlers \cup StateOnlyHandlers =>
          line[2] \notin Served[line[1]]
    BY <1>2, <2>1, ServedIs
  <2> QED
    BY <1>6, <1>7, <1>8, <2>2, <2>3, Zenon DEF OperationsRoute
<1>9. CASE EpochRoute
  <2>1. line[1] = "epoch_processing"
    BY <1>1, <1>9 DEF EpochRoute, StateRunner
  <2>2. req.handler \notin EpochHandlers => line[2] \notin Served[line[1]]
    BY <1>2, <2>1, ServedIs
  <2> QED
    BY <1>6, <1>7, <1>9, <2>2, Zenon DEF EpochRoute
<1>10. CASE BlocksRoute
  <2>1. line[1] \in {"sanity", "finality", "random"}
    <3>1. StateRunner[line[1]] = "blocks"
      BY <1>1, <1>10 DEF BlocksRoute
    <3>2. /\ StateRunner["operations"] # "blocks"
          /\ StateRunner["epoch_processing"] # "blocks"
      BY DEF StateRunner
    <3> QED
      BY <1>1, <3>1, <3>2, ServedIs
  <2>2. req.bls_setting = 2 => C!Gated(line)
    BY <1>2, <2>1 DEF C!Gated
  <2>3. Shape \notin BlocksShape \cup SlotsShape => line[2] \notin Served[line[1]]
    BY <1>2, <2>1, ServedIs DEF Shape, BlocksShape, SlotsShape
  <2>4. ASSUME req.bls_setting # 2, Shape \in BlocksShape \cup SlotsShape,
               ~ArityOK, Answer(Bug("input count"))
        PROVE  OnTrack'
    <3>1. WellFormed(line) /\ BlsServed(line)
      BY <1>1, <1>2, <2>4 DEF WellFormed, BlsServed
    <3>2. \/ Shape \in BlocksShape /\ req.blocks_count # Len(req.inputs)
          \/ Shape \in SlotsShape /\ Len(req.inputs) # 1
      BY <2>4 DEF ArityOK
    <3>3. C!Promise(case) = C!BugV
      BY <1>1, <3>1, <3>2, MiscountedIsBug DEF Shape
    <3> QED
      BY <1>5, <2>4, <3>3, CountedIs
  <2> QED
    BY <1>6, <1>7, <1>10, <2>2, <2>3, <2>4, Zenon DEF BlocksRoute
<1> QED
  BY <1>8, <1>9, <1>10

(* What a line that is not parsed, or whose runner is not served, is *)
(* promised. *)
LEMMA PromiseUnparsed ==
  ASSUME NEW c, NEW first, first = c.line[1]
  PROVE  /\ first \in DOMAIN StateRunner /\ ~CaseRequestParses(c.line) =>
              C!Promise(c) = C!BugV
         /\ first = "ssz_static" /\ ~SszStaticRequestParses(c.line) =>
              C!Promise(c) = C!BugV
         /\ first \in UnmodeledUpstream => C!Promise(c) = C!V(FALSE, "skip")
         /\ first \notin DOMAIN StateRunner \cup {"ssz_static"}
                           \cup UnmodeledUpstream =>
              C!Promise(c) = C!V(FALSE, "todo")
<1>1. first # "ssz_static" => (C!LineParses(c.line) <=> CaseRequestParses(c.line))
  BY SameLines DEF C!LineParses
<1>2. first = "ssz_static" =>
        (C!LineParses(c.line) <=> SszStaticRequestParses(c.line))
  BY SameLines DEF C!LineParses
<1>3. UnmodeledUpstream = {"fork", "genesis", "transition"}
  BY DEF UnmodeledUpstream
<1>4. first \in DOMAIN StateRunner =>
        first \notin {"ssz_static", "fork", "genesis", "transition"}
  BY ServedIs
<1> QED
  BY <1>1, <1>2, <1>3, <1>4, ServedIs DEF C!Promise

LEMMA RespondTrack ==
  ASSUME IInv, Respond
  PROVE  OnTrack'
<1> DEFINE line == case.line
<1>1. /\ pc = "respond" /\ UNCHANGED <<case, gone, reads, result>>
      /\ reads = <<>> /\ result = None /\ req = None
      /\ case \in Cases
  BY DEF Respond, IInv, TypeOK, Waiting
<1>2. C!Promise(case) \in C!Allowed(case, gone)
  BY DEF C!Allowed
<1>3. ASSUME NEW v, Answer(v), UNCHANGED req,
             [passed |-> v.passed, bucket |-> v.bucket] = C!Promise(case),
             ~(line[1] \in DOMAIN StateRunner /\ CaseRequestParses(line))
      PROVE  OnTrack'
  <2>1. pc' = "write" /\ Answered' = C!Promise(case)
    BY <1>3, AnsweredIs
  <2>2. ReadsInWireOrder'
    BY <1>1, <1>3 DEF ReadsInWireOrder
  <2> QED
    BY <1>1, <1>2, <1>3, <2>1, <2>2, WriteOnTrack
<1>4. ASSUME NEW label, label \notin {"apply", "finish", "write"}, Goto(label),
             line[1] \in DOMAIN StateRunner =>
               req' \in CaseRequests /\ req' = CaseRequest(line)
      PROVE  OnTrack'
  <2>1. AppliedSoFar' /\ Concluded' /\ AnsweredHonestly'
    BY <1>4 DEF AppliedSoFar, Concluded, AnsweredHonestly, Goto
  <2>2. AcceptedMeansAllApplied'
    BY <1>1 DEF AcceptedMeansAllApplied
  <2>3. ReadsInWireOrder'
    <3>1. CASE line[1] \in DOMAIN StateRunner
      <4>1. IsPrefix(<<>>, Before(req'))
        BY <1>4, <3>1, BeforeType, EmptyPrefix
      <4> QED
        BY <1>1, <4>1 DEF ReadsInWireOrder
    <3>2. CASE line[1] \notin DOMAIN StateRunner
      BY <1>1, <3>2 DEF ReadsInWireOrder
    <3> QED
      BY <3>1, <3>2
  <2> QED
    BY <2>1, <2>2, <2>3 DEF OnTrack
<1>5. line[1] \in DOMAIN StateRunner =>
        /\ line[1] \notin {"ssz_static"} \cup UnmodeledUpstream \cup Planned
        /\ StateRunner[line[1]] \notin {"apply", "finish", "write"}
  BY DEF StateRunner, UnmodeledUpstream, Planned
<1>6. CASE /\ line[1] \in DOMAIN StateRunner /\ ~CaseRequestParses(line)
           /\ Answer(Bug("bad request line")) /\ UNCHANGED req
  BY <1>3, <1>6, PromiseUnparsed, CountedIs
<1>7. CASE /\ line[1] \in DOMAIN StateRunner /\ CaseRequestParses(line)
           /\ req' = CaseRequest(line) /\ Goto(StateRunner[line[1]])
  <2>1. CaseRequest(line) \in CaseRequests
    BY <1>1, <1>7, CaseRequestType
  <2> QED
    BY <1>4, <1>5, <1>7, <2>1
<1>8. CASE /\ line[1] = "ssz_static" /\ ~SszStaticRequestParses(line)
           /\ Answer(Bug("bad request line")) /\ UNCHANGED req
  BY <1>3, <1>5, <1>8, PromiseUnparsed, CountedIs
<1>9. CASE line[1] = "ssz_static" /\ Goto("ssz_static")
  BY <1>4, <1>5, <1>9
<1>10. CASE /\ line[1] \in UnmodeledUpstream
            /\ Answer(Fail("skip", "unmodeled upstream")) /\ UNCHANGED req
  BY <1>3, <1>5, <1>10, PromiseUnparsed, CountedIs
<1>11. CASE /\ line[1] \notin DOMAIN StateRunner \cup {"ssz_static"}
                                \cup UnmodeledUpstream
            /\ Answer(Fail("todo", "unsupported")) /\ UNCHANGED req
  BY <1>3, <1>11, PromiseUnparsed, CountedIs
<1>12. line[1] \in Planned =>
         line[1] \notin DOMAIN StateRunner \cup {"ssz_static"} \cup UnmodeledUpstream
  BY DEF StateRunner, UnmodeledUpstream, Planned
<1> QED
  BY <1>6, <1>7, <1>8, <1>9, <1>10, <1>11, <1>12, Zenon DEF Respond

(* Every step stays on track. *)
LEMMA TrackStep ==
  ASSUME IInv, OnTrack, [Next]_vars
  PROVE  OnTrack'
<1>1. TypeOK
  BY DEF IInv
<1>2. CASE Boot \/ TakeLine \/ StdinEnds
  <2>1. /\ pc' \notin {"apply", "finish", "write"}
        /\ req' = None /\ result' = None
    BY <1>1, <1>2 DEF Boot, TakeLine, StdinEnds, TypeOK, Waiting
  <2> QED
    BY <2>1 DEF OnTrack, AppliedSoFar, Concluded, AnsweredHonestly,
                ReadsInWireOrder, AcceptedMeansAllApplied
<1>3. CASE WriteVerdict
  <2>1. /\ pc' \notin {"apply", "finish", "write"}
        /\ req' = None /\ result' = None
    BY <1>3 DEF WriteVerdict, Idle
  <2> QED
    BY <2>1 DEF OnTrack, AppliedSoFar, Concluded, AnsweredHonestly,
                ReadsInWireOrder, AcceptedMeansAllApplied
<1>4. CASE Respond
  BY <1>4, RespondTrack
<1>5. CASE OperationsRoute \/ EpochRoute \/ BlocksRoute
  BY <1>5, RouteTrack
<1>6. CASE DecodePre
  BY <1>6, DecodePreTrack
<1>7. CASE OperationsApply
  BY <1>7, OperationsApplyTrack
<1>8. CASE EpochApply
  BY <1>8, EpochApplyTrack
<1>9. CASE ApplyBlock
  BY <1>9, ApplyBlockTrack
<1>10. CASE BlocksApplied
  BY <1>10, BlocksAppliedTrack
<1>11. CASE ApplySlots
  BY <1>11, ApplySlotsTrack
<1>12. CASE Finish
  BY <1>12, FinishTrack
<1>13. CASE SszRun
  BY <1>13, SszRunTrack
<1>14. CASE \E p \in Path : Vanish(p)
  <2>1. /\ UNCHANGED <<pc, case, req, reads, state, next, result, verdict>>
        /\ verdict = None
    BY <1>14 DEF Vanish
  <2>2. pc # "write"
    BY <1>1, <2>1, CasesAssumption DEF TypeOK
  <2>3. AppliedSoFar'
    BY <2>1 DEF OnTrack, AppliedSoFar, Reached, Shape
  <2>4. Concluded'
    BY <2>1 DEF OnTrack, Concluded, Shape
  <2>5. AnsweredHonestly'
    BY <2>1, <2>2 DEF AnsweredHonestly
  <2>6. ReadsInWireOrder'
    BY <2>1 DEF OnTrack, ReadsInWireOrder
  <2>7. AcceptedMeansAllApplied'
    <3>1. \A k : BlockSlots(req, k)' = BlockSlots(req, k)
      BY <2>1 DEF BlockSlots
    <3> QED
      BY <2>1, <3>1 DEF OnTrack, AcceptedMeansAllApplied, Shape
  <2> QED
    BY <2>3, <2>4, <2>5, <2>6, <2>7 DEF OnTrack
<1>15. CASE UNCHANGED vars
  <2>1. /\ UNCHANGED <<pc, case, gone, req, reads, state, next, result>>
        /\ UNCHANGED verdict
    BY <1>15 DEF vars
  <2>2. AppliedSoFar'
    BY <2>1 DEF OnTrack, AppliedSoFar, Reached, Shape
  <2>3. Concluded'
    BY <2>1 DEF OnTrack, Concluded, Shape
  <2>4. AnsweredHonestly'
    BY <2>1 DEF OnTrack, AnsweredHonestly, Answered
  <2>5. ReadsInWireOrder'
    BY <2>1 DEF OnTrack, ReadsInWireOrder
  <2>6. AcceptedMeansAllApplied'
    <3>1. \A k : BlockSlots(req, k)' = BlockSlots(req, k)
      BY <2>1 DEF BlockSlots
    <3> QED
      BY <2>1, <3>1 DEF OnTrack, AcceptedMeansAllApplied, Shape
  <2> QED
    BY <2>2, <2>3, <2>4, <2>5, <2>6 DEF OnTrack
<1> QED
  BY <1>2, <1>3, <1>4, <1>5, <1>6, <1>7, <1>8, <1>9, <1>10, <1>11, <1>12,
     <1>13, <1>14, <1>15 DEF Next, Work

LEMMA InitTrack ==
  ASSUME Init
  PROVE  OnTrack
  BY DEF Init, OnTrack, AppliedSoFar, Concluded, AnsweredHonestly,
         ReadsInWireOrder, AcceptedMeansAllApplied

-----------------------------------------------------------------------------
(***************************************************************************)
(* The state in memory and the files opened are at every step those of the *)
(* inputs taken so far, and what the runners conclude from them is what    *)
(* the contract determines from the request, the files and the client's    *)
(* behaviour alone (run and apply_* of src/operations.rs, src/epoch.rs,    *)
(* src/blocks.rs; src/runner.rs; src/ssz_static.rs).                       *)
(***************************************************************************)
THEOREM KeptOnTrack == Spec => []OnTrack
<1>1. Init => OnTrack
  BY InitTrack
<1>2. IInv /\ OnTrack /\ [Next]_vars => OnTrack'
  BY TrackStep
<1> QED
  BY <1>1, <1>2, Invariance, PTL DEF Spec

(* Files are opened in wire order: pre, inputs, post (src/runner.rs,       *)
(* read_input and its callers).                                            *)
THEOREM OpenedInWireOrder == Spec => []ReadsInWireOrder
<1>1. OnTrack => ReadsInWireOrder
  BY DEF OnTrack
<1> QED
  BY <1>1, KeptOnTrack, PTL

(* A transition that ended well applied every block, once, in wire order   *)
(* and in increasing slots (apply_blocks of src/blocks.rs).                *)
THEOREM NoBlockSkipped == Spec => []AcceptedMeansAllApplied
<1>1. OnTrack => AcceptedMeansAllApplied
  BY DEF OnTrack
<1> QED
  BY <1>1, KeptOnTrack, PTL

-----------------------------------------------------------------------------
(* The status table. *)

(* What the status table says of a verdict. *)
Pair(v) == <<v.passed, v.bucket>>

LEMMA VIs ==
  /\ Pair(C!V(TRUE, "ok")) = <<TRUE, "ok">>
  /\ Pair(C!V(TRUE, "reject")) = <<TRUE, "reject">>
  /\ Pair(C!V(FALSE, "mismatch")) = <<FALSE, "mismatch">>
  /\ Pair(C!V(FALSE, "reject-valid")) = <<FALSE, "reject-valid">>
  /\ Pair(C!V(FALSE, "accept-invalid")) = <<FALSE, "accept-invalid">>
  /\ Pair(C!V(FALSE, "bug")) = <<FALSE, "bug">>
  /\ Pair(C!V(FALSE, "todo")) = <<FALSE, "todo">>
  /\ Pair(C!V(FALSE, "skip")) = <<FALSE, "skip">>
  /\ C!V(TRUE, "ok").bucket = "ok"
  /\ C!V(TRUE, "reject").bucket = "reject"
  /\ C!V(FALSE, "mismatch").bucket = "mismatch"
  /\ C!V(FALSE, "reject-valid").bucket = "reject-valid"
  /\ C!V(FALSE, "accept-invalid").bucket = "accept-invalid"
  /\ C!V(FALSE, "bug").bucket = "bug"
  /\ C!V(FALSE, "todo").bucket = "todo"
  /\ C!V(FALSE, "skip").bucket = "skip"
  BY DEF C!V, Pair

LEMMA TransitionVerdictIs ==
  ASSUME NEW c, NEW r, NEW v, v = C!TransitionVerdict(c, r)
  PROVE  /\ Pair(v) \in StateAnswers
         /\ v.bucket \in {"reject", "accept-invalid"} => r.post = {}
<1>1. \/ v = C!V(FALSE, "bug")
      \/ v \in {C!V(FALSE, "reject-valid"), C!V(TRUE, "ok"), C!V(FALSE, "mismatch")}
      \/ v \in {C!V(TRUE, "reject"), C!V(FALSE, "accept-invalid")} /\ r.post = {}
  BY DEF C!TransitionVerdict, C!BugV
<1>2. Pair(v) \in StateAnswers
  BY VIs, <1>1 DEF StateAnswers
<1>3. v.bucket \in {"reject", "accept-invalid"} => r.post = {}
  BY VIs, <1>1
<1> QED
  BY <1>2, <1>3

LEMMA SszVerdictIs ==
  ASSUME NEW c, NEW r, NEW v, v = C!SszVerdict(c, r)
  PROVE  /\ Pair(v) \in
              StateAnswers \ {<<TRUE, "reject">>, <<FALSE, "accept-invalid">>}
         /\ v.bucket \notin {"reject", "accept-invalid"}
<1>1. v \in {C!V(FALSE, "bug"), C!V(FALSE, "reject-valid"), C!V(TRUE, "ok"),
             C!V(FALSE, "mismatch")}
  BY DEF C!SszVerdict, C!BugV
<1>2. Pair(v) \in {<<FALSE, "bug">>, <<FALSE, "reject-valid">>, <<TRUE, "ok">>,
                 <<FALSE, "mismatch">>}
  BY VIs, <1>1
<1>3. Pair(v) \in StateAnswers
  BY <1>2 DEF StateAnswers
<1>4. v.bucket \notin {"reject", "accept-invalid"}
  BY VIs, <1>1
<1>5. Pair(v) \notin {<<TRUE, "reject">>, <<FALSE, "accept-invalid">>}
  BY <1>4 DEF Pair
<1> QED
  BY <1>3, <1>4, <1>5

(* What the contract promises is in the status table. *)
LEMMA PromiseDocumented ==
  ASSUME NEW c, NEW v, v = C!Promise(c)
  PROVE  /\ Pair(v) \in DocumentedAnswers(c.line[1])
         /\ v.bucket \in {"reject", "accept-invalid"} =>
              /\ c.line[1] \in DOMAIN StateRunner
              /\ CaseRequestParses(c.line)
              /\ CaseRequest(c.line).post = {}
<1> DEFINE line == c.line
           first == c.line[1]
<1>1. CASE first \in {"fork", "genesis", "transition"}
  <2>1. v = C!V(FALSE, "skip")
    BY <1>1 DEF C!Promise
  <2>2. DocumentedAnswers(first) = {<<FALSE, "skip">>}
    BY <1>1, ServedIs DEF DocumentedAnswers
  <2>3. Pair(v) = <<FALSE, "skip">> /\ v.bucket = "skip"
    BY VIs, <2>1
  <2> QED
    BY <2>2, <2>3
<1>2. CASE first \notin {"fork", "genesis", "transition"} /\ first \notin DOMAIN Served
  <2>1. v = C!V(FALSE, "todo")
    BY <1>2 DEF C!Promise
  <2>2. DocumentedAnswers(first) = {<<FALSE, "todo">>}
    BY <1>2, ServedIs DEF DocumentedAnswers
  <2>3. Pair(v) = <<FALSE, "todo">> /\ v.bucket = "todo"
    BY VIs, <2>1
  <2> QED
    BY <2>2, <2>3
<1>3. CASE first = "ssz_static"
  <2>1. \/ v \in {C!V(FALSE, "bug"), C!V(FALSE, "todo")}
        \/ v = C!SszVerdict(c, C!SszStaticRequest(line))
    BY <1>3, ServedIs DEF C!Promise, C!BugV
  <2>2. DocumentedAnswers(first) =
          StateAnswers \ {<<TRUE, "reject">>, <<FALSE, "accept-invalid">>}
    BY <1>3, ServedIs DEF DocumentedAnswers
  <2>3. Pair(v) \in DocumentedAnswers(first)
    <3>1. CASE v \in {C!V(FALSE, "bug"), C!V(FALSE, "todo")}
      <4>1. Pair(v) \in {<<FALSE, "bug">>, <<FALSE, "todo">>}
        BY VIs, <3>1
      <4>2. /\ <<FALSE, "bug">> \in DocumentedAnswers(first)
            /\ <<FALSE, "todo">> \in DocumentedAnswers(first)
        BY <2>2 DEF StateAnswers
      <4> QED
        BY <4>1, <4>2
    <3>2. CASE v = C!SszVerdict(c, C!SszStaticRequest(line))
      BY <2>2, <3>2, SszVerdictIs
    <3> QED
      BY <2>1, <3>1, <3>2
  <2>4. v.bucket \notin {"reject", "accept-invalid"}
    BY VIs, <2>1, SszVerdictIs
  <2> QED
    BY <2>3, <2>4
<1>4. CASE first \in DOMAIN StateRunner
  <2>1. first \notin {"ssz_static", "fork", "genesis", "transition"}
        /\ first \in DOMAIN Served
    BY <1>4, ServedIs
  <2>2. C!LineParses(line) <=> CaseRequestParses(line)
    BY <2>1, SameLines DEF C!LineParses
  <2>3. \/ v \in {C!V(FALSE, "bug"), C!V(FALSE, "todo")}
        \/ CaseRequestParses(line) /\ v = C!TransitionVerdict(c, CaseRequest(line))
    BY <2>1, <2>2, SameLines DEF C!Promise, C!BugV
  <2>4. DocumentedAnswers(first) = StateAnswers
    BY <1>4, <2>1 DEF DocumentedAnswers
  <2>5. CASE v \in {C!V(FALSE, "bug"), C!V(FALSE, "todo")}
    <3>1. /\ Pair(v) \in {<<FALSE, "bug">>, <<FALSE, "todo">>}
          /\ v.bucket \in {"bug", "todo"}
      BY VIs, <2>5
    <3>2. /\ <<FALSE, "bug">> \in DocumentedAnswers(first)
          /\ <<FALSE, "todo">> \in DocumentedAnswers(first)
      BY <2>4 DEF StateAnswers
    <3> QED
      BY <3>1, <3>2
  <2>6. CASE CaseRequestParses(line) /\ v = C!TransitionVerdict(c, CaseRequest(line))
    BY <1>4, <2>4, <2>6, TransitionVerdictIs
  <2> QED
    BY <2>3, <2>5, <2>6
<1> QED
  BY <1>1, <1>2, <1>3, <1>4, ServedIs

LEMMA HonestIsDocumented ==
  ASSUME IInv, OnTrack
  PROVE  BucketsAsDocumented
<1> SUFFICES ASSUME verdict # None
             PROVE  /\ <<verdict.passed, verdict.bucket>>
                         \in DocumentedAnswers(case.line[1])
                    /\ verdict.bucket \in {"reject", "accept-invalid"} =>
                         req.post = {}
  BY DEF BucketsAsDocumented
<1>1. pc = "write"
  BY DEF IInv, TypeOK
<1>2. /\ Answered \in C!Allowed(case, gone)
      /\ case.line[1] \in DOMAIN StateRunner /\ CaseRequestParses(case.line) =>
           req = CaseRequest(case.line)
  BY <1>1 DEF OnTrack, AnsweredHonestly
<1>3. Answered.passed = verdict.passed /\ Answered.bucket = verdict.bucket
  BY DEF Answered
<1>4. CASE Answered = C!Promise(case)
  BY <1>2, <1>3, <1>4, PromiseDocumented DEF Pair
<1>5. CASE Answered = C!BugV /\ C!Named(case.line) # {}
  <2>1. case.line[1] \in DOMAIN Served
    BY <1>5 DEF C!Named
  <2>2. <<FALSE, "bug">> \in DocumentedAnswers(case.line[1])
    BY <2>1, ServedIs DEF DocumentedAnswers, StateAnswers
  <2>3. verdict.passed = FALSE /\ verdict.bucket = "bug"
    BY <1>3, <1>5 DEF C!BugV, C!V
  <2> QED
    BY <2>2, <2>3
<1> QED
  BY <1>2, <1>4, <1>5 DEF C!Allowed

(* Each runner answers only the buckets its row of the status table of     *)
(* README.md documents, and rejects or fails to reject a vector only when  *)
(* the vector names no post (verdict of src/verdict.rs and its callers).   *)
THEOREM AnswersAsDocumented == Spec => []BucketsAsDocumented
<1>1. IInv /\ OnTrack => BucketsAsDocumented
  BY HonestIsDocumented
<1> QED
  BY <1>1, Invariance, KeptOnTrack, PTL

-----------------------------------------------------------------------------
(* What is blamed for a case in which several things are wrong. *)

(* A request whose pre-state was decoded has one that was there. *)
LEMMA PreWasThere ==
  ASSUME IInv, OnTrack, pc \in {"apply", "finish"}
  PROVE  /\ case.line[1] # "ssz_static"
         /\ \E p \in OptPath(case.line[3]) : ~NeverThere(p)
<1>1. /\ case \in Cases /\ case.line[1] \in DOMAIN StateRunner
      /\ req = CaseRequest(case.line)
  BY DEF IInv, TypeOK, Gated, Waiting, Running
<1>2. C!HasPre(case, req)
  <2>1. CASE pc = "apply"
    BY <2>1 DEF OnTrack, AppliedSoFar
  <2>2. CASE pc = "finish"
    <3>1. C!Outcome(case, req) \in {"accept", "reject"}
      BY <2>2 DEF OnTrack, Concluded
    <3> QED
      BY <3>1 DEF C!Outcome
  <2> QED
    BY <2>1, <2>2
<1>3. PICK p \in req.pre : C!File(case, p).kind = "state"
  BY <1>2 DEF C!HasPre, C!Holds
<1>4. p \in OptPath(case.line[3])
  BY <1>1 DEF CaseRequest
<1>5. ~NeverThere(p)
  <2>1. DOMAIN case.files = Path
    BY <1>1, CasesAssumption DEF CaseOK
  <2> QED
    BY <1>3, <2>1 DEF NeverThere, C!File
<1> QED
  BY <1>1, <1>4, <1>5 DEF StateRunner

(* A request that is answered at a gate did not pass it. *)
LEMMA GateAnswers ==
  ASSUME IInv, Respond \/ OperationsRoute \/ EpochRoute \/ BlocksRoute,
         pc' = "write"
  PROVE  ~Runnable(case.line)
<1>1. CASE Respond
  <2>1. ~WellFormed(case.line)
    <3>1. /\ \A first \in DOMAIN StateRunner : StateRunner[first] # "write"
          /\ \A first \in UnmodeledUpstream \cup Planned :
               first \notin DOMAIN StateRunner \cup {"ssz_static"}
          /\ "ssz_static" \notin DOMAIN StateRunner
      BY DEF StateRunner, UnmodeledUpstream, Planned
    <3>2. pc' # StateRunner[case.line[1]] \/ case.line[1] \notin DOMAIN StateRunner
      BY <3>1
    <3>3. CASE case.line[1] \in DOMAIN StateRunner
      <4>1. ~CaseRequestParses(case.line)
        BY <1>1, <3>1, <3>2, <3>3, Zenon DEF Respond, Goto
      <4> QED
        BY <3>1, <3>3, <4>1, Zenon DEF WellFormed
    <3>4. CASE case.line[1] = "ssz_static"
      <4>1. ~SszStaticRequestParses(case.line)
        BY <1>1, <3>1, <3>4 DEF Respond, Goto
      <4> QED
        BY <3>1, <3>4, <4>1 DEF WellFormed
    <3> QED
      BY <3>3, <3>4 DEF WellFormed
  <2> QED
    BY <2>1 DEF Runnable
<1>2. ASSUME OperationsRoute \/ EpochRoute \/ BlocksRoute
      PROVE  /\ pc \in Routing /\ pc = StateRunner[case.line[1]]
             /\ case.line[1] \in DOMAIN StateRunner
             /\ req.runner = case.line[1] /\ req.handler = case.line[2]
             /\ req.bls_setting = Numeral[case.line[5]]
             /\ req.blocks_count = Numeral[case.line[6]]
             /\ req.inputs = InputPaths(case.line[8])
  <2>1. pc \in Routing
    BY <1>2 DEF OperationsRoute, EpochRoute, BlocksRoute, Routing
  <2>2. /\ case.line[1] \in DOMAIN StateRunner /\ pc = StateRunner[case.line[1]]
        /\ req = CaseRequest(case.line)
    BY <2>1 DEF IInv, Gated
  <2> QED
    BY <2>1, <2>2 DEF CaseRequest
<1>3. CASE OperationsRoute
  <2>1. case.line[1] = "operations"
    BY <1>2, <1>3 DEF OperationsRoute, StateRunner
  <2>2. \/ req.bls_setting = 2
        \/ req.handler \notin InputHandlers \cup StateOnlyHandlers
    BY <1>3 DEF OperationsRoute, Goto
  <2> QED
    BY <1>2, <1>3, <2>1, <2>2
       DEF Runnable, Supported, BlsServed, BlocksShape, SlotsShape
<1>4. CASE EpochRoute
  <2>1. case.line[1] = "epoch_processing"
    BY <1>2, <1>4 DEF EpochRoute, StateRunner
  <2>2. req.handler \notin EpochHandlers
    BY <1>4 DEF EpochRoute, Goto
  <2> QED
    BY <1>2, <1>4, <2>1, <2>2 DEF Runnable, Supported, BlocksShape, SlotsShape
<1>5. CASE BlocksRoute
  <2>0. pc = "blocks" /\ pc = StateRunner[case.line[1]]
        /\ case.line[1] \in DOMAIN StateRunner
    BY <1>2, <1>5 DEF BlocksRoute
  <2>1. case.line[1] \in {"sanity", "finality", "random"}
    BY <2>0 DEF StateRunner
  <2>2. Shape = <<case.line[1], case.line[2]>>
    BY <1>2, <1>5 DEF Shape
  <2>3. \/ req.bls_setting = 2
        \/ Shape \notin BlocksShape \cup SlotsShape
        \/ ~ArityOK
    BY <1>5 DEF BlocksRoute, Goto
  <2> QED
    BY <1>2, <1>5, <2>1, <2>2, <2>3
       DEF Runnable, Supported, BlsServed, Consistent, ArityOK
<1> QED
  BY <1>1, <1>3, <1>4, <1>5

LEMMA BlamedStep ==
  ASSUME IInv, IInv', OnTrack, FirstFileBlamedFirst, [Next]_vars
  PROVE  FirstFileBlamedFirst'
<1> SUFFICES ASSUME verdict' # None, Runnable(case.line)'
             PROVE  FirstFileBlamedFirst'
  BY DEF FirstFileBlamedFirst
<1>1. pc' = "write"
  BY DEF IInv, TypeOK
<1>2. CASE UNCHANGED <<case, verdict>>
  BY <1>2 DEF FirstFileBlamedFirst, NeverThere
<1>3. CASE Respond \/ OperationsRoute \/ EpochRoute \/ BlocksRoute
  <2>1. case' = case
    BY <1>3 DEF Respond, OperationsRoute, EpochRoute, BlocksRoute
  <2> QED
    BY <1>1, <1>3, <2>1, GateAnswers
<1>4. CASE \/ OperationsApply \/ EpochApply \/ ApplyBlock
           \/ BlocksApplied \/ ApplySlots \/ Finish
  <2>1. pc \in {"apply", "finish"} /\ case' = case
    BY <1>4 DEF OperationsApply, EpochApply, ApplyBlock, BlocksApplied, ApplySlots, Finish
  <2>2. PICK p \in OptPath(case.line[3]) : ~NeverThere(p)
    BY <2>1, PreWasThere
  <2>3. case.line[1] # "ssz_static" /\ OptPath(case.line[3]) = {p}
    BY <2>1, <2>2, PreWasThere DEF OptPath
  <2> QED
    BY <2>1, <2>2, <2>3 DEF FirstFileBlamedFirst, NeverThere
<1>5. CASE DecodePre
  <2>1. /\ case' = case /\ case.line[1] # "ssz_static"
        /\ req.pre = OptPath(case.line[3])
    <3>1. pc \in Running /\ case' = case
      BY <1>5 DEF DecodePre, Running
    <3>2. case.line[1] \in DOMAIN StateRunner /\ req = CaseRequest(case.line)
      BY <3>1 DEF IInv, Gated
    <3> QED
      BY <3>1, <3>2 DEF StateRunner, CaseRequest
  <2>2. ASSUME NEW p \in OptPath(case.line[3]), NeverThere(p)
        PROVE  verdict' = Bug("read pre")
    <3>1. req.pre = {p}
      BY <2>1, <2>2 DEF OptPath
    <3>2. DecodeFile(p, "state") = "unreadable"
      BY <2>2 DEF NeverThere, DecodeFile, Content
    <3> QED
      BY <1>5, <3>1, <3>2 DEF DecodePre, Answer
  <2> QED
    BY <2>1, <2>2 DEF FirstFileBlamedFirst, NeverThere
<1>6. CASE SszRun
  <2>1. /\ case' = case /\ case.line[1] = "ssz_static"
        /\ req.handler = case.line[2] /\ req.serialized = case.line[3]
    BY <1>6 DEF SszRun, IInv, Gated, SszStaticRequest
  <2>2. req.handler \in Containers
    BY <2>1 DEF Runnable, Supported, BlocksShape, SlotsShape
  <2>3. NeverThere(case.line[3]) => ~Readable(req.serialized)
    BY <2>1 DEF NeverThere, Readable, Content
  <2>4. NeverThere(case.line[3]) => verdict' = Bug("read serialized")
    BY <1>6, <2>2, <2>3 DEF SszRun, ReadAndCheck, Answer
  <2> QED
    BY <2>1, <2>4 DEF FirstFileBlamedFirst, NeverThere
<1> QED
  BY <1>1, <1>2, <1>3, <1>4, <1>5, <1>6
     DEF Next, Work, vars, Boot, WriteVerdict, TakeLine, StdinEnds, Vanish

(***************************************************************************)
(* Of several things that are wrong with a case, the answer names the file *)
(* that is opened first (run of src/ssz_static.rs, decode_pre of           *)
(* src/runner.rs).                                                         *)
(***************************************************************************)
THEOREM FirstFileBlamed == Spec => []FirstFileBlamedFirst
<1>1. Init => FirstFileBlamedFirst
  BY DEF Init, FirstFileBlamedFirst
<1>2. IInv /\ IInv' /\ OnTrack /\ FirstFileBlamedFirst /\ [Next]_vars
        => FirstFileBlamedFirst'
  BY BlamedStep
<1> QED
  BY <1>1, <1>2, Invariance, KeptOnTrack, PTL DEF Spec

-----------------------------------------------------------------------------
(* The refinement. *)

(* A step between taking a line and writing its answer: the answer appears *)
(* when the step ends the case, and nothing the harness sees otherwise.    *)
LEMMA CaseStep ==
  ASSUME IInv, IInv', OnTrack',
         pc \notin Waiting \cup {"write"}, pc' \notin Waiting,
         UNCHANGED <<case, gone>>
  PROVE  C!Next \/ UNCHANGED C!contractVars
<1>1. /\ case \in Cases /\ case # None /\ verdict = None
      /\ pc \notin {"exit0", "exit2"} /\ pc' \notin {"exit0", "exit2"}
  BY CasesAssumption DEF IInv, TypeOK, Waiting
<1>2. CASE pc' = "write"
  <2>1. verdict' \in Verdicts /\ verdict' # None
    BY <1>2, CasesAssumption DEF IInv, TypeOK
  <2>2. Answered' \in C!Allowed(case, gone)
    BY <1>2 DEF OnTrack, AnsweredHonestly
  <2>3. C!Reply
    BY <1>1, <2>1, <2>2 DEF C!Reply, Answered
  <2> QED
    BY <2>3 DEF C!Next
<1>3. CASE pc' # "write"
  <2>1. verdict' = None
    BY <1>3 DEF IInv, TypeOK
  <2> QED
    BY <1>1, <2>1 DEF C!contractVars
<1> QED
  BY <1>2, <1>3

LEMMA ContractStep ==
  ASSUME IInv, IInv', OnTrack', [Next]_vars
  PROVE  C!Next \/ UNCHANGED C!contractVars
<1>1. CASE Boot \/ StdinEnds
  <2>1. /\ pc \in {"boot", "idle"} /\ UNCHANGED <<case, gone, verdict>>
        /\ pc' \in {"idle", "exit0", "exit2"}
        /\ case = None /\ verdict = None
    BY <1>1 DEF Boot, StdinEnds, IInv, TypeOK, Waiting
  <2>2. CASE pc' = "idle"
    BY <2>1, <2>2 DEF C!contractVars
  <2>3. CASE pc' # "idle"
    <3>1. C!Close
      BY <2>1, <2>3 DEF C!Close
    <3> QED
      BY <3>1 DEF C!Next
  <2> QED
    BY <2>2, <2>3
<1>2. CASE TakeLine
  <2>1. /\ pc = "idle" /\ pc' = "respond" /\ case = None
        /\ case' \in Cases /\ case'.line # <<>>
        /\ UNCHANGED <<gone, verdict>>
    BY <1>2 DEF TakeLine, IInv, TypeOK, Waiting
  <2>2. C!Ask
    BY <2>1 DEF C!Ask
  <2> QED
    BY <2>2 DEF C!Next
<1>3. CASE WriteVerdict
  <2>1. /\ pc = "write" /\ pc' \in {"idle", "exit0"}
        /\ case' = None /\ gone' = {} /\ verdict' = None
    BY <1>3 DEF WriteVerdict, Idle
  <2>2. /\ verdict # None
        /\ [passed |-> verdict.passed, bucket |-> verdict.bucket] # None
    BY <2>1, CasesAssumption DEF IInv, TypeOK, Verdicts, Answers
  <2>3. C!Forget
    BY <2>1 DEF C!Forget
  <2>4. CASE pc' = "idle"
    <3>1. C!Deliver
      BY <2>1, <2>2, <2>3, <2>4 DEF C!Deliver
    <3> QED
      BY <3>1 DEF C!Next
  <2>5. CASE pc' = "exit0"
    <3>1. C!Lose
      BY <2>2, <2>3, <2>5 DEF C!Lose
    <3> QED
      BY <3>1 DEF C!Next
  <2> QED
    BY <2>1, <2>4, <2>5
<1>4. CASE \E p \in Path : Vanish(p)
  <2>1. PICK p \in Path : Vanish(p)
    BY <1>4
  <2>2. /\ case # None /\ verdict = None /\ gone' = gone \cup {p}
        /\ UNCHANGED <<pc, case, verdict>>
    BY <2>1 DEF Vanish
  <2>3. case \in Cases
    BY <2>2 DEF IInv, TypeOK
  <2>4. p \in DOMAIN case.files
    BY <2>1, <2>3, CasesAssumption DEF CaseOK
  <2>5. C!Vanish
    BY <2>2, <2>4 DEF C!Vanish
  <2> QED
    BY <2>5 DEF C!Next
<1>5. CASE Respond \/ OperationsRoute \/ EpochRoute \/ BlocksRoute
  <2>1. /\ pc \in {"respond", "operations", "epoch_processing", "blocks"}
        /\ UNCHANGED <<case, gone>>
    BY <1>5 DEF Respond, OperationsRoute, EpochRoute, BlocksRoute
  <2>2. pc' \notin Waiting
    <3>1. \A first \in DOMAIN StateRunner : StateRunner[first] \notin Waiting
      BY DEF StateRunner, Waiting
    <3>2. "write" \notin Waiting /\ "decode_pre" \notin Waiting
          /\ "ssz_static" \notin Waiting
      BY DEF Waiting
    <3>3. CASE Respond
      BY <3>1, <3>2, <3>3 DEF Respond, Answer, Goto
    <3>4. CASE OperationsRoute \/ EpochRoute \/ BlocksRoute
      BY <3>2, <3>4 DEF OperationsRoute, EpochRoute, BlocksRoute, Answer, Goto
    <3> QED
      BY <1>5, <3>3, <3>4
  <2> QED
    BY <2>1, <2>2, CaseStep DEF Waiting
<1>6. CASE \/ DecodePre \/ OperationsApply \/ EpochApply \/ ApplyBlock
           \/ BlocksApplied \/ ApplySlots \/ Finish \/ SszRun
  <2>1. /\ pc \in {"decode_pre", "apply", "finish", "ssz_static"}
        /\ UNCHANGED <<case, gone>>
    BY <1>6 DEF DecodePre, OperationsApply, EpochApply, ApplyBlock, BlocksApplied,
                ApplySlots, Finish, SszRun
  <2>2. pc' \in {"apply", "finish", "write"}
    BY <1>6 DEF DecodePre, OperationsApply, ApplyInput, EpochApply, ApplyBlock,
                RejectBlock, BlocksApplied, ApplySlots, Finish, SszRun, ReadAndCheck,
                Transition, Answer, Goto
  <2> QED
    BY <2>1, <2>2, CaseStep DEF Waiting
<1>7. CASE UNCHANGED vars
  BY <1>7 DEF vars, C!contractVars
<1> QED
  BY <1>1, <1>2, <1>3, <1>4, <1>5, <1>6, <1>7 DEF Next, Work

LEMMA ContractInit ==
  ASSUME Init
  PROVE  C!Init
  BY DEF Init, C!Init

(***************************************************************************)
(* The runner implements its contract: every case asked is answered once,  *)
(* with the one verdict that the request, its files and the client's       *)
(* behaviour determine together, or with bug when a file the request names *)
(* was removed meanwhile (respond of src/main.rs and every runner).        *)
(***************************************************************************)
THEOREM ContractImplemented == Spec => ImplementsContract
<1>1. Init => C!Init
  BY ContractInit
<1>2. IInv /\ IInv' /\ OnTrack' /\ [Next]_vars => [C!Next]_(C!contractVars)
  BY ContractStep
<1> QED
  BY <1>1, <1>2, Invariance, KeptOnTrack, PTL DEF Spec, ImplementsContract, C!Spec
=============================================================================
