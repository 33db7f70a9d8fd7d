------------------------------ MODULE Contract ------------------------------
(***************************************************************************)
(* What the runner promises the harness, with no word of how: every case   *)
(* asked is answered once, with the one verdict that the request, its      *)
(* files and the client's behaviour determine together.  A file the        *)
(* harness removes meanwhile can turn that verdict into bug, never into    *)
(* another verdict.  Details are not part of the promise.                  *)
(***************************************************************************)
EXTENDS Protocol, FiniteSets

CONSTANTS
  Cases, None,
  Skipped,     (* runners deliberately not modelled upstream           *)
  Handlers,    (* served runner |-> its handlers                       *)
  BlsGated,    (* runners that cannot serve bls_setting 2              *)
  MaxAdvance   (* the longest slot advance that is still a sane one    *)

VARIABLES asked, gone, answer, open

contractVars == <<asked, gone, answer, open>>

V(passed, bucket) == [passed |-> passed, bucket |-> bucket]

BugV == V(FALSE, "bug")

-----------------------------------------------------------------------------
(* Coverage: does the runner serve this request at all? *)

LineParses(line) ==
  IF line[1] = "ssz_static" THEN SszStaticRequestParses(line)
                            ELSE CaseRequestParses(line)

Gated(line) == line[1] \in BlsGated /\ Numeral[line[5]] = 2

-----------------------------------------------------------------------------
(* The state-transition runners.  r is a parsed request, c its case. *)

File(c, p) == IF p \in DOMAIN c.files THEN c.files[p] ELSE [kind |-> "missing"]

Holds(c, p, kind) == File(c, p).kind = kind

PreOf(c, r) == File(c, CHOOSE p \in r.pre : TRUE).st

HasPre(c, r) == \E p \in r.pre : Holds(c, p, "state")

IsSlots(r) == r.runner = "sanity" /\ r.handler = "slots"

IsBlocks(r) == r.runner \in {"sanity", "finality", "random"} /\ ~IsSlots(r)

TakesInput(r) == r.runner = "operations" /\ r.handler # "withdrawals"

(* Input k of a blocks case is a block the client takes after the ones     *)
(* before it, when those have been taken.                                  *)
Block(c, r, k) == File(c, r.inputs[k])

SlotBefore(c, r, k) ==
  IF k = 1 THEN PreOf(c, r).slot ELSE Block(c, r, k - 1).slot

Late(c, r, k) == Block(c, r, k).slot > SlotBefore(c, r, k)

Taken(c, r, k) ==
  Block(c, r, k).kind = "block" /\ Late(c, r, k) /\ Block(c, r, k).effect = "accept"

FirstUntaken(c, r) ==
  {k \in DOMAIN r.inputs :
     (\A j \in 1 .. k - 1 : Taken(c, r, j)) /\ ~Taken(c, r, k)}

BlocksOutcome(c, r) ==
  IF Len(r.inputs) # r.blocks_count THEN "fault"
  ELSE IF FirstUntaken(c, r) = {} THEN "accept"
  ELSE IF \E k \in FirstUntaken(c, r) :
            /\ Block(c, r, k).kind = "block"
            /\ Late(c, r, k) => Block(c, r, k).effect = "reject"
       THEN "reject" ELSE "fault"

(* A slot advance is read from a minimal big-endian blob: the number of    *)
(* which the blob is the representation.                                   *)
Represents(bytes, n) ==
  /\ Len(bytes) \in 1 .. WordBytes
  /\ n < Power[Len(bytes)]
  /\ Len(bytes) > 1 => n >= Power[Len(bytes) - 1]
  /\ \A i \in DOMAIN bytes : bytes[i] = (n \div Power[Len(bytes) - i]) % ByteBase

Advances(c, r) ==
  {n \in 1 .. MaxAdvance : /\ Len(r.inputs) = 1
                           /\ Holds(c, r.inputs[1], "blob")
                           /\ Represents(File(c, r.inputs[1]).bytes, n)}

SlotsOutcome(c, r) ==
  IF \E n \in Advances(c, r) : PreOf(c, r).slot + n <= U64Max
  THEN c.run ELSE "fault"

(* An operation that does not decode is one the client rejects. *)
InputOutcome(c, r) ==
  IF r.inputs = <<>> THEN "reject"
  ELSE IF Holds(c, r.inputs[1], "op") THEN File(c, r.inputs[1]).effect
  ELSE IF File(c, r.inputs[1]).kind \in {"missing", "bomb"} THEN "fault"
  ELSE "reject"

Outcome(c, r) ==
  IF ~HasPre(c, r) THEN "fault"
  ELSE IF IsBlocks(r) THEN BlocksOutcome(c, r)
  ELSE IF IsSlots(r) THEN SlotsOutcome(c, r)
  ELSE IF TakesInput(r) THEN InputOutcome(c, r)
  ELSE c.run

(* The state an accepted case ends in. *)
PostState(c, r) ==
  CASE IsBlocks(r) ->
         [slot |-> SlotBefore(c, r, Len(r.inputs) + 1),
          log  |-> PreOf(c, r).log \o r.inputs]
    [] IsSlots(r) ->
         [slot |-> PreOf(c, r).slot + CHOOSE n \in Advances(c, r) : TRUE,
          log  |-> PreOf(c, r).log]
    [] OTHER ->
         [slot |-> PreOf(c, r).slot,
          log  |-> Append(PreOf(c, r).log,
                          IF TakesInput(r) THEN r.inputs[1] ELSE r.handler)]

(***************************************************************************)
(* The honest verdict: a vector with a post file is valid, one without is  *)
(* invalid, and a client that faithfully rejects an invalid vector passes. *)
(***************************************************************************)
TransitionVerdict(c, r) ==
  LET outcome == Outcome(c, r)
      valid == r.post # {}
  IN
  IF \/ outcome \in {"fault", "panic"}
     \/ outcome = "accept" /\ c.ser # "ok"
     \/ \E p \in r.post : Holds(c, p, "missing")
    THEN BugV
  ELSE IF outcome = "reject"
    THEN IF valid THEN V(FALSE, "reject-valid") ELSE V(TRUE, "reject")
  ELSE IF ~valid THEN V(FALSE, "accept-invalid")
  ELSE IF \E p \in r.post : File(c, p) = [kind |-> "state", st |-> PostState(c, r)]
    THEN V(TRUE, "ok") ELSE V(FALSE, "mismatch")

-----------------------------------------------------------------------------
(* The ssz_static runner: a container vector is always a valid one. *)

SszVerdict(c, r) ==
  LET f == File(c, r.serialized)
      wanted == r.root_hex.digits = 64 /\ r.root_hex.hex
      fault == f.kind = "ssz" /\ "panic" \in
                 {f.reencode} \cup (IF f.reencode = "same" THEN {f.root} ELSE {})
      refused == \/ f.kind # "ssz"
                 \/ f.reencode = "err"
                 \/ f.reencode = "same" /\ f.root = "err"
  IN
  IF f.kind \in {"missing", "bomb"} \/ ~wanted \/ fault THEN BugV
  ELSE IF refused THEN V(FALSE, "reject-valid")
  ELSE IF f.reencode = "same" /\ f.root = r.root_hex.root THEN V(TRUE, "ok")
  ELSE V(FALSE, "mismatch")

-----------------------------------------------------------------------------
(* The verdict of a case whose files stay where they are. *)
Promise(c) ==
  LET line == c.line IN
  IF line[1] \in Skipped THEN V(FALSE, "skip")
  ELSE IF line[1] \notin DOMAIN Handlers THEN V(FALSE, "todo")
  ELSE IF ~LineParses(line) THEN BugV
  ELSE IF line[2] \notin Handlers[line[1]] \/ Gated(line) THEN V(FALSE, "todo")
  ELSE IF line[1] = "ssz_static" THEN SszVerdict(c, SszStaticRequest(line))
  ELSE TransitionVerdict(c, CaseRequest(line))

(* The files a request names. *)
Named(line) ==
  IF line[1] \notin DOMAIN Handlers \/ ~LineParses(line) THEN {}
  ELSE IF line[1] = "ssz_static" THEN {line[3]}
  ELSE LET r == CaseRequest(line) IN
       r.pre \cup r.post \cup {r.inputs[i] : i \in DOMAIN r.inputs}

Allowed(c, removed) ==
  {Promise(c)} \cup {BugV : p \in removed \cap Named(c.line)}

-----------------------------------------------------------------------------
Init ==
  /\ asked = None
  /\ gone = {}
  /\ answer = None
  /\ open = TRUE

(* An empty line asks nothing. *)
Ask ==
  /\ open
  /\ asked = None
  /\ asked' \in {c \in Cases : c.line # <<>>}
  /\ UNCHANGED <<gone, answer, open>>

(* The harness removes a file of the case it waits for. *)
Vanish ==
  /\ asked # None
  /\ answer = None
  /\ \E p \in DOMAIN asked.files : gone' = gone \cup {p}
  /\ UNCHANGED <<asked, answer, open>>

Reply ==
  /\ asked # None
  /\ answer = None
  /\ answer' \in Allowed(asked, gone)
  /\ UNCHANGED <<asked, gone, open>>

Forget == asked' = None /\ gone' = {} /\ answer' = None

Deliver ==
  /\ answer # None
  /\ Forget
  /\ UNCHANGED open

(* Standard output is gone: the answer is lost and the session over. *)
Lose ==
  /\ answer # None
  /\ Forget
  /\ open' = FALSE

(* Nothing more to read, or a session refused from the start. *)
Close ==
  /\ open
  /\ asked = None
  /\ open' = FALSE
  /\ UNCHANGED <<asked, gone, answer>>

Next ==
  \/ Ask
  \/ Vanish
  \/ Reply
  \/ Deliver
  \/ Lose
  \/ Close

Spec == Init /\ [][Next]_contractVars
=============================================================================
