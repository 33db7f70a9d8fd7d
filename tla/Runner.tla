------------------------------- MODULE Runner -------------------------------
(***************************************************************************)
(* The state of one case while it is being answered, and the prologue and  *)
(* epilogue every state-transition runner shares (src/runner.rs).          *)
(*                                                                         *)
(* A case is a request line together with the world it is answered in: the *)
(* contents of the files it may name, and what moonglass-core, which is    *)
(* external, will do with the pre-state.  The files are shared with the    *)
(* harness, which may remove one (Vanish in Main) between two reads.       *)
(***************************************************************************)
EXTENDS Protocol, Verdict

CONSTANTS
  Path,    (* file names                                       *)
  Cases,   (* the cases the harness may send                   *)
  None     (* a local variable of the program that is not live *)

(***************************************************************************)
(* What moonglass-core does when it is handed something to run: it accepts *)
(* it, returns a TransitionError, or panics.                               *)
(***************************************************************************)
Effects == {"accept", "reject", "panic"}

(* A decoded BeaconState: its slot, and the inputs applied to it so far,   *)
(* None standing for one that was applied half-way.                        *)
BeaconStates == [slot : 0 .. U64Max, log : Seq(STRING \cup {None})]

(***************************************************************************)
(* File contents, told apart by what they decode to.  "junk" decodes to    *)
(* nothing, decoding "bomb" panics, and "missing" cannot be read at all.   *)
(***************************************************************************)
Contents ==
       [kind : {"missing", "junk", "bomb"}]
  \cup [kind : {"state"}, st : BeaconStates]
  \cup [kind : {"op"}, effect : Effects]
  \cup [kind : {"block"}, slot : 0 .. U64Max, effect : Effects]
  \cup [kind : {"blob"}, bytes : Seq(0 .. ByteBase - 1)]
  \cup [kind : {"ssz"}, reencode : {"same", "differs", "err", "panic"},
        root : STRING]

(***************************************************************************)
(* A root field as decode_root of ssz_static tells them apart: how many    *)
(* digits follow the optional 0x, whether all are hexadecimal, the root.   *)
(***************************************************************************)
RootTexts == [digits : Nat, hex : BOOLEAN, root : STRING]

LineOK(line) ==
  /\ Len(line) \in Nat
  /\ line # <<>> => line[1] \in STRING
  /\ Len(line) = 10 =>
       /\ \A i \in {2, 3, 4, 5, 6, 7, 9, 10} : line[i] \in STRING
       /\ line[8] \in Seq(STRING)
  /\ Len(line) = 4 /\ line[1] = "ssz_static" =>
       line[2] \in STRING /\ line[3] \in STRING /\ line[4] \in RootTexts

CaseOK(c) ==
  /\ LineOK(c.line)
  /\ c.files \in [Path -> Contents]
  /\ c.run \in Effects                       (* a handler without input file *)
  /\ c.ser \in {"ok", "err", "panic"}        (* serializing the post-state   *)

(* None is a value of its own. *)
ASSUME CasesAssumption ==
  /\ None \notin Cases
  /\ None \notin Results
  /\ None \notin Verdicts
  /\ None \notin Answers
  /\ \A c \in Cases : CaseOK(c)

VARIABLES
  pc,       (* the step the program is at                           *)
  case,     (* the case being answered                              *)
  gone,     (* files of the case the harness has removed            *)
  req,      (* the parsed request                                   *)
  reads,    (* history: the paths opened for this case, in order    *)
  state,    (* the BeaconState in memory                            *)
  next,     (* index of the next block input                        *)
  result,   (* how the transition ended                             *)
  verdict   (* the answer                                           *)

vars == <<pc, case, gone, req, reads, state, next, result, verdict>>

(* What reading path p gives now. *)
Content(p) ==
  IF p \in Path \ gone THEN case.files[p] ELSE [kind |-> "missing"]

Readable(p) == Content(p).kind # "missing"

(* Reading p and decoding what it holds as a kind: how far one gets. *)
DecodeFile(p, kind) ==
  IF Content(p).kind = "missing" THEN "unreadable"
  ELSE IF Content(p).kind = kind THEN "decoded"
  ELSE IF Content(p).kind = "bomb" THEN "panic"
  ELSE "undecodable"

Bug(detail) == Fail("bug", detail)

(* catch_unwind of main: a panic anywhere in the case answers bug. *)
Panic == Bug("panic")

(* A variant of Answer without catch_unwind: a panic ends the program. *)
AnswerUncaught(v) ==
  verdict' = v /\ pc' = IF v = Panic THEN "exit101" ELSE "write"

(* Return v from the runner. *)
Answer(v) == verdict' = v /\ pc' = "write"

(* Go on with the next step of the runner. *)
Goto(label) == pc' = label /\ UNCHANGED verdict

(* A state whose transition failed may be half-way changed. *)
Partial(s) == [s EXCEPT !.log = Append(@, None)]

(***************************************************************************)
(* A call of moonglass-core that runs to the end of the transition: on     *)
(* success the state is post.                                              *)
(***************************************************************************)
Transition(effect, post) ==
  \/ /\ effect = "accept"
     /\ state' = post
     /\ result' = Ok
     /\ Goto("finish")
  \/ /\ effect = "reject"
     /\ state' = Partial(state)
     /\ result' = Err("transition")
     /\ Goto("finish")
  \/ /\ effect = "panic"
     /\ Answer(Panic)
     /\ UNCHANGED <<state, result>>

(* Read and decode the pre-state. *)
DecodePre ==
  /\ pc = "decode_pre"
  /\ UNCHANGED <<case, gone, req, next, result>>
  /\ \/ /\ req.pre = {}
        /\ Answer(Bug("case without a pre state"))
        /\ UNCHANGED <<reads, state>>
     \/ \E p \in req.pre :
          /\ reads' = Append(reads, p)
          /\ \/ /\ DecodeFile(p, "state") = "unreadable"
                /\ Answer(Bug("read pre"))
                /\ UNCHANGED state
             \/ /\ DecodeFile(p, "state") = "undecodable"
                /\ Answer(Bug("decode pre"))
                /\ UNCHANGED state
             \/ /\ DecodeFile(p, "state") = "panic"
                /\ Answer(Panic)
                /\ UNCHANGED state
             \/ /\ DecodeFile(p, "state") = "decoded"
                /\ state' = Content(p).st
                /\ Goto("apply")

(* The canonical bytes of a state are what a file holding it holds. *)
Serialized(s) == [kind |-> "state", st |-> s]

(* A variant of Judge that takes an unreadable post for an absent one. *)
JudgeLenient(p) ==
  Classify(result, Serialized(state), IF Readable(p) THEN {Content(p)} ELSE {})

(* The verdict against the expected post in p. *)
Judge(p) ==
  IF Readable(p) THEN Classify(result, Serialized(state), {Content(p)})
                 ELSE Bug("read post")

(***************************************************************************)
(* Serialize the post-state unless the transition failed, then read the    *)
(* expected post and classify.                                             *)
(***************************************************************************)
Finish ==
  /\ pc = "finish"
  /\ UNCHANGED <<case, gone, req, state, next, result>>
  /\ \/ /\ result.ok /\ case.ser # "ok"
        /\ Answer(IF case.ser = "err" THEN Bug("serialize post") ELSE Panic)
        /\ UNCHANGED reads
     \/ /\ result.ok => case.ser = "ok"
        /\ req.post = {}
        /\ Answer(Classify(result, Serialized(state), {}))
        /\ UNCHANGED reads
     \/ /\ result.ok => case.ser = "ok"
        /\ \E p \in req.post :
             /\ reads' = Append(reads, p)
             /\ Answer(Judge(p))
=============================================================================
