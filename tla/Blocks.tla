------------------------------- MODULE Blocks -------------------------------
(***************************************************************************)
(* The sanity / finality / random family (src/blocks.rs): a sequence of    *)
(* signed blocks, or a slot advance, on a pre-state.                       *)
(***************************************************************************)
EXTENDS Runner, SequencesExt

CONSTANT SlotsPerHistoricalRoot   (* a preset constant of moonglass-core *)

ASSUME PresetAssumption == SlotsPerHistoricalRoot \in Nat \ {0}

MaxSlotsAdvance == 2 * SlotsPerHistoricalRoot

(* shape_for: the <<runner, handler>> pairs of either shape. *)
BlocksShape ==
  {<<"sanity", "blocks">>, <<"finality", "finality">>, <<"random", "random">>}

SlotsShape == {<<"sanity", "slots">>}

Shape == <<req.runner, req.handler>>

(* A variant of ArityOK that leaves slots to the check in apply_slots. *)
ArityBlocksOnly == Shape \in BlocksShape => req.blocks_count = Len(req.inputs)

(* The shape's arity check, which rejects an inconsistent request. *)
ArityOK ==
  /\ Shape \in BlocksShape => req.blocks_count = Len(req.inputs)
  /\ Shape \in SlotsShape => Len(req.inputs) = 1

(* The gates of run, all of them before any file is opened. *)
BlocksRoute ==
  /\ pc = "blocks"
  /\ UNCHANGED <<case, gone, req, reads, state, next, result>>
  /\ \/ /\ req.bls_setting = 2
        /\ Answer(Fail("todo", "bls_setting=2"))
     \/ /\ req.bls_setting # 2
        /\ Shape \notin BlocksShape \cup SlotsShape
        /\ Answer(Fail("todo", "unsupported"))
     \/ /\ req.bls_setting # 2
        /\ Shape \in BlocksShape \cup SlotsShape
        /\ ~ArityOK
        /\ Answer(Bug("input count"))
     \/ /\ req.bls_setting # 2
        /\ Shape \in BlocksShape \cup SlotsShape
        /\ ArityOK
        /\ Goto("decode_pre")

(***************************************************************************)
(* state_transition of moonglass-core: a block must be strictly later than *)
(* the state, and is otherwise accepted or not.                            *)
(***************************************************************************)
StateTransition(s, block) ==
  IF block.slot <= s.slot THEN "reject" ELSE block.effect

(* A variant of BlockInput that applies the blocks backwards. *)
BlockInputReversed == req.inputs[Len(req.inputs) + 1 - next]

(* The input of this iteration of apply_blocks. *)
BlockInput == req.inputs[next]

(* A variant of AllBlocksApplied that forgets the last block. *)
AllButLastApplied == next >= Len(req.inputs)

AllBlocksApplied == next > Len(req.inputs)

(* A variant of RejectBlock that goes on with the next block. *)
RejectBlockAndGoOn ==
  /\ state' = Partial(state)
  /\ result' = Err("transition")
  /\ next' = next + 1
  /\ UNCHANGED <<pc, verdict>>

(* The first transition error ends apply_blocks. *)
RejectBlock ==
  /\ state' = Partial(state)
  /\ result' = Err("transition")
  /\ Goto("finish")
  /\ UNCHANGED next

(* One iteration of apply_blocks. *)
ApplyBlock ==
  /\ pc = "apply"
  /\ Shape \in BlocksShape
  /\ ~AllBlocksApplied
  /\ UNCHANGED <<case, gone, req>>
  /\ LET p == BlockInput
         outcome == StateTransition(state, Content(p))
     IN
     /\ reads' = Append(reads, p)
     /\ \/ /\ DecodeFile(p, "block") = "unreadable"
           /\ Answer(Bug("read block"))
           /\ UNCHANGED <<state, next, result>>
        \/ /\ DecodeFile(p, "block") = "undecodable"
           /\ Answer(Bug("decode block"))
           /\ UNCHANGED <<state, next, result>>
        \/ /\ DecodeFile(p, "block") = "panic"
           /\ Answer(Panic)
           /\ UNCHANGED <<state, next, result>>
        \/ /\ DecodeFile(p, "block") = "decoded"
           /\ \/ /\ outcome = "accept"
                 /\ state' = [slot |-> Content(p).slot,
                              log  |-> Append(state.log, p)]
                 /\ next' = next + 1
                 /\ UNCHANGED <<pc, result, verdict>>
              \/ /\ outcome = "reject"
                 /\ RejectBlock
              \/ /\ outcome = "panic"
                 /\ Answer(Panic)
                 /\ UNCHANGED <<state, next, result>>

(* apply_blocks has run out of inputs. *)
BlocksApplied ==
  /\ pc = "apply"
  /\ Shape \in BlocksShape
  /\ AllBlocksApplied
  /\ result' = Ok
  /\ Goto("finish")
  /\ UNCHANGED <<case, gone, req, reads, state, next>>

(***************************************************************************)
(* decode_slots_count: big-endian, as short as possible, at most one word. *)
(* The shift of the accumulator drops what leaves the word.                *)
(***************************************************************************)
SlotsBlobOK(bytes) ==
  /\ Len(bytes) \in 1 .. WordBytes
  /\ Len(bytes) > 1 => bytes[1] # 0

(* The accumulator after each number of bytes. *)
Accumulator(bytes) ==
  LET v[k \in 0 .. Len(bytes)] ==
        IF k = 0 THEN 0 ELSE (v[k - 1] * ByteBase + bytes[k]) % (U64Max + 1)
  IN  v

(* A variant of SlotsCount that reads the blob as little-endian. *)
SlotsCountLittleEndian(bytes) == Accumulator(Reverse(bytes))[Len(bytes)]

SlotsCount(bytes) == Accumulator(bytes)[Len(bytes)]

(* A variant of SaneAdvance without the upper bound. *)
SomeAdvance(advance) == advance > 0

(* check_slots_advance. *)
SaneAdvance(advance) == advance \in 1 .. MaxSlotsAdvance

(***************************************************************************)
(* apply_slots.  Its own check that there is one input repeats ArityOK.    *)
(* process_slots of moonglass-core ends at the target slot.                *)
(***************************************************************************)
ApplySlots ==
  /\ pc = "apply"
  /\ Shape \in SlotsShape
  /\ UNCHANGED <<case, gone, req, next>>
  /\ LET p == req.inputs[1]
         isBlob == Readable(p) /\ Content(p).kind = "blob"
                               /\ SlotsBlobOK(Content(p).bytes)
         advance == SlotsCount(Content(p).bytes)
         refuse(detail) == Answer(Bug(detail)) /\ UNCHANGED <<state, result>>
     IN
     /\ reads' = Append(reads, p)
     /\ \/ /\ ~Readable(p)
           /\ refuse("read slots_count")
        \/ /\ Readable(p)
           /\ ~isBlob
           /\ refuse("slots blob")
        \/ /\ isBlob
           /\ ~SaneAdvance(advance)
           /\ refuse("slots advance")
        \/ /\ isBlob
           /\ SaneAdvance(advance)
           /\ state.slot + advance > U64Max
           /\ refuse("overflows u64")
        \/ /\ isBlob
           /\ SaneAdvance(advance)
           /\ state.slot + advance <= U64Max
           /\ Transition(case.run, [state EXCEPT !.slot = @ + advance])
=============================================================================
