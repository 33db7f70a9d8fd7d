----------------------------- MODULE Operations -----------------------------
(***************************************************************************)
(* The operations runner (src/operations.rs): one operation on a           *)
(* pre-state.                                                              *)
(***************************************************************************)
EXTENDS Runner

(* Dispatch::Input: the handlers that decode one operation. *)
InputHandlers ==
  {"attestation", "attester_slashing", "proposer_slashing", "voluntary_exit",
   "voluntary_exit_churn", "bls_to_execution_change", "sync_aggregate",
   "block_header", "payload_attestation", "deposit_request",
   "builder_deposit_request", "builder_exit_request", "withdrawal_request",
   "consolidation_request", "execution_payload_bid",
   "parent_execution_payload"}

(* Dispatch::StateOnly: the handlers that need the pre-state only. *)
StateOnlyHandlers == {"withdrawals"}

(* The gates of run, all of them before any file is opened. *)
OperationsRoute ==
  /\ pc = "operations"
  /\ UNCHANGED <<case, gone, req, reads, state, next, result>>
  /\ \/ /\ req.bls_setting = 2
        /\ Answer(Fail("todo", "bls_setting=2"))
     \/ /\ req.bls_setting # 2
        /\ req.handler \notin InputHandlers \cup StateOnlyHandlers
        /\ Answer(Fail("todo", "unsupported"))
     \/ /\ req.bls_setting # 2
        /\ req.handler \in InputHandlers \cup StateOnlyHandlers
        /\ Goto("decode_pre")

AppliedTo(s, mark) == [s EXCEPT !.log = Append(@, mark)]

(* A variant of OpInput that takes the last input. *)
OpInputLast == req.inputs[Len(req.inputs)]

(* The one input an operation is read from: inputs.first(). *)
OpInput == req.inputs[1]

(***************************************************************************)
(* decode_and_apply on the first input.  A request without inputs decodes  *)
(* the empty byte string, which no operation container accepts; an         *)
(* operation that does not decode counts as a rejection by the client.     *)
(***************************************************************************)
ApplyInput ==
  \/ /\ req.inputs = <<>>
     /\ result' = Err("decode op")
     /\ Goto("finish")
     /\ UNCHANGED <<reads, state>>
  \/ /\ req.inputs # <<>>
     /\ reads' = Append(reads, OpInput)
     /\ \/ /\ DecodeFile(OpInput, "op") = "unreadable"
           /\ Answer(Bug("read op"))
           /\ UNCHANGED <<state, result>>
        \/ /\ DecodeFile(OpInput, "op") = "undecodable"
           /\ result' = Err("decode op")
           /\ Goto("finish")
           /\ UNCHANGED state
        \/ /\ DecodeFile(OpInput, "op") = "panic"
           /\ Answer(Panic)
           /\ UNCHANGED <<state, result>>
        \/ /\ DecodeFile(OpInput, "op") = "decoded"
           /\ Transition(Content(OpInput).effect,
                         AppliedTo(state, OpInput))

OperationsApply ==
  /\ pc = "apply"
  /\ req.runner = "operations"
  /\ UNCHANGED <<case, gone, req, next>>
  /\ \/ /\ req.handler \in InputHandlers
        /\ ApplyInput
     \/ /\ req.handler \in StateOnlyHandlers
        /\ Transition(case.run, AppliedTo(state, req.handler))
        /\ UNCHANGED reads
=============================================================================
