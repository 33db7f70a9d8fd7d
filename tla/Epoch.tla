-------------------------------- MODULE Epoch -------------------------------
(***************************************************************************)
(* The epoch_processing runner (src/epoch.rs): one epoch sub-phase on a    *)
(* pre-state.  It has no BLS gate and opens no input file.                 *)
(***************************************************************************)
EXTENDS Runner

EpochHandlers ==
  {"builder_pending_payments", "effective_balance_updates", "eth1_data_reset",
   "historical_summaries_update", "inactivity_updates",
   "justification_and_finalization", "participation_flag_updates",
   "pending_consolidations", "pending_deposits", "pending_deposits_churn",
   "proposer_lookahead", "ptc_window", "randao_mixes_reset",
   "registry_updates", "rewards_and_penalties", "slashings",
   "slashings_reset", "sync_committee_updates"}

(* A variant of EpochRoute with the BLS gate of the other runners. *)
EpochRouteGated ==
  /\ pc = "epoch_processing"
  /\ UNCHANGED <<case, gone, req, reads, state, next, result>>
  /\ IF req.bls_setting = 2 \/ req.handler \notin EpochHandlers
       THEN Answer(Fail("todo", "unsupported"))
       ELSE Goto("decode_pre")

EpochRoute ==
  /\ pc = "epoch_processing"
  /\ UNCHANGED <<case, gone, req, reads, state, next, result>>
  /\ \/ /\ req.handler \notin EpochHandlers
        /\ Answer(Fail("todo", "unsupported"))
     \/ /\ req.handler \in EpochHandlers
        /\ Goto("decode_pre")

EpochApply ==
  /\ pc = "apply"
  /\ req.runner = "epoch_processing"
  /\ Transition(case.run, [state EXCEPT !.log = Append(@, req.handler)])
  /\ UNCHANGED <<case, gone, req, reads, next>>
=============================================================================
