----------------------------- MODULE SszStatic ------------------------------
(***************************************************************************)
(* The ssz_static runner (src/ssz_static.rs): decode one container, encode *)
(* it again, compare its hash-tree-root.                                   *)
(***************************************************************************)
EXTENDS Runner

Containers ==
  {"Attestation", "AttestationData", "AttesterSlashing", "AggregateAndProof",
   "BeaconBlock", "BeaconBlockBody", "BeaconBlockHeader", "BeaconState",
   "BLSToExecutionChange", "Builder", "BuilderDepositRequest",
   "BuilderExitRequest", "BuilderPendingPayment", "BuilderPendingWithdrawal",
   "Checkpoint", "ConsolidationRequest", "ContributionAndProof",
   "DataColumnSidecar", "DataColumnsByRootIdentifier", "Deposit",
   "DepositData", "DepositMessage", "DepositRequest", "Eth1Data",
   "ExecutionPayload", "ExecutionPayloadBid", "ExecutionPayloadEnvelope",
   "ExecutionRequests", "Fork", "ForkData", "HistoricalSummary",
   "IndexedAttestation", "IndexedPayloadAttestation", "MatrixEntry",
   "PartialDataColumnGroupID", "PartialDataColumnSidecar",
   "PayloadAttestation", "PayloadAttestationData",
   "PayloadAttestationMessage", "PendingConsolidation", "PendingDeposit",
   "PendingPartialWithdrawal", "PowBlock", "ProposerPreferences",
   "ProposerSlashing", "SignedAggregateAndProof", "SignedBeaconBlock",
   "SignedBeaconBlockHeader", "SignedBLSToExecutionChange",
   "SignedContributionAndProof", "SignedExecutionPayloadBid",
   "SignedExecutionPayloadEnvelope", "SignedProposerPreferences",
   "SignedVoluntaryExit", "SigningData", "SingleAttestation",
   "SyncAggregate", "SyncAggregatorSelectionData", "SyncCommittee",
   "SyncCommitteeContribution", "SyncCommitteeMessage", "Validator",
   "VoluntaryExit", "Withdrawal", "WithdrawalRequest"}

(* decode_root: exactly 32 bytes of hexadecimal digits. *)
RootDecodes(text) == text.digits = 64 /\ text.hex

(***************************************************************************)
(* run_one: a container that fails to decode, encode or merkleize is the   *)
(* client rejecting a valid vector; other bytes or another root than the   *)
(* vector's is a mismatch.  A root of "err" or "panic" is no root.         *)
(***************************************************************************)
RunOne(p, expectedRoot) ==
  LET f == Content(p) IN
  IF DecodeFile(p, "ssz") = "panic" THEN Panic
  ELSE IF DecodeFile(p, "ssz") = "undecodable" THEN Fail("reject-valid", "decode")
  ELSE IF f.reencode = "panic" THEN Panic
  ELSE IF f.reencode = "err" THEN Fail("reject-valid", "re-serialize")
  ELSE IF f.reencode = "differs" THEN Fail("mismatch", "round-trip differs")
  ELSE IF f.root = "panic" THEN Panic
  ELSE IF f.root = "err" THEN Fail("reject-valid", "hash_tree_root")
  ELSE IF f.root = expectedRoot THEN Pass("ok", "")
  ELSE Fail("mismatch", "root")

(* A variant of ReadAndCheck that decodes the root before it reads. *)
CheckAndRead ==
  \/ /\ ~RootDecodes(req.root_hex)
     /\ Answer(Bug("bad expected root"))
     /\ UNCHANGED reads
  \/ /\ RootDecodes(req.root_hex)
     /\ reads' = Append(reads, req.serialized)
     /\ Answer(IF ~Readable(req.serialized) THEN Bug("read serialized")
               ELSE RunOne(req.serialized, req.root_hex.root))

(* The container is read before the root is decoded. *)
ReadAndCheck ==
  /\ reads' = Append(reads, req.serialized)
  /\ Answer(IF ~Readable(req.serialized) THEN Bug("read serialized")
            ELSE IF ~RootDecodes(req.root_hex) THEN Bug("bad expected root")
            ELSE RunOne(req.serialized, req.root_hex.root))

SszRun ==
  /\ pc = "ssz_static"
  /\ UNCHANGED <<case, gone, req, state, next, result>>
  /\ \/ /\ req.handler \notin Containers
        /\ Answer(Fail("todo", "unsupported"))
        /\ UNCHANGED reads
     \/ /\ req.handler \in Containers
        /\ ReadAndCheck
=============================================================================
