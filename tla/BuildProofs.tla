----------------------------- MODULE BuildProofs ----------------------------
(***************************************************************************)
(* Proofs about the binaries, for any forks a user may ask for.            *)
(***************************************************************************)
EXTENDS Build, TLAPS

-----------------------------------------------------------------------------
(* Of the two presets a build that compiles has enabled exactly one.       *)
LEMMA OnePreset ==
  ASSUME NEW b \in DOMAIN Bins, NEW enabled \in SUBSET Presets,
         Bins[b] \in enabled, ~CompileError(enabled)
  PROVE  enabled = {Bins[b]} /\ CompiledPreset(enabled) = Bins[b]
<1>1. enabled # Presets /\ enabled # {}
  BY DEF CompileError
<1>2. enabled = {"mainnet"} \/ enabled = {"minimal"}
  BY <1>1 DEF Presets
<1> QED
  BY <1>2 DEF CompiledPreset

(* A binary is made only by a build of the one preset it is named after.   *)
LEMMA CompileFacts ==
  ASSUME IInv, NEW b, Compile(b)
  PROVE  /\ b \in DOMAIN Bins
         /\ features = {Bins[b]}
         /\ target' = [target EXCEPT ![b] = Bins[b]]
         /\ Bins[b] \in Presets
<1>1. b \in DOMAIN Bins /\ features \subseteq Presets /\ Bins[b] \in features
  BY DEF Compile, IInv
<1> QED
  BY <1>1, OnePreset DEF Compile

LEMMA InitIInv == Init => IInv
BY DEF Init, IInv

LEMMA StepIInv == IInv /\ [Next]_vars => IInv'
<1> SUFFICES ASSUME IInv, [Next]_vars PROVE IInv'
  OBVIOUS
<1>1. CASE StartBuild
  <2>1. features' \in SUBSET Presets
    BY <1>1 DEF StartBuild, Enabled, Presets
  <2>2. \A b \in todo' : b \in DOMAIN Bins /\ Bins[b] \in features'
    BY <1>1 DEF StartBuild, RequiredFeatures
  <2> QED
    BY <1>1, <2>1, <2>2 DEF StartBuild, IInv
<1>2. ASSUME NEW b \in DOMAIN Bins, Compile(b)
      PROVE  IInv'
  <2>1. target' = [target EXCEPT ![b] = Bins[b]] /\ Bins[b] \in Presets
    BY <1>2, CompileFacts
  <2>2. todo' \subseteq todo /\ UNCHANGED <<features, process>>
    BY <1>2 DEF Compile
  <2> QED
    BY <2>1, <2>2 DEF IInv
<1>3. CASE EndBuild
  BY <1>3 DEF EndBuild, IInv
<1>4. ASSUME NEW b \in DOMAIN Bins, Launch(b)
      PROVE  IInv'
  <2>1. target[b] = Bins[b] /\ target[b] \in Presets
    BY <1>4 DEF Launch, IInv
  <2>2. PICK preset \in Presets, status \in {"serving", "exit2"} :
          /\ process' = [bin |-> b, asked |-> preset, preset |-> Bins[b],
                         status |-> status]
          /\ status = "serving" => preset = Bins[b]
    BY <1>4, <2>1 DEF Launch
  <2> QED
    BY <1>4, <2>1, <2>2 DEF Launch, IInv
<1>5. CASE Exit \/ UNCHANGED vars
  BY <1>5 DEF Exit, IInv, vars
<1> QED
  BY <1>1, <1>2, <1>3, <1>4, <1>5 DEF Next

(* Types, and which preset each binary and each process has. *)
THEOREM BuildInvariance == Spec => []IInv
BY InitIInv, StepIInv, PTL DEF Spec

(***************************************************************************)
(* A runner that serves has the preset it was asked for and is named after *)
(* (src/main.rs:24-36), however builds and starts are interleaved.         *)
(***************************************************************************)
THEOREM RunnersServeAsAsked == Spec => []ServesAsAsked
<1>1. IInv => ServesAsAsked
  BY DEF IInv, ServesAsAsked
<1> QED
  BY <1>1, BuildInvariance, PTL

(***************************************************************************)
(* "A default build cannot silently replace a minimal one" (README.md:32). *)
(***************************************************************************)
THEOREM BuildsKeepTheOther == Spec => OtherBinaryKept
<1> DEFINE Kept == \A b \in DOMAIN Bins : target'[b] # target[b] => features = {Bins[b]}
<1>1. IInv /\ [Next]_vars => [Kept]_vars
  <2> SUFFICES ASSUME IInv, Next PROVE Kept
    OBVIOUS
  <2>1. ASSUME NEW b \in DOMAIN Bins, Compile(b)
        PROVE  Kept
    <3>1. target' = [target EXCEPT ![b] = Bins[b]] /\ features = {Bins[b]}
      BY <2>1, CompileFacts
    <3> QED
      BY <3>1 DEF IInv
  <2>2. CASE UNCHANGED target
    BY <2>2
  <2> QED
    BY <2>1, <2>2 DEF Next, StartBuild, EndBuild, Launch, Exit
<1> HIDE DEF Kept
<1>2. Spec => [][Kept]_vars
  BY <1>1, BuildInvariance, PTL DEF Spec
<1> QED
  BY <1>2 DEF OtherBinaryKept, Kept
=============================================================================
