------------------------------- MODULE Build --------------------------------
(***************************************************************************)
(* One source, two presets, two binaries (Cargo.toml, src/main.rs:17-36).  *)
(* Builds overwrite each other's output while runners of earlier builds    *)
(* are started and run; the name of a binary and the arguments of its user *)
(* are all that says which preset is meant.                                *)
(***************************************************************************)
EXTENDS FiniteSets

CONSTANTS
  Forks,         (* forks a user may ask for; the runner serves one *)
  None,
  Missing        (* a binary that has not been built                *)

Presets == {"mainnet", "minimal"}

(* [[bin]]: the binaries, to the preset they are named after. *)
Bins == [moonglass_runner_mainnet |-> "mainnet", moonglass_runner_minimal |-> "minimal"]

ASSUME BuildAssumption == Missing \notin Presets

VARIABLES
  features,   (* of the build that is under way, None if there is none *)
  todo,       (* binaries it has yet to make                           *)
  target,     (* binary |-> the preset compiled into it                *)
  process     (* the runner started last, while it runs                *)

vars == <<features, todo, target, process>>

Init ==
  /\ features = None
  /\ todo = {}
  /\ target = [b \in DOMAIN Bins |-> Missing]
  /\ process = None

-----------------------------------------------------------------------------
(* [features]: what --features and --no-default-features enable. *)
Enabled(wanted, defaults) == IF defaults THEN wanted \cup {"mainnet"} ELSE wanted

(* A variant of RequiredFeatures that requires none. *)
NothingRequired(b) == {}

(* required-features *)
RequiredFeatures(b) == {Bins[b]}

(* A variant of CompileError that leaves the case of two presets to others. *)
NoPresetError(enabled) == enabled = {}

(* compile_error!: exactly one preset. *)
CompileError(enabled) == enabled = Presets \/ enabled = {}

(* COMPILED_PRESET *)
CompiledPreset(enabled) == IF "minimal" \in enabled THEN "minimal" ELSE "mainnet"

(* cargo build (external). *)
StartBuild ==
  /\ features = None
  /\ \E wanted \in SUBSET Presets, defaults \in BOOLEAN :
       features' = Enabled(wanted, defaults)
  /\ todo' = {b \in DOMAIN Bins : RequiredFeatures(b) \subseteq features'}
  /\ UNCHANGED <<target, process>>

Compile(b) ==
  /\ b \in todo
  /\ ~CompileError(features)
  /\ target' = [target EXCEPT ![b] = CompiledPreset(features)]
  /\ todo' = todo \ {b}
  /\ UNCHANGED <<features, process>>

(* Either every binary has been made, or the source does not compile. *)
EndBuild ==
  /\ features # None
  /\ todo = {} \/ CompileError(features)
  /\ features' = None
  /\ todo' = {}
  /\ UNCHANGED <<target, process>>

-----------------------------------------------------------------------------
(* main: the arguments are checked against the preset compiled in; the     *)
(* process keeps that preset whatever becomes of the file it came from.    *)
Launch(b) ==
  /\ process = None
  /\ target[b] # Missing
  /\ \E fork \in Forks, preset \in Presets :
       process' = [bin |-> b, asked |-> preset, preset |-> target[b],
                   status |-> IF fork = "gloas" /\ preset = target[b]
                              THEN "serving" ELSE "exit2"]
  /\ UNCHANGED <<features, todo, target>>

Exit ==
  /\ process # None
  /\ process' = None
  /\ UNCHANGED <<features, todo, target>>

Next ==
  \/ StartBuild
  \/ \E b \in DOMAIN Bins : Compile(b)
  \/ EndBuild
  \/ \E b \in DOMAIN Bins : Launch(b)
  \/ Exit

Spec == Init /\ [][Next]_vars

-----------------------------------------------------------------------------
(***************************************************************************)
(* "A default build cannot silently replace a minimal one" (README.md:     *)
(* 32-33): a build only ever writes the binary named after the preset it   *)
(* has enabled, and a build with both or none writes nothing at all.       *)
(***************************************************************************)
OtherBinaryKept ==
  [][\A b \in DOMAIN Bins : target'[b] # target[b] => features = {Bins[b]}]_vars

(***************************************************************************)
(* A runner that serves is of the preset it was asked for, which is the    *)
(* one its binary is named after, whatever was built in between.           *)
(***************************************************************************)
ServesAsAsked ==
  process # None /\ process.status = "serving" =>
    process.asked = Bins[process.bin] /\ process.preset = process.asked
-----------------------------------------------------------------------------
(***************************************************************************)
(* Types, and the inductive invariant: a binary that exists holds the      *)
(* preset it is named after, only such binaries are to be made as the      *)
(* build under way may make, and a process has its binary's preset for     *)
(* good (Cargo.toml [[bin]], src/main.rs:24-36).                           *)
(***************************************************************************)
IInv ==
  /\ features \in (SUBSET Presets) \cup {None}
  /\ \A b \in todo : b \in DOMAIN Bins /\ features \subseteq Presets /\ Bins[b] \in features
  /\ target \in [DOMAIN Bins -> Presets \cup {Missing}]
  /\ \A b \in DOMAIN Bins : target[b] \in {Bins[b], Missing}
  /\ process # None =>
       /\ process \in [bin : DOMAIN Bins, asked : Presets, preset : Presets,
                       status : {"serving", "exit2"}]
       /\ process.preset = Bins[process.bin]
       /\ process.status = "serving" => process.asked = process.preset
=============================================================================
