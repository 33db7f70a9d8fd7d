------------------------------ MODULE Verdict -------------------------------
(***************************************************************************)
(* The answer to one request (struct Verdict of src/protocol.rs) and       *)
(* the verdict table of src/verdict.rs.  The wording of a detail is        *)
(* abstracted to the constant prefix that tells its cause.                 *)
(***************************************************************************)

Buckets == {"ok", "reject", "mismatch", "reject-valid", "accept-invalid",
            "todo", "skip", "bug"}

(* How a transition that fails does so; "" when it does not. *)
Errors == {"", "transition", "decode op"}

Details ==
  Errors \cup
  {"ran clean", "post differs", "panic", "bad request line", "unmodeled upstream",
   "unsupported", "bls_setting=2", "input count", "case without a pre state",
   "read pre", "decode pre", "read op", "read block", "decode block",
   "read slots_count", "slots blob", "slots advance", "overflows u64",
   "serialize post", "read post", "read serialized", "bad expected root",
   "decode", "re-serialize", "round-trip differs", "hash_tree_root", "root"}

Verdicts == [passed : BOOLEAN, bucket : Buckets, detail : Details]

(* The part of a verdict that a harness counts. *)
Answers == [passed : BOOLEAN, bucket : Buckets]

Results == [ok : BOOLEAN, err : Errors]

Pass(bucket, detail) == [passed |-> TRUE, bucket |-> bucket, detail |-> detail]

Fail(bucket, detail) == [passed |-> FALSE, bucket |-> bucket, detail |-> detail]

(* A Result<(), String>: how the transition of a case ended. *)
Ok == [ok |-> TRUE, err |-> ""]

Err(e) == [ok |-> FALSE, err |-> e]

(* A variant of Classify that counts every rejection as a faithful one. *)
ClassifyTrusting(result, gotPost, expectedPost) ==
  IF ~result.ok THEN Pass("reject", result.err)
  ELSE IF gotPost \in expectedPost THEN Pass("ok", "")
  ELSE IF expectedPost = {} THEN Fail("accept-invalid", "ran clean")
  ELSE Fail("mismatch", "post differs")

(***************************************************************************)
(* The verdict table.  expectedPost is an Option: {} when the vector names *)
(* no post file, the singleton of that file's bytes otherwise.             *)
(***************************************************************************)
Classify(result, gotPost, expectedPost) ==
  IF result.ok
  THEN IF gotPost \in expectedPost THEN Pass("ok", "")
       ELSE IF expectedPost = {} THEN Fail("accept-invalid", "ran clean")
       ELSE Fail("mismatch", "post differs")
  ELSE IF expectedPost = {} THEN Pass("reject", result.err)
       ELSE Fail("reject-valid", result.err)
=============================================================================
