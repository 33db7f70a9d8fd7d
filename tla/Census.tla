------------------------------- MODULE Census -------------------------------
(***************************************************************************)
(* What the two programs achieve together: a census of the worklist.  Its  *)
(* entries are made in the order of the list, one for each case, never     *)
(* changed, and each one that the case may have; unless the harness gives  *)
(* the session up, the census is completed.                                *)
(***************************************************************************)
EXTENDS Naturals, Sequences

CONSTANT Outcomes   (* for each case of the worklist, the entries it may have *)

VARIABLES ledger, abandoned

censusVars == <<ledger, abandoned>>

Init == ledger = <<>> /\ abandoned = FALSE

Record ==
  /\ ~abandoned
  /\ Len(ledger) < Len(Outcomes)
  /\ \E entry \in Outcomes[Len(ledger) + 1] : ledger' = Append(ledger, entry)
  /\ UNCHANGED abandoned

Abandon == abandoned' = TRUE /\ UNCHANGED ledger

Next == Record \/ Abandon

Spec == Init /\ [][Next]_censusVars

FairSpec == Spec /\ WF_censusVars(Record)
=============================================================================
