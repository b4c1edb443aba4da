--------------------------- MODULE OperationLedger ---------------------------
(***************************************************************************)
(* What a lane of the durable harness promises about its operations: one   *)
(* is open at a time, each of them ends, once and for all, and one that    *)
(* was cancelled ends as aborted and in no other way                       *)
(* (agent/src/harness/agent-harness.ts, the results of accept(), drive()   *)
(* and requestAbort()).                                                    *)
(***************************************************************************)
CONSTANT Operations

VARIABLE ledger     \* ledger[o] : none, open, aborting, completed, failed, aborted

LedgerInit == ledger = [o \in Operations |-> "none"]

Active(o) == ledger[o] \in {"open", "aborting"}

Accept(o) ==
    /\ ledger[o] = "none" /\ \A p \in Operations : ~Active(p)
    /\ ledger' = [ledger EXCEPT ![o] = "open"]

Cancel(o) ==
    /\ ledger[o] = "open"
    /\ ledger' = [ledger EXCEPT ![o] = "aborting"]

Settle(o) ==
    /\ Active(o)
    /\ ledger' \in {[ledger EXCEPT ![o] = end] :
                        end \in IF ledger[o] = "open" THEN {"completed", "failed"} ELSE {"aborted"}}

LedgerNext == \E o \in Operations : Accept(o) \/ Cancel(o) \/ Settle(o)

(* Nothing must be accepted or cancelled; whatever was accepted ends.      *)
Ledger ==
    /\ LedgerInit /\ [][LedgerNext]_ledger
    /\ \A o \in Operations : WF_ledger(Settle(o))
=============================================================================
