---------------------------- MODULE SharedTypes ----------------------------
(* The vocabulary every part of the orchestrator shares                     *)
(* (packages/shared-types): outbox statuses and the subsets of them the     *)
(* database queries select, transaction kinds, and the classification of    *)
(* the engine result codes that the ledger worker's decisions rest on.      *)

OutboxStatuses ==
    {"pending", "processing", "prepared", "signed_1", "signed_2", "submitted",
     "validated", "indexed", "reconciled", "closed", "failed", "blocked",
     "manual_review"}

\* Faulty variant: a blocked row is tried again.
ClaimableWithBlocked == {"pending", "signed_2", "blocked"}

\* What claimPendingOutbox selects.
ClaimableStatuses == {"pending", "signed_2"}

\* Faulty variant: what the indexer has marked is not reconciled.
ReconcilableWithoutIndexed == {"validated", "prepared"}

\* What listOutboxNeedingIndex and listOutboxForReconciliation select.
IndexableStatuses == {"submitted", "validated"}
ReconcilableStatuses == {"validated", "indexed", "prepared"}

----------------------------------------------------------------------------
(* Engine result codes. The table of the code is kept by name; of the codes *)
(* that are not in it one stands for each prefix, classified by the prefix. *)

ResultClassification ==
    [tesSUCCESS |-> "success", terQUEUED |-> "success",
     terPRE_SEQ |-> "retry", tefPAST_SEQ |-> "retry",
     telCAN_NOT_QUEUE |-> "retry", terINSUF_FEE_B |-> "retry",
     telINSUF_FEE_P |-> "retry",
     tecUNFUNDED |-> "manual_review", tecNO_PERMISSION |-> "manual_review",
     tefNOT_ENABLED |-> "manual_review", tecPATH_DRY |-> "manual_review",
     temMALFORMED |-> "fail", temDISABLED |-> "fail",
     temBAD_SEQUENCE |-> "fail"]

PrefixClassification ==
    [tesOTHER |-> "success", terOTHER |-> "retry", telOTHER |-> "retry",
     tecOTHER |-> "manual_review", temOTHER |-> "fail", tefOTHER |-> "fail"]

EngineCodes ==
    DOMAIN ResultClassification \cup DOMAIN PrefixClassification \cup {"unknown"}

ClassifyResult(code) ==
    CASE code = "unknown" -> "fail"
      [] code \in DOMAIN ResultClassification -> ResultClassification[code]
      [] code \in DOMAIN PrefixClassification -> PrefixClassification[code]
      [] OTHER -> "fail"

\* Actions the same user may not perform on one aggregate: the earlier actions
\* that bar each one.
SoDConstraints ==
    [LOAN_APPROVE |-> {"LOAN_SUBMIT", "RECONCILIATION_CLOSE"},
     LOAN_SUBMIT |-> {"LOAN_APPROVE", "RECONCILIATION_CLOSE"},
     RECONCILIATION_CLOSE |-> {"LOAN_APPROVE", "LOAN_SUBMIT"}]

\* The two codes on which the worker forgets its cached account sequence.
SequenceErrors == {"terPRE_SEQ", "tefPAST_SEQ"}
============================================================================
