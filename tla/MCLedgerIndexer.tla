--------------------------- MODULE MCLedgerIndexer ---------------------------
(* Small instances of LedgerIndexer for TLC: a broker of a vault that is    *)
(* there already, its collateral deposit and a loan of it.                   *)
EXTENDS LedgerIndexer, TLC

CONSTANTS broker, loan

MCKind == <<"LOAN_BROKER_SET", "LOAN_BROKER_COLLATERAL_DEPOSIT", "LOAN_SET">>
MCTarget == <<broker, broker, loan>>
MCNeeds == <<NoAggregate, broker, broker>>

Symmetry == Permutations(Workers)
==============================================================================
