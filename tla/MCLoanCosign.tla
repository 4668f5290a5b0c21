---------------------------- MODULE MCLoanCosign ----------------------------
(* Small instances of LoanCosign for TLC.                                   *)
EXTENDS LoanCosign, TLC

MCCodes == {"tesSUCCESS", "tefPAST_SEQ", "temMALFORMED"}
MCFinalCodes == {"tesSUCCESS"}

\* u1 and u2 are staff, b is the borrower of every loan.
CONSTANTS u1, u2, b
MCBorrowerOf == [l \in CosignedRows |-> b]

Symmetry == Permutations(Requests) \cup Permutations(Staff)

OneFault == [net |-> 1, lost |-> 0, db |-> 0, crash |-> 1]
FaultFree == [net |-> 0, lost |-> 0, db |-> 0, crash |-> 0]

LiveConfig == {[dryRun |-> FALSE, lending |-> TRUE]}
=============================================================================
