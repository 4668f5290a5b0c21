-------------------------- MODULE MCOutboxExecutor --------------------------
(* Small instances of OutboxExecutor for TLC.                               *)
EXTENDS OutboxExecutor, TLC

MCCodes == {"tesSUCCESS", "terPRE_SEQ", "tefPAST_SEQ", "telINSUF_FEE_P",
            "tecNO_PERMISSION", "temMALFORMED"}
MCFinalCodes == {"tesSUCCESS", "tecNO_PERMISSION"}

WorkerSymmetry == Permutations(Workers)

\* As many faults of each kind as a run allows.
NoLostAnswer == [net |-> 1, lost |-> 0, db |-> 1, crash |-> 1]
LostAnswers == [net |-> 1, lost |-> 1, db |-> 0, crash |-> 0]
OneLostAnswer == [net |-> 0, lost |-> 1, db |-> 0, crash |-> 0]

LiveConfig == {[dryRun |-> FALSE, lending |-> TRUE]}
AnyConfig == {[dryRun |-> FALSE, lending |-> TRUE],
              [dryRun |-> TRUE, lending |-> TRUE],
              [dryRun |-> FALSE, lending |-> FALSE]}
=============================================================================
