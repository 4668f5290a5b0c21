----------------------- MODULE MCSequenceCoordinator ------------------------
(* Small instances of SequenceCoordinator for TLC.                          *)
EXTENDS SequenceCoordinator

MCCodes == {"tesSUCCESS", "tefPAST_SEQ", "terPRE_SEQ", "telINSUF_FEE_P"}
MCFinalCodes == {"tesSUCCESS"}
=============================================================================
