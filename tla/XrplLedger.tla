----------------------------- MODULE XrplLedger -----------------------------
(* The XRP Ledger as the worker sees it through its requests: external to   *)
(* the repository, modelled from what the code asks of it (account_info,    *)
(* submit, tx) and from the engine result classes it distinguishes.         *)
(*                                                                          *)
(* One account. A transaction is identified by the row it carries out, the  *)
(* worker's attempt and its account sequence, which together stand for its  *)
(* hash. A submitted transaction is either refused, with no trace, or joins *)
(* the open ledger (pool); from there it is validated with a final result   *)
(* code or it expires (LastLedgerSequence), and the ones queued behind it   *)
(* with it.                                                                 *)
EXTENDS SharedTypes, Naturals

CONSTANTS
    Codes,      \* the engine result codes the ledger may answer
    FinalCodes  \* the codes a validated transaction may carry

ASSUME CodesAssumption ==
    /\ Codes \subseteq EngineCodes
    /\ FinalCodes \subseteq EngineCodes

VARIABLES
    nextSeq,    \* the account's next sequence in the current open ledger
    pool,       \* transactions in the open ledger
    validated   \* [tx, code] of the transactions in validated ledgers

ledgerVars == <<nextSeq, pool, validated>>

LedgerInit ==
    /\ nextSeq = 1
    /\ pool = {}
    /\ validated = {}

\* The codes with which a transaction enters the open ledger: applied, queued,
\* or applied only to claim its fee (the tec codes).
EnteringCodes ==
    {"tesSUCCESS", "tesOTHER", "terQUEUED",
     "tecUNFUNDED", "tecNO_PERMISSION", "tecPATH_DRY", "tecOTHER"}
Enters(code) == code \in EnteringCodes

\* The codes the ledger may answer to a transaction with sequence s.
Answers(s) ==
    {c \in Codes :
        /\ Enters(c) => s = nextSeq
        /\ c = "terPRE_SEQ" => s > nextSeq
        /\ c = "tefPAST_SEQ" => s < nextSeq}

\* The effect on the ledger of answering code c to transaction t.
Accept(t, c) ==
    /\ pool' = IF Enters(c) THEN pool \cup {t} ELSE pool
    /\ nextSeq' = IF Enters(c) THEN t.seq + 1 ELSE nextSeq
    /\ UNCHANGED validated

\* The oldest transaction of the open ledger reaches a validated ledger.
Validate(t) ==
    /\ t \in pool
    /\ \A u \in pool : t.seq <= u.seq
    /\ \E c \in FinalCodes : validated' = validated \cup {[tx |-> t, code |-> c]}
    /\ pool' = pool \ {t}
    /\ UNCHANGED nextSeq

\* A transaction passes its LastLedgerSequence, and those behind it go too.
Expire(t) ==
    /\ t \in pool
    /\ pool' = {u \in pool : u.seq < t.seq}
    /\ nextSeq' = t.seq
    /\ UNCHANGED validated
=============================================================================
