--------------------------- MODULE OutboxExecutor ---------------------------
(* The ledger worker's executor over the PostgreSQL outbox:                 *)
(* tx-executor.js (processPending, _processOne, _signAndSubmit, lookupTx,   *)
(* _submitBlobAndLookup), the outbox queries of pg.js it runs, and the      *)
(* sequence reservation it makes for each attempt.                          *)
(*                                                                          *)
(* A step is what a worker does between two awaits that another process can *)
(* come between: one database statement or one request to the ledger.       *)
(* There are four kinds of faults, at most MaxFaults[kind] of each:         *)
(*   net    a request fails before the ledger sees it;                      *)
(*   lost   the ledger acts on a request and the answer is lost;            *)
(*   db     a statement throws, before or after it took effect;             *)
(*   crash  a worker process dies and restarts, its memory lost.            *)
EXTENDS XrplLedger, FiniteSets

CONSTANTS
    Rows,             \* outbox rows, numbered in order of created_at
    CosignedRows,     \* the rows that are LoanSets signed by both parties
    SignableRows,     \* the rows whose account the keystore can sign for
    Workers,          \* worker processes
    BatchSize,        \* config.batchSize
    MaxSubmitRetries, \* MAX_SUBMIT_RETRIES
    Configs,          \* configurations a worker may be started with
    MaxFaults         \* bound: how many faults of each kind may happen

FaultKinds == {"net", "lost", "db", "crash"}

ASSUME ExecutorAssumption ==
    /\ Rows \subseteq Nat \ {0}
    /\ CosignedRows \subseteq Rows
    /\ SignableRows \subseteq Rows
    /\ BatchSize \in Nat \ {0}
    /\ MaxSubmitRetries \in Nat
    /\ Configs \subseteq [dryRun : BOOLEAN, lending : BOOLEAN] /\ Configs # {}
    /\ MaxFaults \in [FaultKinds -> Nat]

VARIABLES
    outbox,    \* tx_outbox: one record per row
    recorded,  \* tx_hash column of xrpl_transactions
    lease,     \* next_sequence of xrpl_account_sequences, NoLease: no row
    wk,        \* the memory of each worker
    faults     \* how many faults of each kind have happened

executorVars == <<outbox, recorded, lease, wk, faults>>
vars == <<ledgerVars, executorVars>>

NoLease == 0
NoBlob == 0
Txs == [row : Rows, attempt : Nat, seq : Nat]
NoTx == [row |-> 0, attempt |-> 0, seq |-> 0]

\* A row's metadata: the sequences of the blobs that the broker and then the
\* counterparty have signed (brokerSignedBlob, counterpartySignedTxBlob).
Metadata == [broker : Nat, counter : Nat]
NoMeta == [broker |-> NoBlob, counter |-> NoBlob]
Countersigned(s) == [broker |-> s, counter |-> s]

\* What a worker holds of a row it has claimed: the row as it was at the claim.
Snapshots == [row : Rows, meta : Metadata]
NoSnapshot == [row |-> 0, meta |-> NoMeta]

Pcs == {"idle", "next", "begin", "prepared", "noSigner", "reserve", "submit",
        "resubmit", "lookup", "found", "unknown", "rejected", "record", "caught",
        "submitBlob", "resubmitBlob", "lookupBlob", "foundBlob", "awaitBlob",
        "rejectedBlob", "recordBlob", "cosignCaught", "unhandled"}

Row(w) == wk[w].cur.row
Meta(w) == wk[w].cur.meta
Blob(w) == Meta(w).counter

----------------------------------------------------------------------------
(* Initial state. A row has the status "absent" until it is inserted.       *)

AbsentRow == [status |-> "absent", hash |-> NoTx, result |-> "none",
              claims |-> 0, meta |-> NoMeta]

Started(c) == [pc |-> "idle", batch |-> {}, cur |-> NoSnapshot, attempt |-> 0,
               tx |-> NoTx, code |-> "unknown", feeSpike |-> FALSE, config |-> c]

ExecutorInit ==
    /\ outbox = [r \in Rows |-> AbsentRow]
    /\ recorded = {}
    /\ lease = NoLease
    /\ wk \in [Workers -> {Started(c) : c \in Configs}]
    /\ faults = [k \in FaultKinds |-> 0]

Init == LedgerInit /\ ExecutorInit

----------------------------------------------------------------------------
(* Faults, and the forms every step of a worker is built from.              *)

NoFault == UNCHANGED faults
Fault(kind) ==
    /\ faults[kind] < MaxFaults[kind]
    /\ faults' = [faults EXCEPT ![kind] = @ + 1]

\* Worker w has the memory x from now on; it moves to p with what it has.
Become(w, x) == wk' = [wk EXCEPT ![w] = x]
Goto(w, p) == Become(w, [wk[w] EXCEPT !.pc = p])

\* Faulty variant: an error in one row ends the whole tick.
AfterRowDropsBatch(w) == [Started(wk[w].config) EXCEPT !.feeSpike = wk[w].feeSpike]

\* Worker w is through with its row and turns to the next one of its batch,
\* or to the next tick.
AfterRow(w) ==
    [Started(wk[w].config) EXCEPT
        !.pc = IF wk[w].batch = {} THEN "idle" ELSE "next",
        !.batch = wk[w].batch, !.feeSpike = wk[w].feeSpike]
Finish(w) == Become(w, AfterRow(w))

\* One statement that sets the row w works on to o. It continues at p, or with
\* the next row when p is "done"; an error it throws is handled at e.
Update(w, o, p, e) ==
    LET written == [outbox EXCEPT ![Row(w)] = o] IN
    \/ /\ NoFault
       /\ outbox' = written
       /\ IF p = "done" THEN Finish(w) ELSE Goto(w, p)
    \/ /\ Fault("db")
       /\ outbox' \in {outbox, written}
       /\ Goto(w, e)

----------------------------------------------------------------------------
(* The API side, as far as the executor depends on it: rows appear.         *)

\* enqueueTx: a row of another kind than LoanSet becomes PENDING.
Enqueue(r) ==
    /\ r \in Rows \ CosignedRows
    /\ outbox[r].status = "absent"
    /\ \A q \in Rows : q < r => outbox[q].status # "absent"
    /\ outbox' = [outbox EXCEPT ![r].status = "pending"]
    /\ UNCHANGED <<ledgerVars, recorded, lease, wk, faults>>

\* A LoanSet both parties have signed becomes SIGNED_2; the broker's signature
\* fixed its sequence. (LoanCosign has the handlers that lead here.)
EnqueueCosigned(r) ==
    /\ r \in CosignedRows
    /\ outbox[r].status = "absent"
    /\ \A q \in Rows : q < r => outbox[q].status # "absent"
    /\ outbox' = [outbox EXCEPT ![r].status = "signed_2", ![r].meta = Countersigned(nextSeq)]
    /\ UNCHANGED <<ledgerVars, recorded, lease, wk, faults>>

----------------------------------------------------------------------------
(* processPending: claim a batch, then each of its rows in turn.            *)

Claimable == {r \in Rows : outbox[r].status \in ClaimableStatuses}

\* The batches claimPendingOutbox may take: the oldest rows, up to the limit.
OldestClaimable ==
    {S \in SUBSET Claimable :
        /\ Cardinality(S) <= BatchSize
        /\ Cardinality(S) < BatchSize => S = Claimable
        /\ \A r \in S, q \in Claimable \ S : r < q}

\* Faulty variant: the claim counts the attempt but leaves the status.
ClaimRowsWithoutStatus(S) ==
    outbox' = [r \in Rows |->
                 IF r \in S THEN [outbox[r] EXCEPT !.claims = @ + 1] ELSE outbox[r]]

ClaimRows(S) ==
    outbox' = [r \in Rows |->
                 IF r \in S
                 THEN [outbox[r] EXCEPT !.status = "processing", !.claims = @ + 1]
                 ELSE outbox[r]]

\* What refreshNetworkStatus may find out: whether the node is amendment-blocked
\* (checkNetworkReadiness) and whether the fee has spiked (checkFee). A check that
\* fails counts as neither.
NetworkStatuses == [amendmentBlocked : BOOLEAN, feeSpike : BOOLEAN]

\* One tick: the network is checked, a batch is claimed. The rows come back as they
\* were claimed; if the answer to the claim is lost they stay claimed and the tick
\* fails.
ProcessPending(w) ==
    /\ wk[w].pc = "idle"
    /\ \E S \in OldestClaimable \ {{}}, status \in NetworkStatuses :
         /\ ~status.amendmentBlocked
         /\ ClaimRows(S)
         /\ \/ /\ NoFault
               /\ Become(w, [wk[w] EXCEPT
                               !.pc = "next", !.feeSpike = status.feeSpike,
                               !.batch = {[row |-> r, meta |-> outbox[r].meta] : r \in S}])
            \/ /\ Fault("db")
               /\ UNCHANGED wk
    /\ UNCHANGED <<ledgerVars, recorded, lease>>

\* The rows come back in no particular order.
NextRow(w) ==
    /\ wk[w].pc = "next"
    /\ \E s \in wk[w].batch :
         Become(w, [wk[w] EXCEPT !.pc = "begin", !.cur = s, !.batch = @ \ {s}])
    /\ UNCHANGED <<ledgerVars, outbox, recorded, lease, faults>>

\* The catch of processPending: FAILED, and an error of that update is dropped.
Unhandled(w) ==
    /\ wk[w].pc = "unhandled"
    /\ Finish(w)
    /\ LET failed == [outbox EXCEPT ![Row(w)].status = "failed"] IN
       \/ NoFault /\ outbox' = failed
       \/ Fault("db") /\ outbox' \in {outbox, failed}
    /\ UNCHANGED <<ledgerVars, recorded, lease>>

----------------------------------------------------------------------------
(* _processOne: the guards, then SUBMITTED before anything is submitted.    *)

\* Lending disabled, or (unless it is a dry run) the fee spiked at the tick.
Block(w) ==
    /\ wk[w].pc = "begin"
    /\ \/ ~wk[w].config.lending
       \/ ~wk[w].config.dryRun /\ wk[w].feeSpike
    /\ Update(w, [outbox[Row(w)] EXCEPT !.status = "blocked"], "done", "unhandled")
    /\ UNCHANGED <<ledgerVars, recorded, lease>>

DryHash(w) == [row |-> Row(w), attempt |-> 0, seq |-> 0]

PrepareDryRun(w) ==
    /\ wk[w].pc = "begin"
    /\ wk[w].config.lending /\ wk[w].config.dryRun
    /\ Update(w, [outbox[Row(w)] EXCEPT !.status = "prepared", !.hash = DryHash(w),
                                        !.result = "dry"],
              "prepared", "unhandled")
    /\ UNCHANGED <<ledgerVars, recorded, lease>>

\* A blob signed by both parties is submitted as it is; another transaction is
\* signed first, if the keystore has its account's key.
Dispatch(w) ==
    IF Blob(w) # NoBlob THEN "submitBlob"
    ELSE IF Row(w) \in SignableRows THEN "reserve" ELSE "noSigner"

\* Faulty variant: nothing is written before the submission.
SubmitUnmarked(w) ==
    /\ wk[w].pc = "begin"
    /\ wk[w].config.lending /\ ~wk[w].config.dryRun /\ ~wk[w].feeSpike
    /\ \/ NoFault /\ Goto(w, Dispatch(w))
       \/ Fault("net") /\ Goto(w, "unhandled")
    /\ UNCHANGED <<ledgerVars, outbox, recorded, lease>>

\* xrpl.connect, then the row is marked SUBMITTED.
MarkSubmitted(w) ==
    /\ wk[w].pc = "begin"
    /\ wk[w].config.lending /\ ~wk[w].config.dryRun /\ ~wk[w].feeSpike
    /\ \/ Update(w, [outbox[Row(w)] EXCEPT !.status = "submitted"],
                 Dispatch(w), "unhandled")
       \/ Fault("net") /\ Goto(w, "unhandled") /\ UNCHANGED outbox
    /\ UNCHANGED <<ledgerVars, recorded, lease>>

BlockNoSigner(w) ==
    /\ wk[w].pc = "noSigner"
    /\ Update(w, [outbox[Row(w)] EXCEPT !.status = "blocked"], "done", "unhandled")
    /\ UNCHANGED <<ledgerVars, recorded, lease>>

\* Faulty variant: the transaction is not recorded.
SkipRecord(w, here, hash, e) ==
    /\ wk[w].pc = here
    /\ NoFault
    /\ Finish(w)
    /\ UNCHANGED <<ledgerVars, outbox, recorded, lease>>

\* recordTransaction, the last statement of the paths that end in it.
Record(w, here, hash, e) ==
    /\ wk[w].pc = here
    /\ \/ /\ NoFault
          /\ recorded' = recorded \cup {hash}
          /\ Finish(w)
       \/ /\ Fault("db")
          /\ recorded' \in {recorded, recorded \cup {hash}}
          /\ Goto(w, e)
    /\ UNCHANGED <<ledgerVars, outbox, lease>>

----------------------------------------------------------------------------
(* _signAndSubmit: reserve a sequence, sign, submit, look the hash up.      *)

\* The sequences a reservation may be given: the next one of the account's row, or
\* the ledger's, when there is no row or its lease has run out. The sleeps are long
\* enough for a lease to run out at any time.
Reservable == {nextSeq, lease} \ {NoLease}

\* reserveAccountSequence, one transaction under the account's lock. An error rolls
\* back, unless it is the answer to the commit that was lost.
Reserve(w) ==
    /\ wk[w].pc = "reserve"
    /\ \E s \in Reservable :
         \/ /\ NoFault
            /\ lease' = s + 1
            /\ Become(w, [wk[w] EXCEPT
                            !.pc = "submit",
                            !.tx = [row |-> Row(w), attempt |-> wk[w].attempt, seq |-> s]])
         \/ /\ Fault("db")
            /\ lease' \in {lease, s + 1}
            /\ Goto(w, "caught")
         \/ /\ Fault("net")
            /\ UNCHANGED lease
            /\ Goto(w, "caught")
    /\ UNCHANGED <<ledgerVars, outbox, recorded>>

\* Faulty variant: one retry too many.
MayRetryOffByOne(w) == wk[w].attempt <= MaxSubmitRetries

MayRetry(w) == wk[w].attempt < MaxSubmitRetries

Retry(w) ==
    Become(w, [wk[w] EXCEPT !.pc = "reserve", !.attempt = @ + 1, !.tx = NoTx])

\* forgetAccountSequence, not awaited, its errors dropped.
Forget == lease' \in {NoLease, lease}

\* What the worker does with the answer to a submit. A sequence error forgets
\* the reservation before the retry; another retryable code keeps it.
SubmitAnswered(w, code) ==
    IF ClassifyResult(code) = "retry" /\ MayRetry(w)
    THEN /\ Retry(w)
         /\ IF code \in SequenceErrors THEN Forget ELSE UNCHANGED lease
    ELSE /\ Become(w, [wk[w] EXCEPT
                         !.code = code,
                         !.pc = IF ClassifyResult(code) = "success"
                                THEN "lookup" ELSE "rejected"])
         /\ UNCHANGED lease

\* The ledger refuses a LoanSet that the counterparty has not signed, and the
\* worker signs for one account only.
SoleSignerAnswers(w) ==
    {c \in Answers(wk[w].tx.seq) : Row(w) \in CosignedRows => ~Enters(c)}

\* The answer to a request that the ledger acted on is lost. XrplClient.request
\* connects anew and sends the same request once more if the error tells of the
\* connection; a timeout, or a second failure, is thrown to the handler at e.
AnswerLost(w, here, again, e) ==
    /\ Fault("lost")
    /\ Goto(w, e) \/ (wk[w].pc = here /\ Goto(w, again))

\* autofill, sign and submit.
Submit(w) ==
    /\ wk[w].pc \in {"submit", "resubmit"}
    /\ \/ \E c \in SoleSignerAnswers(w) :
            /\ Accept(wk[w].tx, c)
            /\ \/ NoFault /\ SubmitAnswered(w, c)
               \/ AnswerLost(w, "submit", "resubmit", "caught") /\ UNCHANGED lease
       \/ /\ Fault("net")
          /\ Goto(w, "caught")
          /\ UNCHANGED <<ledgerVars, lease>>
    /\ UNCHANGED <<outbox, recorded>>

\* lookupTx, the loop as one step: it returns a validated result or null. Null
\* says nothing of the transaction, for the loop drops every error and ends
\* after its tries.
Lookup(w, here, found, null) ==
    /\ wk[w].pc = here
    /\ \/ \E v \in validated :
            /\ v.tx = wk[w].tx
            /\ Become(w, [wk[w] EXCEPT !.pc = found, !.code = v.code])
       \/ Goto(w, null)
    /\ UNCHANGED <<ledgerVars, outbox, recorded, lease, faults>>

Settled(w, status, result) ==
    [outbox[Row(w)] EXCEPT !.status = status, !.hash = wk[w].tx, !.result = result]

\* Faulty variant: whatever a validated ledger holds counts as success.
AnyCodeValidates(w) == "validated"

ValidatedStatus(w) ==
    IF ClassifyResult(wk[w].code) = "success" THEN "validated" ELSE "failed"

SettleValidated(w) ==
    /\ wk[w].pc = "found"
    /\ Update(w, Settled(w, ValidatedStatus(w), "validated"), "record", "caught")
    /\ UNCHANGED <<ledgerVars, recorded, lease>>

\* Faulty variants: a transaction that was not found is taken for a success on
\* the word of the engine result, for a failure, or for one to submit again.
UnknownIsValidated(w) ==
    /\ wk[w].pc = "unknown"
    /\ Update(w, Settled(w, "validated", "engine"), "done", "caught")
    /\ UNCHANGED <<ledgerVars, recorded, lease>>
UnknownIsFailed(w) ==
    /\ wk[w].pc = "unknown"
    /\ Update(w, Settled(w, "failed", "engine"), "done", "caught")
    /\ UNCHANGED <<ledgerVars, recorded, lease>>
UnknownIsRetried(w) ==
    /\ wk[w].pc = "unknown"
    /\ MayRetry(w)
    /\ Retry(w)
    /\ UNCHANGED <<ledgerVars, outbox, recorded, lease, faults>>

\* Faulty variant: and the retry is not counted.
UnknownIsRetriedUncounted(w) ==
    /\ wk[w].pc = "unknown"
    /\ Become(w, [wk[w] EXCEPT !.pc = "reserve", !.tx = NoTx])
    /\ UNCHANGED <<ledgerVars, outbox, recorded, lease, faults>>

\* Not found in time: nobody knows, an operator has to look.
SettleUnknown(w) ==
    /\ wk[w].pc = "unknown"
    /\ Update(w, Settled(w, "manual_review", "engine"), "done", "caught")
    /\ UNCHANGED <<ledgerVars, recorded, lease>>

RejectedStatus(w) ==
    IF ClassifyResult(wk[w].code) = "manual_review" THEN "manual_review" ELSE "failed"

SettleRejected(w) ==
    /\ wk[w].pc = "rejected"
    /\ Update(w, Settled(w, RejectedStatus(w), "engine"), "record", "caught")
    /\ UNCHANGED <<ledgerVars, recorded, lease>>

\* The catch of _signAndSubmit: an error whose message says timeout or
\* connection is retried with a fresh sequence, any other ends in FAILED.
RetryAfterError(w) ==
    /\ wk[w].pc = "caught"
    /\ MayRetry(w)
    /\ Retry(w)
    /\ Forget
    /\ UNCHANGED <<ledgerVars, outbox, recorded, faults>>

GiveUp(w, here) ==
    /\ wk[w].pc = here
    /\ Update(w, [outbox[Row(w)] EXCEPT !.status = "failed"], "done", "unhandled")
    /\ UNCHANGED <<ledgerVars, recorded, lease>>

----------------------------------------------------------------------------
(* _submitBlobAndLookup: no reservation, no retry.                          *)

SubmitBlob(w) ==
    /\ wk[w].pc \in {"submitBlob", "resubmitBlob"}
    /\ LET t == [row |-> Row(w), attempt |-> 0, seq |-> Blob(w)] IN
       \/ \E c \in Answers(Blob(w)) :
            /\ Accept(t, c)
            /\ \/ /\ NoFault
                  /\ Become(w, [wk[w] EXCEPT
                                  !.tx = t, !.code = c,
                                  !.pc = IF ClassifyResult(c) = "success"
                                         THEN "lookupBlob" ELSE "rejectedBlob"])
               \/ AnswerLost(w, "submitBlob", "resubmitBlob", "cosignCaught")
       \/ Fault("net") /\ Goto(w, "cosignCaught") /\ UNCHANGED ledgerVars
    /\ UNCHANGED <<outbox, recorded, lease>>

\* The row's metadata is written back as it was when the row was claimed.
SettleBlobValidated(w) ==
    /\ wk[w].pc = "foundBlob"
    /\ Update(w, [Settled(w, ValidatedStatus(w), "validated") EXCEPT !.meta = Meta(w)],
              "recordBlob", "cosignCaught")
    /\ UNCHANGED <<ledgerVars, recorded, lease>>

AwaitBlobValidation(w) ==
    /\ wk[w].pc = "awaitBlob"
    /\ Update(w, [Settled(w, "submitted", "engine") EXCEPT !.meta = Meta(w)],
              "done", "cosignCaught")
    /\ UNCHANGED <<ledgerVars, recorded, lease>>

RejectedBlobStatus(w) ==
    IF ClassifyResult(wk[w].code) = "retry" THEN "submitted" ELSE RejectedStatus(w)

SettleBlobRejected(w) ==
    /\ wk[w].pc = "rejectedBlob"
    /\ Update(w, Settled(w, RejectedBlobStatus(w), "engine"),
              "recordBlob", "cosignCaught")
    /\ UNCHANGED <<ledgerVars, recorded, lease>>

----------------------------------------------------------------------------
\* A worker dies at any await; the next process starts with some configuration.
Crash(w) ==
    /\ wk[w].pc # "idle"
    /\ Fault("crash")
    /\ \E c \in Configs : Become(w, Started(c))
    /\ UNCHANGED <<ledgerVars, outbox, recorded, lease>>

WorkerStep(w) ==
    \/ ProcessPending(w)
    \/ NextRow(w)
    \/ Unhandled(w)
    \/ Block(w)
    \/ PrepareDryRun(w)
    \/ Record(w, "prepared", DryHash(w), "unhandled")
    \/ MarkSubmitted(w)
    \/ BlockNoSigner(w)
    \/ Reserve(w)
    \/ Submit(w)
    \/ Lookup(w, "lookup", "found", "unknown")
    \/ SettleValidated(w)
    \/ SettleUnknown(w)
    \/ SettleRejected(w)
    \/ Record(w, "record", wk[w].tx, "caught")
    \/ RetryAfterError(w)
    \/ GiveUp(w, "caught")
    \/ SubmitBlob(w)
    \/ Lookup(w, "lookupBlob", "foundBlob", "awaitBlob")
    \/ SettleBlobValidated(w)
    \/ AwaitBlobValidation(w)
    \/ SettleBlobRejected(w)
    \/ Record(w, "recordBlob", wk[w].tx, "cosignCaught")
    \/ GiveUp(w, "cosignCaught")

LedgerStep ==
    /\ \E t \in pool : Validate(t) \/ Expire(t)
    /\ UNCHANGED executorVars

ApiStep == \E r \in Rows : Enqueue(r) \/ EnqueueCosigned(r)

Next ==
    \/ ApiStep
    \/ \E w \in Workers : WorkerStep(w) \/ Crash(w)
    \/ LedgerStep

Spec == Init /\ [][Next]_vars

\* A worker's event loop keeps running: setInterval fires the tick, every
\* request and statement answers or throws.
FairSpec == Spec /\ \A w \in Workers : WF_vars(WorkerStep(w))

----------------------------------------------------------------------------
(* Properties.                                                              *)

WorkerRecords ==
    [pc : Pcs, batch : SUBSET Snapshots, cur : Snapshots \cup {NoSnapshot},
     attempt : 0..MaxSubmitRetries, tx : Txs \cup {NoTx}, code : EngineCodes,
     feeSpike : BOOLEAN, config : Configs]

RowRecords ==
    [status : OutboxStatuses \cup {"absent"}, hash : Txs \cup {NoTx},
     result : {"none", "dry", "engine", "validated"}, claims : Nat, meta : Metadata]

FaultsOK ==
    /\ faults \in [FaultKinds -> Nat]
    /\ \A k \in FaultKinds : faults[k] <= MaxFaults[k]

\* The variables stay in the sets the code's tables and objects draw from; in
\* particular no worker ever counts past MAX_SUBMIT_RETRIES attempts.
TypeOK ==
    /\ outbox \in [Rows -> RowRecords]
    /\ recorded \subseteq Txs
    /\ lease \in Nat
    /\ wk \in [Workers -> WorkerRecords]
    /\ FaultsOK
    /\ nextSeq \in Nat
    /\ pool \subseteq Txs
    /\ validated \subseteq [tx : Txs, code : EngineCodes]

\* The rows worker w has claimed and is not through with.
Held(w) ==
    {s.row : s \in wk[w].batch}
        \cup IF wk[w].pc \in {"idle", "next"} THEN {} ELSE {Row(w)}
Idle(r) == \A w \in Workers : r \notin Held(w)

\* The transactions of row r that the ledger has taken in, and the ones among
\* them that succeeded.
OnLedger(r) == {t \in pool \cup {v.tx : v \in validated} : t.row = r}
Executed(r) == {v \in validated : v.tx.row = r /\ ClassifyResult(v.code) = "success"}

\* A row is claimed once and by one worker only: claimPendingOutbox gives no
\* two workers the same row, whatever crashes and retries come between.
ExclusiveClaim ==
    /\ \A r \in Rows : outbox[r].claims <= 1
    /\ \A v, w \in Workers : v # w => Held(v) \cap Held(w) = {}

\* A row the executor calls VALIDATED names a transaction of that row which a
\* validated ledger holds with a success code: never an engine result alone.
ValidatedOnLedger ==
    \A r \in Rows :
        outbox[r].status = "validated" =>
            \E v \in Executed(r) : v.tx = outbox[r].hash

\* The retry matrix bounds what a row can do to the ledger: nothing before it
\* is claimed, one transaction per attempt after that, one for a signed blob.
BoundedSubmissions ==
    \A r \in Rows :
        /\ OnLedger(r) # {} => outbox[r].claims > 0
        /\ Cardinality(OnLedger(r))
             <= IF r \in CosignedRows THEN 1 ELSE MaxSubmitRetries + 1

\* No answer was lost and no statement failed so far: what a worker is told is
\* what happened.
Informed == faults["lost"] = 0 /\ faults["db"] = 0

\* As long as no answer is lost and no statement fails, a row has at most one
\* transaction on the ledger: no retry follows one the ledger took in, whatever
\* requests fail, workers die and other workers forget.
AtMostOnce == Informed => \A r \in Rows : Cardinality(OnLedger(r)) <= 1

\* A row executes on the ledger at most once.
ExecutesOnce == \A r \in Rows : Cardinality(Executed(r)) <= 1

\* As long as no answer is lost and no statement fails, FAILED is the truth:
\* no transaction of the row has succeeded, and none still can.
FailedHasNoEffect ==
    Informed => \A r \in Rows :
        outbox[r].status = "failed" =>
            Executed(r) = {} /\ \A t \in pool : t.row # r

\* As long as no answer is lost and no statement fails, a row nobody works on
\* leads to its transaction: by its hash, or, after a crash, by the SUBMITTED
\* that was written before the submission.
Traceable ==
    Informed => \A r \in Rows :
        Idle(r) /\ OnLedger(r) # {} =>
            outbox[r].hash \in OnLedger(r) \/ outbox[r].status = "submitted"

\* No statement failed and no worker died so far: whatever a worker began with a
\* row it went through with.
Undisturbed == faults["db"] = 0 /\ faults["crash"] = 0

\* As long as no statement fails and no worker dies, the transaction a finished
\* row names is in xrpl_transactions, but for one that is still awaited.
Recorded ==
    Undisturbed => \A r \in Rows :
        /\ Idle(r)
        /\ outbox[r].hash # NoTx
        /\ outbox[r].status \notin {"manual_review", "submitted"}
        => outbox[r].hash \in recorded

SettledStatuses == {"validated", "failed", "blocked", "prepared", "manual_review"}

\* As long as no statement fails, the executor never touches a settled row.
SettledIsFinal ==
    [][faults'["db"] = 0 => \A r \in Rows :
         outbox[r].status \in SettledStatuses => outbox'[r].status = outbox[r].status]_vars

\* Without crashes and failing statements, every row that can be claimed is
\* settled in the end, or is a submitted blob the indexer has to follow up.
EventuallySettled ==
    \A r \in Rows :
        outbox[r].status \in ClaimableStatuses ~>
            \/ outbox[r].status \in SettledStatuses
            \/ r \in CosignedRows /\ outbox[r].status = "submitted"
                                  /\ outbox[r].hash # NoTx

(* The abstract outbox, and the executor as an implementation of it.        *)

PhaseOf(status) ==
    CASE status = "absent" -> "absent"
      [] status \in ClaimableStatuses -> "queued"
      [] status \in {"processing", "submitted"} -> "taken"
      [] OTHER -> "settled"

Promise == INSTANCE OutboxPromise WITH
    phase <- [r \in Rows |-> PhaseOf(outbox[r].status)],
    executed <- {r \in Rows : Executed(r) # {}},
    confirmed <- {r \in Rows : outbox[r].status = "validated"}

\* As long as no statement fails, the executor keeps the outbox's promise: rows
\* are taken once, execute only then, and are settled once and truthfully.
KeepsPromise == Promise!Spec
=============================================================================
