# Verification of the XRPL credit orchestrator

TLA+ models of the orchestrator's core: the requests of the control API and the tables
they write, the transaction outbox and the worker that executes it on the XRP Ledger, the
account sequences it reserves, the two-phase signing of loans, the evidence chain, and the
indexer and reconciliation that write the ledger's answers back. TLC checks them on small
instances; TLAPS proves the most important safety properties for all instances. Paths are
relative to `src/`.

## 1. Inventory

The orchestrator turns requests of lenders, borrowers and staff into XRP Ledger
transactions. An HTTP process (the *control API*) writes aggregates and outbox rows into
a database; one or more *ledger worker* processes claim rows, sign and submit them, and
then read the ledger to write the results back. Nothing is shared but the database and
the ledger.

| component | state | operations | talks to |
|---|---|---|---|
| Executor, `apps/ledger-worker/src/tx-executor.js`, `main.js` | the batch, row, attempt and transaction in a worker's memory; the network status | `processPending`, `_processOne`, `_signAndSubmit`, `_submitBlobAndLookup`, `lookupTx`, the tick | outbox, sequence coordinator, keystore, ledger |
| Outbox, `apps/control-api/src/db/pg.js`, `infra/postgres/001_init.sql` | `tx_outbox`: status, hash, result, metadata, attempts; `xrpl_transactions` | `enqueueTx`, `claimPendingOutbox`, `updateOutbox`, the lists, `recordTransaction` | everybody |
| Sequence coordinator, `sequence-coordinator.js`, `pg.js` | `xrpl_account_sequences`: next sequence and lease; a promise chain and a cache in memory | `reserveAccountSequence`, `forgetAccountSequence`, `invalidate` | executor, ledger |
| Loan cosigning, `services/loans.service.js` | `loans`, the signatures in a row's metadata | `create`, `prepareCosignPacket`, `recordBrokerSignature`, `recordBorrowerSignature`, `enforceSoD` | outbox, evidence |
| Vaults and brokers, `services/vaults.service.js` | `vaults`, `loan_brokers`, positions, cover ledger | `createVault`, `deposit`, `createLoanBroker`, `depositCollateral` | outbox, evidence |
| Evidence, `packages/evidence-sdk`, `evidence.service.js`, both stores | `evidence_events`: a hash chain per aggregate | append, `verifyChain`, `generateChainAnchor`, audit bundles | API handlers |
| Indexer, `runs/ledger-indexer.js`, `runs/xrpl-state.js` | checkpoint; statuses and ledger IDs of aggregates | `runLedgerIndexer`, `enrichAggregateFromValidatedOutbox` | outbox, ledger |
| Reconciliation, `runs/reconciliation.js` | `reconciliation_runs` | `runReconciliation`, `runFullReconciliation` | outbox, ledger |
| Ledger client, `packages/xrpl-client` | the connection | `connect`, `reconnect`, `request` | ledger |
| Borrowers, `services/borrowers.service.js` | parties, party wallets, users linked to parties | `create`, `linkAuthUser` | store, evidence |
| HTTP API, `http/router.js`, `main.js` | none | rate limit, token, body, role, handler, 500 | services |
| Rate limiter, `http/rate-limit.js` | a bucket for each client and path, the time of the last cleanup | `check`, `cleanup` | in front of every request |
| Memory store, `db/memory.js` | all tables, in one process | as `pg.js` | in development only |
| Keystore, logger, metrics, builders, portals, scripts | none the rest depends on | | |

What is hard in it, and what makes it correct:

* **Executor and outbox.** Several workers poll the same table; a submit may time out after
  the ledger acted on it; a crash may come between marking a row and submitting it; a
  lookup that finds nothing says nothing; an error in the middle of the bookkeeping lands
  in the same `catch` as an error of the submission. Correct means: a row is held by one
  worker; VALIDATED and FAILED are true of the ledger; a row has one effect; every row can
  be traced to its transaction; rows do get settled.
* **Cosigning.** A handler reads a row, then writes back status and metadata; another
  handler, or a worker's claim, can come between. Correct means: the broker signs before
  the borrower, each signature leaves evidence, no approver submits.
* **Evidence.** Appending is a read and an insert. Correct means: the chain verifies, does
  not fork, betrays any change, and anchors given out stay valid.
* **Indexer and reconciliation.** Both work from a list that is stale at once, in several
  workers, and write an aggregate and the row's mark in separate statements. Correct
  means: what is written back exists on the ledger, nothing created is lost, a row that is
  RECONCILED was reconciled, and rows do become RECONCILED.
* **Sequence coordinator.** The reservation is under an advisory lock, with a request to the
  ledger inside, but the lease runs out by the clock and `forgetAccountSequence` neither
  takes the lock nor is awaited. Correct means: a sequence is handed out once as long as it
  is remembered; two holders of one sequence still make one transaction for each row;
  no error keeps the lock.
* **Requests.** A handler is a chain of statements without a transaction, in one process with
  others of its kind; `enqueueTx` looks for the dedupe key in one statement and inserts in
  another; any statement may throw, at the database or at what it is given. Correct means: a
  dedupe key has one row that may execute; nothing is told of a transaction that has no row;
  a refused request leaves nothing behind and an answered one has done everything.
* **Rate limiter.** Fixed windows, a cleanup every so often, a cap on the table. Correct
  means: no stretch of time admits more than two quotas of a key.

`PROJECT.json` lists the hazards one by one, each with its line.

## 2. Modules

| module | models |
|---|---|
| `SharedTypes` | `packages/shared-types`, the status sets of the queries, `RESULT_CLASSIFICATION` and `classifyResult` |
| `XrplLedger` | external: one account of the ledger, its open ledger and its validated ledgers, as the requests of the code see them |
| `OutboxExecutor` | the executor over the PostgreSQL outbox; extends `XrplLedger` |
| `OutboxPromise` | abstract: what the outbox promises (queued, taken once, settled once, confirmed only if executed) |
| `LoanPromise` | abstract: what the signing promises (broker, then borrower, then the ledger; signatures may be lost, never the broker's alone) |
| `AggregatePromise` | abstract: what is promised of vaults, brokers and loans (created, known, paid into, funded, each upon what is known) |
| `SequenceCoordinator` | the reservations in their statements, over the three coordinators, with the executor's retries; extends `XrplLedger` |
| `RateLimit` | `rate-limit.js` over a clock |
| `ControlRequests` | the router, `vaults.service.js`, `borrowers.service.js` and `enqueueTx` over both stores; extends `RateLimit` |
| `LoanCosign` | `loans.service.js` over the same outbox, composed with `OutboxExecutor`'s worker |
| `EvidenceChain` | evidence-sdk and the two stores' `appendEvidence` |
| `LedgerIndexer` | `runLedgerIndexer`, `runReconciliation`, their enrichment, and the handlers that need what it writes back |
| `OutboxEffects_proofs` | theorems about what `OutboxExecutor`'s rows do to the ledger, on top of `OutboxExecutor_proofs` |
| `LoanCosign_proofs` | theorems about the signing, on top of `OutboxExecutor_proofs` |
| `OutboxExecutor_proofs`, `SequenceCoordinator_proofs`, `ControlRequests_proofs`, `LedgerIndexer_proofs`, `EvidenceChain_proofs` | theorems about the module they are named after |
| `MC*` | constants and symmetry of the runs |

### How state and steps correspond to the code

A step is what runs between two awaits that another process can come between: one
statement or one request. A handler's local variables are a record per process: `wk[w]`
(a worker) and `req[q]` (a request), whose `pc` names the await it is at.

**OutboxExecutor.** `outbox[r]` is a row: status, `hash` (`tx_hash`), `result` (what kind of
`tx_result_json`), `claims` (the `attempts` column), `meta` (the signed blobs). `lease` is
`next_sequence` of the one account. `wk[w]` holds the batch as it was claimed, so what a
worker writes back may be stale, as in the code. `ProcessPending` is refresh-network-status
and claim; `Block`, `PrepareDryRun`, `MarkSubmitted`, `BlockNoSigner` are `_processOne`;
`Reserve`, `Submit`, `Lookup`, `SettleValidated`, `SettleUnknown`, `SettleRejected`,
`Record`, `RetryAfterError`, `GiveUp` are `_signAndSubmit` with its catch; `SubmitBlob` to
`SettleBlobRejected` are `_submitBlobAndLookup`; `Unhandled` is the catch in
`processPending`. `Update` gives each statement its three outcomes: done, thrown before
it took effect, thrown after. `AnswerLost` includes the client's own resend
(`XrplClient.request`). The reservation is one step, because it is one transaction under an
advisory lock; since waits are longer than the lease may last, the lease may have run out
at any reservation. `Forget` is part of the retry and may fail silently.
`SequenceCoordinator` takes both apart.

**SequenceCoordinator.** `row` is the account's row of `xrpl_account_sequences` (or its entry in
the memory store, or the in-process cache), `holder` the owner of the advisory lock (or of
the turn in the promise chain), `forgets` the DELETEs nobody waits for. `Lock` to `Write` are
`reserveAccountSequence`: lock and read, `account_info` with the lock held, write and commit.
`Submit` and `Caught` are what `_signAndSubmit` makes of the sequence. Statements of one
PostgreSQL transaction that no other statement can tell apart are one step. An error at any
of them is `Throw`, the ROLLBACK. The account's owner, or the blob of a LoanSet, may use a
sequence meanwhile (`"spend"`). `era` and `granted` are history: which life of the row a
sequence was handed out in. The store `"local"` is the in-process coordinator
(`sequence-coordinator.js:20-61`), which the worker takes only over a store that cannot
reserve; neither store of the repository is one.

**ControlRequests.** `db` is the tables, `req[q]` a request: `pc` names the await it is at. `Receive` is
the router up to the handler: the limiter counts before token, role and body are looked at,
so `"refused"` is possible with and without a count. `Insert` to `AppendEvidence` are one statement
each, in the order `After` gives; `Statement` gives it its outcomes (done; thrown before or after
it took effect: answer 500), `Reject` and `BreakOff` are what the handler, a constraint or a column's
type throws at. `SameKey` is the dedupe key of `vaults.service.js` (a deposit's vault and lender; a
collateral deposit's broker and millisecond, the same for both its routes). `Work` is the
worker and the jobs by their effect on a row's status. The clients are told by their
address; a request for a route with an ID is made for what exists.

**RateLimit.** `Check` is `check` with its `cleanup`; `Restart` empties it, with the process. `admitted`
is history.

**LoanCosign.** One action per statement of each handler. A loan's status, its LoanSet row
(one, by the unique index) and the evidence events. The worker is `OutboxExecutor`'s,
unchanged, with its faults. Staff roles on the routes (`main.js:156-171`) give `Staff`.
`Known` is the one assumption on clients: they learn a loan's ID from the answer to its
creation. Since the loan is inserted before its approval evidence (`loans.service.js:64`),
a client that got the ID from a list earlier could submit a loan it approved;
`SeparationOfDuties` holds under that assumption and not without it.

**EvidenceChain.** A hash is the tuple of what is hashed, so it is collision-free. The
memory store appends in one step, the PostgreSQL one in two, and stores what the code
stores: the raw payload with the hash of the enriched one.

**LedgerIndexer.** `outbox[r]` is status and kind of result; `aggregate[a]` the status and
whether the ledger ID is known; `fate[r]` what the ledger made of the row's transaction.
`InsertAggregate` and
`Enqueue` are the two statements of the creating handlers; a request that ends between them
leaves an aggregate without a row. The executor appears by its effect on a row (`Take`,
`Settle`), not by its steps. A job
lists once (`ListToIndex`, `ListToReconcile`), then `LookUp`, `Enrich`, `SaveRun`, `Mark` and
`SaveError` are its statements, per candidate as it was listed. Candidates are handled in
any order, and a tick may be skipped (checkpoint unchanged, or the ledger did not answer).

## 3. Runs

| run | instance | shows |
|---|---|---|
| `executor_faults` | 2 workers, 2 rows that are not cosigned, 1 retry; one failed request, one failed statement and one crash, anywhere | `TypeOK`, `ExclusiveClaim`, `ValidatedOnLedger` hold whatever fails; `AtMostOnce`, `FailedHasNoEffect`, `Traceable`, `SettledIsFinal` as far as no statement fails |
| `executor_live` | 1 worker; a plain, a cosigned and an unsignable row, 2 retries, every configuration; one failed request and one lost answer; fair | `KeepsPromise` (refinement of `OutboxPromise`), `EventuallySettled`, `Recorded`, `BoundedSubmissions` |
| `executor_lost_answer` | 1 row, 1 lost answer | **violated** `ExecutesOnce`: the row executes twice |
| `sequence` | 2 workers, 2 rows, 1 retry, three stores, one fault of any kind; fair | `SequenceTypeOK`, `OneTxPerJob`, `GrantsIncrease`, `EveryAttemptEnds` |
| `requests` | 6 workloads (below), up to 4 requests, both stores, one failed statement or crash, clock to 4 | `RequestTypeOK`, `OneRow`, `PositionIsDeposit`, `EffectsBacked`, `RefusedOrDone`, `QuotaBound` |
| `cosign` | 1 loan, 5 requests of 2 staff and a borrower, 1 worker; one failed request and one crash or failed statement | `CosignTypeOK`, `SignatureOrder`, `PendingHasRow`, `SignaturesEvidenced`, `LoanSetsEvidenced`, `SeparationOfDuties`, `KeepsLoanPromise` (refinement of `LoanPromise`) |
| `cosign_pending` | the same, 2 requests, no faults | **violated** `PendingUntilBrokerSigns`: the worker claims the unsigned row |
| `evidence` | both stores, 2 scopes, 2 payloads, 2 writers, 3 events a scope | `MemoryChainVerifies`, `MemoryNoFork`, `LinksBack`, `TamperEvident`, `AnchorsHold` |
| `evidence_pg_verify` | PostgreSQL, 1 scope | **violated** `ChainVerifies`: the stored payload is not the hashed one |
| `indexer` | 2 workers, a broker, its deposit and a loan, live and dry run, one fault of any kind | `IndexerTypeOK`, `ObjectsAreReal`, `WrittenBack`, `ReconciledHasRun`, `NothingTakenBack`, `KeepsAggregatePromise` (refinement of `AggregatePromise`) |
| `indexer_live` | 1 worker, the same rows, 2 faults, fair | `EventuallyReconciled` |
| `indexer_engine` | 1 worker, no faults | **violated** `IndexedIsValidated`: an undecided LoanSet is INDEXED |

**Bounds.** Rows, workers, requests and events are small sets; `MaxFaults` bounds the faults
in a behaviour, not their place: of the executor, how many of each kind, elsewhere how many
in all. Two workers are enough for every overlap the code has:
steps touch the outbox one row at a time, and what a third could do to a row, the second
can. `executor_live` has two retries, so that a retry follows a retry; it has two faults and
a ledger that refuses besides, so it is the retry limit and not the number of faults that
bounds the submissions. Its three rows against a batch of two make a second batch. The ledger answers
one code of each class the code tells apart, with both sequence errors, because those are
the ones that forget the reservation.
Three rows of the indexer are the chain object, deposit, dependent loan; the vault's part has
the same shape as the broker's. Five requests are one for each step of the signing and one
that repeats or competes. Deadlock is not checked: a system whose rows are settled and whose
requests are made stops.

The workloads of `requests` say what exists at the start and what is asked for: borrowers (and
links of two of them); deposits into a vault; brokers of a vault; vaults and brokers next to
two vaults; collateral and cover of a broker. Each is a place where requests meet: two of them
share a dedupe key, an address, a user or an aggregate, and requests on different aggregates
touch no common row. The window is 2, the quota 1 and the table 2 buckets, so that windows end,
quotas run out and the table fills up. The cleanup drops a bucket at 4; `MCTime` lets the clock go
beyond 2 only without a fault and for the workloads whose requests do not take their
key from the clock, which keeps the others small and still shows the cleanup.

**Fairness.** Of the worker: `WF` of `WorkerStep(w)` and `JobStep(w)`. The
event loop justifies it: `setInterval` fires the tick (`ledger-worker/src/main.js:66`), every
await in it answers or throws, and nothing outside keeps a step disabled. Of the advisory
lock, `SF` of `Lock(w)`: PostgreSQL grants it in the order it was asked for, and the promise chain is
a queue, so nobody is passed over though others hold it again and again. No fairness is
asked of the ledger, of requests or of a forget: the worker settles a row in MANUAL_REVIEW when the
ledger stays silent. `executor_live` leaves crashes and failing statements out, because after
them the code does not settle: a claimed row stays PROCESSING or SUBMITTED and is never
claimed again. `EveryAttemptEnds` and `EventuallyReconciled` hold with them.

**Where properties are conditional.** `AtMostOnce`, `FailedHasNoEffect` and `Traceable` are
false with lost answers or failing statements, since an error after the submission is
handled like one before it; `executor_lost_answer` shows the first. `OneTxPerJob` is the same
statement where the sequences are told in full; only lost answers break it there, for no statement
follows the submission. `SettledIsFinal` and
`KeepsPromise` are false with failing statements (an update that took effect and threw).
`Recorded` is for behaviours in which no statement fails and no worker dies (`Undisturbed`): a row is settled and its
transaction recorded in two statements. `SignaturesEvidenced` and `LoanSetsEvidenced` are for those in which no
process dies, which includes requests cut short by a statement that throws (`NoneDied`). `ExclusiveClaim` is about rows as
`OutboxExecutor` has them; a LoanSet under `LoanCosign` can be claimed twice, first unsigned,
then signed, and a third time when a slow broker overwrites it (section 5). `PositionIsDeposit` and the first half of `OneRow` are PostgreSQL's: the memory
store has no unique index. Failing statements on cosigned rows are in no run of the executor; the
theorems about `TypeOK`, `ExclusiveClaim`, `ValidatedOnLedger` and `BoundedSubmissions` cover them.

## 4. What is proved

`OutboxExecutor_proofs`, for every set of rows and workers, every batch size, retry limit,
set of answers and combination of faults, from the assumptions named in the modules
(`ExecutorAssumption`, `CodesAssumption`):

* `TypeCorrect == Spec => []TypeOK`. `TypeOK` is not inductive: a worker at `found` writes
  `wk[w].tx` as the row's hash, so one has to know that a worker at such a point has a
  transaction, and that it is busy with a row. `TypeInv` adds this as `LocalOK`.
* `RowsAreClaimedOnce == Spec => []ExclusiveClaim`. The invariant adds that a row some worker
  holds has been claimed, and that a row that can be claimed has not been: no path of the
  executor leads back to PENDING or SIGNED_2.
* `ValidatedRowsAreOnLedger == Spec => []ValidatedOnLedger`. The invariant adds that a worker
  at `found` or `foundBlob` has seen its transaction in a validated ledger with the code it
  remembers, and rests on validated ledgers only growing.

`OutboxEffects_proofs`, under the same assumptions and with these invariants as its ground. All but
`FinishedRowsAreRecorded` follow from one inductive invariant, `EffectInv`, which says for each place of a worker's
program how the transactions of its row on the ledger compare with its attempts (`AttemptsFit`: none
is of a later attempt, none of the present one before it is submitted), what its row's status is
unless a statement has failed (`StatusFits`), and which transactions there are if no answer was lost
(`Told`: none before an answer, the worker's own after it, none after a refusal that is not a tec
code); and of every row that its record is true of them (`TrueOf`). It was model-checked on the
executor's instances before it was proved.

* `SubmissionsAreBounded == Spec => []BoundedSubmissions`: two transactions of one row differ in their
  attempt, so an injection into `0..MaxSubmitRetries` bounds their number.
* `InformedRowsSubmitOnce`, `FailedRowsHaveNoEffect`, `RowsLeadToTheirTx`: `AtMostOnce`, `FailedHasNoEffect` and
  `Traceable`. Each needs that a retryable code never stands for a transaction the ledger took in
  (`EnteringClasses`): this is where the table of the result codes carries the retry matrix.
* `SettledRowsAreFinal == Spec => SettledIsFinal` and
  `ExecutorKeepsPromise == Spec /\ [](faults["db"] = 0) => KeepsPromise`, the refinement of `OutboxPromise`,
  from `RowsChange`: while no statement fails, a step inserts a row, claims some, or
  carries on with one that is PROCESSING or SUBMITTED.
* `FinishedRowsAreRecorded == Spec => []Recorded`, inductive with what a worker between the two statements
  owes: while nothing is disturbed, a row that names an unrecorded transaction is still
  held by the worker that is about to record it.

`LoanCosign_proofs`, for every set of loans, users, requests and workers and every combination of
faults, from `CosignAssumption` and the executor's assumptions: all properties of the run `cosign`.

* `CosignTypeCorrect == CosignSpec => []CosignTypeOK`, resting on the executor's `TypeNext`.
* `DutiesAreSeparated`: `SeparationOfDuties`. The check and the evidence of what was checked are awaits
  apart. `DutyInv` says that whoever prepares a packet or signs for the broker has no approval of the loan
  in the log, and that the loan is `Known`: its approval is in the log by now, and none can follow.
* `BrokerSignsFirst`, `SignaturesAreEvidenced`: `SignatureOrder` and `SignaturesEvidenced`, from `SignInv`, which
  says of the metadata wherever it is kept, in the row or in the stale copy of a worker or a request,
  what has to hold of the row (`MetaOK`), so that it does not matter whose copy is written back last.
  Of the twenty-five actions of a worker it uses only a frame (`FrameStep`): a worker never writes a signing status,
  and the metadata it writes is the row's or that of its own snapshot.
* `PendingLoansHaveRows`: `PendingHasRow`, inductive with the fact that a request at its second
  statement has made its row, and that a row somebody holds is never taken back.
* `LoanSetsAreEvidenced`, `ValidatedLoanSetsAreOnLedger`: `LoanSetsEvidenced`, since a worker submits only a blob it has
  taken from the row's metadata and `BlobInv` carries the signatures' evidence with every copy of them, and
  the executor's `ValidatedOnLedger` for rows the handlers write to as well.
* `SigningKeepsPromise == CosignSpec => KeepsLoanPromise`, the refinement of `LoanPromise`, under every fault. A signature
  counts as kept as long as any copy of the metadata has it (the row, a worker's snapshot, a request about
  to write) or a transaction is on the ledger (`SignedBy`). Overwriting and dying are `Lose`; the
  proof shows that what is left is always nothing, the broker's signature or both (`ShapesOK`), that the
  broker's handler writes only for loans that wait (`BrokerPending`), and that nothing executes without both.

`SequenceCoordinator_proofs`, for every set of workers and rows, every store, retry limit and
combination of faults, from `SequenceAssumption` and `CodesAssumption`:

* `SequenceTypeCorrect == Spec => []SequenceTypeOK`.
* `SequencesAreReservedOnce == Spec => []ReservedOnce`: a life of the row hands out no sequence twice. No run checks this, for it
  follows from `GrantsIncrease`, which one does. The inductive invariant says that whoever is
  between reading and writing the row holds the lock, and what it read is still the row's
  next sequence if the row still lives; and that everything handed out in the row's present life lies
  below its next sequence. A forget or an expired lease ends the life instead of breaking this,
  which is why the property is about lives.
* `JobsAreSubmittedOnce == Spec => []OneTxPerJob`. A row is in one place only: not taken yet, in one worker's
  hands, or done; and as long as no answer is lost, a row that is still to be submitted has
  nothing on the ledger. Two workers with one sequence need no thought here: the ledger takes one.
* `GrantsOnlyIncrease == Spec => GrantsIncrease`, an action property from the invariant of `ReservedOnce`: a step that hands
  a sequence out either begins a life, or is the lock's holder's and lies above all before it, also when
  the row has gone between its read and its write.

`ControlRequests_proofs`, for every set of clients, requests, workloads and accounts, every number of
faults, and every window, quota and table of the rate limiter, from `RequestsAssumption` and
`RateLimitAssumption`:

* `RequestTypeCorrect == Spec => []RequestTypeOK`, the one position per vault and lender, the one user per party and
  the cap on buckets included.
* `EffectsAreBacked`, `RequestsAreAllOrNothing`: `EffectsBacked` and `RefusedOrDone`. Neither is inductive, since a
  request's next statement is right only because of those before it. `StageInv` says how far the
  tables must have come for a request at each of its awaits (`Reached`), and what the tables hold only
  because a request came that far (`Backed`); both are kept, as rows are never taken away.
* `DedupeKeysHaveOneRow`, `PositionsAreDeposits`: `OneRow` and `PositionIsDeposit`, from `KeyInv`: a request keeps its key once it has a row,
  the worker never makes a row executable again, and the one statement that makes such a row,
  `InsertRow`, looks at all the others of its key in the same statement. `CheckDedupe` is not needed for it:
  it gives the better error, not the safety.
* `QuotasAreBounded == Spec => []QuotaBound`, from `RateInv`: every admission belongs to a window of its key, with a
  number of its own in it that the quota bounds; windows of one key do not overlap; so three do not
  meet in a stretch as long as one. The cardinality is bounded by an injection into pairs of a window and a number.

`LedgerIndexer_proofs`, for every set of rows, aggregates and workers and every combination
of faults, from `IndexerAssumption`:

* `IndexerTypeCorrect == Spec => []IndexerTypeOK`, inductive with the fact that a worker past
  the list has a candidate.
* `ObjectsCorrect`, `WrittenBackCorrect`, `ReconciledCorrect`: the safety
  properties of the run `indexer`; and `FundedCorrect`, that a funded aggregate has had a deposit, which no run checks by
  itself, for the refinement below contains it. None is inductive, since a job works on candidates as they
  were listed, while other workers change the rows. `SafetyInv` adds `RowOK` (what a row's
  status, result and fate have to do with each other), `CandidateOK` (what is still true of a
  candidate, however old) and `WorkerOK` (how far a worker has come with it). `CandidateOK`
  rests on `Grows`, a relation every step satisfies: a success stays, a result is never
  taken back and only a LoanSet's is ever replaced, a ledger ID stays. So what a stale
  candidate says stays right; that is the argument for the code's unconditional updates.
  `SafetyInv` was model-checked on the instance of `indexer` before it was proved.
* `NothingIsTakenBack == Spec => NothingTakenBack`, an action property, from `Grows` and from a decided result
  being the row's fate, so that a second lookup writes what is there.
* `AggregatesKeepPromise == Spec => KeepsAggregatePromise`, the refinement of `AggregatePromise`. The step that gives a
  row its fate creates an object or pays into one; `PlacedInv` and `RowOK` say that the aggregate is there and
  what the transaction names is known by then (`FateMaps`). Of the jobs only the enrichment is not a
  stutter: it writes back what is created, or funds what is paid into (`EnrichMaps`).

`EvidenceChain_proofs`, for every set of scopes, payloads and writers, and chains of every
length (from hashes being collision-free, which is in the model):

* `LinksBackCorrect` and `AnchorsCorrect`, in either store, from `StateInv` (what a writer holds
  between its two statements is the hash of an event of its scope) and from the fact that a
  step adds at most one event to a chain.
* `MemoryVerifiesCorrect` and `MemoryNoForkCorrect`, from `MemoryInv`: each event names the hash of
  the one before it, and no two hashes are the same. The second follows from the first by
  looking one event back, which needs no induction over the chain.
* `TamperEvidentCorrect == Spec => []TamperEvident`, with `ShapeInv`: stored events have the shape the store gives them, from which it
  follows that an event that is changed or out of its place has another hash than is stored. A chain of the PostgreSQL
  store verifies only while it is empty, so the property says something of the memory store only.
* `AnchorsBindCorrect == Spec => []AnchorsBind`: whoever holds an anchor and is shown a chain that verifies and ends in it is
  shown what was in the log then. This compares a stored chain with any function of events whatever, so no run can check
  it. If the two differed, take the largest index at which they do (`LargestBelow`, from the least-element principle of
  the natural numbers): the hashes after it agree, and so do the payloads they contain.

There is no type invariant of `EvidenceChain`: a hash nests the hashes before it, so no one set
holds all events. `IsChain`, part of `StateInv`, says what the proofs need of it.

Each proof has a lemma per action or form of action (a status update, a move of the program
counter, the end of a row), so that a new action costs a new lemma and no more.

Only model-checked: the liveness properties `EventuallySettled`, `EveryAttemptEnds` and `EventuallyReconciled`, since
fairness is outside of what the prover handles. Every other property of a passing run has a
theorem.

## 5. Disagreements between the code and what it says

Shown by a run:

1. `tx-executor.js:339`: a submit whose answer was lost is submitted again under another
   sequence; the row can execute twice, though the README calls the outbox idempotent.
2. `pg.js:342`: a LoanSet is claimed while it is PENDING, though `loans.service.js:119` says it
   stays PENDING until the broker signs.
3. `pg.js:299`: a PostgreSQL evidence chain does not verify, and (by `pg.js:289`) may fork.
4. `ledger-indexer.js:73`: a LoanSet the executor left for the indexer to resolve is INDEXED
   and RECONCILED unresolved; `tx-executor.js:369` says the indexer resolves it.

Met while modelling, and modelled as the code has it:

* `loans.service.js:171`: the broker's signature is accepted for a PROCESSING row, which the
  borrower may have signed by then; `loans.service.js:13` says broker first. `SignatureOrder` is
  what does hold: no counter-signature without the broker's.
* By the same line, two requests of the broker may both find the row unsigned. The slower one
  writes SIGNED_1 over a row that the borrower has signed and the worker has validated meanwhile; the borrower
  signs anew, the row is claimed again and a second LoanSet of the loan executes, with no fault at all. It takes
  six requests, one more than the run `cosign` has. `KeepsLoanPromise` and `LoanSetsEvidenced` hold all the
  same: both LoanSets have both signatures, and evidence of them.
* `pg.js:317` speaks of non-terminal rows; the unique index (`001_init.sql:159`) is over all, so a
  deposit or LoanSet that failed can never be enqueued again, and only with PostgreSQL. RECONCILED
  is not among the statuses the query takes for finished either (`pg.js:321`): once a deposit is
  RECONCILED, its lender cannot deposit into that vault again, in either store.
* `README.md:39` says dedupe-keyed; the key of a collateral deposit is the time
  (`vaults.service.js:151`), so a repeated request deposits twice, and two clients of one broker
  in one millisecond are taken for one. The older route `cover` calls the same handler but has a bucket of its own.
* A position is written when the deposit is enqueued and stays when it fails.
* `createBorrower` leaves a party without a wallet when the address is taken.
* Two workers save the checkpoint they read before their work, so it may go backwards
  (`ledger-indexer.js:96`). This is harmless: it only decides whether a tick is skipped.
* `reconciliation.js:206` says that a critical mismatch needs an operator; what the reconciliation
  finds after a submission is a warning at most, so no row is ever held back.
* The limiter counts a request before its token is looked at.

## 6. Not modelled

* Keystore, transaction builders, logger, metrics, portals, scripts: no state that the rest
  depends on. Tokens and role tables are stateless; a request may be refused for them at any
  time, and `Staff` is their effect on loans.
* `runFullReconciliation`: nothing in the repository calls it.
* The audit export and bundles, the lists and the quote: read-only.
* More than one XRPL account: sequences and leases are per account and independent.
* The amendment check: it ends the tick before anything happens.
* Borrowers without an address: `createBorrower` is then one statement less.
* Two hazards have no property. `xrpl-state.js:116`: the vault's creation enriched after its
  deposit turns it from funded to active, which nothing the code does depends on. `pg.js:425`: twenty SUBMITTED rows
  without a result fill the indexer's list, and twenty is beyond the instances TLC can check.

## 7. What is left

In order of use: the executor's `Reserve` as an abstraction of `SequenceCoordinator`, which needs the
retries of both to be matched; an abstract specification of the requests, as transactions that happen at
once or not at all, with `ControlRequests` shown to implement it; one of the evidence log, as a
sequence of payloads that only grows, for the memory store.
