------------------------ MODULE OutboxExecutor_proofs ------------------------
(* Theorems about OutboxExecutor, for every set of rows and workers, every  *)
(* answer of the ledger and every combination of faults.                    *)
EXTENDS OutboxExecutor, TLAPS

----------------------------------------------------------------------------
(* Type correctness. It is inductive together with what the program counter *)
(* says of the local variables of a worker.                                 *)

\* Where the worker has built a transaction.
HasTx == {"submit", "resubmit", "lookup", "found", "unknown", "rejected", "record",
          "lookupBlob", "foundBlob", "awaitBlob", "rejectedBlob", "recordBlob"}

\* A worker that is busy has a row, and where it has a transaction, it is one
\* of that row.
LocalOK(x) ==
    /\ x.pc \notin {"idle", "next"} => x.cur \in Snapshots
    /\ x.pc \in HasTx => x.tx \in Txs /\ x.tx.row = x.cur.row

WorkersOK ==
    /\ wk \in [Workers -> WorkerRecords]
    /\ \A w \in Workers : LocalOK(wk[w])
OutboxOK == outbox \in [Rows -> RowRecords]
LedgerOK ==
    /\ nextSeq \in Nat
    /\ pool \subseteq Txs
    /\ validated \subseteq [tx : Txs, code : EngineCodes]

TypeInv ==
    /\ OutboxOK
    /\ recorded \subseteq Txs
    /\ lease \in Nat
    /\ WorkersOK
    /\ FaultsOK
    /\ LedgerOK

LEMMA TypeInvImpliesTypeOK == TypeInv => TypeOK
  BY DEF TypeInv, TypeOK, OutboxOK, WorkersOK, LedgerOK

LEMMA StartedType ==
  ASSUME NEW c \in Configs
  PROVE  Started(c) \in WorkerRecords /\ LocalOK(Started(c))
  BY ExecutorAssumption
     DEF Started, LocalOK, HasTx, WorkerRecords, Pcs, NoSnapshot, NoMeta, NoTx, NoBlob, EngineCodes

LEMMA FaultType ==
  ASSUME FaultsOK, NEW k \in FaultKinds, Fault(k) PROVE FaultsOK'
  <1> DEFINE n == faults[k] + 1
  <1>1. n \in Nat /\ n <= MaxFaults[k]
    <2>1. faults[k] \in Nat /\ MaxFaults[k] \in Nat
      BY ExecutorAssumption DEF FaultsOK
    <2>2. faults[k] < MaxFaults[k]
      BY DEF Fault
    <2> QED
      BY <2>1, <2>2
  <1>2. faults' = [faults EXCEPT ![k] = n]
    BY DEF Fault
  <1> HIDE DEF n
  <1> QED
    BY <1>1, <1>2 DEF FaultsOK

LEMMA FaultsType ==
  ASSUME FaultsOK,
         \/ NoFault \/ UNCHANGED faults
         \/ Fault("net") \/ Fault("lost") \/ Fault("db") \/ Fault("crash")
  PROVE  FaultsOK'
  BY FaultType DEF NoFault, FaultsOK, FaultKinds

LEMMA TypeInit == Init => TypeInv
  <1> SUFFICES ASSUME Init PROVE TypeInv
    OBVIOUS
  <1> USE ExecutorAssumption DEF Init, LedgerInit, ExecutorInit
  <1>1. OutboxOK
    BY DEF OutboxOK, AbsentRow, RowRecords, NoTx, NoBlob, NoMeta, Metadata
  <1>2. WorkersOK
    BY StartedType DEF WorkersOK
  <1> QED
    BY <1>1, <1>2 DEF TypeInv, LedgerOK, NoLease, FaultsOK

LEMMA BecomeType ==
  ASSUME WorkersOK, NEW w \in Workers, NEW x \in WorkerRecords, LocalOK(x),
         Become(w, x)
  PROVE  WorkersOK'
  BY DEF WorkersOK, Become, LocalOK

LEMMA GotoType ==
  ASSUME WorkersOK, NEW w \in Workers, NEW p \in Pcs, Goto(w, p),
         LocalOK([wk[w] EXCEPT !.pc = p])
  PROVE  WorkersOK'
  <1>1. [wk[w] EXCEPT !.pc = p] \in WorkerRecords
    BY DEF WorkersOK, WorkerRecords
  <1> QED BY <1>1, BecomeType DEF Goto

LEMMA FinishType ==
  ASSUME WorkersOK, NEW w \in Workers, Finish(w)
  PROVE  WorkersOK'
  <1>1. wk[w].config \in Configs /\ wk[w].batch \in SUBSET Snapshots /\ wk[w].feeSpike \in BOOLEAN
    BY DEF WorkersOK, WorkerRecords
  <1>2. AfterRow(w) \in WorkerRecords /\ LocalOK(AfterRow(w))
    BY <1>1, StartedType DEF AfterRow, WorkerRecords, LocalOK, HasTx, Pcs, Started
  <1> QED BY <1>2, BecomeType DEF Finish

\* A statement that sets the row of w to a well-formed record, and goes on at p
\* or is handled at e.
LEMMA UpdateType ==
  ASSUME TypeInv, NEW w \in Workers, NEW o \in RowRecords,
         NEW p \in Pcs \cup {"done"}, NEW e \in Pcs, Update(w, o, p, e),
         p # "done" => LocalOK([wk[w] EXCEPT !.pc = p]),
         LocalOK([wk[w] EXCEPT !.pc = e])
  PROVE  OutboxOK' /\ WorkersOK' /\ FaultsOK'
  <1> USE ExecutorAssumption
  <1>1. OutboxOK'
    BY DEF Update, TypeInv, OutboxOK
  <1>2. FaultsOK'
    BY FaultsType DEF Update, TypeInv
  <1>3. WorkersOK
    BY DEF TypeInv
  <1>4. WorkersOK'
    <2>1. Finish(w) \/ (p # "done" /\ Goto(w, p)) \/ Goto(w, e)
      BY DEF Update
    <2>2. CASE Finish(w)
      BY <1>3, <2>2, FinishType
    <2>3. CASE p # "done" /\ Goto(w, p)
      BY <1>3, <2>3, GotoType
    <2>4. CASE Goto(w, e)
      BY <1>3, <2>4, GotoType
    <2> QED BY <2>1, <2>2, <2>3, <2>4
  <1> QED BY <1>1, <1>2, <1>4

\* The row a busy worker has, as a record.
LEMMA BusyRow ==
  ASSUME TypeInv, NEW w \in Workers, wk[w].pc \notin {"idle", "next"}
  PROVE  /\ Row(w) \in Rows
         /\ Meta(w) \in Metadata
         /\ Blob(w) \in Nat
         /\ wk[w] \in WorkerRecords
         /\ outbox[Row(w)] \in RowRecords
         /\ wk[w].cur \in Snapshots
  BY DEF TypeInv, WorkersOK, OutboxOK, LocalOK, Snapshots, Metadata, Row, Meta, Blob

LEMMA StatusType ==
  ASSUME NEW o \in RowRecords, NEW s \in OutboxStatuses
  PROVE  [o EXCEPT !.status = s] \in RowRecords
  BY DEF RowRecords

LEMMA SettledType ==
  ASSUME TypeInv, NEW w \in Workers, wk[w].pc \in HasTx,
         NEW s \in OutboxStatuses, NEW res \in {"engine", "validated"}
  PROVE  /\ Settled(w, s, res) \in RowRecords
         /\ [Settled(w, s, res) EXCEPT !.meta = Meta(w)] \in RowRecords
  <1>1. wk[w].tx \in Txs /\ wk[w].pc \notin {"idle", "next"}
    BY DEF TypeInv, WorkersOK, LocalOK, HasTx
  <1> QED BY <1>1, BusyRow DEF Settled, RowRecords

----------------------------------------------------------------------------
(* Every step keeps the types, one lemma per group of actions.              *)

LEMMA WorkersUnchanged ==
  ASSUME WorkersOK, UNCHANGED wk PROVE WorkersOK'
  BY DEF WorkersOK, LocalOK

LEMMA TypeApi ==
  ASSUME TypeInv, ApiStep PROVE TypeInv'
  <1> USE ExecutorAssumption
  <1>1. PICK r \in Rows : Enqueue(r) \/ EnqueueCosigned(r)
    BY DEF ApiStep
  <1>2. outbox[r] \in RowRecords /\ nextSeq \in Nat
    BY DEF TypeInv, OutboxOK, LedgerOK
  <1>3. /\ [outbox[r] EXCEPT !.status = "pending"] \in RowRecords
        /\ [outbox[r] EXCEPT !.status = "signed_2", !.meta = Countersigned(nextSeq)] \in RowRecords
    BY <1>2 DEF RowRecords, OutboxStatuses, Metadata, Countersigned
  <1>4. /\ UNCHANGED <<ledgerVars, recorded, lease, wk, faults>>
        /\ \/ outbox' = [outbox EXCEPT ![r] = [outbox[r] EXCEPT !.status = "pending"]]
           \/ outbox' = [outbox EXCEPT ![r] =
                           [outbox[r] EXCEPT !.status = "signed_2", !.meta = Countersigned(nextSeq)]]
    BY <1>1 DEF Enqueue, EnqueueCosigned
  <1>5. OutboxOK'
    BY <1>3, <1>4 DEF TypeInv, OutboxOK
  <1> QED BY <1>4, <1>5, WorkersUnchanged DEF TypeInv, LedgerOK, ledgerVars, FaultsOK

LEMMA TypeLedger ==
  ASSUME TypeInv, LedgerStep PROVE TypeInv'
  <1>1. PICK t \in pool : Validate(t) \/ Expire(t)
    BY DEF LedgerStep
  <1>2. t \in Txs
    BY DEF TypeInv, LedgerOK
  <1>3. CASE Validate(t)
    <2>1. PICK c \in FinalCodes : validated' = validated \cup {[tx |-> t, code |-> c]}
      BY <1>3 DEF Validate
    <2>2. c \in EngineCodes
      BY CodesAssumption
    <2>3. LedgerOK'
      BY <1>2, <1>3, <2>1, <2>2 DEF Validate, TypeInv, LedgerOK
    <2> QED
      BY <2>3, WorkersUnchanged DEF LedgerStep, TypeInv, executorVars, OutboxOK, FaultsOK
  <1>4. CASE Expire(t)
    <2>1. LedgerOK'
      BY <1>2, <1>4, ExecutorAssumption DEF Expire, TypeInv, LedgerOK, Txs
    <2> QED
      BY <2>1, WorkersUnchanged DEF LedgerStep, TypeInv, executorVars, OutboxOK, FaultsOK
  <1> QED BY <1>1, <1>3, <1>4

LEMMA TypeClaim ==
  ASSUME TypeInv, NEW w \in Workers, ProcessPending(w) PROVE TypeInv'
  <1> USE ExecutorAssumption
  <1> DEFINE snaps(S) == {[row |-> r, meta |-> outbox[r].meta] : r \in S}
             x(S, spike) == [wk[w] EXCEPT !.pc = "next", !.feeSpike = spike,
                                          !.batch = snaps(S)]
  <1>1. PICK S \in OldestClaimable :
            /\ ClaimRows(S)
            /\ \/ NoFault /\ \E spike \in BOOLEAN : Become(w, x(S, spike))
               \/ Fault("db") /\ UNCHANGED wk
    BY DEF ProcessPending, NetworkStatuses
  <1>2. S \subseteq Rows
    BY DEF OldestClaimable, Claimable
  <1>3. OutboxOK'
    <2>1. ASSUME NEW r \in Rows
          PROVE  [outbox[r] EXCEPT !.status = "processing", !.claims = @ + 1] \in RowRecords
      <3>1. outbox[r] \in RowRecords /\ outbox[r].claims + 1 \in Nat
        BY DEF TypeInv, OutboxOK, RowRecords
      <3> QED BY <3>1 DEF RowRecords, OutboxStatuses
    <2>2. ClaimRows(S)
      BY <1>1
    <2> QED BY <2>1, <2>2 DEF ClaimRows, TypeInv, OutboxOK
  <1>4. snaps(S) \in SUBSET Snapshots
    BY <1>2 DEF TypeInv, OutboxOK, RowRecords, Snapshots
  <1>5. ASSUME NEW spike \in BOOLEAN, Become(w, x(S, spike)) PROVE WorkersOK'
    <2> HIDE DEF snaps
    <2>1. wk[w] \in WorkerRecords
      BY DEF TypeInv, WorkersOK
    <2>2. x(S, spike) \in WorkerRecords
      BY <1>4, <2>1 DEF WorkerRecords, Pcs
    <2>3. LocalOK(x(S, spike))
      BY <2>1 DEF LocalOK, HasTx, WorkerRecords
    <2> QED BY <1>5, <2>2, <2>3, BecomeType DEF TypeInv
  <1>6. WorkersOK'
    <2>1. (\E spike \in BOOLEAN : Become(w, x(S, spike))) \/ UNCHANGED wk
      BY <1>1
    <2> QED BY <2>1, <1>5, WorkersUnchanged DEF TypeInv
  <1>7. FaultsOK'
    <2>1. NoFault \/ Fault("db")
      BY <1>1
    <2> QED BY <2>1, FaultsType DEF TypeInv
  <1> QED BY <1>3, <1>6, <1>7 DEF ProcessPending, TypeInv, LedgerOK, ledgerVars

LEMMA TypeNextRow ==
  ASSUME TypeInv, NEW w \in Workers, NextRow(w) PROVE TypeInv'
  <1>1. PICK s \in wk[w].batch :
          Become(w, [wk[w] EXCEPT !.pc = "begin", !.cur = s, !.batch = @ \ {s}])
    BY DEF NextRow
  <1>2. wk[w] \in WorkerRecords /\ s \in Snapshots
    BY DEF TypeInv, WorkersOK, WorkerRecords
  <1>3. [wk[w] EXCEPT !.pc = "begin", !.cur = s, !.batch = @ \ {s}] \in WorkerRecords
    BY <1>2 DEF WorkerRecords, Pcs
  <1>4. LocalOK([wk[w] EXCEPT !.pc = "begin", !.cur = s, !.batch = @ \ {s}])
    BY <1>2 DEF LocalOK, HasTx, WorkerRecords
  <1>5. WorkersOK'
    BY <1>1, <1>3, <1>4, BecomeType DEF TypeInv
  <1> QED BY <1>5 DEF NextRow, TypeInv, OutboxOK, LedgerOK, ledgerVars, FaultsOK

\* Where the worker may go from a place where it has a row but no transaction,
\* or has one already.
NeedsRow == Pcs \ ({"idle", "next"} \cup HasTx)

LEMMA MoveOK ==
  ASSUME TypeInv, NEW w \in Workers, wk[w].pc \notin {"idle", "next"}, NEW p \in Pcs,
         p \in NeedsRow \/ (p \in HasTx /\ wk[w].pc \in HasTx)
  PROVE  LocalOK([wk[w] EXCEPT !.pc = p])
  BY BusyRow DEF TypeInv, WorkersOK, LocalOK, WorkerRecords, NeedsRow, Row

\* The statements that end in Update.
LEMMA TypeUpdate ==
  ASSUME TypeInv, NEW w \in Workers, wk[w].pc \notin {"idle", "next"},
         NEW o \in RowRecords, NEW p \in Pcs \cup {"done"}, NEW e \in NeedsRow,
         Update(w, o, p, e),
         p # "done" => p \in NeedsRow \/ (p \in HasTx /\ wk[w].pc \in HasTx),
         UNCHANGED <<ledgerVars, recorded, lease>>
  PROVE  TypeInv'
  <1>1. e \in Pcs
    BY DEF NeedsRow
  <1>2. LocalOK([wk[w] EXCEPT !.pc = e])
    BY <1>1, MoveOK
  <1>3. p # "done" => LocalOK([wk[w] EXCEPT !.pc = p])
    BY MoveOK
  <1>4. OutboxOK' /\ WorkersOK' /\ FaultsOK'
    BY <1>1, <1>2, <1>3, UpdateType
  <1> QED BY <1>4 DEF TypeInv, LedgerOK, ledgerVars

LEMMA TypeStatusUpdate ==
  ASSUME TypeInv, NEW w \in Workers, wk[w].pc \notin {"idle", "next"},
         NEW s \in OutboxStatuses, NEW p \in NeedsRow \cup {"done"}, NEW e \in NeedsRow,
         Update(w, [outbox[Row(w)] EXCEPT !.status = s], p, e),
         UNCHANGED <<ledgerVars, recorded, lease>>
  PROVE  TypeInv'
  <1>1. [outbox[Row(w)] EXCEPT !.status = s] \in RowRecords
    BY BusyRow, StatusType
  <1>2. p \in Pcs \cup {"done"}
    BY DEF NeedsRow
  <1> QED BY <1>1, <1>2, TypeUpdate

LEMMA TypeBlock ==
  ASSUME TypeInv, NEW w \in Workers, Block(w) \/ BlockNoSigner(w) \/ GiveUp(w, "caught")
                                       \/ GiveUp(w, "cosignCaught")
  PROVE  TypeInv'
  <1>1. "unhandled" \in NeedsRow /\ {"blocked", "failed"} \subseteq OutboxStatuses
    BY DEF NeedsRow, Pcs, HasTx, OutboxStatuses
  <1>2. wk[w].pc \notin {"idle", "next"}
    BY DEF Block, BlockNoSigner, GiveUp
  <1>3. PICK s \in {"blocked", "failed"} :
            /\ Update(w, [outbox[Row(w)] EXCEPT !.status = s], "done", "unhandled")
            /\ UNCHANGED <<ledgerVars, recorded, lease>>
    BY DEF Block, BlockNoSigner, GiveUp
  <1> QED BY <1>1, <1>2, <1>3, TypeStatusUpdate

LEMMA TypeMarkSubmitted ==
  ASSUME TypeInv, NEW w \in Workers, MarkSubmitted(w) PROVE TypeInv'
  <1>1. /\ "unhandled" \in NeedsRow /\ "unhandled" \in Pcs
        /\ "submitted" \in OutboxStatuses
        /\ Dispatch(w) \in NeedsRow
    BY DEF NeedsRow, Pcs, HasTx, OutboxStatuses, Dispatch
  <1>2. wk[w].pc \notin {"idle", "next"}
    BY DEF MarkSubmitted
  <1>3. CASE Update(w, [outbox[Row(w)] EXCEPT !.status = "submitted"],
                    Dispatch(w), "unhandled")
    BY <1>1, <1>2, <1>3, TypeStatusUpdate DEF MarkSubmitted
  <1>4. CASE Fault("net") /\ Goto(w, "unhandled") /\ UNCHANGED outbox
    <2>1. WorkersOK'
      BY <1>1, <1>2, <1>4, MoveOK, GotoType DEF TypeInv
    <2> QED
      BY <1>4, <2>1, FaultsType
         DEF MarkSubmitted, TypeInv, OutboxOK, LedgerOK, ledgerVars
  <1> QED BY <1>3, <1>4 DEF MarkSubmitted

LEMMA TypeDryRun ==
  ASSUME TypeInv, NEW w \in Workers, PrepareDryRun(w) PROVE TypeInv'
  <1>1. {"unhandled", "prepared"} \subseteq NeedsRow
    BY DEF NeedsRow, Pcs, HasTx
  <1>2. wk[w].pc \notin {"idle", "next"}
    BY DEF PrepareDryRun
  <1>3. DryHash(w) \in Txs
    BY <1>2, BusyRow DEF DryHash, Txs
  <1>4. [outbox[Row(w)] EXCEPT !.status = "prepared", !.hash = DryHash(w),
                               !.result = "dry"] \in RowRecords
    BY <1>2, <1>3, BusyRow DEF RowRecords, OutboxStatuses
  <1> QED BY <1>1, <1>2, <1>4, TypeUpdate DEF PrepareDryRun, NeedsRow

LEMMA TypeSettle ==
  ASSUME TypeInv, NEW w \in Workers,
         SettleValidated(w) \/ SettleUnknown(w) \/ SettleRejected(w)
           \/ SettleBlobValidated(w) \/ AwaitBlobValidation(w) \/ SettleBlobRejected(w)
  PROVE  TypeInv'
  <1>1. {"caught", "cosignCaught"} \subseteq NeedsRow
    BY DEF NeedsRow, Pcs, HasTx
  <1>2. wk[w].pc \in HasTx /\ wk[w].pc \notin {"idle", "next"}
    BY DEF HasTx, SettleValidated, SettleUnknown, SettleRejected, SettleBlobValidated,
           AwaitBlobValidation, SettleBlobRejected
  <1>3. PICK s \in OutboxStatuses, res \in {"engine", "validated"}, e \in NeedsRow,
             p \in {"done", "record", "recordBlob"} :
            /\ \/ Update(w, Settled(w, s, res), p, e)
               \/ Update(w, [Settled(w, s, res) EXCEPT !.meta = Meta(w)], p, e)
            /\ UNCHANGED <<ledgerVars, recorded, lease>>
    <2>1. /\ ValidatedStatus(w) \in OutboxStatuses
          /\ RejectedStatus(w) \in OutboxStatuses
          /\ RejectedBlobStatus(w) \in OutboxStatuses
          /\ {"manual_review", "submitted"} \subseteq OutboxStatuses
      BY DEF ValidatedStatus, RejectedStatus, RejectedBlobStatus, OutboxStatuses
    <2>2. CASE SettleValidated(w)
      BY <1>1, <2>1, <2>2 DEF SettleValidated
    <2>3. CASE SettleUnknown(w)
      BY <1>1, <2>1, <2>3 DEF SettleUnknown
    <2>4. CASE SettleRejected(w)
      BY <1>1, <2>1, <2>4 DEF SettleRejected
    <2>5. CASE SettleBlobValidated(w)
      BY <1>1, <2>1, <2>5 DEF SettleBlobValidated
    <2>6. CASE AwaitBlobValidation(w)
      BY <1>1, <2>1, <2>6 DEF AwaitBlobValidation
    <2>7. CASE SettleBlobRejected(w)
      BY <1>1, <2>1, <2>7 DEF SettleBlobRejected
    <2> QED BY <2>2, <2>3, <2>4, <2>5, <2>6, <2>7
  <1>4. /\ Settled(w, s, res) \in RowRecords
        /\ [Settled(w, s, res) EXCEPT !.meta = Meta(w)] \in RowRecords
    BY <1>2, SettledType
  <1>5. /\ p \in Pcs \cup {"done"}
        /\ p # "done" => p \in HasTx
    BY DEF Pcs, HasTx
  <1> QED BY <1>2, <1>3, <1>4, <1>5, TypeUpdate

LEMMA TypeUnhandled ==
  ASSUME TypeInv, NEW w \in Workers, Unhandled(w) PROVE TypeInv'
  <1>1. [outbox[Row(w)] EXCEPT !.status = "failed"] \in RowRecords
    BY BusyRow, StatusType DEF Unhandled, OutboxStatuses
  <1>2. OutboxOK'
    BY <1>1 DEF Unhandled, TypeInv, OutboxOK
  <1>3. FaultsOK'
    BY FaultsType DEF Unhandled, TypeInv
  <1>4. WorkersOK'
    BY FinishType DEF Unhandled, TypeInv
  <1> QED BY <1>2, <1>3, <1>4 DEF Unhandled, TypeInv, LedgerOK, ledgerVars

LEMMA TypeRecord ==
  ASSUME TypeInv, NEW w \in Workers, NEW here \in Pcs \ {"idle", "next"},
         NEW hash \in Txs, NEW e \in NeedsRow, Record(w, here, hash, e)
  PROVE  TypeInv'
  <1>1. recorded' \subseteq Txs
    BY DEF Record, TypeInv
  <1>2. FaultsOK'
    BY FaultsType DEF Record, TypeInv
  <1>3. e \in Pcs /\ LocalOK([wk[w] EXCEPT !.pc = e])
    BY MoveOK DEF Record, NeedsRow
  <1>4. Finish(w) \/ Goto(w, e)
    BY DEF Record
  <1>5. WorkersOK'
    BY <1>3, <1>4, FinishType, GotoType DEF TypeInv
  <1> QED BY <1>1, <1>2, <1>5 DEF Record, TypeInv, OutboxOK, LedgerOK, ledgerVars

LEMMA TypeReserve ==
  ASSUME TypeInv, NEW w \in Workers, Reserve(w) PROVE TypeInv'
  <1> DEFINE x(s) == [wk[w] EXCEPT
                        !.pc = "submit",
                        !.tx = [row |-> Row(w), attempt |-> wk[w].attempt, seq |-> s]]
  <1>1. PICK s \in Reservable :
          \/ NoFault /\ lease' = s + 1 /\ Become(w, x(s))
          \/ Fault("db") /\ lease' \in {lease, s + 1} /\ Goto(w, "caught")
          \/ Fault("net") /\ UNCHANGED lease /\ Goto(w, "caught")
    BY DEF Reserve
  <1>2. s \in Nat /\ wk[w].pc \notin {"idle", "next"}
    BY DEF Reserve, Reservable, TypeInv, LedgerOK
  <1>3. lease' \in Nat
    BY <1>1, <1>2 DEF TypeInv
  <1>4. FaultsOK'
    <2>1. NoFault \/ Fault("db") \/ Fault("net")
      BY <1>1
    <2> QED BY <2>1, FaultsType DEF TypeInv
  <1>5. "caught" \in Pcs /\ LocalOK([wk[w] EXCEPT !.pc = "caught"])
    BY <1>2, MoveOK DEF NeedsRow, HasTx, Pcs
  <1>6. x(s) \in WorkerRecords /\ LocalOK(x(s))
    <2>1. wk[w] \in WorkerRecords /\ wk[w].cur \in Snapshots /\ Row(w) \in Rows
      BY <1>2, BusyRow
    <2>2. [row |-> Row(w), attempt |-> wk[w].attempt, seq |-> s] \in Txs
      BY <1>2, <2>1, ExecutorAssumption DEF Txs, WorkerRecords
    <2> QED BY <2>1, <2>2 DEF WorkerRecords, LocalOK, Pcs, Row
  <1>7. WorkersOK'
    BY <1>1, <1>5, <1>6, BecomeType, GotoType DEF TypeInv
  <1> QED BY <1>3, <1>4, <1>7 DEF Reserve, TypeInv, OutboxOK, LedgerOK, ledgerVars

LEMMA RetryType ==
  ASSUME TypeInv, NEW w \in Workers, wk[w].pc \notin {"idle", "next"}, MayRetry(w), Retry(w)
  PROVE  WorkersOK'
  <1> DEFINE x == [wk[w] EXCEPT !.pc = "reserve", !.attempt = @ + 1, !.tx = NoTx]
  <1>1. wk[w] \in WorkerRecords /\ wk[w].cur \in Snapshots
    BY BusyRow
  <1>2. wk[w].attempt + 1 \in 0..MaxSubmitRetries
    BY <1>1, ExecutorAssumption DEF WorkerRecords, MayRetry
  <1>3. x \in WorkerRecords
    BY <1>1, <1>2 DEF WorkerRecords, Pcs
  <1>4. LocalOK(x)
    BY <1>1 DEF LocalOK, HasTx, WorkerRecords
  <1> QED BY <1>3, <1>4, BecomeType DEF Retry, TypeInv

\* What the ledger does with a transaction keeps its own types.
LEMMA AcceptType ==
  ASSUME LedgerOK, NEW t \in Txs, NEW c, Accept(t, c)
  PROVE  LedgerOK'
  <1>1. t.seq + 1 \in Nat
    BY DEF Txs
  <1> QED BY <1>1 DEF Accept, LedgerOK

LEMMA TypeSubmit ==
  ASSUME TypeInv, NEW w \in Workers, Submit(w) PROVE TypeInv'
  <1>1. /\ wk[w].pc \in HasTx /\ wk[w].pc \notin {"idle", "next"}
        /\ wk[w].tx \in Txs /\ wk[w] \in WorkerRecords
    BY BusyRow DEF Submit, HasTx, TypeInv, WorkersOK, LocalOK
  <1>2. /\ "caught" \in Pcs /\ LocalOK([wk[w] EXCEPT !.pc = "caught"])
        /\ "resubmit" \in Pcs /\ LocalOK([wk[w] EXCEPT !.pc = "resubmit"])
    BY <1>1, MoveOK DEF NeedsRow, HasTx, Pcs
  <1>3. ASSUME Goto(w, "caught") \/ Goto(w, "resubmit") PROVE WorkersOK'
    BY <1>2, <1>3, GotoType DEF TypeInv
  <1>4. ASSUME NEW c \in Codes, SubmitAnswered(w, c)
        PROVE  WorkersOK' /\ lease' \in Nat
    <2>1. CASE ClassifyResult(c) = "retry" /\ MayRetry(w)
      <3>1. Retry(w) /\ (Forget \/ UNCHANGED lease)
        BY <1>4, <2>1 DEF SubmitAnswered
      <3> QED BY <1>1, <2>1, <3>1, RetryType DEF Forget, NoLease, TypeInv
    <2>2. CASE ~(ClassifyResult(c) = "retry" /\ MayRetry(w))
      <3> DEFINE x == [wk[w] EXCEPT !.code = c,
                                    !.pc = IF ClassifyResult(c) = "success"
                                           THEN "lookup" ELSE "rejected"]
      <3>1. Become(w, x) /\ UNCHANGED lease
        BY <1>4, <2>2 DEF SubmitAnswered
      <3>2. c \in EngineCodes
        BY CodesAssumption
      <3>3. x \in WorkerRecords
        BY <1>1, <3>2 DEF WorkerRecords, Pcs
      <3>4. LocalOK(x)
        BY <1>1 DEF LocalOK, HasTx, WorkerRecords, TypeInv, WorkersOK
      <3> QED BY <3>1, <3>3, <3>4, BecomeType DEF TypeInv
    <2> QED BY <2>1, <2>2
  <1>5. WorkersOK' /\ lease' \in Nat
    <2>1. \/ \E c \in Codes : SubmitAnswered(w, c)
          \/ (Goto(w, "caught") \/ Goto(w, "resubmit")) /\ UNCHANGED lease
      BY DEF Submit, AnswerLost, SoleSignerAnswers, Answers
    <2> QED BY <2>1, <1>3, <1>4 DEF TypeInv
  <1>6. LedgerOK'
    <2>1. (\E c \in Codes : Accept(wk[w].tx, c)) \/ UNCHANGED ledgerVars
      BY DEF Submit, SoleSignerAnswers, Answers
    <2>2. CASE \E c \in Codes : Accept(wk[w].tx, c)
      BY <1>1, <2>2, AcceptType DEF TypeInv
    <2>3. CASE UNCHANGED ledgerVars
      BY <2>3 DEF TypeInv, LedgerOK, ledgerVars
    <2> QED BY <2>1, <2>2, <2>3
  <1>7. FaultsOK'
    <2>1. NoFault \/ Fault("lost") \/ Fault("net")
      BY DEF Submit, AnswerLost
    <2> QED BY <2>1, FaultsType DEF TypeInv
  <1> QED BY <1>5, <1>6, <1>7 DEF Submit, TypeInv, OutboxOK

LEMMA TypeLookup ==
  ASSUME TypeInv, NEW w \in Workers, NEW here \in HasTx, NEW found \in HasTx,
         NEW null \in HasTx, Lookup(w, here, found, null)
  PROVE  TypeInv'
  <1>1. wk[w].pc \in HasTx /\ wk[w].pc \notin {"idle", "next"} /\ wk[w] \in WorkerRecords
    BY DEF Lookup, HasTx, TypeInv, WorkersOK
  <1>2. {found, null} \subseteq Pcs /\ {found, null} \cap {"idle", "next"} = {}
    BY DEF HasTx, Pcs
  <1>3. ASSUME NEW v \in validated, Become(w, [wk[w] EXCEPT !.pc = found, !.code = v.code])
        PROVE  WorkersOK'
    <2>1. v.code \in EngineCodes
      BY DEF TypeInv, LedgerOK
    <2>2. [wk[w] EXCEPT !.pc = found, !.code = v.code] \in WorkerRecords
      BY <1>1, <1>2, <2>1 DEF WorkerRecords
    <2>3. LocalOK([wk[w] EXCEPT !.pc = found, !.code = v.code])
      BY <1>1, <1>2 DEF LocalOK, WorkerRecords, TypeInv, WorkersOK
    <2> QED BY <1>3, <2>2, <2>3, BecomeType DEF TypeInv
  <1>4. WorkersOK'
    <2>1. Goto(w, null) \/ \E v \in validated :
                             Become(w, [wk[w] EXCEPT !.pc = found, !.code = v.code])
      BY DEF Lookup
    <2>2. CASE Goto(w, null)
      BY <1>1, <1>2, <2>2, MoveOK, GotoType DEF TypeInv
    <2> QED BY <2>1, <2>2, <1>3
  <1> QED BY <1>4 DEF Lookup, TypeInv, OutboxOK, LedgerOK, ledgerVars, FaultsOK

LEMMA TypeRetryAfterError ==
  ASSUME TypeInv, NEW w \in Workers, RetryAfterError(w) PROVE TypeInv'
  <1>1. WorkersOK'
    BY RetryType DEF RetryAfterError
  <1> QED
    BY <1>1 DEF RetryAfterError, Forget, NoLease, TypeInv, OutboxOK, LedgerOK, ledgerVars, FaultsOK

LEMMA TypeSubmitBlob ==
  ASSUME TypeInv, NEW w \in Workers, SubmitBlob(w) PROVE TypeInv'
  <1> DEFINE t == [row |-> Row(w), attempt |-> 0, seq |-> Blob(w)]
             x(c) == [wk[w] EXCEPT !.tx = t, !.code = c,
                                   !.pc = IF ClassifyResult(c) = "success"
                                          THEN "lookupBlob" ELSE "rejectedBlob"]
  <1>1. /\ wk[w].pc \notin {"idle", "next"} /\ wk[w] \in WorkerRecords
        /\ wk[w].cur \in Snapshots /\ t \in Txs
    BY BusyRow DEF SubmitBlob, Txs
  <1>2. /\ "cosignCaught" \in Pcs /\ LocalOK([wk[w] EXCEPT !.pc = "cosignCaught"])
        /\ "resubmitBlob" \in Pcs /\ LocalOK([wk[w] EXCEPT !.pc = "resubmitBlob"])
    BY <1>1, MoveOK DEF NeedsRow, HasTx, Pcs
  <1>3. ASSUME NEW c \in Codes, Become(w, x(c)) PROVE WorkersOK'
    <2>1. c \in EngineCodes
      BY CodesAssumption
    <2>2. x(c) \in WorkerRecords
      BY <1>1, <2>1 DEF WorkerRecords, Pcs
    <2>3. LocalOK(x(c))
      BY <1>1 DEF LocalOK, WorkerRecords, Row
    <2> QED BY <1>3, <2>2, <2>3, BecomeType DEF TypeInv
  <1>4. /\ \/ \E c \in Codes : Become(w, x(c))
           \/ Goto(w, "cosignCaught") \/ Goto(w, "resubmitBlob")
        /\ (\E c \in Codes : Accept(t, c)) \/ UNCHANGED ledgerVars
        /\ NoFault \/ Fault("lost") \/ Fault("net")
    BY DEF SubmitBlob, AnswerLost, Answers
  <1>5. WorkersOK'
    BY <1>2, <1>3, <1>4, GotoType DEF TypeInv
  <1>6. LedgerOK'
    <2>1. CASE \E c \in Codes : Accept(t, c)
      BY <1>1, <2>1, AcceptType DEF TypeInv
    <2>2. CASE UNCHANGED ledgerVars
      BY <2>2 DEF TypeInv, LedgerOK, ledgerVars
    <2> QED BY <1>4, <2>1, <2>2
  <1>7. FaultsOK'
    <2>1. NoFault \/ Fault("lost") \/ Fault("net")
      BY <1>4
    <2> QED BY <2>1, FaultsType DEF TypeInv
  <1> QED BY <1>5, <1>6, <1>7 DEF SubmitBlob, TypeInv, OutboxOK

LEMMA TypeCrash ==
  ASSUME TypeInv, NEW w \in Workers, Crash(w) PROVE TypeInv'
  <1>1. WorkersOK'
    BY StartedType, BecomeType DEF Crash, TypeInv
  <1> QED
    BY <1>1, FaultsType
       DEF Crash, TypeInv, OutboxOK, LedgerOK, ledgerVars

LEMMA TypeNext == TypeInv /\ [Next]_vars => TypeInv'
  <1> SUFFICES ASSUME TypeInv, [Next]_vars PROVE TypeInv'
    OBVIOUS
  <1>1. CASE ApiStep
    BY <1>1, TypeApi
  <1>2. CASE LedgerStep
    BY <1>2, TypeLedger
  <1>3. ASSUME NEW w \in Workers, WorkerStep(w) PROVE TypeInv'
    <2>1. /\ {"prepared", "record", "recordBlob"} \subseteq Pcs \ {"idle", "next"}
          /\ {"unhandled", "caught", "cosignCaught"} \subseteq NeedsRow
          /\ {"lookup", "found", "unknown", "lookupBlob", "foundBlob", "awaitBlob"}
               \subseteq HasTx
      BY DEF Pcs, NeedsRow, HasTx
    <2>2. CASE Record(w, "prepared", DryHash(w), "unhandled")
      <3>1. DryHash(w) \in Txs
        BY <2>2, BusyRow DEF Record, DryHash, Txs
      <3> QED BY <2>1, <2>2, <3>1, TypeRecord
    <2>3. CASE Record(w, "record", wk[w].tx, "caught")
      <3>1. wk[w].tx \in Txs
        BY <2>3 DEF Record, TypeInv, WorkersOK, LocalOK, HasTx
      <3> QED BY <2>1, <2>3, <3>1, TypeRecord
    <2>4. CASE Record(w, "recordBlob", wk[w].tx, "cosignCaught")
      <3>1. wk[w].tx \in Txs
        BY <2>4 DEF Record, TypeInv, WorkersOK, LocalOK, HasTx
      <3> QED BY <2>1, <2>4, <3>1, TypeRecord
    <2>5. CASE \/ Lookup(w, "lookup", "found", "unknown")
               \/ Lookup(w, "lookupBlob", "foundBlob", "awaitBlob")
      BY <2>1, <2>5, TypeLookup
    <2>6. CASE \/ ProcessPending(w) \/ NextRow(w) \/ Unhandled(w)
               \/ MarkSubmitted(w) \/ PrepareDryRun(w) \/ Reserve(w)
               \/ Submit(w) \/ SubmitBlob(w) \/ RetryAfterError(w)
      BY <2>6, TypeClaim, TypeNextRow, TypeUnhandled, TypeMarkSubmitted, TypeDryRun,
         TypeReserve, TypeSubmit, TypeSubmitBlob, TypeRetryAfterError
    <2>7. CASE \/ Block(w) \/ BlockNoSigner(w)
               \/ GiveUp(w, "caught") \/ GiveUp(w, "cosignCaught")
      BY <2>7, TypeBlock
    <2>8. CASE \/ SettleValidated(w) \/ SettleUnknown(w) \/ SettleRejected(w)
               \/ SettleBlobValidated(w) \/ AwaitBlobValidation(w)
               \/ SettleBlobRejected(w)
      BY <2>8, TypeSettle
    <2> QED
      BY <1>3, <2>2, <2>3, <2>4, <2>5, <2>6, <2>7, <2>8 DEF WorkerStep
  <1>4. ASSUME NEW w \in Workers, Crash(w) PROVE TypeInv'
    BY <1>4, TypeCrash
  <1>5. CASE UNCHANGED vars
    BY <1>5, WorkersUnchanged
       DEF vars, ledgerVars, executorVars, TypeInv, OutboxOK, LedgerOK, FaultsOK
  <1> QED BY <1>1, <1>2, <1>3, <1>4, <1>5 DEF Next

\* The executor's state is well formed at all times.
THEOREM TypeCorrect == Spec => []TypeOK
  <1>1. Spec => []TypeInv
    BY TypeInit, TypeNext, PTL DEF Spec
  <1> QED BY <1>1, TypeInvImpliesTypeOK, PTL

----------------------------------------------------------------------------
(* ExclusiveClaim. A row's status says whether it has been claimed: exactly *)
(* the rows that were never claimed are absent or claimable. What a worker  *)
(* holds has been claimed, so a second claim cannot take it.                *)

Unclaimed == {"absent"} \cup ClaimableStatuses

ClaimsOK ==
    \A r \in Rows :
        outbox[r].claims = IF outbox[r].status \in Unclaimed THEN 0 ELSE 1

HeldOK ==
    /\ \A w \in Workers : \A r \in Held(w) :
         r \in Rows /\ outbox[r].status \notin Unclaimed
    /\ \A v, w \in Workers : v # w => Held(v) \cap Held(w) = {}

ClaimInv == ClaimsOK /\ HeldOK

LEMMA ClaimInvImpliesExclusiveClaim == ClaimInv => ExclusiveClaim
  BY DEF ClaimInv, ClaimsOK, HeldOK, ExclusiveClaim

LEMMA ClaimInit == Init => ClaimInv
  <1> SUFFICES ASSUME Init PROVE ClaimInv
    OBVIOUS
  <1>1. ClaimsOK
    BY DEF Init, ExecutorInit, ClaimsOK, AbsentRow, Unclaimed
  <1>2. \A w \in Workers : Held(w) = {}
    BY DEF Init, ExecutorInit, Started, Held
  <1> QED BY <1>1, <1>2 DEF ClaimInv, HeldOK

\* A step that claims no row and unclaims none, after which no worker holds
\* more than before.
LEMMA ClaimKept ==
  ASSUME ClaimInv,
         \A r \in Rows : outbox'[r].claims = outbox[r].claims,
         \A r \in Rows : outbox'[r].status \in Unclaimed <=> outbox[r].status \in Unclaimed,
         \A w \in Workers : Held(w)' \subseteq Held(w)
  PROVE  ClaimInv'
  <1>1. ClaimsOK'
    BY DEF ClaimInv, ClaimsOK
  <1>2. HeldOK'
    BY DEF ClaimInv, HeldOK
  <1> QED BY <1>1, <1>2 DEF ClaimInv

\* A worker that moves on keeps its batch and its row; one that is through
\* with its row, or dies, lets go of it.
LEMMA HeldBecome ==
  ASSUME TypeInv, NEW w \in Workers, NEW x, Become(w, x), 
         {s.row : s \in x.batch} \cup (IF x.pc \in {"idle", "next"} THEN {} ELSE {x.cur.row})
            \subseteq Held(w)
  PROVE  \A v \in Workers : Held(v)' \subseteq Held(v)
  <1>1. \A v \in Workers : wk'[v] = IF v = w THEN x ELSE wk[v]
    BY DEF Become, TypeInv, WorkersOK
  <1> QED BY <1>1 DEF Held, Row

\* Writing the row a worker works on, to a status no claim takes.
Rewrites(w) ==
    \E s \in OutboxStatuses \ Unclaimed, o \in RowRecords :
        /\ o.status = s /\ o.claims = outbox[Row(w)].claims
        /\ outbox' \in {outbox, [outbox EXCEPT ![Row(w)] = o]}

LEMMA ClaimRewrite ==
  ASSUME TypeInv, ClaimInv, NEW w \in Workers, wk[w].pc \notin {"idle", "next"},
         Rewrites(w), \A v \in Workers : Held(v)' \subseteq Held(v)
  PROVE  ClaimInv'
  <1>1. Row(w) \in Rows /\ outbox[Row(w)].status \notin Unclaimed
    BY BusyRow DEF ClaimInv, HeldOK, Held
  <1>2. PICK o \in RowRecords :
          /\ o.status \notin Unclaimed /\ o.claims = outbox[Row(w)].claims
          /\ outbox' \in {outbox, [outbox EXCEPT ![Row(w)] = o]}
    BY DEF Rewrites
  <1>3. /\ \A r \in Rows : outbox'[r].claims = outbox[r].claims
        /\ \A r \in Rows : outbox'[r].status \in Unclaimed <=> outbox[r].status \in Unclaimed
    BY <1>1, <1>2 DEF TypeInv, OutboxOK
  <1> QED BY <1>3, ClaimKept

LEMMA HeldFinish ==
  ASSUME TypeInv, NEW w \in Workers, Finish(w)
  PROVE  \A v \in Workers : Held(v)' \subseteq Held(v)
  <1>1. AfterRow(w).batch = wk[w].batch /\ AfterRow(w).pc \in {"idle", "next"}
    BY DEF AfterRow, Started
  <1> QED BY <1>1, HeldBecome DEF Finish, Held

LEMMA HeldMove ==
  ASSUME TypeInv, NEW w \in Workers, wk[w].pc \notin {"idle", "next"},
         NEW x, x.batch = wk[w].batch, x.cur = wk[w].cur, Become(w, x)
  PROVE  \A v \in Workers : Held(v)' \subseteq Held(v)
  BY HeldBecome DEF Held, Row

LEMMA HeldGoto ==
  ASSUME TypeInv, NEW w \in Workers, wk[w].pc \notin {"idle", "next"},
         NEW p, Goto(w, p)
  PROVE  \A v \in Workers : Held(v)' \subseteq Held(v)
  <1> DEFINE x == [wk[w] EXCEPT !.pc = p]
  <1>1. x.batch = wk[w].batch /\ x.cur = wk[w].cur
    BY DEF TypeInv, WorkersOK, WorkerRecords
  <1> QED BY <1>1, HeldMove DEF Goto

\* Every step of a worker but the claim itself.
LEMMA ClaimUpdate ==
  ASSUME TypeInv, ClaimInv, NEW w \in Workers, wk[w].pc \notin {"idle", "next"},
         NEW o \in RowRecords, NEW p, NEW e, Update(w, o, p, e),
         o.status \notin Unclaimed, o.claims = outbox[Row(w)].claims
  PROVE  ClaimInv'
  <1>1. o.status \in OutboxStatuses \ Unclaimed
    BY DEF RowRecords, Unclaimed
  <1>2. Rewrites(w)
    BY <1>1 DEF Update, Rewrites
  <1>3. Finish(w) \/ Goto(w, p) \/ Goto(w, e)
    BY DEF Update
  <1> QED BY <1>2, <1>3, HeldFinish, HeldGoto, ClaimRewrite

\* A step that writes no outbox row, and after which nobody holds more.
LEMMA ClaimQuiet ==
  ASSUME ClaimInv, UNCHANGED outbox, \A v \in Workers : Held(v)' \subseteq Held(v)
  PROVE  ClaimInv'
  BY ClaimKept

LEMMA ClaimApi ==
  ASSUME TypeInv, ClaimInv, ApiStep PROVE ClaimInv'
  <1>1. PICK r \in Rows : Enqueue(r) \/ EnqueueCosigned(r)
    BY DEF ApiStep
  <1>2. outbox[r].status = "absent" /\ UNCHANGED wk
    BY <1>1 DEF Enqueue, EnqueueCosigned
  <1>3. \A v \in Workers : Held(v)' \subseteq Held(v)
    BY <1>2 DEF Held, Row
  <1>4. \A q \in Rows : /\ outbox'[q].claims = outbox[q].claims
                        /\ outbox'[q].status \in Unclaimed <=> outbox[q].status \in Unclaimed
    BY <1>1, <1>2 DEF Enqueue, EnqueueCosigned, TypeInv, OutboxOK, RowRecords,
                      Unclaimed, ClaimableStatuses
  <1> QED BY <1>3, <1>4, ClaimKept

LEMMA ClaimClaim ==
  ASSUME TypeInv, ClaimInv, NEW w \in Workers, ProcessPending(w) PROVE ClaimInv'
  <1> DEFINE snaps(S) == {[row |-> r, meta |-> outbox[r].meta] : r \in S}
  <1>1. PICK S \in OldestClaimable :
            /\ ClaimRows(S)
            /\ \/ \E spike \in BOOLEAN :
                     Become(w, [wk[w] EXCEPT !.pc = "next", !.feeSpike = spike,
                                             !.batch = snaps(S)])
               \/ UNCHANGED wk
    BY DEF ProcessPending, NetworkStatuses
  <1>2. S \subseteq Rows /\ \A r \in S : outbox[r].status \in ClaimableStatuses
    BY DEF OldestClaimable, Claimable
  <1>3. \A r \in Rows :
          IF r \in S
          THEN /\ outbox'[r].status = "processing" 
               /\ outbox'[r].claims = outbox[r].claims + 1
          ELSE outbox'[r] = outbox[r]
    <2>1. ClaimRows(S)
      BY <1>1
    <2> QED BY <2>1 DEF ClaimRows, TypeInv, OutboxOK, RowRecords
  <1>4. "processing" \notin Unclaimed /\ ClaimableStatuses \subseteq Unclaimed
    BY DEF Unclaimed, ClaimableStatuses
  <1>5. ClaimsOK'
    BY <1>2, <1>3, <1>4 DEF ClaimInv, ClaimsOK
  <1>6. \A v \in Workers : Held(v) \cap S = {}
    BY <1>2, <1>4 DEF ClaimInv, HeldOK
  <1>7. \A v \in Workers : Held(v)' = Held(v) \/ (v = w /\ Held(v)' \subseteq S)
    <2>1. CASE UNCHANGED wk
      BY <2>1 DEF Held, Row
    <2>2. ASSUME NEW spike \in BOOLEAN,
                 Become(w, [wk[w] EXCEPT !.pc = "next", !.feeSpike = spike,
                                         !.batch = snaps(S)])
          PROVE  \A v \in Workers : Held(v)' = Held(v) \/ (v = w /\ Held(v)' \subseteq S)
      <3>1. wk'[w].pc = "next" /\ wk'[w].batch = snaps(S)
        BY <2>2 DEF Become, TypeInv, WorkersOK, WorkerRecords
      <3>2. \A v \in Workers : v # w => wk'[v] = wk[v]
        BY <2>2 DEF Become, TypeInv, WorkersOK
      <3>3. Held(w)' \subseteq S
        BY <3>1 DEF Held
      <3> QED BY <3>2, <3>3 DEF Held, Row
    <2> QED BY <1>1, <2>1, <2>2
  <1>8. HeldOK'
    <2>1. \A v \in Workers : \A r \in Held(v)' : r \in Rows /\ outbox'[r].status \notin Unclaimed
      BY <1>2, <1>3, <1>4, <1>7 DEF ClaimInv, HeldOK
    <2>2. \A u, v \in Workers : u # v => Held(u)' \cap Held(v)' = {}
      BY <1>6, <1>7 DEF ClaimInv, HeldOK
    <2> QED BY <2>1, <2>2 DEF HeldOK
  <1> QED BY <1>5, <1>8 DEF ClaimInv

LEMMA ClaimNextRow ==
  ASSUME TypeInv, ClaimInv, NEW w \in Workers, NextRow(w) PROVE ClaimInv'
  <1>1. PICK s \in wk[w].batch :
          Become(w, [wk[w] EXCEPT !.pc = "begin", !.cur = s, !.batch = @ \ {s}])
    BY DEF NextRow
  <1> DEFINE x == [wk[w] EXCEPT !.pc = "begin", !.cur = s, !.batch = @ \ {s}]
  <1>2. x.batch = wk[w].batch \ {s} /\ x.cur = s
    BY DEF TypeInv, WorkersOK, WorkerRecords
  <1>3. {q.row : q \in x.batch} \cup (IF x.pc \in {"idle", "next"} THEN {} ELSE {x.cur.row})
          \subseteq Held(w)
    BY <1>2 DEF Held
  <1>4. \A v \in Workers : Held(v)' \subseteq Held(v)
    BY <1>1, <1>3, HeldBecome
  <1> QED BY <1>4, ClaimQuiet DEF NextRow

LEMMA ClaimStep ==
  ASSUME TypeInv, ClaimInv, NEW w \in Workers, WorkerStep(w) PROVE ClaimInv'
  <1>0. /\ {"blocked", "prepared", "submitted", "failed", "validated", "manual_review"}
             \subseteq OutboxStatuses \ Unclaimed
    BY DEF OutboxStatuses, Unclaimed, ClaimableStatuses
  <1>1. CASE ProcessPending(w)
    BY <1>1, ClaimClaim
  <1>2. CASE NextRow(w)
    BY <1>2, ClaimNextRow
  <1>3. CASE Unhandled(w)
    <2>1. wk[w].pc \notin {"idle", "next"}
      BY <1>3 DEF Unhandled
    <2>2. [outbox[Row(w)] EXCEPT !.status = "failed"] \in RowRecords
      BY <1>0, <2>1, BusyRow, StatusType
    <2>3. Rewrites(w)
      BY <1>0, <1>3, <2>1, <2>2, BusyRow DEF Unhandled, Rewrites, RowRecords
    <2> QED BY <1>3, <2>1, <2>3, HeldFinish, ClaimRewrite DEF Unhandled
  <1>4. ASSUME NEW s \in OutboxStatuses \ Unclaimed, NEW p, NEW e,
               wk[w].pc \notin {"idle", "next"},
               Update(w, [outbox[Row(w)] EXCEPT !.status = s], p, e)
        PROVE  ClaimInv'
    <2>1. outbox[Row(w)] \in RowRecords
      BY <1>4, BusyRow
    <2>2. [outbox[Row(w)] EXCEPT !.status = s] \in RowRecords
      BY <2>1, StatusType
    <2> QED BY <1>4, <2>1, <2>2, ClaimUpdate DEF RowRecords
  <1>5. CASE Block(w) \/ BlockNoSigner(w) \/ GiveUp(w, "caught") \/ GiveUp(w, "cosignCaught")
    BY <1>0, <1>4, <1>5 DEF Block, BlockNoSigner, GiveUp
  <1>6. CASE MarkSubmitted(w)
    <2>1. wk[w].pc \notin {"idle", "next"}
      BY <1>6 DEF MarkSubmitted
    <2>2. CASE Goto(w, "unhandled") /\ UNCHANGED outbox
      BY <2>1, <2>2, HeldGoto, ClaimQuiet
    <2> QED BY <1>0, <1>4, <1>6, <2>1, <2>2 DEF MarkSubmitted
  <1>7. CASE PrepareDryRun(w)
    <2>1. wk[w].pc \notin {"idle", "next"}
      BY <1>7 DEF PrepareDryRun
    <2>2. DryHash(w) \in Txs /\ outbox[Row(w)] \in RowRecords
      BY <2>1, BusyRow DEF DryHash, Txs
    <2> DEFINE o == [outbox[Row(w)] EXCEPT !.status = "prepared", !.hash = DryHash(w),
                                           !.result = "dry"]
    <2>3. o \in RowRecords /\ o.status = "prepared" /\ o.claims = outbox[Row(w)].claims
      BY <1>0, <2>2 DEF RowRecords
    <2>4. Update(w, o, "prepared", "unhandled")
      BY <1>7 DEF PrepareDryRun
    <2> HIDE DEF o
    <2> QED BY <1>0, <2>1, <2>3, <2>4, ClaimUpdate
  <1>8. ASSUME NEW s \in OutboxStatuses \ Unclaimed, NEW res \in {"engine", "validated"},
               NEW p, NEW e, wk[w].pc \in HasTx,
               \/ Update(w, Settled(w, s, res), p, e)
               \/ Update(w, [Settled(w, s, res) EXCEPT !.meta = Meta(w)], p, e)
        PROVE  ClaimInv'
    <2>1. wk[w].pc \notin {"idle", "next"}
      BY <1>8 DEF HasTx
    <2> DEFINE o == Settled(w, s, res)
               b == [o EXCEPT !.meta = Meta(w)]
    <2>2. o \in RowRecords /\ b \in RowRecords
      BY <1>8, SettledType
    <2>3. /\ o.status = s /\ o.claims = outbox[Row(w)].claims
          /\ b.status = s /\ b.claims = outbox[Row(w)].claims
      BY <2>1, BusyRow DEF Settled, RowRecords
    <2> HIDE DEF o, b
    <2>4. Update(w, o, p, e) \/ Update(w, b, p, e)
      BY <1>8 DEF o, b
    <2> QED BY <2>1, <2>2, <2>3, <2>4, ClaimUpdate
  <1>9. CASE \/ SettleValidated(w) \/ SettleUnknown(w) \/ SettleRejected(w)
             \/ SettleBlobValidated(w) \/ AwaitBlobValidation(w)
             \/ SettleBlobRejected(w)
    <2>1. {ValidatedStatus(w), RejectedStatus(w), RejectedBlobStatus(w)}
            \subseteq OutboxStatuses \ Unclaimed
      BY <1>0 DEF ValidatedStatus, RejectedStatus, RejectedBlobStatus
    <2>2. wk[w].pc \in HasTx
      BY <1>9 DEF HasTx, SettleValidated, SettleUnknown, SettleRejected,
                  SettleBlobValidated, AwaitBlobValidation, SettleBlobRejected
    <2> QED
      BY <1>0, <1>8, <1>9, <2>1, <2>2
         DEF SettleValidated, SettleUnknown, SettleRejected,
             SettleBlobValidated, AwaitBlobValidation, SettleBlobRejected
  <1>10. ASSUME NEW here, NEW hash, NEW e, here \notin {"idle", "next"},
                Record(w, here, hash, e)
         PROVE  ClaimInv'
    BY <1>10, HeldFinish, HeldGoto, ClaimQuiet DEF Record
  <1>11. CASE \/ Record(w, "prepared", DryHash(w), "unhandled")
              \/ Record(w, "record", wk[w].tx, "caught")
              \/ Record(w, "recordBlob", wk[w].tx, "cosignCaught")
    BY <1>10, <1>11
  <1>12. ASSUME wk[w].pc \notin {"idle", "next"}, UNCHANGED outbox, NEW x,
                Become(w, x), x.batch = wk[w].batch, x.cur = wk[w].cur
         PROVE  ClaimInv'
    BY <1>12, HeldMove, ClaimQuiet
  <1>13. ASSUME wk[w].pc \notin {"idle", "next"}, UNCHANGED outbox, NEW p, Goto(w, p)
         PROVE  ClaimInv'
    BY <1>13, HeldGoto, ClaimQuiet
  <1>14. wk[w] \in WorkerRecords
    BY DEF TypeInv, WorkersOK
  <1>15. CASE Reserve(w)
    <2>1. wk[w].pc \notin {"idle", "next"} /\ UNCHANGED outbox
      BY <1>15 DEF Reserve
    <2>2. PICK t : Goto(w, "caught") \/ Become(w, [wk[w] EXCEPT !.pc = "submit", !.tx = t])
      BY <1>15 DEF Reserve
    <2> QED BY <1>12, <1>13, <1>14, <2>1, <2>2 DEF WorkerRecords
  <1>16. ASSUME wk[w].pc \notin {"idle", "next"}, UNCHANGED outbox, Retry(w)
         PROVE  ClaimInv'
    BY <1>12, <1>14, <1>16 DEF Retry, WorkerRecords
  <1>17. CASE Submit(w)
    <2>1. wk[w].pc \notin {"idle", "next"} /\ UNCHANGED outbox
      BY <1>17 DEF Submit
    <2>2. \/ \E c \in Codes : SubmitAnswered(w, c)
          \/ Goto(w, "caught") \/ Goto(w, "resubmit")
      BY <1>17 DEF Submit, AnswerLost, SoleSignerAnswers, Answers
    <2>3. ASSUME NEW c \in Codes, SubmitAnswered(w, c)
          PROVE  ClaimInv'
      <3>1. Retry(w) \/ Become(w, [wk[w] EXCEPT !.code = c,
                                     !.pc = IF ClassifyResult(c) = "success"
                                            THEN "lookup" ELSE "rejected"])
        BY <2>3 DEF SubmitAnswered
      <3> QED BY <1>12, <1>14, <1>16, <2>1, <3>1 DEF WorkerRecords
    <2> QED BY <1>13, <2>1, <2>2, <2>3
  <1>18. CASE RetryAfterError(w)
    BY <1>16, <1>18 DEF RetryAfterError
  <1>19. ASSUME NEW here, NEW found, NEW null, here \notin {"idle", "next"},
                Lookup(w, here, found, null)
         PROVE  ClaimInv'
    <2>1. wk[w].pc \notin {"idle", "next"} /\ UNCHANGED outbox
      BY <1>19 DEF Lookup
    <2>2. \/ Goto(w, null)
          \/ \E v \in validated : Become(w, [wk[w] EXCEPT !.pc = found, !.code = v.code])
      BY <1>19 DEF Lookup
    <2> QED BY <1>12, <1>13, <1>14, <2>1, <2>2 DEF WorkerRecords
  <1>20. CASE SubmitBlob(w)
    <2>1. wk[w].pc \notin {"idle", "next"} /\ UNCHANGED outbox
      BY <1>20 DEF SubmitBlob
    <2>2. \/ Goto(w, "cosignCaught") \/ Goto(w, "resubmitBlob")
          \/ \E c \in Codes :
               Become(w, [wk[w] EXCEPT
                            !.tx = [row |-> Row(w), attempt |-> 0, seq |-> Blob(w)],
                            !.code = c,
                            !.pc = IF ClassifyResult(c) = "success"
                                   THEN "lookupBlob" ELSE "rejectedBlob"])
      BY <1>20 DEF SubmitBlob, AnswerLost, Answers
    <2> QED BY <1>12, <1>13, <1>14, <2>1, <2>2 DEF WorkerRecords
  <1> QED
    BY <1>1, <1>2, <1>3, <1>5, <1>6, <1>7, <1>9, <1>11, <1>15, <1>17, <1>18, <1>19, <1>20
       DEF WorkerStep

LEMMA ClaimNext == TypeInv /\ ClaimInv /\ [Next]_vars => ClaimInv'
  <1> SUFFICES ASSUME TypeInv, ClaimInv, [Next]_vars PROVE ClaimInv'
    OBVIOUS
  <1>1. ASSUME NEW w \in Workers, Crash(w) PROVE ClaimInv'
    <2>1. PICK c \in Configs : Become(w, Started(c))
      BY <1>1 DEF Crash
    <2>2. \A v \in Workers : Held(v)' \subseteq Held(v)
      BY <2>1, HeldBecome DEF Started
    <2> QED BY <1>1, <2>2, ClaimQuiet DEF Crash
  <1>2. CASE UNCHANGED <<outbox, wk>>
    BY <1>2, ClaimQuiet DEF Held, Row
  <1>3. CASE LedgerStep
    BY <1>2, <1>3 DEF LedgerStep, executorVars
  <1>4. CASE UNCHANGED vars
    BY <1>2, <1>4 DEF vars, executorVars
  <1> QED BY <1>1, <1>3, <1>4, ClaimApi, ClaimStep DEF Next

\* No row is claimed twice, and no two workers ever work on the same row.
THEOREM RowsAreClaimedOnce == Spec => []ExclusiveClaim
  <1>1. Spec => [](TypeInv /\ ClaimInv)
    BY TypeInit, TypeNext, ClaimInit, ClaimNext, PTL DEF Spec
  <1> QED BY <1>1, ClaimInvImpliesExclusiveClaim, PTL

----------------------------------------------------------------------------
(* ValidatedOnLedger. Where a lookup has found its transaction, what the    *)
(* worker remembers of it is in a validated ledger, and stays there; no     *)
(* other path writes the status validated.                                  *)

FoundPcs == {"found", "foundBlob"}

FoundOK ==
    \A w \in Workers :
        wk[w].pc \in FoundPcs => [tx |-> wk[w].tx, code |-> wk[w].code] \in validated

TruthInv == FoundOK /\ ValidatedOnLedger

LEMMA TruthInit == Init => TruthInv
  BY DEF Init, ExecutorInit, TruthInv, FoundOK, FoundPcs, ValidatedOnLedger, Started,
         AbsentRow

\* The ledger forgets nothing.
LEMMA ValidatedGrows == [Next]_vars => validated \subseteq validated'
  <1> SUFFICES ASSUME [Next]_vars PROVE validated \subseteq validated'
    OBVIOUS
  <1>1. CASE ApiStep
    BY <1>1 DEF ApiStep, Enqueue, EnqueueCosigned, ledgerVars
  <1>2. CASE LedgerStep
    BY <1>2 DEF LedgerStep, Validate, Expire
  <1>3. ASSUME NEW w \in Workers, WorkerStep(w) \/ Crash(w)
        PROVE  validated \subseteq validated'
    <2>1. CASE Submit(w) \/ SubmitBlob(w)
      BY <2>1 DEF Submit, SubmitBlob, Accept, ledgerVars
    <2>2. CASE ~(Submit(w) \/ SubmitBlob(w))
      BY <1>3, <2>2
         DEF WorkerStep, Crash, ProcessPending, NextRow, Unhandled, Block, PrepareDryRun,
             Record, MarkSubmitted, BlockNoSigner, Reserve, Lookup, SettleValidated,
             SettleUnknown, SettleRejected, RetryAfterError, GiveUp,
             SettleBlobValidated, AwaitBlobValidation, SettleBlobRejected, ledgerVars
    <2> QED BY <2>1, <2>2
  <1>4. CASE UNCHANGED vars
    BY <1>4 DEF vars, ledgerVars
  <1> QED BY <1>1, <1>2, <1>3, <1>4 DEF Next

\* A row that becomes or stays validated in a step was so before, with the same
\* hash, or the step wrote a hash that a validated ledger holds.
RowTruth ==
    \A r \in Rows :
        outbox'[r].status = "validated" =>
            \/ outbox[r].status = "validated" /\ outbox'[r].hash = outbox[r].hash
            \/ \E v \in Executed(r) : v.tx = outbox'[r].hash

\* A worker that remembers a result in a step's wake, remembered it before, or
\* took it from a validated ledger.
WorkerTruth ==
    \A w \in Workers :
        wk'[w].pc \in FoundPcs =>
            \/ wk[w].pc \in FoundPcs /\ wk'[w] = wk[w]
            \/ [tx |-> wk'[w].tx, code |-> wk'[w].code] \in validated

LEMMA TruthKept ==
  ASSUME TruthInv, validated \subseteq validated', RowTruth, WorkerTruth
  PROVE  TruthInv'
  <1>1. FoundOK'
    BY DEF TruthInv, FoundOK, WorkerTruth
  <1>2. ValidatedOnLedger'
    BY DEF TruthInv, ValidatedOnLedger, RowTruth, Executed
  <1> QED BY <1>1, <1>2 DEF TruthInv

LEMMA RowsUntouched == UNCHANGED outbox => RowTruth
  BY DEF RowTruth

\* A write of a row to a record that is not validated, or truthfully so.
LEMMA RowWritten ==
  ASSUME TypeInv, NEW w \in Workers, NEW o,
         o.status = "validated" => \E v \in Executed(Row(w)) : v.tx = o.hash,
         outbox' \in {outbox, [outbox EXCEPT ![Row(w)] = o]}
  PROVE  RowTruth
  BY DEF RowTruth, TypeInv, OutboxOK

\* A worker goes where it does not remember a result.
LEMMA WorkerMoved ==
  ASSUME TypeInv, NEW w \in Workers, NEW x, Become(w, x), x.pc \notin FoundPcs
  PROVE  WorkerTruth
  BY DEF WorkerTruth, Become, TypeInv, WorkersOK

LEMMA WorkerWent ==
  ASSUME TypeInv, NEW w \in Workers, NEW p, Goto(w, p), p \notin FoundPcs
  PROVE  WorkerTruth
  <1>1. [wk[w] EXCEPT !.pc = p].pc = p
    BY DEF TypeInv, WorkersOK, WorkerRecords
  <1> QED BY <1>1, WorkerMoved DEF Goto

LEMMA WorkerFinished ==
  ASSUME TypeInv, NEW w \in Workers, Finish(w)
  PROVE  WorkerTruth
  <1>1. AfterRow(w).pc \notin FoundPcs
    BY DEF AfterRow, Started, FoundPcs
  <1> QED BY <1>1, WorkerMoved DEF Finish

LEMMA TruthUpdate ==
  ASSUME TypeInv, NEW w \in Workers, NEW o,
         o.status = "validated" => \E v \in Executed(Row(w)) : v.tx = o.hash,
         NEW p, p \notin FoundPcs, NEW e, e \notin FoundPcs, Update(w, o, p, e)
  PROVE  RowTruth /\ WorkerTruth
  <1>1. RowTruth
    BY RowWritten DEF Update
  <1>2. Finish(w) \/ Goto(w, p) \/ Goto(w, e)
    BY DEF Update
  <1>3. WorkerTruth
    BY <1>2, WorkerFinished, WorkerWent
  <1> QED BY <1>1, <1>3

LEMMA TruthStep ==
  ASSUME TypeInv, TruthInv, NEW w \in Workers, WorkerStep(w)
  PROVE  RowTruth /\ WorkerTruth
  <1>0. /\ wk[w] \in WorkerRecords
        /\ {"next", "begin", "prepared", "noSigner", "reserve", "submit", "resubmit",
            "lookup", "unknown", "rejected", "record", "caught", "submitBlob",
            "resubmitBlob", "lookupBlob",
            "awaitBlob", "rejectedBlob", "recordBlob", "cosignCaught", "unhandled", "done"}
              \cap FoundPcs = {}
    BY DEF TypeInv, WorkersOK, FoundPcs
  <1>1. CASE ProcessPending(w)
    <2>1. RowTruth
      <3>1. PICK S \in OldestClaimable : ClaimRows(S)
        BY <1>1 DEF ProcessPending
      <3>2. \A r \in Rows : IF r \in S THEN outbox'[r].status = "processing"
                                       ELSE outbox'[r] = outbox[r]
        BY <3>1 DEF ClaimRows, TypeInv, OutboxOK, RowRecords
      <3> QED BY <3>2 DEF RowTruth
    <2>2. WorkerTruth
      <3>1. CASE UNCHANGED wk
        BY <3>1 DEF WorkerTruth
      <3>2. ASSUME NEW spike, NEW b,
                   Become(w, [wk[w] EXCEPT !.pc = "next", !.feeSpike = spike, !.batch = b])
            PROVE  WorkerTruth
        BY <1>0, <3>2, WorkerMoved DEF WorkerRecords
      <3>3. \/ UNCHANGED wk
            \/ \E spike \in BOOLEAN, S \in OldestClaimable :
                 Become(w, [wk[w] EXCEPT
                              !.pc = "next", !.feeSpike = spike,
                              !.batch = {[row |-> r, meta |-> outbox[r].meta] : r \in S}])
        BY <1>1 DEF ProcessPending, NetworkStatuses
      <3> QED BY <3>1, <3>2, <3>3
    <2> QED BY <2>1, <2>2
  <1>2. CASE NextRow(w)
    <2>1. RowTruth
      BY <1>2, RowsUntouched DEF NextRow
    <2>2. PICK s : Become(w, [wk[w] EXCEPT !.pc = "begin", !.cur = s, !.batch = @ \ {s}])
      BY <1>2 DEF NextRow
    <2>3. WorkerTruth
      BY <1>0, <2>2, WorkerMoved DEF WorkerRecords
    <2> QED BY <2>1, <2>3
  <1>3. ASSUME wk[w].pc \notin {"idle", "next"}, NEW s, s # "validated",
               outbox' \in {outbox, [outbox EXCEPT ![Row(w)].status = s]}
        PROVE  RowTruth
    <2>1. [outbox[Row(w)] EXCEPT !.status = s].status = s
      BY <1>3, BusyRow DEF RowRecords
    <2> QED BY <1>3, <2>1, RowWritten
  <1>4. CASE Unhandled(w)
    BY <1>3, <1>4, WorkerFinished DEF Unhandled
  <1>5. ASSUME wk[w].pc \notin {"idle", "next"}, NEW s, s # "validated",
               NEW p, p \notin FoundPcs, NEW e, e \notin FoundPcs,
               Update(w, [outbox[Row(w)] EXCEPT !.status = s], p, e)
        PROVE  RowTruth /\ WorkerTruth
    <2>1. [outbox[Row(w)] EXCEPT !.status = s].status = s
      BY <1>5, BusyRow DEF RowRecords
    <2> QED BY <1>5, <2>1, TruthUpdate
  <1>6. CASE Block(w) \/ BlockNoSigner(w) \/ GiveUp(w, "caught") \/ GiveUp(w, "cosignCaught")
    BY <1>0, <1>5, <1>6 DEF Block, BlockNoSigner, GiveUp
  <1>7. CASE MarkSubmitted(w)
    <2>1. Dispatch(w) \notin FoundPcs
      BY <1>0 DEF Dispatch
    <2>2. CASE Goto(w, "unhandled") /\ UNCHANGED outbox
      BY <1>0, <2>2, RowsUntouched, WorkerWent
    <2> QED BY <1>0, <1>5, <1>7, <2>1, <2>2 DEF MarkSubmitted
  <1>8. CASE PrepareDryRun(w)
    <2> DEFINE o == [outbox[Row(w)] EXCEPT !.status = "prepared", !.hash = DryHash(w),
                                           !.result = "dry"]
    <2>1. o.status = "prepared"
      BY <1>8, BusyRow DEF PrepareDryRun, RowRecords
    <2>2. Update(w, o, "prepared", "unhandled")
      BY <1>8 DEF PrepareDryRun
    <2> HIDE DEF o
    <2> QED BY <1>0, <2>1, <2>2, TruthUpdate
  <1>9. ASSUME NEW s, NEW res, NEW p, NEW e, p \notin FoundPcs, e \notin FoundPcs,
               wk[w].pc \in HasTx,
               s = "validated" => \E v \in Executed(Row(w)) : v.tx = wk[w].tx,
               \/ Update(w, Settled(w, s, res), p, e)
               \/ Update(w, [Settled(w, s, res) EXCEPT !.meta = Meta(w)], p, e)
        PROVE  RowTruth /\ WorkerTruth
    <2> DEFINE o == Settled(w, s, res)
               b == [o EXCEPT !.meta = Meta(w)]
    <2>1. /\ o.status = s /\ o.hash = wk[w].tx
          /\ b.status = s /\ b.hash = wk[w].tx
      BY <1>9, BusyRow DEF HasTx, Settled, RowRecords
    <2>2. Update(w, o, p, e) \/ Update(w, b, p, e)
      BY <1>9
    <2> HIDE DEF o, b
    <2> QED BY <1>9, <2>1, <2>2, TruthUpdate
  <1>10. CASE SettleValidated(w) \/ SettleBlobValidated(w)
    <2>1. wk[w].pc \in FoundPcs /\ wk[w].pc \in HasTx
      BY <1>10 DEF SettleValidated, SettleBlobValidated, FoundPcs, HasTx
    <2>2. wk[w].tx.row = Row(w)
      BY <2>1 DEF TypeInv, WorkersOK, LocalOK, Row
    <2>3. [tx |-> wk[w].tx, code |-> wk[w].code] \in validated
      BY <2>1 DEF TruthInv, FoundOK
    <2>4. ValidatedStatus(w) = "validated" => \E v \in Executed(Row(w)) : v.tx = wk[w].tx
      BY <2>2, <2>3 DEF ValidatedStatus, Executed
    <2> QED
      BY <1>0, <1>9, <1>10, <2>1, <2>4 DEF SettleValidated, SettleBlobValidated
  <1>11. CASE \/ SettleUnknown(w) \/ SettleRejected(w) \/ AwaitBlobValidation(w)
              \/ SettleBlobRejected(w)
    <2>1. wk[w].pc \in HasTx
      BY <1>11 DEF HasTx, SettleUnknown, SettleRejected, AwaitBlobValidation,
                   SettleBlobRejected
    <2>2. RejectedStatus(w) # "validated" /\ RejectedBlobStatus(w) # "validated"
      BY DEF RejectedStatus, RejectedBlobStatus
    <2>3. \A p \in {"done", "record", "recordBlob", "caught", "cosignCaught"} :
            p \notin FoundPcs
      BY DEF FoundPcs
    <2>4. ASSUME NEW s, s # "validated",
                 NEW p \in {"done", "record", "recordBlob"},
                 NEW e \in {"caught", "cosignCaught"},
                 \/ Update(w, Settled(w, s, "engine"), p, e)
                 \/ Update(w, [Settled(w, s, "engine") EXCEPT !.meta = Meta(w)], p, e)
          PROVE  RowTruth /\ WorkerTruth
      <3>1. p \notin FoundPcs /\ e \notin FoundPcs
        BY <2>3
      <3> QED BY <1>9, <2>1, <2>4, <3>1
    <2>5. CASE SettleUnknown(w)
      BY <2>4, <2>5 DEF SettleUnknown
    <2>6. CASE SettleRejected(w)
      BY <2>2, <2>4, <2>6 DEF SettleRejected
    <2>7. CASE AwaitBlobValidation(w)
      BY <2>4, <2>7 DEF AwaitBlobValidation
    <2>8. CASE SettleBlobRejected(w)
      BY <2>2, <2>4, <2>8 DEF SettleBlobRejected
    <2> QED BY <1>11, <2>5, <2>6, <2>7, <2>8
  <1>12. CASE \/ Record(w, "prepared", DryHash(w), "unhandled")
              \/ Record(w, "record", wk[w].tx, "caught")
              \/ Record(w, "recordBlob", wk[w].tx, "cosignCaught")
    BY <1>0, <1>12, RowsUntouched, WorkerFinished, WorkerWent DEF Record
  <1>13. CASE Reserve(w)
    <2>1. PICK t : Goto(w, "caught") \/ Become(w, [wk[w] EXCEPT !.pc = "submit", !.tx = t])
      BY <1>13 DEF Reserve
    <2>2. WorkerTruth
      BY <1>0, <2>1, WorkerMoved, WorkerWent DEF WorkerRecords
    <2> QED BY <1>13, <2>2, RowsUntouched DEF Reserve
  <1>14. ASSUME Retry(w) PROVE WorkerTruth
    BY <1>0, <1>14, WorkerMoved DEF Retry, WorkerRecords
  <1>15. CASE Submit(w)
    <2>1. \/ \E c \in Codes : SubmitAnswered(w, c)
          \/ Goto(w, "caught") \/ Goto(w, "resubmit")
      BY <1>15 DEF Submit, AnswerLost, SoleSignerAnswers, Answers
    <2>2. ASSUME NEW c \in Codes, SubmitAnswered(w, c)
          PROVE  WorkerTruth
      <3>1. Retry(w) \/ Become(w, [wk[w] EXCEPT !.code = c,
                                     !.pc = IF ClassifyResult(c) = "success"
                                            THEN "lookup" ELSE "rejected"])
        BY <2>2 DEF SubmitAnswered
      <3> QED BY <1>0, <1>14, <3>1, WorkerMoved DEF WorkerRecords
    <2>3. WorkerTruth
      BY <1>0, <2>1, <2>2, WorkerWent
    <2> QED BY <1>15, <2>3, RowsUntouched DEF Submit
  <1>16. CASE RetryAfterError(w)
    BY <1>14, <1>16, RowsUntouched DEF RetryAfterError
  <1>17. ASSUME NEW here, NEW found, NEW null, null \notin FoundPcs,
                Lookup(w, here, found, null)
         PROVE  RowTruth /\ WorkerTruth
    <2>1. ASSUME NEW v \in validated, v.tx = wk[w].tx,
                 Become(w, [wk[w] EXCEPT !.pc = found, !.code = v.code])
          PROVE  WorkerTruth
      <3> DEFINE x == [wk[w] EXCEPT !.pc = found, !.code = v.code]
      <3>1. x.tx = v.tx /\ x.code = v.code
        BY <1>0, <2>1 DEF WorkerRecords
      <3>2. [tx |-> x.tx, code |-> x.code] \in validated
        BY <3>1 DEF TypeInv, LedgerOK
      <3>3. \A u \in Workers : wk'[u] = IF u = w THEN x ELSE wk[u]
        BY <2>1 DEF Become, TypeInv, WorkersOK
      <3> QED BY <3>2, <3>3 DEF WorkerTruth
    <2>2. Goto(w, null) => WorkerTruth
      BY <1>17, WorkerWent
    <2>3. WorkerTruth
      BY <1>17, <2>1, <2>2 DEF Lookup
    <2> QED BY <1>17, <2>3, RowsUntouched DEF Lookup
  <1>18. CASE SubmitBlob(w)
    <2>1. \/ Goto(w, "cosignCaught") \/ Goto(w, "resubmitBlob")
          \/ \E c \in Codes :
               Become(w, [wk[w] EXCEPT
                            !.tx = [row |-> Row(w), attempt |-> 0, seq |-> Blob(w)],
                            !.code = c,
                            !.pc = IF ClassifyResult(c) = "success"
                                   THEN "lookupBlob" ELSE "rejectedBlob"])
      BY <1>18 DEF SubmitBlob, AnswerLost, Answers
    <2>2. WorkerTruth
      BY <1>0, <2>1, WorkerMoved, WorkerWent DEF WorkerRecords
    <2> QED BY <1>18, <2>2, RowsUntouched DEF SubmitBlob
  <1>19. CASE \/ Lookup(w, "lookup", "found", "unknown")
              \/ Lookup(w, "lookupBlob", "foundBlob", "awaitBlob")
    <2>1. "unknown" \notin FoundPcs /\ "awaitBlob" \notin FoundPcs
      BY DEF FoundPcs
    <2> QED BY <1>17, <1>19, <2>1
  <1> QED
    BY <1>1, <1>2, <1>4, <1>6, <1>7, <1>8, <1>10, <1>11, <1>12, <1>13, <1>15, <1>16,
       <1>18, <1>19
       DEF WorkerStep

LEMMA TruthNext == TypeInv /\ TruthInv /\ [Next]_vars => TruthInv'
  <1> SUFFICES ASSUME TypeInv, TruthInv, [Next]_vars PROVE TruthInv'
    OBVIOUS
  <1>1. validated \subseteq validated'
    BY ValidatedGrows
  <1>2. CASE ApiStep
    <2>1. PICK r \in Rows : Enqueue(r) \/ EnqueueCosigned(r)
      BY <1>2 DEF ApiStep
    <2>2. UNCHANGED wk /\ \A q \in Rows : \/ outbox'[q] = outbox[q]
                                          \/ outbox'[q].status \in {"pending", "signed_2"}
      BY <2>1 DEF Enqueue, EnqueueCosigned, TypeInv, OutboxOK, RowRecords
    <2> QED BY <1>1, <2>2, TruthKept DEF RowTruth, WorkerTruth
  <1>3. CASE UNCHANGED <<outbox, wk>>
    BY <1>1, <1>3, TruthKept DEF RowTruth, WorkerTruth
  <1>4. CASE LedgerStep
    BY <1>3, <1>4 DEF LedgerStep, executorVars
  <1>5. CASE UNCHANGED vars
    BY <1>3, <1>5 DEF vars, executorVars
  <1>6. ASSUME NEW w \in Workers, Crash(w) PROVE TruthInv'
    <2>1. WorkerTruth
      BY <1>6, WorkerMoved DEF Crash, Started, FoundPcs
    <2> QED BY <1>1, <1>6, <2>1, RowsUntouched, TruthKept DEF Crash
  <1>7. ASSUME NEW w \in Workers, WorkerStep(w) PROVE TruthInv'
    BY <1>1, <1>7, TruthStep, TruthKept
  <1> QED BY <1>2, <1>4, <1>5, <1>6, <1>7 DEF Next

\* VALIDATED is never the word of a submit alone: whatever fails or is lost, the
\* hash of such a row names a transaction that a validated ledger holds and
\* that succeeded.
THEOREM ValidatedRowsAreOnLedger == Spec => []ValidatedOnLedger
  <1>1. Spec => [](TypeInv /\ TruthInv)
    BY TypeInit, TypeNext, TruthInit, TruthNext, PTL DEF Spec
  <1>2. TruthInv => ValidatedOnLedger
    BY DEF TruthInv
  <1> QED BY <1>1, <1>2, PTL
=============================================================================
