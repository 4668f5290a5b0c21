--------------------------- MODULE LoanCosign_proofs ---------------------------
(* Theorems about LoanCosign, for every set of loans, users, requests and   *)
(* workers and every combination of faults.                                 *)
EXTENDS LoanCosign, OutboxExecutor_proofs

----------------------------------------------------------------------------
(* Type correctness. The workers keep their types by the executor's proof.  *)

CosignTypeInv ==
    /\ TypeInv
    /\ loan \in [Loans -> LoanStatuses]
    /\ evidence \subseteq Events
    /\ req \in [Requests -> RequestRecords \cup {NotMade, Done}]

LEMMA CosignTypeInvImpliesCosignTypeOK == CosignTypeInv => CosignTypeOK
  BY TypeInvImpliesTypeOK DEF CosignTypeInv, CosignTypeOK

LEMMA CosignTypeInit == CosignInit => CosignTypeInv
  BY TypeInit DEF CosignInit, CosignTypeInv, LoanStatuses

\* A request under way is a record with all fields.
UnderWay(q) == req[q].pc \notin {"notMade", "done"}

LEMMA RequestType ==
  ASSUME CosignTypeInv, NEW q \in Requests, UnderWay(q)
  PROVE  /\ req[q] \in RequestRecords
         /\ req[q].loan \in Loans /\ req[q].loan \in Rows
         /\ outbox[req[q].loan] \in RowRecords
  <1>1. req[q] \in RequestRecords
    <2>1. req[q] \in RequestRecords \cup {NotMade, Done}
      BY DEF CosignTypeInv
    <2>2. req[q] # NotMade /\ req[q] # Done
      BY DEF UnderWay, NotMade, Done
    <2> QED BY <2>1, <2>2
  <1>2. req[q].loan \in Loans /\ req[q].loan \in Rows
    BY <1>1, ExecutorAssumption DEF RequestRecords, Loans
  <1> QED BY <1>1, <1>2 DEF CosignTypeInv, TypeInv, OutboxOK

\* A request becomes x.
LEMMA RequestMoves ==
  ASSUME CosignTypeInv, NEW q \in Requests, NEW x \in RequestRecords \cup {NotMade, Done},
         req' = [req EXCEPT ![q] = x]
  PROVE  /\ req' \in [Requests -> RequestRecords \cup {NotMade, Done}]
         /\ \A p \in Requests : req'[p] = IF p = q THEN x ELSE req[p]
  BY DEF CosignTypeInv

LEMMA AwaitMoves ==
  ASSUME CosignTypeInv, NEW q \in Requests, UnderWay(q),
         NEW p \in {"updateLoan", "evidence"}, Await(q, p)
  PROVE  LET x == [req[q] EXCEPT !.pc = p] IN
         /\ x \in RequestRecords
         /\ x.pc = p /\ x.loan = req[q].loan /\ x.actor = req[q].actor
         /\ x.action = req[q].action /\ x.meta = req[q].meta
         /\ req' = [req EXCEPT ![q] = x]
  BY RequestType DEF Await, RequestRecords

\* A request writes the row of its loan.
LEMMA SignType ==
  ASSUME CosignTypeInv, NEW q \in Requests, UnderWay(q),
         NEW s \in OutboxStatuses, NEW m \in Metadata, NEW h \in Txs \cup {NoTx},
         Sign(q, s, m, h)
  PROVE  /\ OutboxOK'
         /\ \A r \in Rows : IF r = req[q].loan
                            THEN outbox'[r].status = s /\ outbox'[r].meta = m
                            ELSE outbox'[r] = outbox[r]
  <1> DEFINE o == [outbox[req[q].loan] EXCEPT !.status = s, !.meta = m, !.hash = h]
  <1>1. o \in RowRecords /\ o.status = s /\ o.meta = m
    BY RequestType DEF RowRecords
  <1>2. outbox' = [outbox EXCEPT ![req[q].loan] = o]
    BY DEF Sign
  <1> HIDE DEF o
  <1> QED BY <1>1, <1>2, RequestType DEF CosignTypeInv, TypeInv, OutboxOK

LEMMA TypeRequest ==
  ASSUME CosignTypeInv, NEW q \in Requests, RequestStep(q)
  PROVE  CosignTypeInv'
  <1> USE ExecutorAssumption, CosignAssumption
  <1>1. ASSUME NEW x \in RequestRecords \cup {NotMade, Done}, req' = [req EXCEPT ![q] = x],
               UNCHANGED vars,
               loan' \in [Loans -> LoanStatuses], evidence' \subseteq Events
        PROVE  CosignTypeInv'
    <2>1. TypeInv'
      BY <1>1, TypeNext DEF CosignTypeInv
    <2> QED BY <1>1, <2>1, RequestMoves DEF CosignTypeInv
  <1>2. ASSUME NEW p \in {"enqueue", "findUnsigned", "findSigned", "evidence"}, NEW l \in Loans,
               NEW u \in Users, NEW a \in Actions
        PROVE  Request(p, l, u, a) \in RequestRecords
    BY <1>2 DEF Request, RequestRecords, NoMeta, NoBlob, Metadata
  <1>3. /\ loan \in [Loans -> LoanStatuses] /\ evidence \subseteq Events
        /\ Staff \subseteq Users /\ \A l \in Loans : BorrowerOf[l] \in Users
    BY DEF CosignTypeInv, Loans
  <1>4. CASE CreateLoan(q)
    <2>1. PICK l \in Loans, u \in Staff :
            /\ loan' = [loan EXCEPT ![l] = "approved"]
            /\ req' = [req EXCEPT ![q] = Request("evidence", l, u, "LOAN_APPROVE")]
      BY <1>4 DEF CreateLoan
    <2>2. Request("evidence", l, u, "LOAN_APPROVE") \in RequestRecords
      BY <1>2, <1>3 DEF Actions
    <2>3. loan' \in [Loans -> LoanStatuses]
      BY <1>3, <2>1 DEF LoanStatuses
    <2> QED BY <1>1, <1>3, <1>4, <2>1, <2>2, <2>3 DEF CreateLoan
  <1>5. CASE CheckPrepare(q) \/ CheckBroker(q) \/ CheckBorrower(q)
    <2>1. PICK p \in {"enqueue", "findUnsigned", "findSigned"}, l \in Loans, u \in Users,
               a \in Actions : req' = [req EXCEPT ![q] = Request(p, l, u, a)]
      BY <1>3, <1>5 DEF CheckPrepare, CheckBroker, CheckBorrower, Actions
    <2>2. Request(p, l, u, a) \in RequestRecords
      BY <1>2
    <2> QED BY <1>1, <1>3, <1>5, <2>1, <2>2 DEF CheckPrepare, CheckBroker, CheckBorrower
  <1>6. CASE EnqueueLoanSet(q)
    <2>1. UnderWay(q)
      BY <1>6 DEF EnqueueLoanSet, UnderWay
    <2>2. CASE UNCHANGED outbox /\ Answered(q)
      BY <1>1, <1>3, <1>6, <2>2 DEF EnqueueLoanSet, Answered, vars, executorVars
    <2>3. CASE /\ outbox' = [outbox EXCEPT ![req[q].loan].status = "pending"]
               /\ Await(q, "updateLoan")
      <3>1. OutboxOK'
        <4>1. [outbox[req[q].loan] EXCEPT !.status = "pending"] \in RowRecords
          BY <2>1, RequestType DEF RowRecords, OutboxStatuses
        <4> QED BY <2>3, <4>1 DEF CosignTypeInv, TypeInv, OutboxOK
      <3>2. TypeInv'
        BY <1>6, <3>1, WorkersUnchanged
           DEF EnqueueLoanSet, CosignTypeInv, TypeInv, LedgerOK, ledgerVars, FaultsOK
      <3> QED BY <1>6, <2>1, <2>3, <3>2, AwaitMoves, RequestMoves DEF EnqueueLoanSet, CosignTypeInv
    <2> QED BY <1>6, <2>2, <2>3 DEF EnqueueLoanSet
  <1>7. CASE UpdateLoan(q)
    <2>1. UnderWay(q)
      BY <1>7 DEF UpdateLoan, UnderWay
    <2>2. loan' \in [Loans -> LoanStatuses]
      BY <1>3, <1>7 DEF UpdateLoan, LoanStatuses
    <2> QED BY <1>1, <1>3, <1>7, <2>1, <2>2, AwaitMoves DEF UpdateLoan
  <1>8. CASE FindUnsigned(q) \/ FindSigned(q)
    <2>1. UnderWay(q) /\ UNCHANGED <<vars, loan, evidence>>
      BY <1>8 DEF FindUnsigned, FindSigned, FindRow, UnderWay
    <2>2. PICK p \in {"writeBroker", "writeBorrower"} :
            \/ req' = [req EXCEPT ![q].pc = p, ![q].meta = outbox[req[q].loan].meta]
            \/ Answered(q)
      BY <1>8 DEF FindUnsigned, FindSigned, FindRow
    <2> DEFINE x == [req[q] EXCEPT !.pc = p, !.meta = outbox[req[q].loan].meta]
    <2>3. x \in RequestRecords
      BY <2>1, RequestType DEF RequestRecords, RowRecords
    <2>4. req' = [req EXCEPT ![q] = x] \/ req' = [req EXCEPT ![q] = Done]
      BY <2>2 DEF Answered
    <2> HIDE DEF x
    <2> QED BY <1>1, <1>3, <2>1, <2>3, <2>4
  <1>9. CASE WriteBroker(q) \/ WriteBorrower(q)
    <2>1. UnderWay(q)
      BY <1>9 DEF WriteBroker, WriteBorrower, UnderWay
    <2>2. req[q].meta \in Metadata /\ nextSeq \in Nat
      BY <2>1, RequestType DEF RequestRecords, CosignTypeInv, TypeInv, LedgerOK
    <2>3. PICK s \in OutboxStatuses, m \in Metadata, h \in Txs \cup {NoTx} : Sign(q, s, m, h)
      <3>1. CASE WriteBroker(q)
        <4>1. PICK s \in 1..nextSeq :
                 Sign(q, "signed_1", [req[q].meta EXCEPT !.broker = s], BrokerHash(req[q].loan, s))
          BY <3>1 DEF WriteBroker
        <4>2. BrokerHash(req[q].loan, s) \in Txs
          BY <2>1, <2>2, RequestType DEF BrokerHash, Txs
        <4>3. [req[q].meta EXCEPT !.broker = s] \in Metadata
          BY <2>2 DEF Metadata
        <4> QED BY <4>1, <4>2, <4>3 DEF OutboxStatuses
      <3>2. CASE WriteBorrower(q)
        <4>1. [req[q].meta EXCEPT !.counter = req[q].meta.broker] \in Metadata
          BY <2>2 DEF Metadata
        <4>2. outbox[req[q].loan].hash \in Txs \cup {NoTx}
          BY <2>1, RequestType DEF RowRecords
        <4> QED BY <3>2, <4>1, <4>2 DEF WriteBorrower, OutboxStatuses
      <3> QED BY <1>9, <3>1, <3>2
    <2>4. TypeInv'
      BY <2>1, <2>3, SignType, WorkersUnchanged
         DEF Sign, CosignTypeInv, TypeInv, LedgerOK, ledgerVars, FaultsOK
    <2>5. req' \in [Requests -> RequestRecords \cup {NotMade, Done}]
      BY <2>1, <2>3, AwaitMoves, RequestMoves DEF Sign
    <2> QED BY <2>3, <2>4, <2>5 DEF Sign, CosignTypeInv
  <1>10. CASE AppendEvidence(q)
    <2>1. UnderWay(q)
      BY <1>10 DEF AppendEvidence, UnderWay
    <2>2. evidence' \subseteq Events
      BY <1>3, <1>10, <2>1, RequestType DEF AppendEvidence, Events, RequestRecords
    <2> QED BY <1>1, <1>3, <1>10, <2>2 DEF AppendEvidence, Answered
  <1>11. CASE Abort(q)
    <2>1. TypeInv'
      BY <1>11, FaultsType, WorkersUnchanged
         DEF Abort, CosignTypeInv, TypeInv, OutboxOK, LedgerOK, ledgerVars
    <2>2. req' = [req EXCEPT ![q] = Done]
      BY <1>11 DEF Abort, Answered
    <2> QED BY <1>11, <2>1, <2>2, RequestMoves DEF Abort, CosignTypeInv
  <1> QED
    BY <1>4, <1>5, <1>6, <1>7, <1>8, <1>9, <1>10, <1>11 DEF RequestStep

LEMMA CosignTypeNext == CosignTypeInv /\ [CosignNext]_allVars => CosignTypeInv'
  <1> SUFFICES ASSUME CosignTypeInv, [CosignNext]_allVars PROVE CosignTypeInv'
    OBVIOUS
  <1>1. CASE [Next]_vars /\ UNCHANGED cosignVars
    BY <1>1, TypeNext DEF CosignTypeInv, cosignVars
  <1> QED BY <1>1, TypeRequest DEF CosignNext, Next, allVars

\* However requests and workers overlap and fail, the variables of the signing
\* and of the executor keep their types.
THEOREM CosignTypeCorrect == CosignSpec => []CosignTypeOK
  BY CosignTypeInit, CosignTypeNext, CosignTypeInvImpliesCosignTypeOK, PTL DEF CosignSpec

----------------------------------------------------------------------------
(* What a worker's step does to the rows and to what the workers hold of    *)
(* them, seen from the signing: it never inserts or takes back a row, never *)
(* writes a signing status, and a row's metadata only comes from the row or *)
(* from the snapshot of the worker that has it.                             *)

Present(r) == outbox[r].status # "absent"
SigningStatuses == {"signed_1", "signed_2"}

Snaps(w) == wk[w].batch \cup {wk[w].cur}

HeldPresent == \A w \in Workers : \A s \in Snaps(w) : s.row \in Rows => Present(s.row)

RowFrame(r) ==
    \/ outbox'[r] = outbox[r]
    \/ /\ Present(r)
       /\ outbox'[r].status \notin {"absent"} \cup SigningStatuses
       /\ \/ outbox'[r].meta = outbox[r].meta
          \/ \E w \in Workers : \E s \in Snaps(w) : s.row = r /\ outbox'[r].meta = s.meta

SnapFrame(s) ==
    \/ s = NoSnapshot
    \/ \E w \in Workers : s \in Snaps(w)
    \/ s.row \in Rows /\ Present(s.row) /\ s.meta = outbox[s.row].meta

Frame ==
    /\ \A r \in Rows : RowFrame(r)
    /\ \A w \in Workers : \A s \in Snaps(w)' : SnapFrame(s)

\* A worker becomes x.
LEMMA SnapsBecome ==
  ASSUME TypeInv, NEW w \in Workers, NEW x, Become(w, x),
         \A s \in x.batch \cup {x.cur} : SnapFrame(s)
  PROVE  \A v \in Workers : \A s \in Snaps(v)' : SnapFrame(s)
  <1>1. \A v \in Workers : wk'[v] = IF v = w THEN x ELSE wk[v]
    BY DEF Become, TypeInv, WorkersOK
  <1>2. \A v \in Workers : v # w => Snaps(v)' = Snaps(v)
    BY <1>1 DEF Snaps
  <1>3. Snaps(w)' = x.batch \cup {x.cur}
    BY <1>1 DEF Snaps
  <1> QED BY <1>2, <1>3 DEF SnapFrame

\* A worker keeps what it has, or lets go of its row, or dies.
Lets(w) ==
    \E x : /\ Become(w, x)
          /\ x.batch \subseteq wk[w].batch
          /\ x.cur \in Snaps(w) \cup {NoSnapshot}

LEMMA SnapsLet ==
  ASSUME TypeInv, NEW w \in Workers, Lets(w)
  PROVE  \A v \in Workers : \A s \in Snaps(v)' : SnapFrame(s)
  <1>1. PICK x : /\ Become(w, x)
                 /\ x.batch \subseteq wk[w].batch
                 /\ x.cur \in Snaps(w) \cup {NoSnapshot}
    BY DEF Lets
  <1>2. \A s \in x.batch \cup {x.cur} : SnapFrame(s)
    BY <1>1 DEF SnapFrame, Snaps
  <1> QED BY <1>1, <1>2, SnapsBecome

LEMMA LetsKeep ==
  ASSUME NEW w \in Workers, NEW x, Become(w, x), x.batch = wk[w].batch, x.cur = wk[w].cur
  PROVE  Lets(w)
  BY DEF Lets, Snaps

LEMMA LetsGoto ==
  ASSUME TypeInv, NEW w \in Workers, NEW p, Goto(w, p)
  PROVE  Lets(w)
  <1> DEFINE x == [wk[w] EXCEPT !.pc = p]
  <1>1. x.batch = wk[w].batch /\ x.cur = wk[w].cur /\ Become(w, x)
    BY DEF TypeInv, WorkersOK, WorkerRecords, Goto
  <1> HIDE DEF x
  <1> QED BY <1>1, LetsKeep

LEMMA LetsFinish ==
  ASSUME NEW w \in Workers, Finish(w)
  PROVE  Lets(w)
  <1> DEFINE x == AfterRow(w)
  <1>1. x.batch = wk[w].batch /\ x.cur = NoSnapshot /\ Become(w, x)
    BY DEF AfterRow, Started, Finish
  <1> HIDE DEF x
  <1> QED BY <1>1 DEF Lets

\* A worker writes the row it has, or not, and keeps it or lets go of it.
LEMMA FrameWrite ==
  ASSUME TypeInv, HeldPresent, NEW w \in Workers, wk[w].pc \notin {"idle", "next"}, Lets(w),
         NEW o, o.status \notin {"absent"} \cup SigningStatuses,
         o.meta \in {outbox[Row(w)].meta, Meta(w)},
         outbox' \in {outbox, [outbox EXCEPT ![Row(w)] = o]}
  PROVE  Frame
  <1>1. Row(w) \in Rows /\ wk[w].cur \in Snaps(w)
    BY BusyRow DEF Snaps
  <1>2. Present(Row(w))
    BY <1>1 DEF HeldPresent, Row
  <1>3. \A r \in Rows : outbox'[r] = outbox[r] \/ (r = Row(w) /\ outbox'[r] = o)
    BY <1>1 DEF TypeInv, OutboxOK
  <1>4. \A r \in Rows : RowFrame(r)
    BY <1>1, <1>2, <1>3 DEF RowFrame, Row, Meta
  <1> QED BY <1>4, SnapsLet DEF Frame

LEMMA FrameUpdate ==
  ASSUME TypeInv, HeldPresent, NEW w \in Workers, wk[w].pc \notin {"idle", "next"},
         NEW o, o.status \notin {"absent"} \cup SigningStatuses,
         o.meta \in {outbox[Row(w)].meta, Meta(w)},
         NEW p, NEW e, Update(w, o, p, e)
  PROVE  Frame
  <1>1. Finish(w) \/ Goto(w, p) \/ Goto(w, e)
    BY DEF Update
  <1>2. Lets(w)
    BY <1>1, LetsFinish, LetsGoto
  <1> QED BY <1>2, FrameWrite DEF Update

LEMMA FrameQuiet ==
  ASSUME TypeInv, UNCHANGED outbox, NEW w \in Workers, Lets(w)
  PROVE  Frame
  BY SnapsLet DEF Frame, RowFrame

LEMMA FrameClaim ==
  ASSUME TypeInv, NEW w \in Workers, ProcessPending(w)
  PROVE  Frame
  <1> DEFINE snaps(S) == {[row |-> r, meta |-> outbox[r].meta] : r \in S}
             x(S, spike) == [wk[w] EXCEPT !.pc = "next", !.feeSpike = spike,
                                          !.batch = snaps(S)]
  <1>1. PICK S \in OldestClaimable :
            /\ ClaimRows(S)
            /\ \/ \E spike \in BOOLEAN : Become(w, x(S, spike))
               \/ UNCHANGED wk
    BY DEF ProcessPending, NetworkStatuses
  <1>2. S \subseteq Rows /\ \A r \in S : Present(r)
    BY DEF OldestClaimable, Claimable, ClaimableStatuses, Present
  <1>3. \A r \in Rows : IF r \in S THEN /\ outbox'[r].status = "processing"
                                        /\ outbox'[r].meta = outbox[r].meta
                                   ELSE outbox'[r] = outbox[r]
    <2>1. ClaimRows(S)
      BY <1>1
    <2> QED BY <2>1 DEF ClaimRows, TypeInv, OutboxOK, RowRecords
  <1>4. \A r \in Rows : RowFrame(r)
    BY <1>2, <1>3 DEF RowFrame, SigningStatuses
  <1>5. ASSUME NEW spike \in BOOLEAN, Become(w, x(S, spike))
        PROVE  \A v \in Workers : \A s \in Snaps(v)' : SnapFrame(s)
    <2>1. \A s \in snaps(S) : SnapFrame(s)
      BY <1>2 DEF SnapFrame
    <2> HIDE DEF snaps
    <2>2. x(S, spike).batch = snaps(S) /\ x(S, spike).cur = wk[w].cur
      BY DEF TypeInv, WorkersOK, WorkerRecords
    <2>3. SnapFrame(wk[w].cur)
      BY DEF SnapFrame, Snaps
    <2> HIDE DEF x
    <2> QED BY <1>5, <2>1, <2>2, <2>3, SnapsBecome
  <1>6. UNCHANGED wk => \A v \in Workers : \A s \in Snaps(v)' : SnapFrame(s)
    BY DEF Snaps, SnapFrame
  <1> QED BY <1>1, <1>4, <1>5, <1>6 DEF Frame

LEMMA FrameStep ==
  ASSUME TypeInv, HeldPresent, NEW w \in Workers, WorkerStep(w) \/ Crash(w)
  PROVE  Frame
  <1>0. wk[w] \in WorkerRecords
    BY DEF TypeInv, WorkersOK
  <1>1. CASE ProcessPending(w)
    BY <1>1, FrameClaim
  <1>2. CASE NextRow(w)
    <2>1. PICK s \in wk[w].batch :
            Become(w, [wk[w] EXCEPT !.pc = "begin", !.cur = s, !.batch = @ \ {s}])
      BY <1>2 DEF NextRow
    <2> DEFINE x == [wk[w] EXCEPT !.pc = "begin", !.cur = s, !.batch = @ \ {s}]
    <2>2. x.batch \subseteq wk[w].batch /\ x.cur = s /\ Become(w, x)
      BY <1>0, <2>1 DEF WorkerRecords
    <2> HIDE DEF x
    <2>3. Lets(w)
      BY <2>2 DEF Lets, Snaps
    <2> QED BY <1>2, <2>3, FrameQuiet DEF NextRow
  <1>3. CASE Crash(w)
    <2>1. PICK c \in Configs : Become(w, Started(c))
      BY <1>3 DEF Crash
    <2>2. Lets(w)
      BY <2>1 DEF Lets, Started
    <2> QED BY <1>3, <2>2, FrameQuiet DEF Crash
  <1>4. ASSUME wk[w].pc \notin {"idle", "next"},
               NEW s, s \in {"blocked", "submitted", "failed"}, NEW p, NEW e,
               Update(w, [outbox[Row(w)] EXCEPT !.status = s], p, e)
        PROVE  Frame
    <2> DEFINE o == [outbox[Row(w)] EXCEPT !.status = s]
    <2>1. o.status = s /\ o.meta = outbox[Row(w)].meta
      BY <1>4, BusyRow DEF RowRecords
    <2>2. Update(w, o, p, e)
      BY <1>4
    <2> HIDE DEF o
    <2> QED BY <1>4, <2>1, <2>2, FrameUpdate DEF SigningStatuses
  <1>5. CASE Block(w) \/ BlockNoSigner(w) \/ GiveUp(w, "caught") \/ GiveUp(w, "cosignCaught")
    BY <1>4, <1>5 DEF Block, BlockNoSigner, GiveUp
  <1>6. CASE MarkSubmitted(w)
    <2>1. wk[w].pc \notin {"idle", "next"}
      BY <1>6 DEF MarkSubmitted
    <2>2. CASE Goto(w, "unhandled") /\ UNCHANGED outbox
      BY <2>2, LetsGoto, FrameQuiet
    <2>3. CASE Update(w, [outbox[Row(w)] EXCEPT !.status = "submitted"], Dispatch(w), "unhandled")
      BY <1>4, <2>1, <2>3
    <2> QED BY <1>6, <2>2, <2>3 DEF MarkSubmitted
  <1>7. CASE Unhandled(w)
    <2> DEFINE o == [outbox[Row(w)] EXCEPT !.status = "failed"]
    <2>1. wk[w].pc \notin {"idle", "next"} /\ Lets(w)
      BY <1>7, LetsFinish DEF Unhandled
    <2>2. o.status = "failed" /\ o.meta = outbox[Row(w)].meta
      BY <2>1, BusyRow DEF RowRecords
    <2>3. outbox' \in {outbox, [outbox EXCEPT ![Row(w)] = o]}
      BY <1>7 DEF Unhandled
    <2> HIDE DEF o
    <2> QED BY <2>1, <2>2, <2>3, FrameWrite DEF SigningStatuses
  <1>8. CASE PrepareDryRun(w)
    <2> DEFINE o == [outbox[Row(w)] EXCEPT !.status = "prepared", !.hash = DryHash(w),
                                           !.result = "dry"]
    <2>1. wk[w].pc \notin {"idle", "next"} /\ Update(w, o, "prepared", "unhandled")
      BY <1>8 DEF PrepareDryRun
    <2>2. o.status = "prepared" /\ o.meta = outbox[Row(w)].meta
      BY <2>1, BusyRow DEF RowRecords
    <2> HIDE DEF o
    <2> QED BY <2>1, <2>2, FrameUpdate DEF SigningStatuses
  <1>9. CASE \/ SettleValidated(w) \/ SettleUnknown(w) \/ SettleRejected(w)
             \/ SettleBlobValidated(w) \/ AwaitBlobValidation(w) \/ SettleBlobRejected(w)
    <2>1. wk[w].pc \notin {"idle", "next"}
      BY <1>9 DEF SettleValidated, SettleUnknown, SettleRejected,
                  SettleBlobValidated, AwaitBlobValidation, SettleBlobRejected
    <2>2. PICK s, res, p, e :
            /\ s \in {"validated", "failed", "manual_review", "submitted"}
            /\ \/ Update(w, Settled(w, s, res), p, e)
               \/ Update(w, [Settled(w, s, res) EXCEPT !.meta = Meta(w)], p, e)
      <3>1. {ValidatedStatus(w), RejectedStatus(w), RejectedBlobStatus(w)}
              \subseteq {"validated", "failed", "manual_review", "submitted"}
        BY DEF ValidatedStatus, RejectedStatus, RejectedBlobStatus
      <3> QED
        BY <1>9, <3>1
           DEF SettleValidated, SettleUnknown, SettleRejected,
               SettleBlobValidated, AwaitBlobValidation, SettleBlobRejected
    <2> DEFINE o == Settled(w, s, res)
               b == [o EXCEPT !.meta = Meta(w)]
    <2>3. /\ o.status = s /\ o.meta = outbox[Row(w)].meta
          /\ b.status = s /\ b.meta = Meta(w)
      BY <2>1, BusyRow DEF Settled, RowRecords
    <2>4. Update(w, o, p, e) \/ Update(w, b, p, e)
      BY <2>2
    <2>5. s \notin {"absent"} \cup SigningStatuses
      BY <2>2 DEF SigningStatuses
    <2> HIDE DEF o, b
    <2> QED BY <2>1, <2>3, <2>4, <2>5, FrameUpdate
  <1>10. ASSUME NEW x, Become(w, x), x.batch = wk[w].batch, x.cur = wk[w].cur, UNCHANGED outbox
         PROVE  Frame
    BY <1>10, LetsKeep, FrameQuiet
  <1>11. Retry(w) /\ UNCHANGED outbox => Frame
    BY <1>0, <1>10 DEF Retry, WorkerRecords
  <1>12. CASE \/ Record(w, "prepared", DryHash(w), "unhandled")
              \/ Record(w, "record", wk[w].tx, "caught")
              \/ Record(w, "recordBlob", wk[w].tx, "cosignCaught")
    BY <1>12, LetsFinish, LetsGoto, FrameQuiet DEF Record
  <1>13. CASE Reserve(w)
    <2>1. PICK t : Goto(w, "caught") \/ Become(w, [wk[w] EXCEPT !.pc = "submit", !.tx = t])
      BY <1>13 DEF Reserve
    <2>2. UNCHANGED outbox
      BY <1>13 DEF Reserve
    <2> QED BY <1>0, <1>10, <2>1, <2>2, LetsGoto, FrameQuiet DEF WorkerRecords
  <1>14. CASE Submit(w)
    <2>1. UNCHANGED outbox
      BY <1>14 DEF Submit
    <2>2. \/ \E c \in Codes : SubmitAnswered(w, c)
          \/ Goto(w, "caught") \/ Goto(w, "resubmit")
      BY <1>14 DEF Submit, AnswerLost, SoleSignerAnswers, Answers
    <2>3. ASSUME NEW c \in Codes, SubmitAnswered(w, c)
          PROVE  Frame
      <3>1. Retry(w) \/ Become(w, [wk[w] EXCEPT !.code = c,
                                     !.pc = IF ClassifyResult(c) = "success"
                                            THEN "lookup" ELSE "rejected"])
        BY <2>3 DEF SubmitAnswered
      <3> QED BY <1>0, <1>10, <1>11, <2>1, <3>1 DEF WorkerRecords
    <2> QED BY <2>1, <2>2, <2>3, LetsGoto, FrameQuiet
  <1>15. CASE RetryAfterError(w)
    BY <1>11, <1>15 DEF RetryAfterError
  <1>16. CASE \/ Lookup(w, "lookup", "found", "unknown")
              \/ Lookup(w, "lookupBlob", "foundBlob", "awaitBlob")
    <2>1. UNCHANGED outbox
      BY <1>16 DEF Lookup
    <2>2. PICK p, q, c :
            Goto(w, p) \/ Become(w, [wk[w] EXCEPT !.pc = q, !.code = c])
      BY <1>16 DEF Lookup
    <2> QED BY <1>0, <1>10, <2>1, <2>2, LetsGoto, FrameQuiet DEF WorkerRecords
  <1>17. CASE SubmitBlob(w)
    <2>1. UNCHANGED outbox
      BY <1>17 DEF SubmitBlob
    <2>2. \/ Goto(w, "cosignCaught") \/ Goto(w, "resubmitBlob")
          \/ \E c \in Codes :
               Become(w, [wk[w] EXCEPT
                            !.tx = [row |-> Row(w), attempt |-> 0, seq |-> Blob(w)],
                            !.code = c,
                            !.pc = IF ClassifyResult(c) = "success"
                                   THEN "lookupBlob" ELSE "rejectedBlob"])
      BY <1>17 DEF SubmitBlob, AnswerLost, Answers
    <2> QED BY <1>0, <1>10, <2>1, <2>2, LetsGoto, FrameQuiet DEF WorkerRecords
  <1> QED
    BY <1>1, <1>2, <1>3, <1>5, <1>6, <1>7, <1>8, <1>9, <1>12, <1>13, <1>14, <1>15, <1>16,
       <1>17
       DEF WorkerStep

----------------------------------------------------------------------------
(* Faults only grow in number.                                              *)

FaultsGrow == \A k \in FaultKinds : faults[k] \in Nat /\ faults'[k] \in Nat /\ faults'[k] >= faults[k]

LEMMA FaultsCounted ==
  ASSUME FaultsOK,
         \/ NoFault \/ UNCHANGED faults
         \/ Fault("net") \/ Fault("lost") \/ Fault("db") \/ Fault("crash")
  PROVE  FaultsGrow
  <1>1. faults \in [FaultKinds -> Nat]
    BY DEF FaultsOK
  <1> QED BY <1>1 DEF NoFault, Fault, FaultKinds, FaultsGrow

LEMMA WorkerFaults ==
  ASSUME TypeInv, NEW w \in Workers, WorkerStep(w) \/ Crash(w)
  PROVE  FaultsGrow
  <1>1. CASE \/ ProcessPending(w) \/ NextRow(w) \/ Unhandled(w) \/ Crash(w)
    BY <1>1, FaultsCounted DEF ProcessPending, NextRow, Unhandled, Crash, TypeInv
  <1>2. CASE \/ Block(w) \/ PrepareDryRun(w) \/ MarkSubmitted(w) \/ BlockNoSigner(w)
             \/ SettleValidated(w) \/ SettleUnknown(w) \/ SettleRejected(w)
             \/ GiveUp(w, "caught") \/ GiveUp(w, "cosignCaught")
             \/ SettleBlobValidated(w) \/ AwaitBlobValidation(w) \/ SettleBlobRejected(w)
    BY <1>2, FaultsCounted
       DEF Block, PrepareDryRun, MarkSubmitted, BlockNoSigner, SettleValidated, SettleUnknown,
           SettleRejected, GiveUp, SettleBlobValidated, AwaitBlobValidation,
           SettleBlobRejected, Update, TypeInv
  <1>3. CASE \/ Record(w, "prepared", DryHash(w), "unhandled")
             \/ Record(w, "record", wk[w].tx, "caught")
             \/ Record(w, "recordBlob", wk[w].tx, "cosignCaught")
    BY <1>3, FaultsCounted DEF Record, TypeInv
  <1>4. CASE \/ Reserve(w) \/ Submit(w) \/ RetryAfterError(w) \/ SubmitBlob(w)
             \/ Lookup(w, "lookup", "found", "unknown")
             \/ Lookup(w, "lookupBlob", "foundBlob", "awaitBlob")
    BY <1>4, FaultsCounted
       DEF Reserve, Submit, RetryAfterError, SubmitBlob, Lookup, AnswerLost, TypeInv
  <1> QED BY <1>1, <1>2, <1>3, <1>4 DEF WorkerStep

LEMMA RequestFaults ==
  ASSUME CosignTypeInv, NEW q \in Requests, RequestStep(q)
  PROVE  /\ FaultsGrow
         /\ Abort(q) => ~NoneDied' /\ faults'["crash"] > 0
  <1>1. FaultsOK
    BY DEF CosignTypeInv, TypeInv
  <1>2. CASE Abort(q)
    <2>1. Fault("crash") /\ faults \in [FaultKinds -> Nat]
      BY <1>1, <1>2 DEF Abort, FaultsOK
    <2>2. faults'["crash"] > 0
      BY <2>1 DEF Fault, FaultKinds
    <2> QED BY <1>1, <2>1, <2>2, FaultsCounted DEF NoneDied, FaultKinds
  <1>3. CASE ~Abort(q)
    <2>1. UNCHANGED faults
      BY <1>3 DEF RequestStep, CreateLoan, CheckPrepare, EnqueueLoanSet, UpdateLoan, CheckBroker,
                  FindUnsigned, FindSigned, FindRow, WriteBroker, WriteBorrower, Sign, CheckBorrower,
                  AppendEvidence, vars, executorVars
    <2> QED BY <1>1, <1>3, <2>1, FaultsCounted
  <1> QED BY <1>2, <1>3

----------------------------------------------------------------------------
(* How a request moves, and what it is about: the request that creates a    *)
(* loan approves it, and the others are of the loans they find.             *)

LinkOK(x) ==
    /\ x.pc \in {"enqueue", "updateLoan"} => x.action = "PREPARE_COSIGN"
    /\ x.pc \in {"findUnsigned", "writeBroker"} => x.action = "BROKER_SIGN"
    /\ x.pc \in {"findSigned", "writeBorrower"} => x.action = "BORROWER_SIGN"

Creates(q) ==
    \E l \in Loans, u \in Staff :
        /\ loan[l] = "absent"
        /\ loan' = [loan EXCEPT ![l] = "approved"]
        /\ req'[q] = Request("evidence", l, u, "LOAN_APPROVE")

Begins(q) ==
    /\ UNCHANGED loan
    /\ \E l \in Loans : Known(l) /\
         \/ \E u \in Staff, p \in {"enqueue", "findUnsigned"} :
              /\ MayPerform(u, l, "LOAN_SUBMIT")
              /\ req'[q] = Request(p, l, u, IF p = "enqueue" THEN "PREPARE_COSIGN" ELSE "BROKER_SIGN")
              /\ p = "findUnsigned" => loan[l] = "cosign_pending"
         \/ req'[q] = Request("findSigned", l, BorrowerOf[l], "BORROWER_SIGN")

Continuations ==
    {<<"enqueue", "updateLoan">>, <<"updateLoan", "evidence">>,
     <<"findUnsigned", "writeBroker">>, <<"writeBroker", "evidence">>,
     <<"findSigned", "writeBorrower">>, <<"writeBorrower", "evidence">>}

GoesOn(q) ==
    /\ loan' \in {loan, [loan EXCEPT ![req[q].loan] = "cosign_pending"]}
    /\ req'[q] \in RequestRecords
    /\ req'[q].loan = req[q].loan /\ req'[q].actor = req[q].actor
    /\ req'[q].action = req[q].action
    /\ <<req[q].pc, req'[q].pc>> \in Continuations

LEMMA BeginsWith ==
  ASSUME NEW q, Begins(q)
  PROVE  /\ UNCHANGED loan
         /\ \E l \in Loans : \E u :
              /\ Known(l)
              /\ req'[q].loan = l /\ req'[q].actor = u
              /\ \/ req'[q].pc = "findSigned" /\ req'[q].action = "BORROWER_SIGN"
                 \/ /\ MayPerform(u, l, "LOAN_SUBMIT")
                    /\ \/ req'[q].pc = "enqueue" /\ req'[q].action = "PREPARE_COSIGN"
                       \/ /\ req'[q].pc = "findUnsigned" /\ req'[q].action = "BROKER_SIGN"
                          /\ loan[l] = "cosign_pending"
  <1>1. PICK l \in Loans :
          /\ Known(l)
          /\ \/ \E u \in Staff, p \in {"enqueue", "findUnsigned"} :
                  /\ MayPerform(u, l, "LOAN_SUBMIT")
                  /\ req'[q] = Request(p, l, u, IF p = "enqueue" THEN "PREPARE_COSIGN"
                                                                ELSE "BROKER_SIGN")
                  /\ p = "findUnsigned" => loan[l] = "cosign_pending"
             \/ req'[q] = Request("findSigned", l, BorrowerOf[l], "BORROWER_SIGN")
    BY DEF Begins
  <1>2. CASE req'[q] = Request("findSigned", l, BorrowerOf[l], "BORROWER_SIGN")
    BY <1>1, <1>2 DEF Begins, Request
  <1>3. ASSUME NEW u \in Staff, NEW p \in {"enqueue", "findUnsigned"},
               MayPerform(u, l, "LOAN_SUBMIT"),
               req'[q] = Request(p, l, u, IF p = "enqueue" THEN "PREPARE_COSIGN"
                                                           ELSE "BROKER_SIGN"),
               p = "findUnsigned" => loan[l] = "cosign_pending"
        PROVE  /\ req'[q].loan = l /\ req'[q].actor = u
               /\ \/ req'[q].pc = "enqueue" /\ req'[q].action = "PREPARE_COSIGN"
                  \/ /\ req'[q].pc = "findUnsigned" /\ req'[q].action = "BROKER_SIGN"
                     /\ loan[l] = "cosign_pending"
    BY <1>3 DEF Request
  <1>4. UNCHANGED loan
    BY DEF Begins
  <1> QED BY <1>1, <1>2, <1>3, <1>4

Ends(q) == UNCHANGED loan /\ req'[q] = Done

EvidenceOf(q) == [loan |-> req[q].loan, actor |-> req[q].actor, action |-> req[q].action]

LEMMA RequestMove ==
  ASSUME CosignTypeInv, NEW q \in Requests, RequestStep(q)
  PROVE  /\ \A p \in Requests : p # q => req'[p] = req[p]
         /\ \/ UNCHANGED evidence /\ (Creates(q) \/ Begins(q) \/ GoesOn(q) \/ Ends(q))
            \/ AppendEvidence(q)
         /\ AppendEvidence(q) =>
              /\ UnderWay(q) /\ req[q].pc = "evidence" /\ Ends(q)
              /\ evidence' = evidence \cup {EvidenceOf(q)}
         /\ req[q].pc = "evidence" => Ends(q) /\ (AppendEvidence(q) \/ Abort(q))
  <1>0. req \in [Requests -> RequestRecords \cup {NotMade, Done}]
    BY DEF CosignTypeInv
  <1>1. CASE CreateLoan(q)
    <2>1. PICK l \in Loans, u \in Staff :
            /\ loan[l] = "absent"
            /\ loan' = [loan EXCEPT ![l] = "approved"]
            /\ req' = [req EXCEPT ![q] = Request("evidence", l, u, "LOAN_APPROVE")]
      BY <1>1 DEF CreateLoan
    <2>2. Creates(q)
      BY <1>0, <2>1 DEF Creates
    <2>3. req[q].pc # "evidence"
      BY <1>1 DEF CreateLoan, NotMade
    <2> QED BY <1>0, <1>1, <2>1, <2>2, <2>3 DEF CreateLoan, AppendEvidence
  <1>2. CASE CheckPrepare(q) \/ CheckBroker(q)
    <2>1. PICK l \in Loans, u \in Staff, p \in {"enqueue", "findUnsigned"} :
            /\ Known(l) /\ MayPerform(u, l, "LOAN_SUBMIT")
            /\ p = "findUnsigned" => loan[l] = "cosign_pending"
            /\ req' = [req EXCEPT ![q] = Request(p, l, u, IF p = "enqueue" THEN "PREPARE_COSIGN"
                                                                           ELSE "BROKER_SIGN")]
      BY <1>2 DEF CheckPrepare, CheckBroker
    <2>2. UNCHANGED <<loan, evidence>> /\ req[q].pc = "notMade"
      BY <1>2 DEF CheckPrepare, CheckBroker, NotMade
    <2>3. req'[q] = Request(p, l, u, IF p = "enqueue" THEN "PREPARE_COSIGN" ELSE "BROKER_SIGN")
      BY <1>0, <2>1
    <2>4. Begins(q)
      BY <2>1, <2>2, <2>3 DEF Begins
    <2> QED BY <1>0, <2>1, <2>2, <2>4 DEF AppendEvidence
  <1>3. CASE CheckBorrower(q)
    <2>1. Begins(q)
      BY <1>0, <1>3 DEF CheckBorrower, Begins
    <2>2. req[q].pc = "notMade"
      BY <1>3 DEF CheckBorrower, NotMade
    <2> QED BY <1>0, <1>3, <2>1, <2>2 DEF CheckBorrower, AppendEvidence
  <1>4. CASE EnqueueLoanSet(q) \/ UpdateLoan(q) \/ WriteBroker(q) \/ WriteBorrower(q)
    <2>1. /\ UnderWay(q) /\ UNCHANGED evidence
          /\ req[q].pc \in {"enqueue", "updateLoan", "writeBroker", "writeBorrower"}
      BY <1>4 DEF EnqueueLoanSet, UpdateLoan, WriteBroker, WriteBorrower, Sign, UnderWay
    <2>2. \/ Answered(q) /\ UNCHANGED loan
          \/ \E p \in {"updateLoan", "evidence"} :
               /\ Await(q, p)
               /\ <<req[q].pc, p>> \in Continuations
               /\ loan' \in {loan, [loan EXCEPT ![req[q].loan] = "cosign_pending"]}
      BY <1>4 DEF EnqueueLoanSet, UpdateLoan, WriteBroker, WriteBorrower, Sign, Continuations
    <2>3. CASE Answered(q) /\ UNCHANGED loan
      BY <1>0, <2>1, <2>3 DEF Answered, Ends, AppendEvidence
    <2>4. ASSUME NEW p \in {"updateLoan", "evidence"}, Await(q, p),
                 <<req[q].pc, p>> \in Continuations,
                 loan' \in {loan, [loan EXCEPT ![req[q].loan] = "cosign_pending"]}
          PROVE  GoesOn(q) /\ \A r \in Requests : r # q => req'[r] = req[r]
      <3> DEFINE x == [req[q] EXCEPT !.pc = p]
      <3>1. /\ x \in RequestRecords
            /\ x.pc = p /\ x.loan = req[q].loan /\ x.actor = req[q].actor
            /\ x.action = req[q].action
            /\ req' = [req EXCEPT ![q] = x]
        BY <2>1, <2>4, AwaitMoves
      <3> HIDE DEF x
      <3>2. req'[q] = x
        BY <1>0, <3>1
      <3> QED BY <1>0, <2>4, <3>1, <3>2 DEF GoesOn
    <2> QED BY <2>1, <2>2, <2>3, <2>4 DEF AppendEvidence
  <1>5. CASE FindUnsigned(q) \/ FindSigned(q)
    <2>1. UnderWay(q) /\ UNCHANGED <<loan, evidence>> /\ req[q].pc \in {"findUnsigned", "findSigned"}
      BY <1>5 DEF FindUnsigned, FindSigned, FindRow, UnderWay
    <2>2. PICK p \in {"writeBroker", "writeBorrower"} :
            /\ <<req[q].pc, p>> \in Continuations
            /\ \/ req' = [req EXCEPT ![q].pc = p, ![q].meta = outbox[req[q].loan].meta]
               \/ Answered(q)
      BY <1>5 DEF FindUnsigned, FindSigned, FindRow, Continuations
    <2> DEFINE x == [req[q] EXCEPT !.pc = p, !.meta = outbox[req[q].loan].meta]
    <2>3. /\ x \in RequestRecords
          /\ x.pc = p /\ x.loan = req[q].loan /\ x.actor = req[q].actor
          /\ x.action = req[q].action
      BY <2>1, RequestType DEF RequestRecords, RowRecords
    <2>4. req' = [req EXCEPT ![q] = x] \/ req' = [req EXCEPT ![q] = Done]
      BY <2>2 DEF Answered
    <2> HIDE DEF x
    <2>5. CASE req' = [req EXCEPT ![q] = x]
      <3>1. req'[q] = x
        BY <1>0, <2>5
      <3> QED BY <1>0, <2>1, <2>2, <2>3, <2>5, <3>1 DEF GoesOn, AppendEvidence
    <2>6. CASE req' = [req EXCEPT ![q] = Done]
      BY <1>0, <2>1, <2>6 DEF Ends, AppendEvidence
    <2> QED BY <2>4, <2>5, <2>6
  <1>6. CASE AppendEvidence(q)
    BY <1>0, <1>6 DEF AppendEvidence, Answered, Ends, UnderWay, EvidenceOf
  <1>7. CASE Abort(q) /\ ~AppendEvidence(q)
    BY <1>0, <1>7 DEF Abort, Answered, Ends
  <1> QED BY <1>1, <1>2, <1>3, <1>4, <1>5, <1>6, <1>7 DEF RequestStep

----------------------------------------------------------------------------
(* Separation of duties. Who prepares a packet or signs for the broker has  *)
(* been checked against the approval, which was in the log by then.         *)

Submissions == {"PREPARE_COSIGN", "BROKER_SIGN"}

Approved(l, u) == \E d \in evidence : d.loan = l /\ d.actor = u /\ d.action = "LOAN_APPROVE"

DutyInv ==
    /\ \A q \in Requests : LinkOK(req[q])
    /\ \A q \in Requests :
         UnderWay(q) /\ req[q].action \in Submissions =>
             Known(req[q].loan) /\ ~Approved(req[q].loan, req[q].actor)
    /\ \A e \in evidence : e.action \in Submissions => Known(e.loan)
    /\ SeparationOfDuties

LEMMA DutyInit == CosignInit => DutyInv
  BY DEF CosignInit, DutyInv, NotMade, LinkOK, UnderWay, SeparationOfDuties

\* What a request at q has become.
LEMMA LinkMove ==
  ASSUME CosignTypeInv, DutyInv, NEW q \in Requests, RequestStep(q)
  PROVE  \A p \in Requests : LinkOK(req'[p])
  <1> SUFFICES LinkOK(req'[q])
    BY RequestMove DEF DutyInv
  <1>1. LinkOK(req[q])
    BY DEF DutyInv
  <1>2. Creates(q) \/ Begins(q) \/ GoesOn(q) \/ Ends(q)
    BY RequestMove
  <1>3. CASE Creates(q)
    BY <1>3 DEF Creates, Request, LinkOK
  <1>4. CASE Begins(q)
    BY <1>4, BeginsWith DEF LinkOK
  <1>5. CASE GoesOn(q)
    BY <1>1, <1>5 DEF GoesOn, Continuations, LinkOK
  <1>6. CASE Ends(q)
    BY <1>6 DEF Ends, Done, LinkOK
  <1> QED BY <1>2, <1>3, <1>4, <1>5, <1>6

\* A loan that is known stays known.
LEMMA KnownKept ==
  ASSUME CosignTypeInv, DutyInv, NEW q \in Requests, RequestStep(q), NEW l \in Loans, Known(l)
  PROVE  Known(l)'
  <1>1. Creates(q) \/ Begins(q) \/ GoesOn(q) \/ Ends(q)
    BY RequestMove
  <1>2. loan \in [Loans -> LoanStatuses] /\ LinkOK(req[q])
    BY DEF CosignTypeInv, DutyInv
  <1>3. CASE Creates(q)
    <2>1. PICK k \in Loans, u \in Staff :
            /\ loan[k] = "absent"
            /\ loan' = [loan EXCEPT ![k] = "approved"]
            /\ req'[q] = Request("evidence", k, u, "LOAN_APPROVE")
      BY <1>3 DEF Creates
    <2>2. k # l /\ req'[q].loan = k
      BY <2>1 DEF Known, Request
    <2> QED BY <1>2, <2>1, <2>2, RequestMove DEF Known
  <1>4. CASE Begins(q)
    <2>1. UNCHANGED loan /\ req'[q].pc # "evidence"
      BY <1>4, BeginsWith
    <2> QED BY <2>1, RequestMove DEF Known
  <1>5. CASE GoesOn(q)
    <2>1. loan'[l] # "absent"
      BY <1>2, <1>5 DEF GoesOn, Known
    <2>2. req'[q].pc = "evidence" => req'[q].action # "LOAN_APPROVE"
      BY <1>2, <1>5 DEF GoesOn, Continuations, LinkOK
    <2> QED BY <2>1, <2>2, RequestMove DEF Known
  <1>6. CASE Ends(q)
    <2>1. UNCHANGED loan /\ req'[q].pc # "evidence"
      BY <1>6 DEF Ends, Done
    <2> QED BY <2>1, RequestMove DEF Known
  <1> QED BY <1>1, <1>3, <1>4, <1>5, <1>6

LEMMA DutyRequest ==
  ASSUME CosignTypeInv, DutyInv, NEW q \in Requests, RequestStep(q)
  PROVE  DutyInv'
  <1>0. evidence \subseteq Events /\ \A p \in Requests : UnderWay(p) => req[p].loan \in Loans
    BY RequestType DEF CosignTypeInv
  <1>1. \A p \in Requests : LinkOK(req'[p])
    BY LinkMove
  <1>2. \A l \in Loans : Known(l) => Known(l)'
    BY KnownKept
  <1>3. \A p \in Requests :
          UnderWay(p) /\ req[p].action \in Submissions =>
              Known(req[p].loan) /\ ~Approved(req[p].loan, req[p].actor)
    BY DEF DutyInv
  <1>4. \A e \in evidence : e.loan \in Loans /\ (e.action \in Submissions => Known(e.loan))
    BY <1>0 DEF DutyInv, Events
  <1>5. ASSUME NEW p \in Requests, p # q, UnderWay(p)'
        PROVE  req'[p] = req[p] /\ UnderWay(p)
    BY <1>5, RequestMove DEF UnderWay
  <1>6. CASE AppendEvidence(q)
    <2>1. /\ UnderWay(q) /\ req[q].pc = "evidence" /\ Ends(q)
          /\ evidence' = evidence \cup {EvidenceOf(q)}
      BY <1>6, RequestMove
    <2>2. req[q].action = "LOAN_APPROVE" => ~Known(req[q].loan)
      BY <2>1 DEF Known
    <2>3. ASSUME NEW p \in Requests, UnderWay(p)', req'[p].action \in Submissions
          PROVE  Known(req[p].loan)' /\ ~Approved(req[p].loan, req[p].actor)'
      <3>1. req'[p] = req[p] /\ UnderWay(p)
        BY <1>5, <2>1, <2>3 DEF Ends, Done, UnderWay
      <3>2. PICK l, u : l = req[p].loan /\ u = req[p].actor
        OBVIOUS
      <3>3. Known(l) /\ ~Approved(l, u) /\ l \in Loans
        BY <1>0, <1>3, <2>3, <3>1, <3>2
      <3>4. Known(l)'
        BY <1>2, <3>3
      <3>5. ~Approved(l, u)'
        BY <2>1, <2>2, <3>3 DEF Approved, EvidenceOf
      <3>6. l = req'[p].loan /\ u = req'[p].actor
        BY <3>1, <3>2
      <3> QED BY <3>4, <3>5, <3>6 DEF Known, Approved
    <2>4. \A e \in evidence' : e.action \in Submissions => Known(e.loan)'
      BY <1>0, <1>2, <1>3, <1>4, <2>1 DEF EvidenceOf
    <2>5. SeparationOfDuties'
      <3> SUFFICES ASSUME NEW d \in evidence', NEW e \in evidence', d.loan = e.loan,
                          d.action = "LOAN_APPROVE", e.action \in Submissions
                   PROVE  d.actor # e.actor
        BY DEF SeparationOfDuties, Submissions
      <3>1. CASE d \in evidence /\ e \in evidence
        BY <3>1 DEF DutyInv, SeparationOfDuties, Submissions
      <3>2. CASE d \in evidence /\ e = EvidenceOf(q)
        BY <1>3, <2>1, <3>2 DEF EvidenceOf, Approved
      <3>3. CASE d = EvidenceOf(q)
        <4>1. e \in evidence
          BY <2>1, <3>3 DEF EvidenceOf, Submissions
        <4> QED BY <1>4, <2>2, <3>3, <4>1 DEF EvidenceOf
      <3> QED BY <2>1, <3>1, <3>2, <3>3
    <2> QED BY <1>1, <2>3, <2>4, <2>5 DEF DutyInv
  <1>7. CASE UNCHANGED evidence /\ (Creates(q) \/ Begins(q) \/ GoesOn(q) \/ Ends(q))
    <2>1. \A l, u : Approved(l, u)' = Approved(l, u)
      BY <1>7 DEF Approved
    <2>2. ASSUME UnderWay(q)', req'[q].action \in Submissions
          PROVE  \E l \in Loans : \E u : /\ l = req'[q].loan /\ u = req'[q].actor
                                     /\ Known(l) /\ ~Approved(l, u)
      <3>1. CASE Begins(q)
        <4>1. PICK l \in Loans, u \in {req'[q].actor} :
                Known(l) /\ MayPerform(u, l, "LOAN_SUBMIT") /\ req'[q].loan = l
          BY <2>2, <3>1, BeginsWith DEF Submissions
        <4>2. ~Approved(l, u)
          BY <4>1 DEF MayPerform, SoDConstraints, Approved
        <4> QED BY <4>1, <4>2
      <3>2. CASE GoesOn(q)
        <4>1. UnderWay(q)
          BY <3>2 DEF GoesOn, Continuations, UnderWay
        <4>2. req'[q].loan = req[q].loan /\ req'[q].actor = req[q].actor
              /\ req[q].action \in Submissions
          BY <2>2, <3>2 DEF GoesOn
        <4> QED BY <1>0, <1>3, <4>1, <4>2
      <3>3. CASE Creates(q)
        <4>1. req'[q].action = "LOAN_APPROVE"
          BY <3>3 DEF Creates, Request
        <4> QED BY <2>2, <4>1 DEF Submissions
      <3>4. CASE Ends(q)
        BY <2>2, <3>4 DEF Ends, Done, UnderWay
      <3> QED BY <1>7, <3>1, <3>2, <3>3, <3>4
    <2>3. ASSUME NEW p \in Requests, UnderWay(p)', req'[p].action \in Submissions
          PROVE  Known(req[p].loan)' /\ ~Approved(req[p].loan, req[p].actor)'
      <3>1. \E l \in Loans : \E u : /\ l = req'[p].loan /\ u = req'[p].actor
                                /\ Known(l) /\ ~Approved(l, u)
        <4>1. CASE p # q
          BY <1>0, <1>3, <1>5, <2>3, <4>1
        <4> QED BY <2>2, <2>3, <4>1
      <3>2. PICK l \in Loans, u \in {req'[p].actor} :
              l = req'[p].loan /\ Known(l) /\ ~Approved(l, u)
        BY <3>1
      <3>3. Known(l)' /\ ~Approved(l, u)'
        BY <1>2, <2>1, <3>2
      <3> QED BY <3>2, <3>3 DEF Known, Approved
    <2>4. SeparationOfDuties'
      BY <1>7 DEF DutyInv, SeparationOfDuties
    <2>5. \A e \in evidence' : e.action \in Submissions => Known(e.loan)'
      BY <1>2, <1>4, <1>7
    <2> QED BY <1>1, <2>3, <2>4, <2>5 DEF DutyInv
  <1> QED BY <1>6, <1>7, RequestMove

LEMMA DutyNext == CosignTypeInv /\ DutyInv /\ [CosignNext]_allVars => DutyInv'
  <1> SUFFICES ASSUME CosignTypeInv, DutyInv, [CosignNext]_allVars PROVE DutyInv'
    OBVIOUS
  <1>1. CASE UNCHANGED cosignVars
    BY <1>1 DEF cosignVars, DutyInv, LinkOK, UnderWay, Known, Approved, SeparationOfDuties
  <1> QED BY <1>1, DutyRequest DEF CosignNext, allVars

\* Whatever requests come between a check of the evidence and the action it is made
\* for, and whatever fails: enforceSoD lets no user who approved a loan prepare its
\* packet or sign it for the broker.
THEOREM DutiesAreSeparated == CosignSpec => []SeparationOfDuties
  <1>1. DutyInv => SeparationOfDuties
    BY DEF DutyInv
  <1> QED
    BY <1>1, CosignTypeInit, CosignTypeNext, DutyInit, DutyNext, PTL DEF CosignSpec

----------------------------------------------------------------------------
(* Signatures. Wherever a row's metadata is kept (in the row, in what a     *)
(* worker or a request holds of it), the broker's signature comes before    *)
(* the counterparty's, and while no process has died each is in evidence or  *)
(* about to be.                                                             *)

MetaOK(m, l) ==
    /\ m.counter # NoBlob => m.broker # NoBlob
    /\ NoneDied => /\ m.broker # NoBlob => InEvidence(l, "BROKER_SIGN")
                   /\ m.counter # NoBlob => InEvidence(l, "BORROWER_SIGN")

RowInv(r) ==
    /\ MetaOK(outbox[r].meta, r)
    /\ outbox[r].status = "signed_1" => outbox[r].meta.broker # NoBlob
    /\ outbox[r].status = "signed_2" => outbox[r].meta.counter # NoBlob

SnapInv(s) == s = NoSnapshot \/ (s.row \in Rows /\ Present(s.row) /\ MetaOK(s.meta, s.row))

ReqInv(q) ==
    /\ req[q].pc \in {"writeBroker", "writeBorrower"} =>
         MetaOK(req[q].meta, req[q].loan) /\ Present(req[q].loan)
    /\ req[q].pc = "writeBorrower" => req[q].meta.broker # NoBlob

SignInv ==
    /\ \A r \in Rows : RowInv(r)
    /\ \A w \in Workers : \A s \in Snaps(w) : SnapInv(s)
    /\ \A q \in Requests : ReqInv(q)

CosignInv == CosignTypeInv /\ DutyInv /\ SignInv

LEMMA SignInit == CosignInit => SignInv
  <1> SUFFICES ASSUME CosignInit PROVE SignInv
    OBVIOUS
  <1>1. \A r \in Rows : RowInv(r)
    BY DEF CosignInit, Init, ExecutorInit, AbsentRow, NoMeta, RowInv, MetaOK
  <1>2. \A w \in Workers : Snaps(w) = {NoSnapshot}
    BY DEF CosignInit, Init, ExecutorInit, Started, Snaps
  <1>3. \A q \in Requests : ReqInv(q)
    BY DEF CosignInit, NotMade, ReqInv
  <1> QED BY <1>1, <1>2, <1>3 DEF SignInv, SnapInv

\* What is in evidence stays there, unless a request is aborted.
LEMMA EvKept ==
  ASSUME CosignTypeInv, NEW q \in Requests, RequestStep(q), NoneDied'
  PROVE  \A l, a : InEvidence(l, a) => InEvidence(l, a)'
  <1>1. ~Abort(q)
    BY RequestFaults
  <1>2. /\ evidence \subseteq evidence'
        /\ req[q].pc = "evidence" => EvidenceOf(q) \in evidence'
    BY <1>1, RequestMove
  <1> QED BY <1>2, RequestMove DEF InEvidence, EvidenceOf

\* What the metadata has to keep to, it keeps to.
MetaKept == \A m, l : MetaOK(m, l) => MetaOK(m, l)'

LEMMA MetaKeeps ==
  ASSUME FaultsGrow, NoneDied' => \A l, a : InEvidence(l, a) => InEvidence(l, a)'
  PROVE  MetaKept
  <1>1. NoneDied' => NoneDied
    BY DEF FaultsGrow, NoneDied, FaultKinds
  <1> QED BY <1>1 DEF MetaKept, MetaOK

LEMMA RequestKeepsMeta ==
  ASSUME CosignTypeInv, NEW q \in Requests, RequestStep(q)
  PROVE  MetaKept
  BY EvKept, RequestFaults, MetaKeeps

LEMMA RowKept ==
  ASSUME MetaKept, NEW r \in Rows, RowInv(r), outbox'[r].meta = outbox[r].meta,
         outbox'[r].status \in {outbox[r].status, "pending"}
  PROVE  RowInv(r)'
  BY DEF MetaKept, RowInv

\* What others hold of a row stays right.
LEMMA HoldingsKept ==
  ASSUME CosignTypeInv, SignInv, NEW q \in Requests, RequestStep(q), UNCHANGED wk,
         \A r \in Rows : Present(r) => Present(r)'
  PROVE  /\ \A w \in Workers : \A s \in Snaps(w)' : SnapInv(s)'
         /\ \A p \in Requests : p # q => ReqInv(p)'
  <1>1. MetaKept
    BY RequestKeepsMeta
  <1>2. ASSUME NEW w \in Workers, NEW s \in Snaps(w)' PROVE SnapInv(s)'
    <2>1. s \in Snaps(w)
      BY <1>2 DEF Snaps
    <2> QED BY <1>1, <2>1 DEF SignInv, SnapInv, MetaKept
  <1>3. ASSUME NEW p \in Requests, p # q PROVE ReqInv(p)'
    <2>1. req'[p] = req[p] /\ ReqInv(p)
      BY <1>3, RequestMove DEF SignInv
    <2>2. CASE req[p].pc \in {"writeBroker", "writeBorrower"}
      <3>1. PICK m, l : m = req[p].meta /\ l = req[p].loan
        OBVIOUS
      <3>2. l \in Rows
        BY <2>2, <3>1, RequestType DEF UnderWay
      <3>3. MetaOK(m, l)' /\ Present(l)'
        BY <1>1, <2>1, <2>2, <3>1, <3>2 DEF ReqInv, MetaKept
      <3>4. m = req'[p].meta /\ l = req'[p].loan
        BY <2>1, <3>1
      <3>5. MetaOK(req[p].meta, req[p].loan)' /\ Present(req[p].loan)'
        BY <3>3, <3>4 DEF MetaOK, Present, InEvidence
      <3> QED BY <2>1, <3>5 DEF ReqInv
    <2>3. CASE req[p].pc \notin {"writeBroker", "writeBorrower"}
      BY <2>1, <2>3 DEF ReqInv
    <2> QED BY <2>2, <2>3
  <1> QED BY <1>2, <1>3

LEMMA SignRequest ==
  ASSUME CosignInv, NEW q \in Requests, RequestStep(q)
  PROVE  /\ SignInv'
         /\ UNCHANGED wk
         /\ \A r \in Rows : Present(r) => Present(r)'
         /\ \A r \in Rows : Present(r)' => Present(r) \/ (EnqueueLoanSet(q) /\ r = req[q].loan)
         /\ req'[q].pc = "updateLoan" => Present(req[q].loan)'
  <1>0. /\ CosignTypeInv /\ DutyInv /\ SignInv
        /\ req \in [Requests -> RequestRecords \cup {NotMade, Done}]
    BY DEF CosignInv, CosignTypeInv
  <1>1. MetaKept
    BY <1>0, RequestKeepsMeta
  <1>2. UNCHANGED wk
    BY DEF RequestStep, CreateLoan, CheckPrepare, EnqueueLoanSet, UpdateLoan, CheckBroker,
           FindUnsigned, FindSigned, FindRow, WriteBroker, WriteBorrower, Sign, CheckBorrower,
           AppendEvidence, Abort, vars, executorVars
  <1>3. ASSUME \A r \in Rows : Present(r) => Present(r)', \A r \in Rows : RowInv(r)', ReqInv(q)'
        PROVE  SignInv'
    BY <1>0, <1>2, <1>3, HoldingsKept DEF SignInv
  <1>4. ASSUME UNCHANGED outbox
        PROVE  /\ \A r \in Rows : Present(r)' = Present(r)
               /\ \A r \in Rows : RowInv(r)'
    BY <1>0, <1>1, <1>4, RowKept DEF Present, SignInv
  <1>5. CASE CreateLoan(q) \/ CheckPrepare(q) \/ CheckBroker(q) \/ CheckBorrower(q)
    <2>1. UNCHANGED outbox
      BY <1>5 DEF CreateLoan, CheckPrepare, CheckBroker, CheckBorrower, vars, executorVars
    <2>2. req'[q].pc \in {"evidence", "enqueue", "findUnsigned", "findSigned"}
      BY <1>0, <1>5 DEF CreateLoan, CheckPrepare, CheckBroker, CheckBorrower, Request
    <2>3. ReqInv(q)'
      BY <2>2 DEF ReqInv
    <2> QED BY <1>2, <1>3, <1>4, <2>1, <2>2, <2>3
  <1>6. CASE UpdateLoan(q) \/ AppendEvidence(q) \/ Abort(q)
    <2>1. UNCHANGED outbox
      BY <1>6 DEF UpdateLoan, AppendEvidence, Abort, vars, executorVars
    <2>2. req'[q].pc \in {"evidence", "done"}
      <3>1. CASE UpdateLoan(q)
        <4>1. UnderWay(q) /\ Await(q, "evidence")
          BY <3>1 DEF UpdateLoan, UnderWay
        <4> QED BY <1>0, <4>1, AwaitMoves
      <3>2. CASE AppendEvidence(q) \/ Abort(q)
        BY <1>0, <3>2 DEF AppendEvidence, Abort, Answered, Done
      <3> QED BY <1>6, <3>1, <3>2
    <2>3. ReqInv(q)'
      BY <2>2 DEF ReqInv
    <2> QED BY <1>2, <1>3, <1>4, <2>1, <2>2, <2>3
  <1>7. CASE EnqueueLoanSet(q)
    <2>1. UnderWay(q)
      BY <1>7 DEF EnqueueLoanSet, UnderWay
    <2>2. PICK l \in Loans : l = req[q].loan /\ l \in Rows /\ outbox[l] \in RowRecords
      BY <1>0, <2>1, RequestType
    <2>3. CASE UNCHANGED outbox /\ Answered(q)
      <3>1. req'[q].pc = "done"
        BY <1>0, <2>3 DEF Answered, Done
      <3>2. ReqInv(q)'
        BY <3>1 DEF ReqInv
      <3> QED BY <1>2, <1>3, <1>4, <2>3, <3>1, <3>2
    <2>4. CASE outbox' = [outbox EXCEPT ![l].status = "pending"] /\ Await(q, "updateLoan")
      <3>1. req'[q].pc = "updateLoan"
        BY <1>0, <2>1, <2>4, AwaitMoves
      <3>2. ReqInv(q)'
        BY <3>1 DEF ReqInv
      <3>3. /\ \A r \in Rows : outbox'[r].meta = outbox[r].meta
            /\ \A r \in Rows : r # l => outbox'[r] = outbox[r]
            /\ outbox'[l].status = "pending"
        BY <1>0, <2>2, <2>4 DEF CosignTypeInv, TypeInv, OutboxOK, RowRecords
      <3>4. \A r \in Rows : RowInv(r)'
        BY <1>0, <1>1, <3>3, RowKept DEF SignInv
      <3>5. \A r \in Rows : IF r = l THEN Present(r)' ELSE Present(r)' = Present(r)
        BY <3>3 DEF Present
      <3>6. Present(req[q].loan)'
        <4>1. req'[q].loan = l
          BY <1>0, <2>1, <2>2, <2>4, AwaitMoves
        <4> QED BY <2>2, <3>3, <4>1 DEF Present
      <3> QED BY <1>2, <1>3, <1>7, <2>2, <3>2, <3>4, <3>5, <3>6
    <2> QED BY <1>7, <2>2, <2>3, <2>4 DEF EnqueueLoanSet
  <1>8. CASE FindUnsigned(q) \/ FindSigned(q)
    <2>1. UnderWay(q) /\ UNCHANGED outbox
      BY <1>8 DEF FindUnsigned, FindSigned, FindRow, UnderWay, vars, executorVars
    <2>2. PICK l \in Rows, m \in Metadata :
            /\ l = req[q].loan /\ m = outbox[l].meta /\ outbox[l] \in RowRecords
      BY <1>0, <2>1, RequestType DEF RowRecords
    <2>3. PICK p \in {"writeBroker", "writeBorrower"} :
            \/ Answered(q)
            \/ /\ outbox[l].status # "absent"
               /\ p = "writeBorrower" => outbox[l].status = "signed_1"
               /\ req' = [req EXCEPT ![q].pc = p, ![q].meta = m]
      BY <1>8, <2>2 DEF FindUnsigned, FindSigned, FindRow
    <2>4. CASE Answered(q)
      <3>1. req'[q].pc = "done"
        BY <1>0, <2>4 DEF Answered, Done
      <3>2. ReqInv(q)'
        BY <3>1 DEF ReqInv
      <3> QED BY <1>2, <1>3, <1>4, <2>1, <3>1, <3>2
    <2>5. CASE /\ outbox[l].status # "absent"
               /\ p = "writeBorrower" => outbox[l].status = "signed_1"
               /\ req' = [req EXCEPT ![q].pc = p, ![q].meta = m]
      <3>1. req'[q].pc = p /\ req'[q].meta = m /\ req'[q].loan = l
        <4>1. req[q] \in RequestRecords
          BY <1>0, <2>1, RequestType
        <4> DEFINE x == [req[q] EXCEPT !.pc = p, !.meta = m]
        <4>2. x.pc = p /\ x.meta = m /\ x.loan = l
          BY <2>2, <4>1 DEF RequestRecords
        <4>3. req' = [req EXCEPT ![q] = x]
          BY <2>5
        <4> HIDE DEF x
        <4> QED BY <1>0, <4>2, <4>3
      <3>2. MetaOK(m, l)' /\ Present(l)'
        BY <1>0, <1>1, <2>1, <2>2, <2>5 DEF SignInv, RowInv, MetaKept, Present
      <3>3. MetaOK(req[q].meta, req[q].loan)' /\ Present(req[q].loan)'
        BY <3>1, <3>2 DEF MetaOK, Present, InEvidence
      <3>4. p = "writeBorrower" => m.broker # NoBlob
        BY <1>0, <2>2, <2>5 DEF SignInv, RowInv
      <3>5. ReqInv(q)'
        BY <3>1, <3>3, <3>4 DEF ReqInv
      <3> QED BY <1>2, <1>3, <1>4, <2>1, <3>1, <3>5
    <2> QED BY <2>3, <2>4, <2>5
  <1>9. CASE WriteBroker(q) \/ WriteBorrower(q)
    <2>1. UnderWay(q) /\ req[q].pc \in {"writeBroker", "writeBorrower"}
      BY <1>9 DEF WriteBroker, WriteBorrower, UnderWay
    <2>2. PICK l \in Rows, m \in Metadata :
            /\ l = req[q].loan /\ m = req[q].meta
            /\ outbox[l] \in RowRecords /\ req[q] \in RequestRecords
      BY <1>0, <2>1, RequestType DEF RequestRecords
    <2>3. /\ MetaOK(m, l) /\ Present(l)
          /\ req[q].pc = "writeBorrower" => m.broker # NoBlob
          /\ LinkOK(req[q])
      BY <1>0, <2>1, <2>2 DEF SignInv, ReqInv, DutyInv
    <2>4. PICK s \in {"signed_1", "signed_2"}, n \in Metadata :
            /\ \E h \in Txs \cup {NoTx} : Sign(q, s, n, h)
            /\ s = "signed_1" => /\ req[q].pc = "writeBroker" /\ n.broker # NoBlob
                                 /\ n.counter = m.counter
            /\ s = "signed_2" => /\ req[q].pc = "writeBorrower" /\ n.broker = m.broker
                                 /\ n.counter = m.broker
      <3>1. CASE WriteBroker(q)
        <4>1. PICK b \in 1..nextSeq :
                Sign(q, "signed_1", [m EXCEPT !.broker = b], BrokerHash(l, b))
          BY <2>2, <3>1 DEF WriteBroker
        <4>2. nextSeq \in Nat
          BY <1>0 DEF CosignTypeInv, TypeInv, LedgerOK
        <4> DEFINE n == [m EXCEPT !.broker = b]
        <4>3. n \in Metadata /\ n.broker = b /\ n.counter = m.counter /\ b # NoBlob
          BY <4>2 DEF Metadata, NoBlob
        <4>4. BrokerHash(l, b) \in Txs
          BY <4>2, ExecutorAssumption DEF BrokerHash, Txs
        <4> HIDE DEF n
        <4>5. Sign(q, "signed_1", n, BrokerHash(l, b))
          BY <4>1 DEF n
        <4> QED BY <3>1, <4>3, <4>4, <4>5 DEF WriteBroker
      <3>2. CASE WriteBorrower(q)
        <4> DEFINE n == [m EXCEPT !.counter = m.broker]
        <4>1. n \in Metadata /\ n.broker = m.broker /\ n.counter = m.broker
          BY DEF Metadata
        <4>2. outbox[l].hash \in Txs \cup {NoTx}
          BY <2>2 DEF RowRecords
        <4>3. Sign(q, "signed_2", n, outbox[l].hash)
          BY <2>2, <3>2 DEF WriteBorrower
        <4> HIDE DEF n
        <4> QED BY <3>2, <4>1, <4>2, <4>3 DEF WriteBorrower
      <3> QED BY <1>9, <3>1, <3>2
    <2>5. \A r \in Rows : IF r = l THEN outbox'[r].status = s /\ outbox'[r].meta = n
                                   ELSE outbox'[r] = outbox[r]
      BY <1>0, <2>1, <2>2, <2>4, SignType DEF OutboxStatuses
    <2>6. /\ req'[q].pc = "evidence" /\ req'[q].loan = l
          /\ req'[q].action = req[q].action
      BY <1>0, <2>1, <2>2, <2>4, AwaitMoves DEF Sign
    <2>7. MetaOK(n, l)'
      <3>1. MetaOK(m, l)'
        BY <1>1, <2>3 DEF MetaKept
      <3>2. InEvidence(l, req[q].action)'
        <4>1. PICK a : a = req[q].action
          OBVIOUS
        <4>2. InEvidence(l, a)'
          BY <2>6, <4>1 DEF InEvidence
        <4> QED BY <2>6, <4>1, <4>2 DEF InEvidence
      <3> QED BY <2>3, <2>4, <2>6, <3>1, <3>2 DEF MetaOK, LinkOK
    <2>8. RowInv(l)'
      <3>1. outbox'[l].meta = n /\ outbox'[l].status = s
        BY <2>5
      <3>2. MetaOK(outbox[l].meta, l)'
        BY <2>7, <3>1 DEF MetaOK
      <3> QED BY <2>3, <2>4, <3>1, <3>2 DEF RowInv
    <2>9. \A r \in Rows : RowInv(r)'
      BY <1>0, <1>1, <2>5, <2>8, RowKept DEF SignInv
    <2>10. \A r \in Rows : Present(r)' = Present(r)
      BY <2>3, <2>4, <2>5 DEF Present
    <2>11. ReqInv(q)'
      BY <2>6 DEF ReqInv
    <2> QED BY <1>2, <1>3, <2>6, <2>9, <2>10, <2>11
  <1> QED BY <1>5, <1>6, <1>7, <1>8, <1>9 DEF RequestStep

LEMMA SignWorker ==
  ASSUME CosignInv, NEW w \in Workers, WorkerStep(w) \/ Crash(w), UNCHANGED cosignVars
  PROVE  /\ SignInv'
         /\ \A r \in Rows : Present(r)' = Present(r)
  <1>0. CosignTypeInv /\ TypeInv /\ SignInv
    BY DEF CosignInv, CosignTypeInv
  <1>1. HeldPresent
    BY <1>0, ExecutorAssumption DEF SignInv, SnapInv, HeldPresent, NoSnapshot
  <1>2. Frame
    BY <1>0, <1>1, FrameStep
  <1>3. MetaKept
    <2>1. \A l, a : InEvidence(l, a)' = InEvidence(l, a)
      BY DEF InEvidence, cosignVars
    <2> QED BY <1>0, <2>1, WorkerFaults, MetaKeeps
  <1>4. \A r \in Rows : Present(r)' = Present(r)
    BY <1>2 DEF Frame, RowFrame, Present
  <1>5. ASSUME NEW v \in Workers, NEW s \in Snaps(v), s.row \in Rows
        PROVE  MetaOK(s.meta, s.row) /\ Present(s.row)
    BY <1>0, <1>5, ExecutorAssumption DEF SignInv, SnapInv, NoSnapshot
  <1>6. ASSUME NEW r \in Rows PROVE RowInv(r)'
    <2>1. RowInv(r) /\ RowFrame(r)
      BY <1>0, <1>2 DEF SignInv, Frame
    <2>2. CASE outbox'[r] = outbox[r]
      BY <1>3, <2>1, <2>2, RowKept
    <2>3. CASE outbox'[r] # outbox[r]
      <3>1. PICK m : m = outbox'[r].meta /\ MetaOK(m, r)
        BY <1>5, <2>1, <2>3 DEF RowFrame, RowInv
      <3>2. MetaOK(m, r)'
        BY <1>3, <3>1 DEF MetaKept
      <3>3. MetaOK(outbox[r].meta, r)'
        BY <3>1, <3>2 DEF MetaOK
      <3> QED BY <2>1, <2>3, <3>3 DEF RowFrame, RowInv, SigningStatuses
    <2> QED BY <2>2, <2>3
  <1>7. ASSUME NEW v \in Workers, NEW s \in Snaps(v)' PROVE SnapInv(s)'
    <2>1. SnapFrame(s)
      BY <1>2 DEF Frame
    <2>2. SnapInv(s)
      BY <1>0, <2>1 DEF SnapFrame, SignInv, SnapInv, RowInv
    <2> QED BY <1>3, <1>4, <2>2 DEF SnapInv, MetaKept
  <1>8. ASSUME NEW q \in Requests PROVE ReqInv(q)'
    <2>1. req'[q] = req[q] /\ ReqInv(q)
      BY <1>0 DEF cosignVars, SignInv
    <2>2. CASE req[q].pc \in {"writeBroker", "writeBorrower"}
      <3>1. req[q].loan \in Rows
        BY <1>0, <2>2, RequestType DEF UnderWay
      <3>2. PICK m, l : m = req[q].meta /\ l = req[q].loan
        OBVIOUS
      <3>3. MetaOK(m, l)' /\ Present(l)'
        BY <1>3, <1>4, <2>1, <2>2, <3>1, <3>2 DEF ReqInv, MetaKept
      <3>4. MetaOK(req[q].meta, req[q].loan)' /\ Present(req[q].loan)'
        BY <2>1, <3>2, <3>3 DEF MetaOK, Present, InEvidence
      <3> QED BY <2>1, <3>4 DEF ReqInv
    <2>3. CASE req[q].pc \notin {"writeBroker", "writeBorrower"}
      BY <2>1, <2>3 DEF ReqInv
    <2> QED BY <2>2, <2>3
  <1> QED BY <1>4, <1>6, <1>7, <1>8 DEF SignInv

LEMMA SignNext == CosignInv /\ [CosignNext]_allVars => SignInv'
  <1> SUFFICES ASSUME CosignInv, [CosignNext]_allVars PROVE SignInv'
    OBVIOUS
  <1>1. CASE UNCHANGED <<outbox, wk, faults, cosignVars>>
    BY <1>1 DEF CosignInv, SignInv, RowInv, SnapInv, ReqInv, MetaOK, Present, InEvidence, NoneDied, Snaps,
                cosignVars
  <1>2. CASE LedgerStep /\ UNCHANGED cosignVars
    BY <1>1, <1>2 DEF LedgerStep, executorVars
  <1>3. CASE UNCHANGED allVars
    BY <1>1, <1>3 DEF allVars, vars, executorVars
  <1> QED BY <1>2, <1>3, SignRequest, SignWorker DEF CosignNext

LEMMA CosignInvInit == CosignInit => CosignInv
  BY CosignTypeInit, DutyInit, SignInit DEF CosignInv

LEMMA CosignInvNext == CosignInv /\ [CosignNext]_allVars => CosignInv'
  BY CosignTypeNext, DutyNext, SignNext DEF CosignInv

LEMMA CosignInvImpliesSignatureOrder == CosignInv => SignatureOrder
  <1> SUFFICES ASSUME CosignInv PROVE SignatureOrder
    OBVIOUS
  <1>0. SignInv /\ Loans \subseteq Rows
    BY ExecutorAssumption DEF CosignInv, Loans
  <1>1. ASSUME NEW l \in Loans
        PROVE  LET row == outbox[l] IN
               /\ row.meta.counter # NoBlob \/ row.status = "signed_1" => row.meta.broker # NoBlob
               /\ row.status = "signed_2" => row.meta.counter # NoBlob
    BY <1>0 DEF SignInv, RowInv, MetaOK
  <1>2. ASSUME NEW w \in Workers, Blob(w) # NoBlob PROVE Meta(w).broker # NoBlob
    <2>1. SnapInv(wk[w].cur)
      BY <1>0 DEF SignInv, Snaps
    <2> QED BY <1>2, <2>1 DEF SnapInv, MetaOK, Blob, Meta, NoSnapshot, NoMeta
  <1> QED BY <1>1, <1>2 DEF SignatureOrder

\* No interleaving of requests and workers, no stale metadata that one of them
\* writes back over the other's, and no fault leaves a LoanSet counter-signed that
\* the broker has not signed: recordBorrowerSignature only finds a SIGNED_1 row.
THEOREM BrokerSignsFirst == CosignSpec => []SignatureOrder
  BY CosignInvInit, CosignInvNext, CosignInvImpliesSignatureOrder, PTL DEF CosignSpec

LEMMA CosignInvImpliesSignaturesEvidenced == CosignInv => SignaturesEvidenced
  <1> SUFFICES ASSUME CosignInv, NoneDied, NEW l \in Loans
               PROVE  /\ outbox[l].meta.broker # NoBlob => InEvidence(l, "BROKER_SIGN")
                      /\ outbox[l].meta.counter # NoBlob => InEvidence(l, "BORROWER_SIGN")
    BY DEF SignaturesEvidenced
  <1>1. RowInv(l)
    BY ExecutorAssumption DEF CosignInv, SignInv, Loans
  <1> QED BY <1>1 DEF RowInv, MetaOK

\* While no process dies, each of the signatures that updateOutbox stores in a row is
\* named by an event of the evidence log or about to be: appending it is the last
\* thing the handler that stored it does.
THEOREM SignaturesAreEvidenced == CosignSpec => []SignaturesEvidenced
  BY CosignInvInit, CosignInvNext, CosignInvImpliesSignaturesEvidenced, PTL DEF CosignSpec

----------------------------------------------------------------------------
(* A loan that waits for signatures has a row to be signed.                 *)

PreparingRow == \A q \in Requests : req[q].pc = "updateLoan" => Present(req[q].loan)

PendingInv == PendingHasRow /\ PreparingRow

LEMMA PendingInit == CosignInit => PendingInv
  <1> SUFFICES ASSUME CosignInit PROVE PendingInv
    OBVIOUS
  <1>1. Loans \subseteq Rows
    BY ExecutorAssumption DEF Loans
  <1> QED BY <1>1 DEF CosignInit, Init, ExecutorInit, AbsentRow, NotMade, PendingInv,
                      PendingHasRow, PreparingRow

LEMMA PendingRequest ==
  ASSUME CosignInv, PendingInv, NEW q \in Requests, RequestStep(q)
  PROVE  PendingInv'
  <1>0. /\ CosignTypeInv /\ DutyInv /\ loan \in [Loans -> LoanStatuses] /\ Loans \subseteq Rows
        /\ \A r \in Rows : Present(r) => Present(r)'
        /\ \A r \in Rows : Present(r)' => Present(r) \/ (EnqueueLoanSet(q) /\ r = req[q].loan)
        /\ req'[q].pc = "updateLoan" => Present(req[q].loan)'
    BY SignRequest, ExecutorAssumption DEF CosignInv, CosignTypeInv, Loans
  <1>1. \A p \in Requests : p # q => req'[p] = req[p]
    BY <1>0, RequestMove
  <1>2. PreparingRow'
    <2> SUFFICES ASSUME NEW p \in Requests, p # q, req'[p].pc = "updateLoan"
                 PROVE  Present(req[p].loan)'
      BY <1>0 DEF PreparingRow
    <2>1. PICK l \in Rows : l = req[p].loan /\ req[p].pc = "updateLoan"
      BY <1>0, <1>1, RequestType DEF UnderWay
    <2>2. Present(l)'
      BY <1>0, <2>1 DEF PendingInv, PreparingRow
    <2> QED BY <1>1, <2>1, <2>2 DEF Present
  <1>3. FaultsGrow
    BY <1>0, RequestFaults
  <1>4. ASSUME NEW l \in Loans PROVE
          /\ loan'[l] = "cosign_pending" => Present(l)'
          /\ Present(l)' => \/ loan'[l] = "cosign_pending"
                            \/ faults'["crash"] > 0
                            \/ \E p \in Requests : req'[p].pc = "updateLoan" /\ req'[p].loan = l
    <2>1. /\ loan[l] = "cosign_pending" => Present(l)
          /\ Present(l) => \/ loan[l] = "cosign_pending"
                           \/ faults["crash"] > 0
                           \/ \E p \in Requests : req[p].pc = "updateLoan" /\ req[p].loan = l
      BY DEF PendingInv, PendingHasRow, Present
    <2>2. faults["crash"] > 0 => faults'["crash"] > 0
      BY <1>3 DEF FaultsGrow, FaultKinds
    <2>3. CASE UpdateLoan(q)
      <3>1. /\ req[q].pc = "updateLoan" /\ UnderWay(q)
            /\ loan' = [loan EXCEPT ![req[q].loan] = "cosign_pending"]
            /\ ~EnqueueLoanSet(q)
        BY <2>3 DEF UpdateLoan, UnderWay, EnqueueLoanSet
      <3>2. Present(req[q].loan)
        BY <3>1 DEF PendingInv, PreparingRow
      <3>3. loan'[l] = IF l = req[q].loan THEN "cosign_pending" ELSE loan[l]
        BY <1>0, <3>1
      <3> QED BY <1>0, <1>1, <2>1, <2>2, <3>1, <3>2, <3>3
    <2>4. CASE EnqueueLoanSet(q)
      <3>1. UnderWay(q) /\ UNCHANGED loan /\ req[q].pc = "enqueue"
        BY <2>4 DEF EnqueueLoanSet, UnderWay
      <3>2. CASE UNCHANGED outbox
        <4>1. Present(l)' = Present(l)
          BY <3>2 DEF Present
        <4> QED BY <1>1, <2>1, <2>2, <3>1, <4>1
      <3>3. CASE Await(q, "updateLoan")
        <4>1. req'[q].pc = "updateLoan" /\ req'[q].loan = req[q].loan
          BY <1>0, <3>1, <3>3, AwaitMoves DEF CosignTypeInv
        <4> QED BY <1>0, <1>1, <2>1, <2>2, <3>1, <4>1
      <3> QED BY <2>4, <3>2, <3>3 DEF EnqueueLoanSet
    <2>5. CASE CreateLoan(q)
      <3>1. PICK k \in Loans : loan[k] = "absent" /\ loan' = [loan EXCEPT ![k] = "approved"]
        BY <2>5 DEF CreateLoan
      <3>2. ~EnqueueLoanSet(q) /\ req[q].pc # "updateLoan"
        BY <2>5 DEF CreateLoan, NotMade, EnqueueLoanSet
      <3>3. Present(l)' <=> Present(l)
        BY <1>0, <3>2
      <3>4. loan[l] = "cosign_pending" => loan'[l] = "cosign_pending"
        BY <1>0, <3>1
      <3>5. loan'[l] = "cosign_pending" => loan[l] = "cosign_pending"
        BY <1>0, <3>1
      <3> QED BY <1>1, <2>1, <2>2, <3>2, <3>3, <3>4, <3>5
    <2>6. CASE Abort(q)
      <3>1. faults'["crash"] > 0 /\ UNCHANGED loan
        BY <1>0, <2>6, RequestFaults DEF Abort
      <3> QED BY <1>0, <2>1, <3>1
    <2>7. CASE ~(UpdateLoan(q) \/ EnqueueLoanSet(q) \/ CreateLoan(q) \/ Abort(q))
      <3>1. UNCHANGED loan /\ req[q].pc # "updateLoan"
        <4>1. CASE CheckPrepare(q) \/ CheckBroker(q) \/ CheckBorrower(q)
          BY <4>1 DEF CheckPrepare, CheckBroker, CheckBorrower, NotMade
        <4>2. CASE FindUnsigned(q) \/ FindSigned(q)
          BY <4>2 DEF FindUnsigned, FindSigned, FindRow
        <4>3. CASE WriteBroker(q) \/ WriteBorrower(q) \/ AppendEvidence(q)
          BY <4>3 DEF WriteBroker, WriteBorrower, Sign, AppendEvidence
        <4> QED BY <2>7, <4>1, <4>2, <4>3 DEF RequestStep
      <3>2. Present(l)' <=> Present(l)
        BY <1>0, <2>7
      <3> QED BY <1>1, <2>1, <2>2, <3>1, <3>2
    <2> QED BY <2>3, <2>4, <2>5, <2>6, <2>7
  <1>5. PendingHasRow'
    BY <1>4 DEF PendingHasRow, Present
  <1> QED BY <1>2, <1>5 DEF PendingInv

LEMMA PendingNext == CosignInv /\ PendingInv /\ [CosignNext]_allVars => PendingInv'
  <1> SUFFICES ASSUME CosignInv, PendingInv, [CosignNext]_allVars PROVE PendingInv'
    OBVIOUS
  <1>1. ASSUME UNCHANGED cosignVars, \A r \in Rows : Present(r)' = Present(r),
               faults["crash"] > 0 => faults'["crash"] > 0
        PROVE  PendingInv'
    <2>1. Loans \subseteq Rows /\ UNCHANGED <<loan, req>>
      BY <1>1, ExecutorAssumption DEF Loans, cosignVars
    <2>2. \A q \in Requests : req[q].pc = "updateLoan" => req[q].loan \in Rows
      BY RequestType DEF UnderWay, CosignInv
    <2>3. PreparingRow'
      <3> SUFFICES ASSUME NEW q \in Requests, req[q].pc = "updateLoan"
                   PROVE  Present(req[q].loan)'
        BY <2>1 DEF PreparingRow
      <3>1. PICK l \in Rows : l = req[q].loan
        BY <2>2
      <3>2. Present(l)'
        BY <1>1, <3>1 DEF PendingInv, PreparingRow
      <3> QED BY <2>1, <3>1, <3>2 DEF Present
    <2>4. PendingHasRow'
      BY <1>1, <2>1 DEF PendingInv, PendingHasRow, Present
    <2> QED BY <2>3, <2>4 DEF PendingInv
  <1>2. CASE UNCHANGED <<outbox, faults, cosignVars>>
    BY <1>1, <1>2 DEF Present
  <1>3. CASE LedgerStep /\ UNCHANGED cosignVars
    BY <1>2, <1>3 DEF LedgerStep, executorVars
  <1>4. CASE UNCHANGED allVars
    BY <1>2, <1>4 DEF allVars, vars, executorVars
  <1>5. ASSUME NEW w \in Workers, WorkerStep(w) \/ Crash(w), UNCHANGED cosignVars
        PROVE  PendingInv'
    <2>1. FaultsGrow
      BY <1>5, WorkerFaults DEF CosignInv, CosignTypeInv
    <2>2. faults["crash"] > 0 => faults'["crash"] > 0
      BY <2>1 DEF FaultsGrow, FaultKinds
    <2> QED BY <1>1, <1>5, <2>2, SignWorker
  <1> QED BY <1>3, <1>4, <1>5, PendingRequest DEF CosignNext

\* prepareCosignPacket writes the row and the loan in two statements: however other
\* requests and workers come between them, a loan is COSIGN_PENDING if and only if it
\* has a row, but for the moment between the two and for requests that died there.
THEOREM PendingLoansHaveRows == CosignSpec => []PendingHasRow
  <1>1. PendingInv => PendingHasRow
    BY DEF PendingInv
  <1> QED
    BY <1>1, CosignInvInit, CosignInvNext, PendingInit, PendingNext, PTL DEF CosignSpec

----------------------------------------------------------------------------
(* The ledger. A LoanSet gets there by a worker that submits a blob which    *)
(* the counterparty has signed, and so by metadata that both have signed.    *)

BlobPcs == {"submitBlob", "resubmitBlob"}

BlobInv == \A w \in Workers : wk[w].pc \in BlobPcs => Blob(w) # NoBlob

LEMMA BlobInit == CosignInit => BlobInv
  BY DEF CosignInit, Init, ExecutorInit, Started, BlobInv, BlobPcs

LEMMA BlobBecome ==
  ASSUME TypeInv, BlobInv, NEW w \in Workers, NEW x, Become(w, x),
         x.pc \in BlobPcs => x.cur.meta.counter # NoBlob
  PROVE  BlobInv'
  <1>1. \A v \in Workers : wk'[v] = IF v = w THEN x ELSE wk[v]
    BY DEF Become, TypeInv, WorkersOK
  <1> QED BY <1>1 DEF BlobInv, Blob, Meta

LEMMA BlobGoto ==
  ASSUME TypeInv, BlobInv, NEW w \in Workers, NEW p, Goto(w, p),
         p \in BlobPcs => Blob(w) # NoBlob
  PROVE  BlobInv'
  <1> DEFINE x == [wk[w] EXCEPT !.pc = p]
  <1>1. x.pc = p /\ x.cur = wk[w].cur /\ Become(w, x)
    BY DEF TypeInv, WorkersOK, WorkerRecords, Goto
  <1> HIDE DEF x
  <1> QED BY <1>1, BlobBecome DEF Blob, Meta

LEMMA BlobFinish ==
  ASSUME TypeInv, BlobInv, NEW w \in Workers, Finish(w)
  PROVE  BlobInv'
  <1>1. AfterRow(w).pc \notin BlobPcs /\ Become(w, AfterRow(w))
    BY DEF AfterRow, Started, BlobPcs, Finish
  <1> QED BY <1>1, BlobBecome

LEMMA BlobUpdate ==
  ASSUME TypeInv, BlobInv, NEW w \in Workers, NEW o, NEW p, NEW e, Update(w, o, p, e),
         p \in BlobPcs => Blob(w) # NoBlob, e \notin BlobPcs
  PROVE  BlobInv'
  <1>1. Finish(w) \/ Goto(w, p) \/ Goto(w, e)
    BY DEF Update
  <1> QED BY <1>1, BlobFinish, BlobGoto

LEMMA BlobStep ==
  ASSUME TypeInv, BlobInv, NEW w \in Workers, WorkerStep(w) \/ Crash(w)
  PROVE  BlobInv'
  <1>0. /\ wk[w] \in WorkerRecords
        /\ {"idle", "next", "begin", "prepared", "noSigner", "reserve", "submit", "resubmit",
            "lookup", "found", "unknown", "rejected", "record", "caught", "lookupBlob", "foundBlob",
            "awaitBlob", "rejectedBlob", "recordBlob", "cosignCaught", "unhandled", "done"}
              \cap BlobPcs = {}
    BY DEF TypeInv, WorkersOK, BlobPcs
  <1>1. UNCHANGED wk => BlobInv'
    BY DEF BlobInv, Blob, Meta
  <1>2. CASE ProcessPending(w)
    <2>1. \/ UNCHANGED wk
          \/ \E spike \in BOOLEAN, S \in OldestClaimable :
               Become(w, [wk[w] EXCEPT
                            !.pc = "next", !.feeSpike = spike,
                            !.batch = {[row |-> r, meta |-> outbox[r].meta] : r \in S}])
      BY <1>2 DEF ProcessPending, NetworkStatuses
    <2>2. ASSUME NEW spike, NEW b,
                 Become(w, [wk[w] EXCEPT !.pc = "next", !.feeSpike = spike, !.batch = b])
          PROVE  BlobInv'
      BY <1>0, <2>2, BlobBecome DEF WorkerRecords
    <2> QED BY <1>1, <2>1, <2>2
  <1>3. CASE NextRow(w)
    <2>1. PICK s : Become(w, [wk[w] EXCEPT !.pc = "begin", !.cur = s, !.batch = @ \ {s}])
      BY <1>3 DEF NextRow
    <2> QED BY <1>0, <2>1, BlobBecome DEF WorkerRecords
  <1>4. CASE Crash(w)
    <2>1. \A c \in Configs : Started(c).pc \notin BlobPcs
      BY DEF Started, BlobPcs
    <2> QED BY <1>4, <2>1, BlobBecome DEF Crash
  <1>5. CASE Unhandled(w)
    BY <1>5, BlobFinish DEF Unhandled
  <1>6. CASE \/ Block(w) \/ BlockNoSigner(w) \/ GiveUp(w, "caught") \/ GiveUp(w, "cosignCaught")
             \/ PrepareDryRun(w)
    BY <1>0, <1>6, BlobUpdate DEF Block, BlockNoSigner, GiveUp, PrepareDryRun
  <1>7. CASE MarkSubmitted(w)
    <2>1. Dispatch(w) \in BlobPcs => Blob(w) # NoBlob
      BY <1>0 DEF Dispatch
    <2> QED BY <1>0, <1>7, <2>1, BlobUpdate, BlobGoto DEF MarkSubmitted
  <1>8. CASE \/ SettleValidated(w) \/ SettleUnknown(w) \/ SettleRejected(w)
             \/ SettleBlobValidated(w) \/ AwaitBlobValidation(w) \/ SettleBlobRejected(w)
    BY <1>0, <1>8, BlobUpdate
       DEF SettleValidated, SettleUnknown, SettleRejected,
           SettleBlobValidated, AwaitBlobValidation, SettleBlobRejected
  <1>9. CASE \/ Record(w, "prepared", DryHash(w), "unhandled")
             \/ Record(w, "record", wk[w].tx, "caught")
             \/ Record(w, "recordBlob", wk[w].tx, "cosignCaught")
    BY <1>0, <1>9, BlobFinish, BlobGoto DEF Record
  <1>10. ASSUME Retry(w) PROVE BlobInv'
    BY <1>0, <1>10, BlobBecome DEF Retry, WorkerRecords
  <1>11. CASE Reserve(w)
    <2>1. PICK t : Goto(w, "caught") \/ Become(w, [wk[w] EXCEPT !.pc = "submit", !.tx = t])
      BY <1>11 DEF Reserve
    <2> QED BY <1>0, <2>1, BlobBecome, BlobGoto DEF WorkerRecords
  <1>12. CASE Submit(w)
    <2>1. \/ \E c \in Codes : SubmitAnswered(w, c)
          \/ Goto(w, "caught") \/ Goto(w, "resubmit")
      BY <1>12 DEF Submit, AnswerLost, SoleSignerAnswers, Answers
    <2>2. ASSUME NEW c \in Codes, SubmitAnswered(w, c)
          PROVE  BlobInv'
      <3>1. Retry(w) \/ Become(w, [wk[w] EXCEPT !.code = c,
                                     !.pc = IF ClassifyResult(c) = "success"
                                            THEN "lookup" ELSE "rejected"])
        BY <2>2 DEF SubmitAnswered
      <3> QED BY <1>0, <1>10, <3>1, BlobBecome DEF WorkerRecords
    <2> QED BY <1>0, <2>1, <2>2, BlobGoto
  <1>13. CASE RetryAfterError(w)
    BY <1>10, <1>13 DEF RetryAfterError
  <1>14. CASE \/ Lookup(w, "lookup", "found", "unknown")
              \/ Lookup(w, "lookupBlob", "foundBlob", "awaitBlob")
    <2>1. PICK p \in {"found", "unknown", "foundBlob", "awaitBlob"} :
            Goto(w, p) \/ \E c : Become(w, [wk[w] EXCEPT !.pc = p, !.code = c])
      BY <1>14 DEF Lookup
    <2> QED BY <1>0, <2>1, BlobBecome, BlobGoto DEF WorkerRecords
  <1>15. CASE SubmitBlob(w)
    <2>1. Blob(w) # NoBlob
      BY <1>15 DEF SubmitBlob, BlobInv, BlobPcs
    <2>2. \/ Goto(w, "cosignCaught") \/ Goto(w, "resubmitBlob")
          \/ \E c \in Codes :
               Become(w, [wk[w] EXCEPT
                            !.tx = [row |-> Row(w), attempt |-> 0, seq |-> Blob(w)],
                            !.code = c,
                            !.pc = IF ClassifyResult(c) = "success"
                                   THEN "lookupBlob" ELSE "rejectedBlob"])
      BY <1>15 DEF SubmitBlob, AnswerLost, Answers
    <2> QED BY <1>0, <2>1, <2>2, BlobBecome, BlobGoto DEF WorkerRecords
  <1> QED
    BY <1>2, <1>3, <1>4, <1>5, <1>6, <1>7, <1>8, <1>9, <1>11, <1>12, <1>13, <1>14, <1>15
       DEF WorkerStep

\* What a worker adds to the ledger of a loan is a blob of the row it has.
LEMMA WorkerAdds ==
  ASSUME TypeInv, BlobInv, NEW w \in Workers, WorkerStep(w) \/ Crash(w)
  PROVE  /\ UNCHANGED validated
         /\ \A t \in pool' \ pool :
              t.row \in Loans =>
                 /\ wk[w].pc \notin {"idle", "next"} /\ t.row = Row(w) /\ Blob(w) # NoBlob
         /\ pool \subseteq pool'
  <1>1. CASE SubmitBlob(w)
    <2>1. wk[w].pc \in BlobPcs /\ Blob(w) # NoBlob
      BY <1>1 DEF SubmitBlob, BlobInv, BlobPcs
    <2>2. \/ \E c : Accept([row |-> Row(w), attempt |-> 0, seq |-> Blob(w)], c)
          \/ UNCHANGED ledgerVars
      BY <1>1 DEF SubmitBlob
    <2> QED BY <2>1, <2>2 DEF Accept, ledgerVars, BlobPcs
  <1>2. CASE Submit(w)
    <2>1. \/ \E c \in SoleSignerAnswers(w) : Accept(wk[w].tx, c)
          \/ UNCHANGED ledgerVars
      BY <1>2 DEF Submit
    <2>2. wk[w].tx.row = Row(w)
      BY <1>2 DEF Submit, TypeInv, WorkersOK, LocalOK, HasTx, Row
    <2>3. \A c \in SoleSignerAnswers(w) : Row(w) \in Loans => ~Enters(c)
      BY DEF SoleSignerAnswers, Loans
    <2> QED BY <2>1, <2>2, <2>3 DEF Accept, ledgerVars
  <1>3. CASE ~(Submit(w) \/ SubmitBlob(w))
    <2>1. UNCHANGED ledgerVars
      BY <1>3
         DEF WorkerStep, Crash, ProcessPending, NextRow, Unhandled, Block, PrepareDryRun,
             Record, MarkSubmitted, BlockNoSigner, Reserve, Lookup, SettleValidated,
             SettleUnknown, SettleRejected, RetryAfterError, GiveUp,
             SettleBlobValidated, AwaitBlobValidation, SettleBlobRejected
    <2> QED BY <2>1 DEF ledgerVars
  <1> QED BY <1>1, <1>2, <1>3

\* What is on the ledger stays or expires, unless a worker adds to it.
LEMMA LedgerKeeps ==
  ASSUME LedgerStep, NEW l
  PROVE  OnLedger(l)' \subseteq OnLedger(l)
  <1>1. PICK t \in pool : Validate(t) \/ Expire(t)
    BY DEF LedgerStep
  <1>2. /\ pool' \subseteq pool
        /\ \A v \in validated' : v \in validated \/ v.tx = t
    BY <1>1 DEF Validate, Expire
  <1> QED BY <1>2 DEF OnLedger

LEMMA RequestKeepsLedger ==
  ASSUME NEW q \in Requests, RequestStep(q)
  PROVE  UNCHANGED ledgerVars /\ UNCHANGED wk
  BY DEF RequestStep, CreateLoan, CheckPrepare, EnqueueLoanSet, UpdateLoan, CheckBroker,
         FindUnsigned, FindSigned, FindRow, WriteBroker, WriteBorrower, Sign, CheckBorrower,
         AppendEvidence, Abort, vars, executorVars

\* The metadata a worker submits a blob of is signed by both.
LEMMA HeldMeta ==
  ASSUME CosignInv, NEW w \in Workers, wk[w].pc \notin {"idle", "next"}
  PROVE  MetaOK(Meta(w), Row(w))
  <1>1. wk[w].cur \in Snaps(w) /\ Row(w) \in Rows
    BY BusyRow DEF Snaps, CosignInv, CosignTypeInv
  <1>2. SnapInv(wk[w].cur)
    BY <1>1 DEF CosignInv, SignInv
  <1> QED BY <1>1, <1>2, ExecutorAssumption DEF SnapInv, Row, Meta, NoSnapshot

LEMMA WorkerAddsSigned ==
  ASSUME CosignInv, BlobInv, NEW w \in Workers, WorkerStep(w) \/ Crash(w), NEW l \in Loans,
         OnLedger(l)' # {}
  PROVE  \/ OnLedger(l) # {}
         \/ /\ wk[w].pc \notin {"idle", "next"} /\ Row(w) = l
            /\ Meta(w).broker # NoBlob /\ Meta(w).counter # NoBlob /\ MetaOK(Meta(w), l)
  <1>0. TypeInv
    BY DEF CosignInv, CosignTypeInv
  <1>1. PICK t \in OnLedger(l)' : TRUE
    OBVIOUS
  <1>2. t.row = l /\ t \in pool' \cup {v.tx : v \in validated'}
    BY <1>1 DEF OnLedger
  <1>3. CASE t \in pool' \ pool
    <2>1. wk[w].pc \notin {"idle", "next"} /\ Row(w) = l /\ Blob(w) # NoBlob
      BY <1>0, <1>2, <1>3, WorkerAdds
    <2> QED BY <2>1, HeldMeta DEF Blob, MetaOK
  <1>4. CASE t \notin pool' \ pool
    <2>1. t \in pool \cup {v.tx : v \in validated}
      BY <1>0, <1>2, <1>4, WorkerAdds
    <2> QED BY <1>2, <2>1 DEF OnLedger
  <1> QED BY <1>3, <1>4

LedgerInv == LoanSetsEvidenced /\ BlobInv

LEMMA LedgerInvInit == CosignInit => LedgerInv
  BY BlobInit DEF CosignInit, Init, LedgerInit, OnLedger, LedgerInv, LoanSetsEvidenced

LEMMA BlobNext == CosignTypeInv /\ BlobInv /\ [CosignNext]_allVars => BlobInv'
  <1> SUFFICES ASSUME CosignTypeInv, BlobInv, [CosignNext]_allVars PROVE BlobInv'
    OBVIOUS
  <1>1. UNCHANGED wk => BlobInv'
    BY DEF BlobInv, Blob, Meta
  <1>2. LedgerStep => UNCHANGED wk
    BY DEF LedgerStep, executorVars
  <1> QED BY <1>1, <1>2, BlobStep, RequestKeepsLedger
          DEF CosignTypeInv, CosignNext, allVars, vars, executorVars

LEMMA LedgerInvNext == CosignInv /\ LedgerInv /\ [CosignNext]_allVars => LedgerInv'
  <1> SUFFICES ASSUME CosignInv, LedgerInv, [CosignNext]_allVars PROVE LedgerInv'
    OBVIOUS
  <1>0. CosignTypeInv /\ TypeInv /\ FaultsOK
    BY DEF CosignInv, CosignTypeInv, TypeInv
  <1>1. BlobInv'
    BY <1>0, BlobNext DEF LedgerInv
  <1>2. ASSUME NEW l \in Loans, NoneDied, NoneDied' => \A a : InEvidence(l, a) => InEvidence(l, a)',
               OnLedger(l) # {}, NoneDied'
        PROVE  InEvidence(l, "BROKER_SIGN")' /\ InEvidence(l, "BORROWER_SIGN")'
    BY <1>2 DEF LedgerInv, LoanSetsEvidenced
  <1>3. ASSUME UNCHANGED cosignVars
        PROVE  \A l, a : InEvidence(l, a) <=> InEvidence(l, a)'
    BY <1>3 DEF cosignVars, InEvidence
  <1>4. ASSUME UNCHANGED faults PROVE NoneDied' <=> NoneDied
    BY <1>4 DEF NoneDied
  <1>5. FaultsGrow => (NoneDied' => NoneDied)
    BY DEF FaultsGrow, FaultKinds, NoneDied
  <1>6. CASE UNCHANGED cosignVars /\ UNCHANGED faults /\ \A l \in Loans : OnLedger(l)' \subseteq OnLedger(l)
    <2>1. LoanSetsEvidenced'
      BY <1>2, <1>3, <1>4, <1>6 DEF LoanSetsEvidenced
    <2> QED BY <1>1, <2>1 DEF LedgerInv
  <1>7. CASE LedgerStep /\ UNCHANGED cosignVars
    BY <1>6, <1>7, LedgerKeeps DEF LedgerStep, executorVars
  <1>8. CASE UNCHANGED allVars
    <2>1. \A l \in Loans : OnLedger(l)' = OnLedger(l)
      BY <1>8 DEF allVars, vars, ledgerVars, OnLedger
    <2> QED BY <1>6, <1>8, <2>1 DEF allVars, vars, executorVars
  <1>9. ASSUME NEW q \in Requests, RequestStep(q) PROVE LedgerInv'
    <2>1. \A l \in Loans : OnLedger(l)' = OnLedger(l)
      BY <1>9, RequestKeepsLedger DEF ledgerVars, OnLedger
    <2>2. NoneDied' => \A l, a : InEvidence(l, a) => InEvidence(l, a)'
      BY <1>0, <1>9, EvKept
    <2>3. NoneDied' => NoneDied
      BY <1>0, <1>5, <1>9, RequestFaults
    <2>4. LoanSetsEvidenced'
      BY <1>2, <2>1, <2>2, <2>3 DEF LoanSetsEvidenced
    <2> QED BY <1>1, <2>4 DEF LedgerInv
  <1>10. ASSUME NEW w \in Workers, WorkerStep(w) \/ Crash(w), UNCHANGED cosignVars
         PROVE  LedgerInv'
    <2>1. NoneDied' => NoneDied
      BY <1>0, <1>5, <1>10, WorkerFaults
    <2>2. ASSUME NEW l \in Loans, OnLedger(l)' # {}, NoneDied'
          PROVE  InEvidence(l, "BROKER_SIGN")' /\ InEvidence(l, "BORROWER_SIGN")'
      <3>1. CASE OnLedger(l) # {}
        BY <1>2, <1>3, <1>10, <2>1, <2>2, <3>1
      <3>2. CASE OnLedger(l) = {}
        <4>1. /\ Meta(w).broker # NoBlob /\ Meta(w).counter # NoBlob /\ MetaOK(Meta(w), l)
          BY <1>10, <2>2, <3>2, WorkerAddsSigned DEF LedgerInv
        <4>2. InEvidence(l, "BROKER_SIGN") /\ InEvidence(l, "BORROWER_SIGN")
          BY <2>1, <2>2, <4>1 DEF MetaOK
        <4> QED BY <1>3, <1>10, <4>2
      <3> QED BY <3>1, <3>2
    <2>3. LoanSetsEvidenced'
      BY <2>2 DEF LoanSetsEvidenced
    <2> QED BY <1>1, <2>3 DEF LedgerInv
  <1> QED BY <1>7, <1>8, <1>9, <1>10 DEF CosignNext

\* A LoanSet that _submitBlobAndLookup has got to the ledger is in the evidence log
\* with both signatures, or about to be, as long as no process dies: whatever the
\* worker held of the row when it did, and whatever the row says by now.
THEOREM LoanSetsAreEvidenced == CosignSpec => []LoanSetsEvidenced
  <1>1. LedgerInv => LoanSetsEvidenced
    BY DEF LedgerInv
  <1> QED
    BY <1>1, CosignInvInit, CosignInvNext, LedgerInvInit, LedgerInvNext, PTL DEF CosignSpec

----------------------------------------------------------------------------
(* VALIDATED is true of LoanSets too: the handlers that write over a row     *)
(* never write that status, and never a hash without another status.         *)

LEMMA TruthRequest ==
  ASSUME CosignTypeInv, TruthInv, NEW q \in Requests, RequestStep(q)
  PROVE  TruthInv'
  <1>1. UNCHANGED ledgerVars /\ UNCHANGED wk
    BY RequestKeepsLedger
  <1>2. \A r \in Rows : outbox'[r] = outbox[r] \/ outbox'[r].status # "validated"
    <2>1. CASE EnqueueLoanSet(q)
      <3>1. UnderWay(q)
        BY <2>1 DEF EnqueueLoanSet, UnderWay
      <3> QED BY <2>1, <3>1, RequestType
              DEF EnqueueLoanSet, CosignTypeInv, TypeInv, OutboxOK, RowRecords
    <2>2. CASE WriteBroker(q) \/ WriteBorrower(q)
      <3>1. UnderWay(q)
        BY <2>2 DEF WriteBroker, WriteBorrower, UnderWay
      <3>2. PICK s \in {"signed_1", "signed_2"} : \E m, h : Sign(q, s, m, h)
        BY <2>2 DEF WriteBroker, WriteBorrower
      <3>3. PICK m, h : Sign(q, s, m, h)
        BY <3>2
      <3> DEFINE o == [outbox[req[q].loan] EXCEPT !.status = s, !.meta = m, !.hash = h]
      <3>4. o.status = s /\ outbox' = [outbox EXCEPT ![req[q].loan] = o]
        BY <3>1, <3>3, RequestType DEF Sign, RowRecords
      <3> HIDE DEF o
      <3> QED BY <3>2, <3>4 DEF CosignTypeInv, TypeInv, OutboxOK
    <2>3. CASE ~(EnqueueLoanSet(q) \/ WriteBroker(q) \/ WriteBorrower(q))
      BY <2>3 DEF RequestStep, CreateLoan, CheckPrepare, UpdateLoan, CheckBroker, FindUnsigned,
                  FindSigned, FindRow, CheckBorrower, AppendEvidence, Abort, vars, executorVars
    <2> QED BY <2>1, <2>2, <2>3
  <1> QED BY <1>1, <1>2, TruthKept DEF RowTruth, WorkerTruth, ledgerVars

LEMMA CosignTruthNext == CosignTypeInv /\ TruthInv /\ [CosignNext]_allVars => TruthInv'
  <1> SUFFICES ASSUME CosignTypeInv, TruthInv, [CosignNext]_allVars PROVE TruthInv'
    OBVIOUS
  <1>1. [Next]_vars => TruthInv'
    BY TruthNext DEF CosignTypeInv
  <1> QED BY <1>1, TruthRequest DEF CosignNext, Next, allVars

\* No request that writes a signature over the row of a LoanSet already executed or
\* refused makes VALIDATED false: a row that says so names a transaction of its own
\* that a validated ledger holds and that succeeded.
THEOREM ValidatedLoanSetsAreOnLedger == CosignSpec => []ValidatedOnLedger
  <1>1. TruthInv => ValidatedOnLedger
    BY DEF TruthInv
  <1>2. CosignInit => TruthInv
    BY TruthInit DEF CosignInit
  <1> QED BY <1>1, <1>2, CosignTypeInit, CosignTypeNext, CosignTruthNext, PTL DEF CosignSpec

----------------------------------------------------------------------------
(* The signing implements the abstract one. Metadata only travels between    *)
(* rows, workers and requests, so that nothing but a request that signs adds *)
(* to the signatures that are kept; a step of anything else keeps or loses.  *)

WritePcs == {"writeBroker", "writeBorrower"}
SignatureOf(m, p) == IF p = "broker" THEN m.broker ELSE m.counter

SnapOf(l, m) == \E w \in Workers : \E s \in Snaps(w) : s.row = l /\ s.meta = m
ReqOf(l, m) == \E q \in Requests : req[q].pc \in WritePcs /\ req[q].loan = l /\ req[q].meta = m

LEMMA KeptIs ==
  ASSUME NEW l, NEW m
  PROVE  /\ m \in Kept(l) <=> m = outbox[l].meta \/ SnapOf(l, m) \/ ReqOf(l, m)
         /\ m \in Kept(l)' <=> m = outbox'[l].meta \/ SnapOf(l, m)' \/ ReqOf(l, m)'
  BY DEF Kept, SnapOf, ReqOf, Snaps, WritePcs

LEMMA SignedIs ==
  ASSUME NEW l
  PROVE  /\ SignedBy(l) = {p \in {"broker", "borrower"} :
                             OnLedger(l) # {} \/ \E m \in Kept(l) : SignatureOf(m, p) # NoBlob}
         /\ SignedBy(l)' = {p \in {"broker", "borrower"} :
                             OnLedger(l)' # {} \/ \E m \in Kept(l)' : SignatureOf(m, p) # NoBlob}
  BY DEF SignedBy, SignatureOf

\* Whatever is kept of a loan, the broker's signature comes first.
LEMMA KeptOK ==
  ASSUME SignInv, NEW l \in Loans, NEW m \in Kept(l)
  PROVE  m.counter # NoBlob => m.broker # NoBlob
  <1>1. CASE m = outbox[l].meta
    BY <1>1, ExecutorAssumption DEF SignInv, RowInv, MetaOK, Loans
  <1>2. CASE SnapOf(l, m)
    <2>0. PICK w \in Workers : \E s \in Snaps(w) : s.row = l /\ s.meta = m
      BY <1>2 DEF SnapOf
    <2>1. PICK s \in Snaps(w) : s.row = l /\ s.meta = m
      BY <2>0
    <2>2. SnapInv(s) /\ s # NoSnapshot
      BY <2>1, ExecutorAssumption DEF SignInv, Loans, NoSnapshot
    <2> QED BY <2>1, <2>2 DEF SnapInv, MetaOK
  <1>3. CASE ReqOf(l, m)
    BY <1>3 DEF ReqOf, SignInv, ReqInv, MetaOK, WritePcs
  <1> QED BY <1>1, <1>2, <1>3, KeptIs

Shapes == {{}, {"broker"}, {"broker", "borrower"}}
ShapesOK == \A l \in Loans : SignedBy(l) \in Shapes

LEMMA SignedShape == SignInv => ShapesOK
  <1> SUFFICES ASSUME SignInv, NEW l \in Loans PROVE SignedBy(l) \in Shapes
    BY DEF ShapesOK
  <1>1. "borrower" \in SignedBy(l) => "broker" \in SignedBy(l)
    BY KeptOK, SignedIs DEF SignatureOf
  <1>2. SignedBy(l) \subseteq {"broker", "borrower"}
    BY SignedIs
  <1> QED BY <1>1, <1>2 DEF Shapes

signed == [l \in Loans |-> SignedBy(l)]
executed == {l \in Loans : Executed(l) # {}}

LendingStep == Lending!Next \/ UNCHANGED <<loan, signed, executed>>

\* A step that adds nothing to what is kept, and gets nothing to the ledger but what
\* both have signed, adds no signature.
LEMMA SignedShrinks ==
  ASSUME NEW l, Kept(l)' \subseteq Kept(l),
         OnLedger(l)' # {} => {"broker", "borrower"} \subseteq SignedBy(l)
  PROVE  SignedBy(l)' \subseteq SignedBy(l)
  BY SignedIs

\* And a step that adds no signature loses some at most.
LEMMA LoseStep ==
  ASSUME ShapesOK', UNCHANGED loan, executed' = executed, validated \subseteq validated',
         \A l \in Loans : SignedBy(l)' \subseteq SignedBy(l)
  PROVE  LendingStep
  <1>1. ASSUME NEW l \in Loans
        PROVE  /\ SignedBy(l)' \subseteq SignedBy(l)
               /\ SignedBy(l)' \in Shapes
               /\ l \in executed => SignedBy(l)' = SignedBy(l)
    <2>1. l \in executed => OnLedger(l)' # {}
      BY DEF executed, Executed, OnLedger
    <2>2. OnLedger(l)' # {} => {"broker", "borrower"} \subseteq SignedBy(l)'
      BY SignedIs
    <2>3. SignedBy(l) \subseteq {"broker", "borrower"}
      BY SignedIs
    <2>4. SignedBy(l)' \in Shapes
      BY DEF ShapesOK
    <2> QED BY <2>1, <2>2, <2>3, <2>4
  <1>2. Lending!Lose
    BY <1>1 DEF Lending!Lose, Lending!Parties, Shapes, signed, executed
  <1> QED BY <1>2 DEF LendingStep, Lending!Next

\* What is on the ledger both have signed.
LEMMA LedgerSigned ==
  ASSUME NEW l, OnLedger(l) # {}
  PROVE  {"broker", "borrower"} \subseteq SignedBy(l)
  BY SignedIs

LEMMA PromiseWorker ==
  ASSUME CosignInv, BlobInv, ShapesOK', NEW w \in Workers, WorkerStep(w) \/ Crash(w),
         UNCHANGED cosignVars
  PROVE  LendingStep
  <1>0. TypeInv /\ SignInv
    BY DEF CosignInv, CosignTypeInv
  <1>1. Frame
    <2>1. HeldPresent
      BY <1>0, ExecutorAssumption DEF SignInv, SnapInv, HeldPresent, NoSnapshot
    <2> QED BY <1>0, <2>1, FrameStep
  <1>2. ASSUME NEW l \in Loans, NEW m \in Kept(l)' PROVE m \in Kept(l)
    <2>1. l \in Rows /\ l # NoSnapshot.row
      BY ExecutorAssumption DEF Loans, NoSnapshot
    <2>2. CASE m = outbox'[l].meta
      BY <1>1, <2>1, <2>2, KeptIs DEF Frame, RowFrame, SnapOf
    <2>3. CASE SnapOf(l, m)'
      <3>1. PICK v \in Workers : \E s \in Snaps(v)' : s.row = l /\ s.meta = m
        BY <2>3 DEF SnapOf
      <3>2. PICK s \in Snaps(v)' : s.row = l /\ s.meta = m
        BY <3>1
      <3>3. SnapFrame(s)
        BY <1>1, <3>2 DEF Frame
      <3> QED BY <2>1, <3>2, <3>3, KeptIs DEF SnapFrame, SnapOf
    <2>4. CASE ReqOf(l, m)'
      BY <2>4, KeptIs DEF ReqOf, cosignVars
    <2> QED BY <2>2, <2>3, <2>4, KeptIs
  <1>3. ASSUME NEW l \in Loans, OnLedger(l)' # {}
        PROVE  {"broker", "borrower"} \subseteq SignedBy(l)
    <2>1. CASE OnLedger(l) # {}
      BY <2>1, LedgerSigned
    <2>2. CASE OnLedger(l) = {}
      <3>1. /\ wk[w].cur \in Snaps(w) /\ wk[w].cur.row = l /\ wk[w].cur.meta = Meta(w)
            /\ Meta(w).broker # NoBlob /\ Meta(w).counter # NoBlob
        BY <1>3, <2>2, WorkerAddsSigned DEF Snaps, Row, Meta
      <3>2. Meta(w) \in Kept(l)
        BY <3>1, KeptIs DEF SnapOf
      <3> QED BY <3>1, <3>2, SignedIs DEF SignatureOf
    <2> QED BY <2>1, <2>2
  <1>4. UNCHANGED validated
    BY <1>0, WorkerAdds
  <1>5. executed' = executed
    BY <1>4 DEF executed, Executed
  <1> QED BY <1>2, <1>3, <1>4, <1>5, SignedShrinks, LoseStep DEF cosignVars

LEMMA PromiseLedger ==
  ASSUME ShapesOK', LedgerStep, UNCHANGED cosignVars
  PROVE  LendingStep
  <1>1. PICK t \in pool : Validate(t) \/ Expire(t)
    BY DEF LedgerStep
  <1>2. UNCHANGED <<outbox, wk, loan, req>>
    BY DEF LedgerStep, executorVars, cosignVars
  <1>3. \A l \in Loans : Kept(l)' = Kept(l)
    BY <1>2 DEF Kept
  <1>4. CASE Expire(t)
    <2>1. UNCHANGED validated
      BY <1>4 DEF Expire
    <2>2. executed' = executed
      BY <2>1 DEF executed, Executed
    <2>3. \A l \in Loans : OnLedger(l)' # {} => {"broker", "borrower"} \subseteq SignedBy(l)
      BY LedgerKeeps, LedgerSigned
    <2> QED BY <1>2, <1>3, <2>1, <2>2, <2>3, SignedShrinks, LoseStep
  <1>5. CASE Validate(t)
    <2>0. PICK c \in FinalCodes : /\ validated' = validated \cup {[tx |-> t, code |-> c]}
                                  /\ pool' = pool \ {t}
      BY <1>5 DEF Validate
    <2> DEFINE x == [tx |-> t, code |-> c]
    <2>1. x.tx = t /\ x.code = c /\ validated' = validated \cup {x} /\ pool' = pool \ {t}
      BY <2>0
    <2> HIDE DEF x
    <2>2. \A l \in Loans : OnLedger(l)' = OnLedger(l)
      <3>1. \A u : u \in pool' \cup {v.tx : v \in validated'}
                     <=> u \in pool \cup {v.tx : v \in validated}
        <4>1. ASSUME NEW u
              PROVE  (\E v \in validated' : v.tx = u) <=> (u = t \/ \E v \in validated : v.tx = u)
          BY <2>1
        <4>2. \A u : u \in pool' <=> u \in pool /\ u # t
          BY <2>1
        <4> QED BY <1>1, <4>1, <4>2
      <3> QED BY <3>1 DEF OnLedger
    <2>3. signed' = signed
      BY <1>3, <2>2, SignedIs DEF signed
    <2>4. CASE t.row \in Loans /\ ClassifyResult(c) = "success"
      <3>1. executed' = executed \cup {t.row}
        <4>1. ASSUME NEW l \in Loans PROVE Executed(l)' # {} <=> (Executed(l) # {} \/ l = t.row)
          <5>1. CASE l = t.row
            <6>1. x \in Executed(l)'
              BY <2>1, <2>4, <5>1 DEF Executed
            <6> QED BY <5>1, <6>1
          <5>2. CASE l # t.row
            BY <2>1, <5>2 DEF Executed
          <5> QED BY <5>1, <5>2
        <4> QED BY <2>4, <4>1 DEF executed
      <3>2. OnLedger(t.row) # {}
        BY <1>1 DEF OnLedger
      <3>3. SignedBy(t.row) = {"broker", "borrower"}
        BY <3>2, LedgerSigned, SignedIs
      <3>4. Lending!Execute(t.row)
        BY <1>2, <2>3, <2>4, <3>1, <3>3 DEF Lending!Execute, Lending!Parties, signed, executed
      <3> QED BY <2>4, <3>4 DEF LendingStep, Lending!Next
    <2>5. CASE ~(t.row \in Loans /\ ClassifyResult(c) = "success")
      <3>1. executed' = executed
        BY <2>1, <2>5 DEF executed, Executed
      <3> QED BY <1>2, <2>3, <3>1 DEF LendingStep
    <2> QED BY <2>4, <2>5
  <1> QED BY <1>1, <1>4, <1>5

\* A request that signs for the broker found the loan waiting, and it still is.
BrokerPending ==
    \A q \in Requests :
        req[q].pc \in {"findUnsigned", "writeBroker"} => loan[req[q].loan] = "cosign_pending"

LEMMA PendingStays ==
  ASSUME CosignTypeInv, NEW q \in Requests, RequestStep(q), NEW l \in Loans,
         loan[l] = "cosign_pending"
  PROVE  loan'[l] = "cosign_pending"
  <1>1. loan \in [Loans -> LoanStatuses]
    BY DEF CosignTypeInv
  <1>2. \/ UNCHANGED loan
        \/ \E k \in Loans : loan[k] = "absent" /\ loan' = [loan EXCEPT ![k] = "approved"]
        \/ loan' = [loan EXCEPT ![req[q].loan] = "cosign_pending"]
    BY DEF RequestStep, CreateLoan, CheckPrepare, EnqueueLoanSet, UpdateLoan, CheckBroker,
           FindUnsigned, FindSigned, FindRow, WriteBroker, WriteBorrower, Sign, CheckBorrower,
           AppendEvidence, Abort
  <1> QED BY <1>1, <1>2

LEMMA BrokerPendingNext ==
  CosignTypeInv /\ BrokerPending /\ [CosignNext]_allVars => BrokerPending'
  <1> SUFFICES ASSUME CosignTypeInv, BrokerPending, [CosignNext]_allVars PROVE BrokerPending'
    OBVIOUS
  <1>1. CASE UNCHANGED cosignVars
    BY <1>1 DEF cosignVars, BrokerPending
  <1>2. ASSUME NEW q \in Requests, RequestStep(q) PROVE BrokerPending'
    <2>1. ASSUME NEW p \in Requests, p # q, req'[p].pc \in {"findUnsigned", "writeBroker"}
          PROVE  loan'[req'[p].loan] = "cosign_pending"
      <3>1. req'[p] = req[p]
        BY <1>2, <2>1, RequestMove
      <3>2. req[p].loan \in Loans
        BY <2>1, <3>1, RequestType DEF UnderWay
      <3> QED BY <1>2, <2>1, <3>1, <3>2, PendingStays DEF BrokerPending
    <2>2. ASSUME req'[q].pc \in {"findUnsigned", "writeBroker"}
          PROVE  loan'[req'[q].loan] = "cosign_pending"
      <3>1. Begins(q) \/ GoesOn(q)
        <4>1. Creates(q) \/ Begins(q) \/ GoesOn(q) \/ Ends(q)
          BY <1>2, RequestMove
        <4>2. Creates(q) => req'[q].pc = "evidence"
          BY DEF Creates, Request
        <4>3. Ends(q) => req'[q].pc = "done"
          BY DEF Ends, Done
        <4> QED BY <2>2, <4>1, <4>2, <4>3
      <3>2. CASE Begins(q)
        BY <2>2, <3>2, BeginsWith
      <3>3. CASE GoesOn(q)
        <4>1. req[q].pc \in {"findUnsigned", "writeBroker"} /\ req'[q].loan = req[q].loan
          BY <2>2, <3>3 DEF GoesOn, Continuations
        <4>2. req[q].loan \in Loans
          BY <4>1, RequestType DEF UnderWay
        <4> QED BY <1>2, <4>1, <4>2, PendingStays DEF BrokerPending
      <3> QED BY <3>1, <3>2, <3>3
    <2> QED BY <2>1, <2>2 DEF BrokerPending
  <1> QED BY <1>1, <1>2 DEF CosignNext, allVars

\* What a request's step adds to the metadata kept of a loan is what it leaves in the
\* row or has read of it; only a request that was about to write takes some away.
LEMMA RequestKept ==
  ASSUME CosignTypeInv, NEW q \in Requests, RequestStep(q), NEW l, NEW m
  PROVE  /\ m \in Kept(l)' => \/ m \in Kept(l) \/ m = outbox'[l].meta
                              \/ req'[q].pc \in WritePcs /\ req'[q].loan = l /\ req'[q].meta = m
         /\ m \in Kept(l) /\ outbox'[l].meta = outbox[l].meta
              /\ (req[q].pc \in WritePcs => req[q].loan # l)
            => m \in Kept(l)'
  <1>1. SnapOf(l, m)' <=> SnapOf(l, m)
    <2>1. UNCHANGED wk
      BY RequestKeepsLedger
    <2> QED BY <2>1 DEF SnapOf, Snaps
  <1>2. ReqOf(l, m)' => \/ ReqOf(l, m)
                        \/ req'[q].pc \in WritePcs /\ req'[q].loan = l /\ req'[q].meta = m
    BY RequestMove DEF ReqOf
  <1>3. ReqOf(l, m) /\ (req[q].pc \in WritePcs => req[q].loan # l) => ReqOf(l, m)'
    BY RequestMove DEF ReqOf
  <1> QED BY <1>1, <1>2, <1>3, KeptIs

LEMMA WriteMoves ==
  ASSUME CosignInv, NEW q \in Requests, WriteBroker(q) \/ WriteBorrower(q)
  PROVE  /\ req[q].loan \in Loans /\ req[q].meta \in Kept(req[q].loan)
         /\ req[q].pc \in WritePcs /\ req'[q].pc = "evidence" /\ UNCHANGED loan
         /\ \A l \in Loans : l # req[q].loan => outbox'[l].meta = outbox[l].meta
         /\ \E n \in Metadata :
              /\ outbox'[req[q].loan].meta = n
              /\ WriteBroker(q) => n.broker # NoBlob /\ n.counter = req[q].meta.counter
              /\ WriteBorrower(q) => /\ req[q].meta.broker # NoBlob
                                     /\ n.broker = req[q].meta.broker
                                     /\ n.counter = req[q].meta.broker
  <1>0. CosignTypeInv /\ SignInv /\ Loans \subseteq Rows
    BY ExecutorAssumption DEF CosignInv, Loans
  <1>1. UnderWay(q) /\ req[q].pc \in WritePcs
    BY DEF WriteBroker, WriteBorrower, UnderWay, WritePcs
  <1>2. PICK k \in Loans, m \in Metadata :
          /\ k = req[q].loan /\ m = req[q].meta /\ k \in Rows
          /\ outbox[k] \in RowRecords
    BY <1>0, <1>1, RequestType DEF RequestRecords
  <1>3. m \in Kept(k)
    BY <1>1, <1>2, KeptIs DEF ReqOf
  <1>4. PICK s \in {"signed_1", "signed_2"}, n \in Metadata, h \in Txs \cup {NoTx} :
          /\ Sign(q, s, n, h)
          /\ WriteBroker(q) => n.broker # NoBlob /\ n.counter = m.counter
          /\ WriteBorrower(q) => m.broker # NoBlob /\ n.broker = m.broker /\ n.counter = m.broker
    <2>1. CASE WriteBroker(q)
      <3>1. PICK b \in 1..nextSeq :
              Sign(q, "signed_1", [m EXCEPT !.broker = b], BrokerHash(k, b))
        BY <1>2, <2>1 DEF WriteBroker
      <3>2. nextSeq \in Nat
        BY <1>0 DEF CosignTypeInv, TypeInv, LedgerOK
      <3> DEFINE n == [m EXCEPT !.broker = b]
      <3>3. n \in Metadata /\ n.broker = b /\ n.counter = m.counter /\ b # NoBlob
        BY <3>2 DEF Metadata, NoBlob
      <3>4. BrokerHash(k, b) \in Txs
        BY <1>2, <3>2, ExecutorAssumption DEF BrokerHash, Txs
      <3> HIDE DEF n
      <3>5. Sign(q, "signed_1", n, BrokerHash(k, b))
        BY <3>1 DEF n
      <3>6. ~WriteBorrower(q)
        BY <2>1 DEF WriteBroker, WriteBorrower
      <3> QED BY <3>3, <3>4, <3>5, <3>6
    <2>2. CASE WriteBorrower(q)
      <3> DEFINE n == [m EXCEPT !.counter = m.broker]
      <3>1. n \in Metadata /\ n.broker = m.broker /\ n.counter = m.broker
        BY DEF Metadata
      <3>2. outbox[k].hash \in Txs \cup {NoTx}
        BY <1>2 DEF RowRecords
      <3>3. Sign(q, "signed_2", n, outbox[k].hash)
        BY <1>2, <2>2 DEF WriteBorrower
      <3>4. m.broker # NoBlob
        BY <1>0, <1>2, <2>2 DEF WriteBorrower, SignInv, ReqInv
      <3>5. ~WriteBroker(q)
        BY <2>2 DEF WriteBroker, WriteBorrower
      <3> HIDE DEF n
      <3> QED BY <3>1, <3>2, <3>3, <3>4, <3>5
    <2> QED BY <2>1, <2>2
  <1>5. \A r \in Rows : IF r = k THEN outbox'[r].meta = n ELSE outbox'[r] = outbox[r]
    BY <1>0, <1>1, <1>2, <1>4, SignType DEF OutboxStatuses
  <1>6. req'[q].pc = "evidence" /\ UNCHANGED loan
    <2>1. Await(q, "evidence") /\ UNCHANGED loan
      BY <1>4 DEF Sign
    <2>2. req'[q].pc = "evidence"
      BY <1>0, <1>1, <2>1, AwaitMoves, RequestMoves
    <2> QED BY <2>1, <2>2
  <1> QED BY <1>0, <1>1, <1>2, <1>3, <1>4, <1>5, <1>6

\* A signature is stored: the loan has one party more, or as many, or it has lost
\* the counterparty's to a request that read the row before.
LEMMA PromiseWrite ==
  ASSUME CosignInv, BrokerPending, ShapesOK, ShapesOK', NEW q \in Requests, RequestStep(q),
         WriteBroker(q) \/ WriteBorrower(q)
  PROVE  LendingStep
  <1>0. CosignTypeInv /\ UNCHANGED ledgerVars
    BY RequestKeepsLedger DEF CosignInv
  <1>1. PICK k, m :
          /\ k = req[q].loan /\ m = req[q].meta /\ k \in Loans /\ m \in Kept(k)
          /\ req[q].pc \in WritePcs /\ req'[q].pc = "evidence" /\ UNCHANGED loan
          /\ \A l \in Loans : l # k => outbox'[l].meta = outbox[l].meta
    BY WriteMoves
  <1>2. PICK n :
          /\ outbox'[k].meta = n
          /\ WriteBroker(q) => n.broker # NoBlob /\ n.counter = m.counter
          /\ WriteBorrower(q) => m.broker # NoBlob /\ n.broker = m.broker /\ n.counter = m.broker
    BY <1>1, WriteMoves
  <1>3. /\ executed' = executed /\ validated \subseteq validated'
        /\ \A l : OnLedger(l)' = OnLedger(l)
    BY <1>0 DEF ledgerVars, executed, Executed, OnLedger
  <1>4. req'[q].pc \notin WritePcs
    BY <1>1 DEF WritePcs
  <1>5. ASSUME NEW l \in Loans, l # k PROVE SignedBy(l)' = SignedBy(l)
    <2>1. \A x : x \in Kept(l)' <=> x \in Kept(l)
      <3>1. outbox'[l].meta = outbox[l].meta /\ outbox[l].meta \in Kept(l)
        BY <1>1, <1>5, KeptIs
      <3> QED BY <1>0, <1>1, <1>4, <1>5, <3>1, RequestKept
    <2> QED BY <1>3, <2>1, SignedIs
  <1>6. /\ \A x \in Kept(k)' : x \in Kept(k) \/ x = n
        /\ n \in Kept(k)'
    BY <1>0, <1>2, <1>4, RequestKept, KeptIs
  <1>7. CASE WriteBroker(q)
    <2>1. SignedBy(k)' \subseteq SignedBy(k) \cup {"broker"} /\ "broker" \in SignedBy(k)'
      BY <1>1, <1>2, <1>3, <1>6, <1>7, SignedIs DEF SignatureOf
    <2>2. CASE "broker" \in SignedBy(k)
      BY <1>1, <1>3, <1>5, <2>1, <2>2, LoseStep
    <2>3. CASE "broker" \notin SignedBy(k)
      <3>1. SignedBy(k)' = SignedBy(k) \cup {"broker"}
        BY <1>1, <2>1, <2>3 DEF ShapesOK, Shapes
      <3>2. signed' = [signed EXCEPT ![k] = @ \cup {"broker"}]
        BY <1>1, <1>5, <3>1 DEF signed
      <3>3. loan[k] = "cosign_pending"
        BY <1>1, <1>7 DEF BrokerPending, WriteBroker
      <3>4. Lending!Sign(k, "broker")
        BY <1>1, <1>3, <3>2, <3>3 DEF Lending!Sign, signed, executed
      <3> QED BY <1>1, <3>4 DEF LendingStep, Lending!Next, Lending!Parties
    <2> QED BY <2>2, <2>3
  <1>8. CASE WriteBorrower(q)
    <2>1. SignedBy(k)' = {"broker", "borrower"} /\ "broker" \in SignedBy(k)
      BY <1>1, <1>2, <1>6, <1>8, SignedIs DEF SignatureOf
    <2>2. SignedBy(k)' = SignedBy(k) \cup {"borrower"}
      BY <1>1, <2>1 DEF ShapesOK, Shapes
    <2>3. signed' = [signed EXCEPT ![k] = @ \cup {"borrower"}]
      BY <1>1, <1>5, <2>2 DEF signed
    <2>4. Lending!Sign(k, "borrower")
      BY <1>1, <1>3, <2>1, <2>3 DEF Lending!Sign, signed, executed
    <2> QED BY <1>1, <2>4 DEF LendingStep, Lending!Next, Lending!Parties
  <1> QED BY <1>7, <1>8

LEMMA PromiseRequest ==
  ASSUME CosignInv, BrokerPending, ShapesOK, ShapesOK', NEW q \in Requests, RequestStep(q)
  PROVE  LendingStep
  <1>0. /\ CosignTypeInv /\ DutyInv /\ UNCHANGED ledgerVars
        /\ loan \in [Loans -> LoanStatuses]
        /\ req \in [Requests -> RequestRecords \cup {NotMade, Done}]
    BY RequestKeepsLedger DEF CosignInv, CosignTypeInv
  <1>1. /\ executed' = executed /\ validated \subseteq validated'
        /\ \A l : OnLedger(l)' = OnLedger(l)
    BY <1>0 DEF ledgerVars, executed, Executed, OnLedger
  <1>2. ASSUME UNCHANGED loan, \A l \in Loans : outbox'[l].meta = outbox[l].meta,
               req'[q].pc \in WritePcs =>
                 \E l \in Loans : /\ req'[q].loan = l /\ req'[q].meta = outbox[l].meta
        PROVE  LendingStep
    <2>1. ASSUME NEW l \in Loans, NEW m \in Kept(l)' PROVE m \in Kept(l)
      BY <1>0, <1>2, RequestKept, KeptIs
    <2> QED BY <1>1, <1>2, <2>1, SignedShrinks, LedgerSigned, LoseStep
  <1>3. ASSUME UNCHANGED outbox, req[q].pc \notin WritePcs, req'[q].pc \notin WritePcs
        PROVE  signed' = signed
    <2>1. ASSUME NEW l \in Loans, NEW m PROVE m \in Kept(l)' <=> m \in Kept(l)
      BY <1>0, <1>3, RequestKept, KeptIs
    <2> QED BY <1>1, <2>1, SignedIs DEF signed
  <1>4. CASE CreateLoan(q)
    <2>1. PICK l \in Loans, u \in Staff :
            /\ loan[l] = "absent"
            /\ loan' = [loan EXCEPT ![l] = "approved"]
            /\ req' = [req EXCEPT ![q] = Request("evidence", l, u, "LOAN_APPROVE")]
      BY <1>4 DEF CreateLoan
    <2>2. /\ req[q].pc \notin WritePcs /\ UNCHANGED outbox
          /\ req'[q] = Request("evidence", l, u, "LOAN_APPROVE")
      BY <1>0, <1>4, <2>1 DEF CreateLoan, NotMade, WritePcs, vars, executorVars
    <2>3. signed' = signed
      BY <1>3, <2>2 DEF Request, WritePcs
    <2>4. Lending!Approve(l)
      BY <1>1, <2>1, <2>3 DEF Lending!Approve, signed, executed
    <2> QED BY <2>4 DEF LendingStep, Lending!Next
  <1>5. CASE UpdateLoan(q)
    <2>1. /\ UnderWay(q) /\ req[q].pc = "updateLoan" /\ UNCHANGED outbox
          /\ loan' = [loan EXCEPT ![req[q].loan] = "cosign_pending"]
          /\ Await(q, "evidence")
      BY <1>5 DEF UpdateLoan, UnderWay, vars, executorVars
    <2>2. PICK l \in Loans : l = req[q].loan /\ Known(l)
      <3>1. req[q].loan \in Loans
        BY <1>0, <2>1, RequestType
      <3>2. req[q].action \in Submissions
        BY <1>0, <2>1 DEF DutyInv, LinkOK, Submissions
      <3> QED BY <1>0, <2>1, <3>1, <3>2 DEF DutyInv
    <2>3. signed' = signed
      <3>1. req'[q].pc = "evidence"
        BY <1>0, <2>1, AwaitMoves
      <3> QED BY <1>3, <2>1, <3>1 DEF WritePcs
    <2>4. CASE loan[l] = "approved"
      <3>1. Lending!Prepare(l)
        BY <1>1, <2>1, <2>2, <2>3, <2>4 DEF Lending!Prepare, signed, executed
      <3> QED BY <3>1 DEF LendingStep, Lending!Next
    <2>5. CASE loan[l] = "cosign_pending"
      <3>1. UNCHANGED loan
        BY <1>0, <2>1, <2>2, <2>5
      <3> QED BY <1>1, <2>3, <3>1 DEF LendingStep
    <2> QED BY <1>0, <2>2, <2>4, <2>5 DEF Known, LoanStatuses
  <1>6. CASE CheckPrepare(q) \/ CheckBroker(q) \/ CheckBorrower(q)
    <2>1. UNCHANGED <<loan, outbox>>
      BY <1>6 DEF CheckPrepare, CheckBroker, CheckBorrower, vars, executorVars
    <2>2. req'[q].pc \in {"enqueue", "findUnsigned", "findSigned"}
      BY <1>0, <1>6 DEF CheckPrepare, CheckBroker, CheckBorrower, Request
    <2> QED BY <1>2, <2>1, <2>2 DEF WritePcs
  <1>7. CASE EnqueueLoanSet(q)
    <2>1. UnderWay(q) /\ UNCHANGED loan
      BY <1>7 DEF EnqueueLoanSet, UnderWay
    <2>2. Answered(q) \/ Await(q, "updateLoan")
      BY <1>7 DEF EnqueueLoanSet
    <2>3. req'[q].pc \in {"done", "updateLoan"}
      <3>1. Answered(q) => req'[q].pc = "done"
        BY <1>0 DEF Answered, Done
      <3>2. Await(q, "updateLoan") => req'[q].pc = "updateLoan"
        BY <1>0, <2>1, AwaitMoves
      <3> QED BY <2>2, <3>1, <3>2
    <2>4. \A l \in Loans : outbox'[l].meta = outbox[l].meta
      <3>1. Loans \subseteq Rows /\ req[q].loan \in Rows
        BY <1>0, <2>1, RequestType, ExecutorAssumption DEF Loans
      <3> QED BY <1>0, <1>7, <3>1 DEF EnqueueLoanSet, CosignTypeInv, TypeInv, OutboxOK, RowRecords
    <2> QED BY <1>2, <2>1, <2>3, <2>4 DEF WritePcs
  <1>8. CASE FindUnsigned(q) \/ FindSigned(q)
    <2>1. UnderWay(q) /\ UNCHANGED <<loan, outbox>>
      BY <1>8 DEF FindUnsigned, FindSigned, FindRow, UnderWay, vars, executorVars
    <2>2. PICK l \in Loans : l = req[q].loan /\ req[q] \in RequestRecords
      BY <1>0, <2>1, RequestType
    <2>3. CASE Answered(q)
      <3>1. req'[q].pc = "done"
        BY <1>0, <2>3 DEF Answered, Done
      <3> QED BY <1>2, <2>1, <3>1 DEF WritePcs
    <2>4. ASSUME NEW p \in WritePcs,
                 req' = [req EXCEPT ![q].pc = p, ![q].meta = outbox[l].meta]
          PROVE  LendingStep
      <3> DEFINE x == [req[q] EXCEPT !.pc = p, !.meta = outbox[l].meta]
      <3>1. x.meta = outbox[l].meta /\ x.loan = l /\ req' = [req EXCEPT ![q] = x]
        BY <2>2, <2>4 DEF RequestRecords
      <3> HIDE DEF x
      <3>2. req'[q] = x
        BY <1>0, <3>1
      <3> QED BY <1>2, <2>1, <3>1, <3>2
    <2> QED BY <1>8, <2>2, <2>3, <2>4 DEF FindUnsigned, FindSigned, FindRow, WritePcs
  <1>9. CASE AppendEvidence(q) \/ Abort(q)
    <2>1. UNCHANGED <<loan, outbox>> /\ req'[q] = Done
      BY <1>0, <1>9 DEF AppendEvidence, Abort, Answered, vars, executorVars
    <2> QED BY <1>2, <2>1 DEF Done, WritePcs
  <1> QED
    BY <1>4, <1>5, <1>6, <1>7, <1>8, <1>9, PromiseWrite DEF RequestStep

LEMMA PromiseNext ==
  ASSUME CosignInv, BlobInv, BrokerPending, ShapesOK, ShapesOK', [CosignNext]_allVars
  PROVE  LendingStep
  <1>1. CASE UNCHANGED allVars
    BY <1>1 DEF allVars, vars, ledgerVars, executorVars, cosignVars, LendingStep, signed, executed,
                SignedBy, Kept, OnLedger, Executed
  <1> QED BY <1>1, PromiseRequest, PromiseWorker, PromiseLedger DEF CosignNext

LEMMA LendingInit == CosignInit => Lending!Init /\ BrokerPending
  <1> SUFFICES ASSUME CosignInit PROVE Lending!Init /\ BrokerPending
    OBVIOUS
  <1>1. BrokerPending
    BY DEF CosignInit, NotMade, BrokerPending
  <1>2. ASSUME NEW l \in Loans PROVE SignedBy(l) = {}
    <2>1. OnLedger(l) = {}
      BY DEF CosignInit, Init, LedgerInit, OnLedger
    <2>2. ASSUME NEW m \in Kept(l) PROVE m = NoMeta
      <3>1. outbox[l].meta = NoMeta
        BY ExecutorAssumption DEF CosignInit, Init, ExecutorInit, AbsentRow, Loans
      <3>2. ~SnapOf(l, m)
        BY ExecutorAssumption
           DEF CosignInit, Init, ExecutorInit, Started, Snaps, SnapOf, NoSnapshot, Loans
      <3>3. ~ReqOf(l, m)
        BY DEF CosignInit, NotMade, ReqOf, WritePcs
      <3> QED BY <3>1, <3>2, <3>3, KeptIs
    <2> QED BY <2>1, <2>2, SignedIs DEF SignatureOf, NoMeta
  <1>3. executed = {}
    BY DEF CosignInit, Init, LedgerInit, Executed, executed
  <1>4. Lending!Init
    BY <1>2, <1>3 DEF Lending!Init, executed, CosignInit
  <1> QED BY <1>1, <1>4

\* The handlers of loans.service.js and the worker implement the abstract signing:
\* however they overlap and fail and write over each other, the broker only signs a
\* loan that waits for it, the borrower only what the broker has signed, and no
\* LoanSet executes on the ledger that has not got both signatures.
THEOREM SigningKeepsPromise == CosignSpec => KeepsLoanPromise
  <1>1. CosignInv /\ CosignInv' /\ BlobInv /\ BrokerPending /\ [CosignNext]_allVars
          => [Lending!Next]_(Lending!promiseVars)
    <2>1. CosignInv => ShapesOK
      BY SignedShape DEF CosignInv
    <2>2. CosignInv' => ShapesOK'
      BY <2>1, PTL
    <2> QED BY <2>1, <2>2, PromiseNext DEF LendingStep, Lending!promiseVars, signed, executed
  <1>2. CosignInv => CosignTypeInv
    BY DEF CosignInv
  <1> QED
    BY <1>1, <1>2, CosignInvInit, CosignInvNext, BlobInit, BlobNext, BrokerPendingNext, LendingInit,
       PTL DEF CosignSpec, KeepsLoanPromise, Lending!Spec

================================================================================
