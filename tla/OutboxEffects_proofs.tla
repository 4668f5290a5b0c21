------------------------- MODULE OutboxEffects_proofs -------------------------
(* Theorems about what OutboxExecutor's rows do to the ledger, for every    *)
(* set of rows and workers, every answer of the ledger and every            *)
(* combination of faults: how many transactions a row brings to it, and     *)
(* what the row still tells of them.                                        *)
EXTENDS OutboxExecutor_proofs, FiniteSetTheorems

----------------------------------------------------------------------------
(* The invariant. Of a worker it says, for each place of its program, what  *)
(* status its row has (unless a statement has failed), how the transactions *)
(* S of that row on the ledger compare with its attempts, and (if it is     *)
(* informed) which they are.                                                *)

NoneFailed == faults["db"] = 0

Busy(x) == x.pc \notin {"idle", "next"}

\* Where a worker's row is neither in the state of its claim nor settled yet.
Underway == {"noSigner", "reserve", "submit", "resubmit", "lookup", "found", "unknown",
             "rejected", "caught", "submitBlob", "resubmitBlob", "lookupBlob", "foundBlob",
             "awaitBlob", "rejectedBlob", "cosignCaught"}

StatusFits(p, status) ==
    /\ p \in {"begin", "unhandled"} => status = "processing"
    /\ p \in Underway => status = "submitted"

\* Where an informed worker knows its transaction to be in, or refused; before
\* that there is none.
Answered == {"lookup", "found", "unknown", "rejected", "record", "lookupBlob", "foundBlob",
             "awaitBlob", "rejectedBlob", "recordBlob"}

BlobTx(x) == [row |-> x.cur.row, attempt |-> 0, seq |-> x.cur.meta.counter]

AttemptsFit(x, S) ==
    /\ x.pc \in {"idle", "next", "begin", "submitBlob", "resubmitBlob"} => x.attempt = 0
    /\ x.pc \in {"submit", "resubmit"} => x.tx.attempt = x.attempt
    /\ Busy(x) => \A t \in S :
         /\ t.attempt <= x.attempt
         /\ x.pc \in {"begin", "reserve", "submit", "submitBlob"} => t.attempt < x.attempt
         /\ x.pc = "resubmit" => t.attempt < x.attempt \/ t = x.tx
         /\ x.pc = "resubmitBlob" => t = BlobTx(x)

Told(x, S) ==
    Busy(x) =>
        /\ x.pc \notin Answered => S = {}
        /\ S \subseteq {x.tx}
        /\ x.pc \in {"rejected", "rejectedBlob"} /\ ClassifyResult(x.code) # "manual_review"
             => S = {}

\* The rows of a batch are distinct, and none has been worked on yet.
BatchOK(x) ==
    /\ \A s \in x.batch :
         /\ OnLedger(s.row) = {}
         /\ NoneFailed => outbox[s.row].status = "processing"
         /\ Busy(x) => s.row # x.cur.row
    /\ \A s, q \in x.batch : s.row = q.row => s = q

WorkerOK(x) ==
    /\ BatchOK(x)
    /\ AttemptsFit(x, OnLedger(x.cur.row))
    /\ Busy(x) /\ NoneFailed => StatusFits(x.pc, outbox[x.cur.row].status)
    /\ Informed => Told(x, OnLedger(x.cur.row))

\* A record o of row r is true of the transactions of that row.
TrueOf(o, r) ==
    /\ \A t \in OnLedger(r) : o.status = "submitted" \/ o.hash = t
    /\ o.status = "failed" => Executed(r) = {} /\ \A t \in pool : t.row # r

RowOK(r) ==
    /\ OnLedger(r) # {} => outbox[r].status \notin Unclaimed
    /\ Informed => TrueOf(outbox[r], r)

InLedger == pool \cup {v.tx : v \in validated}

AttemptsOK ==
    /\ \A t, u \in InLedger : t.row = u.row /\ t.attempt = u.attempt => t = u
    /\ \A t \in InLedger :
         t.attempt <= MaxSubmitRetries /\ (t.row \in CosignedRows => t.attempt = 0)

OneEach ==
    /\ \A t, u \in InLedger : t.row = u.row => t = u
    /\ \A u, v \in validated : u.tx = v.tx => u = v
    /\ \A v \in validated : v.tx \notin pool

EffectInv ==
    /\ AttemptsOK
    /\ Informed => OneEach
    /\ \A r \in Rows : RowOK(r)
    /\ \A w \in Workers : WorkerOK(wk[w])

LEMMA EffectInit == Init => EffectInv
  <1> SUFFICES ASSUME Init PROVE EffectInv
    OBVIOUS
  <1>1. InLedger = {} /\ \A r : OnLedger(r) = {} /\ Executed(r) = {}
    BY DEF Init, LedgerInit, InLedger, OnLedger, Executed
  <1>2. validated = {}
    BY DEF Init, LedgerInit
  <1>3. \A r \in Rows : outbox[r].status = "absent"
    BY DEF Init, ExecutorInit, AbsentRow
  <1>4. \A r \in Rows : RowOK(r)
    BY <1>1, <1>3 DEF RowOK, TrueOf
  <1>5. ASSUME NEW w \in Workers PROVE WorkerOK(wk[w])
    <2>1. wk[w].pc = "idle" /\ wk[w].batch = {} /\ wk[w].attempt = 0
      BY DEF Init, ExecutorInit, Started
    <2> QED BY <1>1, <2>1 DEF WorkerOK, BatchOK, AttemptsFit, Told, Busy
  <1> QED BY <1>1, <1>2, <1>4, <1>5 DEF EffectInv, AttemptsOK, OneEach

----------------------------------------------------------------------------
(* The forms of a step.                                                     *)

LEMMA LedgerTyped ==
  ASSUME TypeInv
  PROVE  /\ InLedger \subseteq Txs
         /\ \A r : OnLedger(r) = {t \in InLedger : t.row = r}
  BY DEF TypeInv, LedgerOK, InLedger, OnLedger

\* What a step may learn of the faults.
LEMMA FaultsGrow ==
  ASSUME TypeInv,
         \/ NoFault \/ UNCHANGED faults
         \/ Fault("net") \/ Fault("lost") \/ Fault("db") \/ Fault("crash")
  PROVE  /\ Informed' => Informed
         /\ NoneFailed' => NoneFailed
  <1>1. faults \in [FaultKinds -> Nat]
    BY DEF TypeInv, FaultsOK
  <1> QED BY <1>1 DEF NoFault, Fault, FaultKinds, Informed, NoneFailed

LEMMA FaultsTell ==
  ASSUME TypeInv
  PROVE  /\ Fault("db") => ~NoneFailed' /\ ~Informed'
         /\ Fault("lost") => ~Informed'
  <1>1. faults \in [FaultKinds -> Nat]
    BY DEF TypeInv, FaultsOK
  <1> QED BY <1>1 DEF Fault, FaultKinds, Informed, NoneFailed

LEMMA SameLedger ==
  ASSUME UNCHANGED ledgerVars
  PROVE  /\ InLedger' = InLedger
         /\ UNCHANGED <<pool, validated>>
         /\ \A r : OnLedger(r)' = OnLedger(r) /\ Executed(r)' = Executed(r)
  BY DEF ledgerVars, InLedger, OnLedger, Executed

\* The rows that other workers hold, and the ones in a worker's own batch, are
\* not the one it works on.
LEMMA OthersHold ==
  ASSUME TypeInv, ClaimInv, EffectInv, NEW w \in Workers, Busy(wk[w]), NEW v \in Workers
  PROVE  /\ \A s \in wk[v].batch : s.row \in Rows /\ s.row # Row(w)
         /\ Busy(wk[v]) /\ v # w => wk[v].cur.row \in Rows /\ wk[v].cur.row # Row(w)
         /\ Row(w) \in Rows /\ outbox[Row(w)].status \notin Unclaimed
  <1>1. Row(w) \in Held(w)
    BY DEF Busy, Held
  <1>2. ASSUME NEW s \in wk[v].batch PROVE s.row \in Rows /\ s.row # Row(w)
    <2>1. s.row \in Held(v)
      BY DEF Held
    <2>2. CASE v = w
      BY <2>1, <2>2 DEF EffectInv, WorkerOK, BatchOK, Row, ClaimInv, HeldOK
    <2>3. CASE v # w
      BY <1>1, <2>1, <2>3 DEF ClaimInv, HeldOK
    <2> QED BY <2>2, <2>3
  <1>3. ASSUME Busy(wk[v]), v # w PROVE wk[v].cur.row \in Rows /\ wk[v].cur.row # Row(w)
    <2>1. wk[v].cur.row \in Held(v)
      BY <1>3 DEF Busy, Held, Row
    <2> QED BY <1>1, <1>3, <2>1 DEF ClaimInv, HeldOK
  <1> QED BY <1>1, <1>2, <1>3 DEF ClaimInv, HeldOK

\* A worker becomes x and writes its row to o, and the ledger stays.
LEMMA EffectKept ==
  ASSUME TypeInv, ClaimInv, EffectInv, NEW w \in Workers, Busy(wk[w]),
         NEW x, Become(w, x), x.batch = wk[w].batch, Busy(x) => x.cur = wk[w].cur,
         NEW o, outbox' = [outbox EXCEPT ![Row(w)] = o],
         UNCHANGED ledgerVars,
         Informed' => Informed, NoneFailed' => NoneFailed,
         o.status \notin Unclaimed,
         Informed' => TrueOf(o, Row(w)),
         AttemptsFit(x, OnLedger(Row(w))),
         Busy(x) /\ NoneFailed' => StatusFits(x.pc, o.status),
         Informed' => Told(x, OnLedger(Row(w)))
  PROVE  EffectInv'
  <1>1. \A r : OnLedger(r)' = OnLedger(r) /\ Executed(r)' = Executed(r)
    BY SameLedger
  <1>2. \A r \in Rows : outbox'[r] = IF r = Row(w) THEN o ELSE outbox[r]
    BY DEF TypeInv, OutboxOK
  <1>3. \A v \in Workers : wk'[v] = IF v = w THEN x ELSE wk[v]
    BY DEF Become, TypeInv, WorkersOK
  <1>4. AttemptsOK' /\ (Informed' => OneEach')
    BY SameLedger DEF EffectInv, AttemptsOK, OneEach
  <1>5. ASSUME NEW r \in Rows PROVE RowOK(r)'
    <2>1. CASE r = Row(w)
      BY <1>1, <1>2, <2>1, SameLedger DEF RowOK, TrueOf
    <2>2. CASE r # Row(w)
      BY <1>1, <1>2, <2>2, SameLedger DEF EffectInv, RowOK, TrueOf
    <2> QED BY <2>1, <2>2
  <1>6. ASSUME NEW v \in Workers PROVE WorkerOK(wk[v])'
    <2>1. \A s \in wk[v].batch : outbox'[s.row] = outbox[s.row]
      BY <1>2, OthersHold
    <2>2. CASE v = w
      <3>1. BatchOK(wk[v])'
        BY <1>1, <1>3, <2>1, <2>2 DEF EffectInv, WorkerOK, BatchOK
      <3>2. AttemptsFit(x, OnLedger(x.cur.row))
        BY DEF AttemptsFit, Row
      <3>3. Busy(x) /\ NoneFailed' => StatusFits(x.pc, outbox'[x.cur.row].status)
        BY <1>2, OthersHold DEF Row
      <3>4. Informed' => Told(x, OnLedger(x.cur.row))
        BY DEF Told, Row
      <3>5. wk'[v] = x
        BY <1>3, <2>2
      <3> QED BY <1>1, <3>1, <3>2, <3>3, <3>4, <3>5 DEF WorkerOK
    <2>3. CASE v # w
      <3>1. wk'[v] = wk[v]
        BY <1>3, <2>3
      <3>2. BatchOK(wk[v])'
        BY <1>1, <2>1, <3>1 DEF EffectInv, WorkerOK, BatchOK
      <3>3. Busy(wk[v]) => outbox'[wk[v].cur.row] = outbox[wk[v].cur.row]
        BY <1>2, <2>3, OthersHold
      <3> QED BY <1>1, <3>1, <3>2, <3>3 DEF EffectInv, WorkerOK
    <2> QED BY <2>2, <2>3
  <1> QED BY <1>4, <1>5, <1>6 DEF EffectInv

\* A worker becomes x, and rows and ledger stay.
LEMMA EffectQuiet ==
  ASSUME TypeInv, ClaimInv, EffectInv, NEW w \in Workers, Busy(wk[w]),
         NEW x, Become(w, x), x.batch = wk[w].batch, Busy(x) => x.cur = wk[w].cur,
         UNCHANGED outbox, UNCHANGED ledgerVars,
         Informed' => Informed, NoneFailed' => NoneFailed,
         AttemptsFit(x, OnLedger(Row(w))),
         Busy(x) /\ NoneFailed' => StatusFits(x.pc, outbox[Row(w)].status),
         Informed' => Told(x, OnLedger(Row(w)))
  PROVE  EffectInv'
  <1> DEFINE o == outbox[Row(w)]
  <1>1. Row(w) \in Rows /\ o.status \notin Unclaimed
    BY OthersHold
  <1>2. outbox' = [outbox EXCEPT ![Row(w)] = o]
    BY <1>1 DEF TypeInv, OutboxOK
  <1>3. Informed' => TrueOf(o, Row(w))
    BY <1>1 DEF EffectInv, RowOK
  <1> HIDE DEF o
  <1> QED BY <1>1, <1>2, <1>3, EffectKept DEF o

LEMMA FinishFits ==
  ASSUME NEW w \in Workers, NEW S
  PROVE  /\ ~Busy(AfterRow(w)) /\ AfterRow(w).batch = wk[w].batch
         /\ AttemptsFit(AfterRow(w), S)
         /\ Told(AfterRow(w), S)
  BY DEF AfterRow, Started, Busy, AttemptsFit, Told

\* A worker that goes on at p with what it has.
LEMMA GotoFits ==
  ASSUME TypeInv, NEW w \in Workers, NEW p
  PROVE  LET x == [wk[w] EXCEPT !.pc = p] IN
         /\ x.pc = p /\ x.batch = wk[w].batch /\ x.cur = wk[w].cur /\ x.attempt = wk[w].attempt
         /\ x.tx = wk[w].tx /\ x.code = wk[w].code
  BY DEF TypeInv, WorkersOK, WorkerRecords

Errors == {"unhandled", "caught", "cosignCaught"}

LEMMA ErrorFits ==
  ASSUME TypeInv, EffectInv, NEW w \in Workers, Busy(wk[w]), NEW e \in Errors
  PROVE  AttemptsFit([wk[w] EXCEPT !.pc = e], OnLedger(Row(w)))
  BY GotoFits DEF EffectInv, WorkerOK, AttemptsFit, Errors, Row

\* A statement that throws, if it did not tell of an update.
LEMMA EffectError ==
  ASSUME TypeInv, ClaimInv, EffectInv, NEW w \in Workers, Busy(wk[w]),
         NEW e \in Errors, Fault("db"), Goto(w, e), UNCHANGED outbox, UNCHANGED ledgerVars
  PROVE  EffectInv'
  <1> DEFINE x == [wk[w] EXCEPT !.pc = e]
  <1>1. /\ Become(w, x) /\ x.batch = wk[w].batch /\ x.cur = wk[w].cur
        /\ AttemptsFit(x, OnLedger(Row(w)))
    BY GotoFits, ErrorFits DEF Goto
  <1>2. ~NoneFailed' /\ ~Informed'
    BY FaultsTell
  <1> HIDE DEF x
  <1> QED BY <1>1, <1>2, EffectQuiet

\* A statement that sets the worker's row to o, which is true of its transactions.
LEMMA EffectUpdate ==
  ASSUME TypeInv, ClaimInv, EffectInv, NEW w \in Workers, Busy(wk[w]),
         NEW o, NEW p, NEW e \in Errors, Update(w, o, p, e), UNCHANGED ledgerVars,
         o.status \notin Unclaimed,
         Informed => TrueOf(o, Row(w)),
         p # "done" =>
           /\ AttemptsFit([wk[w] EXCEPT !.pc = p], OnLedger(Row(w)))
           /\ NoneFailed => StatusFits(p, o.status)
           /\ Informed => Told([wk[w] EXCEPT !.pc = p], OnLedger(Row(w)))
  PROVE  EffectInv'
  <1>1. CASE /\ NoFault
             /\ outbox' = [outbox EXCEPT ![Row(w)] = o]
             /\ IF p = "done" THEN Finish(w) ELSE Goto(w, p)
    <2>1. (Informed' => Informed) /\ (NoneFailed' => NoneFailed)
      BY <1>1, FaultsGrow
    <2>2. CASE p = "done"
      <3> DEFINE x == AfterRow(w)
      <3>1. Become(w, x)
        BY <1>1, <2>2 DEF Finish
      <3>2. /\ ~Busy(x) /\ x.batch = wk[w].batch
            /\ AttemptsFit(x, OnLedger(Row(w))) /\ Told(x, OnLedger(Row(w)))
        BY FinishFits
      <3> HIDE DEF x
      <3> QED BY <1>1, <2>1, <3>1, <3>2, EffectKept
    <2>3. CASE p # "done"
      <3> DEFINE x == [wk[w] EXCEPT !.pc = p]
      <3>1. Become(w, x) /\ x.batch = wk[w].batch /\ x.cur = wk[w].cur /\ x.pc = p
        BY <1>1, <2>3, GotoFits DEF Goto
      <3>2. /\ AttemptsFit(x, OnLedger(Row(w)))
            /\ Informed => Told(x, OnLedger(Row(w)))
        BY <2>3
      <3> HIDE DEF x
      <3> QED BY <1>1, <2>1, <2>3, <3>1, <3>2, EffectKept
    <2> QED BY <2>2, <2>3
  <1>2. CASE /\ Fault("db")
             /\ outbox' \in {outbox, [outbox EXCEPT ![Row(w)] = o]}
             /\ Goto(w, e)
    <2>1. CASE UNCHANGED outbox
      BY <1>2, <2>1, EffectError
    <2>2. CASE outbox' = [outbox EXCEPT ![Row(w)] = o]
      <3> DEFINE x == [wk[w] EXCEPT !.pc = e]
      <3>1. /\ Become(w, x) /\ x.batch = wk[w].batch /\ x.cur = wk[w].cur
            /\ AttemptsFit(x, OnLedger(Row(w)))
        BY <1>2, GotoFits, ErrorFits DEF Goto
      <3>2. ~NoneFailed' /\ ~Informed'
        BY <1>2, FaultsTell
      <3> HIDE DEF x
      <3> QED BY <2>2, <3>1, <3>2, EffectKept
    <2> QED BY <1>2, <2>1, <2>2
  <1> QED BY <1>1, <1>2 DEF Update

\* Whatever a row says is true if it has no transaction.
LEMMA NothingToTell ==
  ASSUME NEW r, OnLedger(r) = {}, NEW o
  PROVE  TrueOf(o, r)
  BY DEF TrueOf, OnLedger, Executed

----------------------------------------------------------------------------
(* The steps of a worker that do not reach the ledger.                      *)

LEMMA AtWork ==
  ASSUME TypeInv, EffectInv, NEW w \in Workers, Busy(wk[w])
  PROVE  /\ AttemptsFit(wk[w], OnLedger(Row(w)))
         /\ NoneFailed => StatusFits(wk[w].pc, outbox[Row(w)].status)
         /\ Informed => Told(wk[w], OnLedger(Row(w)))
         /\ wk[w] \in WorkerRecords
         /\ Row(w) \in Rows
         /\ outbox[Row(w)] \in RowRecords
         /\ \A t \in OnLedger(Row(w)) : t \in Txs
  <1>1. wk[w] \in WorkerRecords /\ Row(w) \in Rows /\ outbox[Row(w)] \in RowRecords
    BY BusyRow DEF Busy
  <1> QED BY <1>1, LedgerTyped DEF EffectInv, WorkerOK, Row, InLedger

\* A worker that knows of no transaction gives up its row, or blocks it.
LEMMA EffectStatus ==
  ASSUME TypeInv, ClaimInv, EffectInv, NEW w \in Workers, Busy(wk[w]),
         wk[w].pc \notin Answered,
         NEW s, s \notin Unclaimed, NEW e \in Errors,
         Update(w, [outbox[Row(w)] EXCEPT !.status = s], "done", e), UNCHANGED ledgerVars
  PROVE  EffectInv'
  <1> DEFINE o == [outbox[Row(w)] EXCEPT !.status = s]
  <1>1. o.status = s
    BY AtWork DEF RowRecords
  <1>2. Informed => TrueOf(o, Row(w))
    BY AtWork, NothingToTell DEF Told
  <1>3. Update(w, o, "done", e)
    OBVIOUS
  <1> HIDE DEF o
  <1> QED BY <1>1, <1>2, <1>3, EffectUpdate

LEMMA EffectBlock ==
  ASSUME TypeInv, ClaimInv, EffectInv, NEW w \in Workers,
         Block(w) \/ BlockNoSigner(w) \/ GiveUp(w, "caught") \/ GiveUp(w, "cosignCaught")
  PROVE  EffectInv'
  <1>1. Busy(wk[w]) /\ wk[w].pc \notin Answered
    BY DEF Busy, Answered, Block, BlockNoSigner, GiveUp
  <1>2. {"blocked", "failed"} \cap Unclaimed = {} /\ "unhandled" \in Errors
    BY DEF Unclaimed, ClaimableStatuses, Errors
  <1>3. PICK s \in {"blocked", "failed"} :
            /\ Update(w, [outbox[Row(w)] EXCEPT !.status = s], "done", "unhandled")
            /\ UNCHANGED ledgerVars
    BY DEF Block, BlockNoSigner, GiveUp
  <1>4. s \notin Unclaimed
    BY <1>2
  <1> QED BY <1>1, <1>2, <1>3, <1>4, EffectStatus

LEMMA EffectUnhandled ==
  ASSUME TypeInv, ClaimInv, EffectInv, NEW w \in Workers, Unhandled(w)
  PROVE  EffectInv'
  <1> DEFINE x == AfterRow(w)
             o == [outbox[Row(w)] EXCEPT !.status = "failed"]
  <1>1. Busy(wk[w]) /\ wk[w].pc \notin Answered
    BY DEF Busy, Answered, Unhandled
  <1>2. /\ Become(w, x) /\ ~Busy(x) /\ x.batch = wk[w].batch
        /\ AttemptsFit(x, OnLedger(Row(w))) /\ Told(x, OnLedger(Row(w)))
    BY FinishFits DEF Finish, Unhandled
  <1>3. (Informed' => Informed) /\ (NoneFailed' => NoneFailed)
    BY FaultsGrow DEF Unhandled
  <1>4. o.status = "failed" /\ o.status \notin Unclaimed
    BY <1>1, AtWork DEF RowRecords, Unclaimed, ClaimableStatuses
  <1>5. Informed => TrueOf(o, Row(w))
    BY <1>1, AtWork, NothingToTell DEF Told
  <1>6. UNCHANGED outbox \/ outbox' = [outbox EXCEPT ![Row(w)] = o]
    BY DEF Unhandled
  <1>7. UNCHANGED ledgerVars
    BY DEF Unhandled
  <1> HIDE DEF x, o
  <1> QED BY <1>1, <1>2, <1>3, <1>4, <1>5, <1>6, <1>7, EffectQuiet, EffectKept

LEMMA EffectDryRun ==
  ASSUME TypeInv, ClaimInv, EffectInv, NEW w \in Workers, PrepareDryRun(w)
  PROVE  EffectInv'
  <1> DEFINE o == [outbox[Row(w)] EXCEPT !.status = "prepared", !.hash = DryHash(w),
                                         !.result = "dry"]
             x == [wk[w] EXCEPT !.pc = "prepared"]
  <1>1. Busy(wk[w]) /\ wk[w].pc = "begin" /\ wk[w].pc \notin Answered
    BY DEF Busy, Answered, PrepareDryRun
  <1>2. o.status = "prepared" /\ o.status \notin Unclaimed
    BY <1>1, AtWork DEF RowRecords, Unclaimed, ClaimableStatuses
  <1>3. Informed => TrueOf(o, Row(w))
    BY <1>1, AtWork, NothingToTell DEF Told
  <1>4. /\ x.pc = "prepared" /\ x.cur = wk[w].cur /\ x.attempt = wk[w].attempt
        /\ x.tx = wk[w].tx
    BY GotoFits
  <1>5. AttemptsFit(x, OnLedger(Row(w)))
    BY <1>1, <1>4, AtWork DEF AttemptsFit, Busy
  <1>6. Informed => Told(x, OnLedger(Row(w)))
    BY <1>1, <1>4, AtWork DEF Told, Answered
  <1>7. StatusFits("prepared", o.status)
    BY DEF StatusFits, Underway
  <1>8. Update(w, o, "prepared", "unhandled") /\ UNCHANGED ledgerVars /\ "unhandled" \in Errors
    BY DEF PrepareDryRun, Errors
  <1> HIDE DEF o
  <1> QED BY <1>1, <1>2, <1>3, <1>5, <1>6, <1>7, <1>8, EffectUpdate

LEMMA EffectMarkSubmitted ==
  ASSUME TypeInv, ClaimInv, EffectInv, NEW w \in Workers, MarkSubmitted(w)
  PROVE  EffectInv'
  <1> DEFINE o == [outbox[Row(w)] EXCEPT !.status = "submitted"]
             x(p) == [wk[w] EXCEPT !.pc = p]
  <1>1. Busy(wk[w]) /\ wk[w].pc = "begin" /\ wk[w].pc \notin Answered
    BY DEF Busy, Answered, MarkSubmitted
  <1>2. o.status = "submitted" /\ o.status \notin Unclaimed
    BY <1>1, AtWork DEF RowRecords, Unclaimed, ClaimableStatuses
  <1>3. Informed => TrueOf(o, Row(w))
    BY <1>1, AtWork, NothingToTell DEF Told
  <1>4. ASSUME NEW p \in {"submitBlob", "reserve", "noSigner", "unhandled"}
        PROVE  AttemptsFit(x(p), OnLedger(Row(w))) /\ (Informed => Told(x(p), OnLedger(Row(w))))
    <2>1. /\ x(p).pc = p /\ x(p).cur = wk[w].cur /\ x(p).attempt = wk[w].attempt
          /\ x(p).tx = wk[w].tx
      BY GotoFits
    <2>2. AttemptsFit(x(p), OnLedger(Row(w)))
      BY <1>1, <2>1, AtWork DEF AttemptsFit, Busy
    <2>3. Informed => Told(x(p), OnLedger(Row(w)))
      BY <1>1, <2>1, AtWork DEF Told, Answered
    <2> QED BY <2>2, <2>3
  <1>5. UNCHANGED ledgerVars /\ "unhandled" \in Errors
    BY DEF MarkSubmitted, Errors
  <1>6. CASE Update(w, o, Dispatch(w), "unhandled")
    <2>1. Dispatch(w) \in {"submitBlob", "reserve", "noSigner"}
      BY DEF Dispatch
    <2>2. StatusFits(Dispatch(w), o.status)
      BY <1>2, <2>1 DEF StatusFits
    <2> HIDE DEF o
    <2> QED BY <1>1, <1>2, <1>3, <1>4, <1>5, <1>6, <2>1, <2>2, EffectUpdate
  <1>7. CASE Fault("net") /\ Goto(w, "unhandled") /\ UNCHANGED outbox
    <2>1. (Informed' => Informed) /\ (NoneFailed' => NoneFailed)
      BY <1>7, FaultsGrow
    <2>2. /\ Become(w, x("unhandled")) /\ x("unhandled").pc = "unhandled"
          /\ x("unhandled").batch = wk[w].batch /\ x("unhandled").cur = wk[w].cur
      BY <1>7, GotoFits DEF Goto
    <2>3. NoneFailed => StatusFits("unhandled", outbox[Row(w)].status)
      BY <1>1, AtWork DEF StatusFits, Underway
    <2>4. /\ AttemptsFit(x("unhandled"), OnLedger(Row(w)))
          /\ Informed => Told(x("unhandled"), OnLedger(Row(w)))
      BY <1>4
    <2> HIDE DEF x
    <2> QED BY <1>1, <1>5, <1>7, <2>1, <2>2, <2>3, <2>4, EffectQuiet
  <1> QED BY <1>6, <1>7 DEF MarkSubmitted

\* A worker that knows of its transaction writes down its hash.
LEMMA EffectSettled ==
  ASSUME TypeInv, ClaimInv, EffectInv, NEW w \in Workers, Busy(wk[w]),
         wk[w].pc \in Answered,
         NEW o, o.status \notin Unclaimed, o.hash = wk[w].tx,
         Informed /\ o.status = "failed" =>
             Executed(Row(w)) = {} /\ \A t \in pool : t.row # Row(w),
         NEW p \in {"done", "record", "recordBlob"}, NEW e \in Errors,
         Update(w, o, p, e), UNCHANGED ledgerVars
  PROVE  EffectInv'
  <1> DEFINE x == [wk[w] EXCEPT !.pc = p]
  <1>1. Informed => TrueOf(o, Row(w))
    BY AtWork DEF Told, TrueOf
  <1>2. /\ x.pc = p /\ x.cur = wk[w].cur /\ x.attempt = wk[w].attempt
        /\ x.tx = wk[w].tx
    BY GotoFits
  <1>3. p # "done" => AttemptsFit(x, OnLedger(Row(w)))
    BY <1>2, AtWork DEF AttemptsFit, Busy
  <1>4. p # "done" /\ Informed => Told(x, OnLedger(Row(w)))
    BY <1>2, AtWork DEF Told, Answered
  <1>5. p # "done" => StatusFits(p, o.status)
    BY DEF StatusFits, Underway
  <1> HIDE DEF x
  <1> QED BY <1>1, <1>3, <1>4, <1>5, EffectUpdate DEF x

LEMMA EffectSettle ==
  ASSUME TypeInv, ClaimInv, TruthInv, EffectInv, NEW w \in Workers,
         \/ SettleValidated(w) \/ SettleUnknown(w) \/ SettleRejected(w)
         \/ SettleBlobValidated(w) \/ AwaitBlobValidation(w) \/ SettleBlobRejected(w)
  PROVE  EffectInv'
  <1> DEFINE NoEffect == Executed(Row(w)) = {} /\ \A t \in pool : t.row # Row(w)
  <1>1. wk[w].pc \in Answered /\ Busy(wk[w]) /\ wk[w].pc \in HasTx
    BY DEF Answered, Busy, HasTx, SettleValidated, SettleUnknown, SettleRejected,
           SettleBlobValidated, AwaitBlobValidation, SettleBlobRejected
  <1>2. wk[w].tx.row = Row(w)
    BY <1>1 DEF TypeInv, WorkersOK, LocalOK, Row
  <1>3. {"caught", "cosignCaught"} \subseteq Errors
    BY DEF Errors
  <1>4. ASSUME NEW s, s \notin Unclaimed, Informed /\ s = "failed" => NoEffect, NEW res,
               NEW p \in {"done", "record", "recordBlob"}, NEW e \in {"caught", "cosignCaught"},
               \/ Update(w, Settled(w, s, res), p, e)
               \/ Update(w, [Settled(w, s, res) EXCEPT !.meta = Meta(w)], p, e),
               UNCHANGED ledgerVars
        PROVE  EffectInv'
    <2> DEFINE o == Settled(w, s, res)
               b == [o EXCEPT !.meta = Meta(w)]
    <2>1. /\ o.status = s /\ o.hash = wk[w].tx
          /\ b.status = s /\ b.hash = wk[w].tx
      BY <1>1, AtWork DEF Settled, RowRecords
    <2>2. Update(w, o, p, e) \/ Update(w, b, p, e)
      BY <1>4
    <2>3. e \in Errors
      BY <1>3
    <2> HIDE DEF o, b
    <2> QED BY <1>1, <1>4, <2>1, <2>2, <2>3, EffectSettled
  <1>5. ASSUME Informed, ClassifyResult(wk[w].code) # "success", wk[w].pc \in FoundPcs
        PROVE  NoEffect
    <2> DEFINE f == [tx |-> wk[w].tx, code |-> wk[w].code]
    <2>1. f \in validated /\ f.tx = wk[w].tx /\ f.code = wk[w].code
      BY <1>5 DEF TruthInv, FoundOK
    <2> HIDE DEF f
    <2>2. OneEach
      BY <1>5 DEF EffectInv
    <2>3. f.tx \in InLedger /\ f.tx.row = Row(w) /\ f.tx \notin pool
      BY <1>2, <2>1, <2>2 DEF OneEach, InLedger
    <2>4. \A t \in pool : t.row # Row(w)
      BY <2>2, <2>3 DEF OneEach, InLedger
    <2>5. \A v \in validated : v.tx.row = Row(w) => v = f
      <3>1. \A v \in validated : v.tx \in InLedger
        BY DEF InLedger
      <3> QED BY <2>1, <2>2, <2>3, <3>1 DEF OneEach
    <2> QED BY <1>5, <2>1, <2>4, <2>5 DEF Executed
  <1>6. ASSUME Informed, ClassifyResult(wk[w].code) # "manual_review",
               wk[w].pc \in {"rejected", "rejectedBlob"}
        PROVE  NoEffect
    <2>1. OnLedger(Row(w)) = {}
      BY <1>1, <1>6, AtWork DEF Told
    <2> QED BY <2>1 DEF OnLedger, Executed
  <1>7. {"validated", "failed", "manual_review", "submitted"} \cap Unclaimed = {}
    BY DEF Unclaimed, ClaimableStatuses
  <1> HIDE DEF NoEffect
  <1>8. CASE SettleValidated(w) \/ SettleBlobValidated(w)
    <2>1. wk[w].pc \in FoundPcs
      BY <1>8 DEF SettleValidated, SettleBlobValidated, FoundPcs
    <2>2. /\ ValidatedStatus(w) \notin Unclaimed
          /\ Informed /\ ValidatedStatus(w) = "failed" => NoEffect
      BY <1>5, <1>7, <2>1 DEF ValidatedStatus
    <2> QED BY <1>4, <1>8, <2>2 DEF SettleValidated, SettleBlobValidated
  <1>9. CASE SettleUnknown(w) \/ AwaitBlobValidation(w)
    BY <1>4, <1>7, <1>9 DEF SettleUnknown, AwaitBlobValidation
  <1>10. CASE SettleRejected(w) \/ SettleBlobRejected(w)
    <2>1. wk[w].pc \in {"rejected", "rejectedBlob"}
      BY <1>10 DEF SettleRejected, SettleBlobRejected
    <2>2. /\ RejectedStatus(w) \notin Unclaimed /\ RejectedBlobStatus(w) \notin Unclaimed
          /\ Informed /\ RejectedStatus(w) = "failed" => NoEffect
          /\ Informed /\ RejectedBlobStatus(w) = "failed" => NoEffect
      BY <1>6, <1>7, <2>1 DEF RejectedStatus, RejectedBlobStatus
    <2> QED BY <1>4, <1>10, <2>2 DEF SettleRejected, SettleBlobRejected
  <1> QED BY <1>8, <1>9, <1>10

LEMMA EffectRecord ==
  ASSUME TypeInv, ClaimInv, EffectInv, NEW w \in Workers, Busy(wk[w]),
         NEW here, NEW hash, NEW e \in Errors, Record(w, here, hash, e)
  PROVE  EffectInv'
  <1>1. UNCHANGED outbox /\ UNCHANGED ledgerVars
    BY DEF Record
  <1>2. CASE NoFault /\ Finish(w)
    <2> DEFINE x == AfterRow(w)
    <2>1. /\ Become(w, x) /\ ~Busy(x) /\ x.batch = wk[w].batch
          /\ AttemptsFit(x, OnLedger(Row(w))) /\ Told(x, OnLedger(Row(w)))
      BY <1>2, FinishFits DEF Finish
    <2>2. (Informed' => Informed) /\ (NoneFailed' => NoneFailed)
      BY <1>2, FaultsGrow
    <2> HIDE DEF x
    <2> QED BY <1>1, <2>1, <2>2, EffectQuiet
  <1>3. CASE Fault("db") /\ Goto(w, e)
    BY <1>1, <1>3, EffectError
  <1> QED BY <1>2, <1>3 DEF Record

----------------------------------------------------------------------------
(* The steps of _signAndSubmit and _submitBlobAndLookup.                    *)

\* A worker that is about to submit, or has failed to, has marked its row and,
\* if it is informed, knows that there is no transaction of it.
Unanswered == {"reserve", "submit", "resubmit", "caught",
               "submitBlob", "resubmitBlob", "cosignCaught"}

LEMMA NotAnswered ==
  ASSUME TypeInv, EffectInv, NEW w \in Workers, wk[w].pc \in Unanswered
  PROVE  /\ Busy(wk[w])
         /\ NoneFailed => outbox[Row(w)].status = "submitted"
         /\ Informed => OnLedger(Row(w)) = {}
  <1>1. Busy(wk[w]) /\ wk[w].pc \in Underway /\ wk[w].pc \notin Answered
    BY DEF Unanswered, Busy, Underway, Answered
  <1> QED BY <1>1, AtWork DEF StatusFits, Told

\* A request or a statement fails and the handler at e takes over.
LEMMA EffectCaught ==
  ASSUME TypeInv, ClaimInv, EffectInv, NEW w \in Workers, wk[w].pc \in Unanswered,
         NEW e \in {"caught", "cosignCaught"}, Goto(w, e),
         UNCHANGED outbox, UNCHANGED ledgerVars,
         Informed' => Informed, NoneFailed' => NoneFailed
  PROVE  EffectInv'
  <1> DEFINE x == [wk[w] EXCEPT !.pc = e]
  <1>1. Busy(wk[w])
    BY NotAnswered
  <1>2. /\ Become(w, x) /\ x.pc = e /\ x.batch = wk[w].batch /\ x.cur = wk[w].cur
        /\ AttemptsFit(x, OnLedger(Row(w)))
    BY <1>1, GotoFits, ErrorFits DEF Goto, Errors
  <1>3. NoneFailed => StatusFits(e, outbox[Row(w)].status)
    BY NotAnswered DEF StatusFits
  <1>4. Informed => Told(x, OnLedger(Row(w)))
    BY <1>2, NotAnswered DEF Told, Answered
  <1> HIDE DEF x
  <1> QED BY <1>1, <1>2, <1>3, <1>4, EffectQuiet

LEMMA EffectRetry ==
  ASSUME TypeInv, ClaimInv, EffectInv, NEW w \in Workers,
         wk[w].pc \in {"submit", "resubmit", "caught"}, Retry(w),
         UNCHANGED outbox, UNCHANGED ledgerVars,
         Informed' => Informed, NoneFailed' => NoneFailed
  PROVE  EffectInv'
  <1> DEFINE x == [wk[w] EXCEPT !.pc = "reserve", !.attempt = @ + 1, !.tx = NoTx]
  <1>1. Busy(wk[w]) /\ wk[w].pc \in Unanswered
    BY DEF Busy, Unanswered
  <1>2. /\ Become(w, x) /\ x.pc = "reserve" /\ x.batch = wk[w].batch /\ x.cur = wk[w].cur
        /\ x.attempt = wk[w].attempt + 1
    BY DEF Retry, TypeInv, WorkersOK, WorkerRecords
  <1>3. wk[w].attempt \in Nat /\ \A t \in OnLedger(Row(w)) : t.attempt \in Nat
    BY <1>1, AtWork, ExecutorAssumption DEF WorkerRecords, Txs
  <1>4. AttemptsFit(x, OnLedger(Row(w)))
    <2>1. \A t \in OnLedger(Row(w)) : t.attempt <= wk[w].attempt
      BY <1>1, AtWork DEF AttemptsFit
    <2>2. \A t \in OnLedger(Row(w)) : t.attempt < x.attempt /\ t.attempt <= x.attempt
      BY <1>2, <1>3, <2>1
    <2> QED BY <1>2, <2>2 DEF AttemptsFit
  <1>5. NoneFailed => StatusFits("reserve", outbox[Row(w)].status)
    BY <1>1, NotAnswered DEF StatusFits
  <1>6. Informed => Told(x, OnLedger(Row(w)))
    BY <1>1, <1>2, NotAnswered DEF Told, Answered
  <1> HIDE DEF x
  <1> QED BY <1>1, <1>2, <1>4, <1>5, <1>6, EffectQuiet

LEMMA EffectRetryAfterError ==
  ASSUME TypeInv, ClaimInv, EffectInv, NEW w \in Workers, RetryAfterError(w)
  PROVE  EffectInv'
  BY EffectRetry, FaultsGrow DEF RetryAfterError

LEMMA EffectReserve ==
  ASSUME TypeInv, ClaimInv, EffectInv, NEW w \in Workers, Reserve(w)
  PROVE  EffectInv'
  <1>1. wk[w].pc = "reserve" /\ wk[w].pc \in Unanswered /\ Busy(wk[w])
    BY DEF Reserve, Unanswered, Busy
  <1>2. UNCHANGED outbox /\ UNCHANGED ledgerVars
    BY DEF Reserve
  <1>3. CASE (Fault("db") \/ Fault("net")) /\ Goto(w, "caught")
    BY <1>1, <1>2, <1>3, FaultsGrow, EffectCaught
  <1>4. ASSUME NEW s, NoFault,
               Become(w, [wk[w] EXCEPT
                            !.pc = "submit",
                            !.tx = [row |-> Row(w), attempt |-> wk[w].attempt, seq |-> s]])
        PROVE  EffectInv'
    <2> DEFINE t == [row |-> Row(w), attempt |-> wk[w].attempt, seq |-> s]
               x == [wk[w] EXCEPT !.pc = "submit", !.tx = t]
    <2>1. /\ Become(w, x) /\ x.pc = "submit" /\ x.batch = wk[w].batch /\ x.cur = wk[w].cur
          /\ x.attempt = wk[w].attempt /\ x.tx.attempt = x.attempt
      BY <1>4 DEF TypeInv, WorkersOK, WorkerRecords
    <2>2. AttemptsFit(x, OnLedger(Row(w)))
      BY <1>1, <2>1, AtWork DEF AttemptsFit
    <2>3. NoneFailed => StatusFits("submit", outbox[Row(w)].status)
      BY <1>1, NotAnswered DEF StatusFits
    <2>4. Informed => Told(x, OnLedger(Row(w)))
      BY <1>1, <2>1, NotAnswered DEF Told, Answered
    <2>5. (Informed' => Informed) /\ (NoneFailed' => NoneFailed)
      BY <1>4, FaultsGrow
    <2> HIDE DEF x
    <2> QED BY <1>1, <1>2, <2>1, <2>2, <2>3, <2>4, <2>5, EffectQuiet
  <1> QED BY <1>3, <1>4 DEF Reserve

LEMMA EffectLookup ==
  ASSUME TypeInv, ClaimInv, EffectInv, NEW w \in Workers,
         \/ Lookup(w, "lookup", "found", "unknown")
         \/ Lookup(w, "lookupBlob", "foundBlob", "awaitBlob")
  PROVE  EffectInv'
  <1> DEFINE Sought == {"found", "unknown", "foundBlob", "awaitBlob"}
  <1>1. wk[w].pc \in {"lookup", "lookupBlob"} /\ Busy(wk[w])
    BY DEF Lookup, Busy
  <1>2. UNCHANGED outbox /\ UNCHANGED ledgerVars /\ UNCHANGED faults
    BY DEF Lookup
  <1>3. PICK x : /\ Become(w, x) /\ x.pc \in Sought /\ x.batch = wk[w].batch
                 /\ x.cur = wk[w].cur /\ x.tx = wk[w].tx /\ x.attempt = wk[w].attempt
    <2>1. PICK p \in Sought :
            Goto(w, p) \/ \E c : Become(w, [wk[w] EXCEPT !.pc = p, !.code = c])
      BY DEF Lookup
    <2>2. wk[w] \in WorkerRecords
      BY <1>1, AtWork
    <2>3. CASE Goto(w, p)
      <3> DEFINE y == [wk[w] EXCEPT !.pc = p]
      <3>1. /\ y.pc = p /\ y.batch = wk[w].batch /\ y.cur = wk[w].cur
            /\ y.tx = wk[w].tx /\ y.attempt = wk[w].attempt
        BY GotoFits
      <3>2. Become(w, y)
        BY <2>3 DEF Goto
      <3> HIDE DEF y
      <3> QED BY <3>1, <3>2
    <2>4. ASSUME NEW c, Become(w, [wk[w] EXCEPT !.pc = p, !.code = c])
          PROVE  \E x : /\ Become(w, x) /\ x.pc \in Sought /\ x.batch = wk[w].batch
                        /\ x.cur = wk[w].cur /\ x.tx = wk[w].tx /\ x.attempt = wk[w].attempt
      <3> DEFINE y == [wk[w] EXCEPT !.pc = p, !.code = c]
      <3>1. /\ y.pc = p /\ y.batch = wk[w].batch /\ y.cur = wk[w].cur
            /\ y.tx = wk[w].tx /\ y.attempt = wk[w].attempt
        BY <2>2 DEF WorkerRecords
      <3>2. Become(w, y)
        BY <2>4
      <3> HIDE DEF y
      <3> QED BY <3>1, <3>2
    <2> QED BY <2>1, <2>3, <2>4
  <1>4. AttemptsFit(x, OnLedger(Row(w)))
    BY <1>1, <1>3, AtWork DEF AttemptsFit
  <1>5. NoneFailed => StatusFits(x.pc, outbox[Row(w)].status)
    BY <1>1, <1>3, AtWork DEF StatusFits, Underway
  <1>6. Informed => Told(x, OnLedger(Row(w)))
    BY <1>1, <1>3, AtWork DEF Told, Answered
  <1>7. (Informed' => Informed) /\ (NoneFailed' => NoneFailed)
    BY <1>2, FaultsGrow
  <1> QED BY <1>1, <1>2, <1>3, <1>4, <1>5, <1>6, <1>7, EffectQuiet

\* The ledger answers c to a transaction t of the worker's row.
LEMMA EffectAccept ==
  ASSUME TypeInv, ClaimInv, EffectInv, NEW w \in Workers, wk[w].pc \in Unanswered,
         NEW t \in Txs, t.row = Row(w), NEW c, Accept(t, c), UNCHANGED outbox,
         Enters(c) =>
             /\ t.attempt <= MaxSubmitRetries /\ (Row(w) \in CosignedRows => t.attempt = 0)
             /\ \A u \in OnLedger(Row(w)) : u.attempt = t.attempt => u = t,
         NEW x, Become(w, x), Busy(x), x.batch = wk[w].batch, x.cur = wk[w].cur,
         NEW S, S = OnLedger(Row(w)) \cup (IF Enters(c) THEN {t} ELSE {}),
         AttemptsFit(x, S), StatusFits(x.pc, "submitted"),
         Informed' => Informed, NoneFailed' => NoneFailed, Informed' => Told(x, S)
  PROVE  EffectInv'
  <1>0. /\ Busy(wk[w])
        /\ NoneFailed => outbox[Row(w)].status = "submitted"
        /\ Informed => OnLedger(Row(w)) = {}
    BY NotAnswered
  <1>1. validated' = validated /\ pool' = pool \cup (IF Enters(c) THEN {t} ELSE {})
    BY DEF Accept
  <1>2. InLedger' = InLedger \cup (IF Enters(c) THEN {t} ELSE {})
    BY <1>1 DEF InLedger
  <1>3. \A r : /\ OnLedger(r)' = IF r = Row(w) THEN S ELSE OnLedger(r)
               /\ Executed(r)' = Executed(r)
    BY <1>1 DEF OnLedger, Executed
  <1>4. \A u \in InLedger : u.row = Row(w) => u \in OnLedger(Row(w))
    BY DEF InLedger, OnLedger
  <1>5. AttemptsOK'
    BY <1>2, <1>4 DEF EffectInv, AttemptsOK
  <1>6. ASSUME Informed' PROVE OneEach'
    <2>1. OneEach /\ OnLedger(Row(w)) = {}
      BY <1>0, <1>6 DEF EffectInv
    <2>2. \A u \in InLedger : u.row # Row(w)
      BY <1>4, <2>1
    <2>3. \A v \in validated : v.tx \in InLedger
      BY DEF InLedger
    <2> QED BY <1>1, <1>2, <2>1, <2>2, <2>3 DEF OneEach
  <1>7. ASSUME NEW r \in Rows PROVE RowOK(r)'
    <2>1. CASE r # Row(w)
      <3>1. (\A u \in pool : u.row # r) => \A u \in pool' : u.row # r
        BY <1>1, <2>1
      <3> QED BY <1>3, <2>1, <3>1 DEF EffectInv, RowOK, TrueOf
    <2>2. CASE r = Row(w)
      <3>1. outbox[r].status \notin Unclaimed
        BY <1>0, <2>2, OthersHold
      <3>2. Informed => NoneFailed
        BY DEF Informed, NoneFailed
      <3>3. Informed' => outbox[r].status = "submitted"
        BY <1>0, <2>2, <3>2
      <3> QED BY <3>1, <3>3 DEF RowOK, TrueOf
    <2> QED BY <2>1, <2>2
  <1>8. ASSUME NEW v \in Workers PROVE WorkerOK(wk[v])'
    <2>0. \A u \in Workers : wk'[u] = IF u = w THEN x ELSE wk[u]
      BY DEF Become, TypeInv, WorkersOK
    <2>1. \A q \in wk[v].batch : OnLedger(q.row)' = OnLedger(q.row)
      BY <1>0, <1>3, OthersHold
    <2>2. CASE v = w
      <3>1. BatchOK(wk[v])'
        BY <1>0, <2>0, <2>1, <2>2 DEF EffectInv, WorkerOK, BatchOK
      <3>2. wk'[v] = x /\ x.cur.row = Row(w)
        BY <2>0, <2>2 DEF Row
      <3>3. NoneFailed' => outbox'[x.cur.row].status = "submitted"
        BY <1>0, <3>2
      <3>4. OnLedger(x.cur.row)' = S
        BY <1>3, <3>2
      <3> QED BY <3>1, <3>2, <3>3, <3>4 DEF WorkerOK
    <2>3. CASE v # w
      <3>1. wk'[v] = wk[v]
        BY <2>0, <2>3
      <3>2. BatchOK(wk[v])'
        BY <2>1, <3>1 DEF EffectInv, WorkerOK, BatchOK
      <3>3. CASE Busy(wk[v])
        <4>1. wk[v].cur.row # Row(w)
          BY <1>0, <2>3, <3>3, OthersHold
        <4> QED BY <1>3, <3>1, <3>2, <4>1 DEF EffectInv, WorkerOK
      <3>4. CASE ~Busy(wk[v])
        BY <3>1, <3>2, <3>4 DEF EffectInv, WorkerOK, AttemptsFit, Told
      <3> QED BY <3>3, <3>4
    <2> QED BY <2>2, <2>3
  <1> QED BY <1>5, <1>6, <1>7, <1>8 DEF EffectInv

LEMMA EnteringClasses ==
  ASSUME NEW c, Enters(c)
  PROVE  ClassifyResult(c) \in {"success", "manual_review"}
  BY DEF Enters, EnteringCodes, ClassifyResult, ResultClassification, PrefixClassification

LEMMA EffectSubmit ==
  ASSUME TypeInv, ClaimInv, EffectInv, NEW w \in Workers, Submit(w)
  PROVE  EffectInv'
  <1> DEFINE t == wk[w].tx
  <1>1. /\ wk[w].pc \in {"submit", "resubmit"} /\ wk[w].pc \in Unanswered /\ Busy(wk[w])
        /\ UNCHANGED outbox
    BY DEF Submit, Unanswered, Busy
  <1>2. t \in Txs /\ t.row = Row(w)
    BY <1>1 DEF TypeInv, WorkersOK, LocalOK, HasTx, Row
  <1>3. /\ wk[w] \in WorkerRecords /\ wk[w].attempt \in Nat
        /\ wk[w].attempt <= MaxSubmitRetries
        /\ t.attempt = wk[w].attempt
        /\ \A u \in OnLedger(Row(w)) :
             /\ u.attempt \in Nat
             /\ u.attempt <= wk[w].attempt
             /\ u.attempt < wk[w].attempt \/ (u = t /\ wk[w].pc = "resubmit")
    BY <1>1, AtWork, ExecutorAssumption DEF AttemptsFit, WorkerRecords, Txs
  <1>4. CASE Fault("net") /\ Goto(w, "caught") /\ UNCHANGED ledgerVars
    BY <1>1, <1>4, FaultsGrow, EffectCaught
  <1>5. ASSUME NEW c \in SoleSignerAnswers(w), Accept(t, c),
               \/ NoFault /\ SubmitAnswered(w, c)
               \/ AnswerLost(w, "submit", "resubmit", "caught")
        PROVE  EffectInv'
    <2> DEFINE S == OnLedger(Row(w)) \cup (IF Enters(c) THEN {t} ELSE {})
    <2>1. Enters(c) => Row(w) \notin CosignedRows
      BY DEF SoleSignerAnswers
    <2>2. \A u \in OnLedger(Row(w)) : u.attempt = t.attempt => u = t
      BY <1>3
    <2>3. Enters(c) => /\ t.attempt <= MaxSubmitRetries
                       /\ Row(w) \in CosignedRows => t.attempt = 0
                       /\ \A u \in OnLedger(Row(w)) : u.attempt = t.attempt => u = t
      BY <1>3, <2>1, <2>2
    <2>4. \A u \in S : u.attempt <= wk[w].attempt
      BY <1>3
    <2>5. (Informed' => Informed) /\ (NoneFailed' => NoneFailed)
      BY <1>5, FaultsGrow DEF AnswerLost
    <2>6. Informed => OnLedger(Row(w)) = {}
      BY <1>1, NotAnswered
    <2>7. CASE AnswerLost(w, "submit", "resubmit", "caught")
      <3>1. ~Informed'
        BY <2>7, FaultsTell DEF AnswerLost
      <3>2. PICK p \in {"caught", "resubmit"} :
                Goto(w, p) /\ (p = "resubmit" => wk[w].pc = "submit")
        BY <2>7 DEF AnswerLost
      <3> DEFINE x == [wk[w] EXCEPT !.pc = p]
      <3>3. /\ Become(w, x) /\ x.pc = p /\ x.batch = wk[w].batch /\ x.cur = wk[w].cur
            /\ x.attempt = wk[w].attempt /\ x.tx = t
        BY <3>2, GotoFits DEF Goto
      <3>4. AttemptsFit(x, S) /\ Busy(x)
        BY <1>3, <2>4, <3>3 DEF AttemptsFit, Busy
      <3>5. StatusFits(x.pc, "submitted")
        BY <3>3 DEF StatusFits
      <3> HIDE DEF x, S, t
      <3> QED BY <1>1, <1>2, <1>5, <2>3, <2>5, <3>1, <3>3, <3>4, <3>5, EffectAccept DEF S
    <2>8. CASE NoFault /\ SubmitAnswered(w, c)
      <3>1. CASE ClassifyResult(c) = "retry" /\ MayRetry(w)
        <4>1. ~Enters(c)
          BY <3>1, EnteringClasses
        <4>2. UNCHANGED ledgerVars
          BY <1>5, <4>1 DEF Accept, ledgerVars
        <4>3. Retry(w)
          BY <2>8, <3>1 DEF SubmitAnswered
        <4> QED BY <1>1, <2>5, <4>2, <4>3, EffectRetry
      <3>2. CASE ~(ClassifyResult(c) = "retry" /\ MayRetry(w))
        <4> DEFINE x == [wk[w] EXCEPT !.code = c,
                                      !.pc = IF ClassifyResult(c) = "success"
                                             THEN "lookup" ELSE "rejected"]
        <4>1. Become(w, x)
          BY <2>8, <3>2 DEF SubmitAnswered
        <4>2. /\ x.pc = IF ClassifyResult(c) = "success" THEN "lookup" ELSE "rejected"
              /\ x.batch = wk[w].batch /\ x.cur = wk[w].cur /\ x.code = c
              /\ x.attempt = wk[w].attempt /\ x.tx = t
          BY <1>3 DEF WorkerRecords
        <4>3. AttemptsFit(x, S) /\ Busy(x)
          BY <1>3, <2>4, <4>2 DEF AttemptsFit, Busy
        <4>4. StatusFits(x.pc, "submitted")
          BY <4>2 DEF StatusFits
        <4>5. Informed => Told(x, S)
          <5>1. x.pc = "rejected" /\ Enters(c) => ClassifyResult(c) = "manual_review"
            BY <4>2, EnteringClasses
          <5> QED BY <2>6, <4>2, <5>1 DEF Told, Answered
        <4> HIDE DEF x, S, t
        <4> QED BY <1>1, <1>2, <1>5, <2>3, <2>5, <4>1, <4>2, <4>3, <4>4, <4>5, EffectAccept DEF S
      <3> QED BY <3>1, <3>2
    <2> QED BY <1>5, <2>7, <2>8
  <1> QED BY <1>4, <1>5 DEF Submit

LEMMA EffectSubmitBlob ==
  ASSUME TypeInv, ClaimInv, EffectInv, NEW w \in Workers, SubmitBlob(w)
  PROVE  EffectInv'
  <1> DEFINE t == BlobTx(wk[w])
  <1>1. /\ wk[w].pc \in {"submitBlob", "resubmitBlob"} /\ wk[w].pc \in Unanswered
        /\ Busy(wk[w]) /\ UNCHANGED outbox
    BY DEF SubmitBlob, Unanswered, Busy
  <1>2. t \in Txs /\ t.row = Row(w) /\ t.attempt = 0
    BY <1>1, BusyRow DEF BlobTx, Txs, Row, Blob, Meta
  <1>3. /\ wk[w] \in WorkerRecords /\ wk[w].attempt = 0
        /\ \A u \in OnLedger(Row(w)) : u = t /\ wk[w].pc = "resubmitBlob"
    <2>1. \A u \in OnLedger(Row(w)) : u.attempt \in Nat
      BY <1>1, AtWork DEF Txs
    <2> QED BY <1>1, <2>1, AtWork DEF AttemptsFit
  <1>4. CASE Fault("net") /\ Goto(w, "cosignCaught") /\ UNCHANGED ledgerVars
    BY <1>1, <1>4, FaultsGrow, EffectCaught
  <1>5. ASSUME NEW c, Accept(t, c),
               \/ /\ NoFault
                  /\ Become(w, [wk[w] EXCEPT
                                  !.tx = t, !.code = c,
                                  !.pc = IF ClassifyResult(c) = "success"
                                         THEN "lookupBlob" ELSE "rejectedBlob"])
               \/ AnswerLost(w, "submitBlob", "resubmitBlob", "cosignCaught")
        PROVE  EffectInv'
    <2> DEFINE S == OnLedger(Row(w)) \cup (IF Enters(c) THEN {t} ELSE {})
    <2>1. Enters(c) => /\ t.attempt <= MaxSubmitRetries
                       /\ Row(w) \in CosignedRows => t.attempt = 0
                       /\ \A u \in OnLedger(Row(w)) : u.attempt = t.attempt => u = t
      BY <1>2, <1>3, ExecutorAssumption
    <2>2. \A u \in S : u = t /\ u.attempt <= wk[w].attempt
      BY <1>2, <1>3
    <2>3. (Informed' => Informed) /\ (NoneFailed' => NoneFailed)
      BY <1>5, FaultsGrow DEF AnswerLost
    <2>4. Informed => OnLedger(Row(w)) = {}
      BY <1>1, NotAnswered
    <2>5. CASE AnswerLost(w, "submitBlob", "resubmitBlob", "cosignCaught")
      <3>1. ~Informed'
        BY <2>5, FaultsTell DEF AnswerLost
      <3>2. PICK p \in {"cosignCaught", "resubmitBlob"} : Goto(w, p)
        BY <2>5 DEF AnswerLost
      <3> DEFINE x == [wk[w] EXCEPT !.pc = p]
      <3>3. /\ Become(w, x) /\ x.pc = p /\ x.batch = wk[w].batch /\ x.cur = wk[w].cur
            /\ x.attempt = wk[w].attempt /\ BlobTx(x) = t
        BY <3>2, GotoFits DEF Goto, BlobTx
      <3>4. AttemptsFit(x, S) /\ Busy(x)
        BY <1>3, <2>2, <3>3 DEF AttemptsFit, Busy
      <3>5. StatusFits(x.pc, "submitted")
        BY <3>3 DEF StatusFits
      <3> HIDE DEF x, S, t
      <3> QED BY <1>1, <1>2, <1>5, <2>1, <2>3, <3>1, <3>3, <3>4, <3>5, EffectAccept DEF S
    <2>6. ASSUME NoFault,
                 Become(w, [wk[w] EXCEPT
                              !.tx = t, !.code = c,
                              !.pc = IF ClassifyResult(c) = "success"
                                     THEN "lookupBlob" ELSE "rejectedBlob"])
          PROVE  EffectInv'
      <3> DEFINE x == [wk[w] EXCEPT !.tx = t, !.code = c,
                                    !.pc = IF ClassifyResult(c) = "success"
                                           THEN "lookupBlob" ELSE "rejectedBlob"]
      <3>1. Become(w, x)
        BY <2>6
      <3>2. /\ x.pc = IF ClassifyResult(c) = "success" THEN "lookupBlob" ELSE "rejectedBlob"
            /\ x.batch = wk[w].batch /\ x.cur = wk[w].cur /\ x.code = c
            /\ x.attempt = wk[w].attempt /\ x.tx = t
        BY <1>3 DEF WorkerRecords
      <3>3. AttemptsFit(x, S) /\ Busy(x)
        BY <1>3, <2>2, <3>2 DEF AttemptsFit, Busy
      <3>4. StatusFits(x.pc, "submitted")
        BY <3>2 DEF StatusFits
      <3>5. Informed => Told(x, S)
        <4>1. x.pc = "rejectedBlob" /\ Enters(c) => ClassifyResult(c) = "manual_review"
          BY <3>2, EnteringClasses
        <4> QED BY <2>4, <3>2, <4>1 DEF Told, Answered
      <3> HIDE DEF x, S, t
      <3> QED BY <1>1, <1>2, <1>5, <2>1, <2>3, <3>1, <3>2, <3>3, <3>4, <3>5, EffectAccept DEF S
    <2> QED BY <1>5, <2>5, <2>6
  <1>6. t = [row |-> Row(w), attempt |-> 0, seq |-> Blob(w)]
    BY DEF BlobTx, Row, Blob, Meta
  <1> HIDE DEF t
  <1> QED BY <1>4, <1>5, <1>6 DEF SubmitBlob

----------------------------------------------------------------------------
(* The other steps: claims, crashes, the API and the ledger itself.         *)

\* A step that writes no rows but unclaimed ones, and leaves every worker as it
\* was or as it may be.
LEMMA EffectUnclaimed ==
  ASSUME TypeInv, ClaimInv, EffectInv,
         NEW S \in SUBSET Rows, \A r \in S : outbox[r].status \in Unclaimed,
         \A r \in Rows \ S : outbox'[r] = outbox[r],
         UNCHANGED ledgerVars,
         Informed' => Informed, NoneFailed' => NoneFailed,
         \A v \in Workers : wk'[v] = wk[v] \/ WorkerOK(wk[v])'
  PROVE  EffectInv'
  <1>1. \A r : OnLedger(r)' = OnLedger(r) /\ Executed(r)' = Executed(r)
    BY SameLedger
  <1>2. AttemptsOK' /\ (Informed' => OneEach')
    BY SameLedger DEF EffectInv, AttemptsOK, OneEach
  <1>3. ASSUME NEW r \in Rows PROVE RowOK(r)'
    <2>1. CASE r \in S
      <3>1. OnLedger(r) = {}
        BY <2>1 DEF EffectInv, RowOK
      <3>2. Executed(r) = {} /\ \A t \in pool : t.row # r
        BY <3>1 DEF OnLedger, Executed
      <3> QED BY <1>1, <3>1, <3>2, SameLedger DEF RowOK, TrueOf
    <2>2. CASE r \notin S
      BY <1>1, <2>2, SameLedger DEF EffectInv, RowOK, TrueOf
    <2> QED BY <2>1, <2>2
  <1>4. ASSUME NEW v \in Workers, wk'[v] = wk[v] PROVE WorkerOK(wk[v])'
    <2>1. \A r \in Held(v) : outbox'[r] = outbox[r]
      BY DEF ClaimInv, HeldOK
    <2>2. \A s \in wk[v].batch : outbox'[s.row] = outbox[s.row]
      BY <2>1 DEF Held
    <2>3. Busy(wk[v]) => outbox'[wk[v].cur.row] = outbox[wk[v].cur.row]
      BY <2>1 DEF Held, Busy, Row
    <2>4. WorkerOK(wk[v])
      BY DEF EffectInv
    <2>5. BatchOK(wk[v])'
      BY <1>1, <1>4, <2>2, <2>4 DEF WorkerOK, BatchOK
    <2> QED BY <1>1, <1>4, <2>3, <2>4, <2>5 DEF WorkerOK
  <1> QED BY <1>2, <1>3, <1>4 DEF EffectInv

LEMMA EffectApi ==
  ASSUME TypeInv, ClaimInv, EffectInv, ApiStep
  PROVE  EffectInv'
  <1>1. PICK r \in Rows : Enqueue(r) \/ EnqueueCosigned(r)
    BY DEF ApiStep
  <1>2. outbox[r].status \in Unclaimed
    BY <1>1 DEF Enqueue, EnqueueCosigned, Unclaimed
  <1>3. \A q \in Rows \ {r} : outbox'[q] = outbox[q]
    BY <1>1 DEF Enqueue, EnqueueCosigned, TypeInv, OutboxOK
  <1>4. UNCHANGED ledgerVars /\ UNCHANGED wk /\ UNCHANGED faults
    BY <1>1 DEF Enqueue, EnqueueCosigned
  <1>5. (Informed' => Informed) /\ (NoneFailed' => NoneFailed)
    BY <1>4, FaultsGrow
  <1>6. {r} \in SUBSET Rows /\ \A q \in {r} : outbox[q].status \in Unclaimed
    BY <1>2
  <1> QED BY <1>3, <1>4, <1>5, <1>6, EffectUnclaimed

LEMMA EffectClaim ==
  ASSUME TypeInv, ClaimInv, EffectInv, NEW w \in Workers, ProcessPending(w)
  PROVE  EffectInv'
  <1> DEFINE snaps(S) == {[row |-> r, meta |-> outbox[r].meta] : r \in S}
             x(S, spike) == [wk[w] EXCEPT !.pc = "next", !.feeSpike = spike,
                                          !.batch = snaps(S)]
  <1>1. PICK S \in OldestClaimable :
            /\ ClaimRows(S)
            /\ \/ NoFault /\ \E spike \in BOOLEAN : Become(w, x(S, spike))
               \/ Fault("db") /\ UNCHANGED wk
    BY DEF ProcessPending, NetworkStatuses
  <1>2. S \subseteq Rows /\ \A r \in S : outbox[r].status \in Unclaimed
    BY DEF OldestClaimable, Claimable, Unclaimed
  <1>3. /\ \A r \in Rows \ S : outbox'[r] = outbox[r]
        /\ \A r \in S : outbox'[r].status = "processing"
    <2>1. ClaimRows(S)
      BY <1>1
    <2> QED BY <1>2, <2>1 DEF ClaimRows, TypeInv, OutboxOK, RowRecords
  <1>4. UNCHANGED ledgerVars
    BY DEF ProcessPending
  <1>5. (Informed' => Informed) /\ (NoneFailed' => NoneFailed)
    BY <1>1, FaultsGrow
  <1>6. CASE UNCHANGED wk
    BY <1>2, <1>3, <1>4, <1>5, <1>6, EffectUnclaimed
  <1>7. ASSUME NEW spike \in BOOLEAN, Become(w, x(S, spike)) PROVE EffectInv'
    <2> HIDE DEF snaps
    <2>1. \A v \in Workers : wk'[v] = IF v = w THEN x(S, spike) ELSE wk[v]
      BY <1>7 DEF Become, TypeInv, WorkersOK
    <2>2. /\ wk'[w].pc = "next" /\ wk'[w].batch = snaps(S)
          /\ wk'[w].attempt = wk[w].attempt
      BY <2>1 DEF TypeInv, WorkersOK, WorkerRecords
    <2>3. wk[w].attempt = 0
      BY DEF ProcessPending, EffectInv, WorkerOK, AttemptsFit
    <2>4. \A r \in S : OnLedger(r) = {}
      BY <1>2 DEF EffectInv, RowOK
    <2>5. \A r : OnLedger(r)' = OnLedger(r)
      BY <1>4, SameLedger
    <2>6. BatchOK(wk[w])'
      <3>1. /\ \A s \in snaps(S) : s.row \in S
            /\ \A s, q \in snaps(S) : s.row = q.row => s = q
        BY DEF snaps
      <3> QED BY <1>3, <2>2, <2>4, <2>5, <3>1 DEF BatchOK, Busy
    <2>7. WorkerOK(wk[w])'
      BY <2>2, <2>3, <2>6 DEF WorkerOK, AttemptsFit, Told, Busy
    <2>8. \A v \in Workers : wk'[v] = wk[v] \/ WorkerOK(wk[v])'
      BY <2>1, <2>7
    <2> QED BY <1>2, <1>3, <1>4, <1>5, <2>8, EffectUnclaimed
  <1> QED BY <1>1, <1>6, <1>7

LEMMA EffectNextRow ==
  ASSUME TypeInv, ClaimInv, EffectInv, NEW w \in Workers, NextRow(w)
  PROVE  EffectInv'
  <1>1. PICK s \in wk[w].batch :
          Become(w, [wk[w] EXCEPT !.pc = "begin", !.cur = s, !.batch = @ \ {s}])
    BY DEF NextRow
  <1>2. /\ wk'[w].pc = "begin" /\ wk'[w].cur = s /\ wk'[w].batch = wk[w].batch \ {s}
        /\ wk'[w].attempt = wk[w].attempt
    BY <1>1 DEF Become, TypeInv, WorkersOK, WorkerRecords
  <1>3. \A v \in Workers : v # w => wk'[v] = wk[v]
    BY <1>1 DEF Become, TypeInv, WorkersOK
  <1>4. UNCHANGED outbox /\ UNCHANGED ledgerVars /\ UNCHANGED faults
    BY DEF NextRow
  <1>5. WorkerOK(wk[w]) /\ wk[w].pc = "next"
    BY DEF NextRow, EffectInv
  <1>6. \A r : OnLedger(r)' = OnLedger(r)
    BY <1>4, SameLedger
  <1>7. (Informed' => Informed) /\ (NoneFailed' => NoneFailed)
    BY <1>4, FaultsGrow
  <1>8. BatchOK(wk[w])'
    BY <1>2, <1>4, <1>5, <1>6, <1>7 DEF WorkerOK, BatchOK
  <1>9. OnLedger(s.row) = {} /\ (NoneFailed => outbox[s.row].status = "processing")
    BY <1>5 DEF WorkerOK, BatchOK
  <1>10. WorkerOK(wk[w])'
    <2>1. AttemptsFit(wk'[w], {}) /\ Told(wk'[w], {})
      BY <1>2, <1>5 DEF WorkerOK, AttemptsFit, Told
    <2>2. NoneFailed' => StatusFits(wk'[w].pc, outbox'[s.row].status)
      BY <1>2, <1>4, <1>7, <1>9 DEF StatusFits, Underway
    <2> QED BY <1>2, <1>6, <1>8, <1>9, <2>1, <2>2 DEF WorkerOK
  <1>11. \A v \in Workers : wk'[v] = wk[v] \/ WorkerOK(wk[v])'
    BY <1>3, <1>10
  <1>12. {} \in SUBSET Rows
    OBVIOUS
  <1> QED BY <1>4, <1>7, <1>11, <1>12, EffectUnclaimed

LEMMA EffectCrash ==
  ASSUME TypeInv, ClaimInv, EffectInv, NEW w \in Workers, Crash(w)
  PROVE  EffectInv'
  <1>1. PICK c \in Configs : Become(w, Started(c))
    BY DEF Crash
  <1>2. wk'[w].pc = "idle" /\ wk'[w].batch = {} /\ wk'[w].attempt = 0
    BY <1>1 DEF Become, Started, TypeInv, WorkersOK
  <1>3. WorkerOK(wk[w])'
    BY <1>2 DEF WorkerOK, BatchOK, AttemptsFit, Told, Busy
  <1>4. \A v \in Workers : wk'[v] = wk[v] \/ WorkerOK(wk[v])'
    BY <1>1, <1>3 DEF Become, TypeInv, WorkersOK
  <1>5. UNCHANGED outbox /\ UNCHANGED ledgerVars
    BY DEF Crash
  <1>6. (Informed' => Informed) /\ (NoneFailed' => NoneFailed)
    BY FaultsGrow DEF Crash
  <1>7. {} \in SUBSET Rows
    OBVIOUS
  <1> QED BY <1>4, <1>5, <1>6, <1>7, EffectUnclaimed

\* The ledger takes in nothing of its own.
LEMMA EffectLedger ==
  ASSUME TypeInv, ClaimInv, EffectInv, LedgerStep
  PROVE  EffectInv'
  <1>1. PICK t \in pool : Validate(t) \/ Expire(t)
    BY DEF LedgerStep
  <1>2. UNCHANGED outbox /\ UNCHANGED wk /\ UNCHANGED faults
    BY DEF LedgerStep, executorVars
  <1>3. (Informed' <=> Informed) /\ (NoneFailed' <=> NoneFailed)
    BY <1>2 DEF Informed, NoneFailed
  <1>4. /\ pool' \subseteq pool
        /\ validated' = validated \/ \E c : validated' = validated \cup {[tx |-> t, code |-> c]}
        /\ validated' # validated => pool' = pool \ {t}
    BY <1>1 DEF Validate, Expire
  <1>5. InLedger' \subseteq InLedger
    BY <1>4 DEF InLedger
  <1>6. \A r : OnLedger(r)' \subseteq OnLedger(r)
    BY <1>4 DEF OnLedger
  <1>7. AttemptsOK'
    BY <1>5 DEF EffectInv, AttemptsOK
  <1>8. ASSUME Informed' PROVE OneEach'
    <2>1. OneEach
      BY <1>3, <1>8 DEF EffectInv
    <2>2. CASE validated' = validated
      BY <1>4, <1>5, <2>1, <2>2 DEF OneEach
    <2>3. CASE validated' # validated
      <3>1. PICK c : validated' = validated \cup {[tx |-> t, code |-> c]}
        BY <1>4, <2>3
      <3>2. pool' = pool \ {t}
        BY <1>4, <2>3
      <3> QED BY <1>5, <2>1, <3>1, <3>2 DEF OneEach
    <2> QED BY <2>2, <2>3
  <1>9. ASSUME NEW r \in Rows PROVE RowOK(r)'
    <2>1. Executed(r) = {} /\ (\A u \in pool : u.row # r) => Executed(r)' = {}
      BY <1>4 DEF Executed
    <2> QED BY <1>2, <1>3, <1>4, <1>6, <2>1 DEF EffectInv, RowOK, TrueOf
  <1>10. ASSUME NEW v \in Workers PROVE WorkerOK(wk[v])'
    <2>1. WorkerOK(wk[v]) /\ wk'[v] = wk[v]
      BY <1>2 DEF EffectInv
    <2>2. BatchOK(wk[v])'
      BY <1>2, <1>3, <1>6, <2>1 DEF WorkerOK, BatchOK
    <2>3. AttemptsFit(wk[v], OnLedger(wk[v].cur.row))'
      BY <1>6, <2>1 DEF WorkerOK, AttemptsFit
    <2>4. Informed' => Told(wk[v], OnLedger(wk[v].cur.row))'
      BY <1>3, <1>6, <2>1 DEF WorkerOK, Told
    <2> QED BY <1>2, <1>3, <2>1, <2>2, <2>3, <2>4 DEF WorkerOK
  <1> QED BY <1>7, <1>8, <1>9, <1>10 DEF EffectInv

LEMMA EffectNext == TypeInv /\ ClaimInv /\ TruthInv /\ EffectInv /\ [Next]_vars => EffectInv'
  <1> SUFFICES ASSUME TypeInv, ClaimInv, TruthInv, EffectInv, [Next]_vars PROVE EffectInv'
    OBVIOUS
  <1>1. ASSUME NEW w \in Workers, WorkerStep(w) PROVE EffectInv'
    <2>1. CASE \/ Record(w, "prepared", DryHash(w), "unhandled")
               \/ Record(w, "record", wk[w].tx, "caught")
               \/ Record(w, "recordBlob", wk[w].tx, "cosignCaught")
      <3>1. Busy(wk[w])
        BY <2>1 DEF Record, Busy
      <3>2. {"unhandled", "caught", "cosignCaught"} \subseteq Errors
        BY DEF Errors
      <3> QED BY <2>1, <3>1, <3>2, EffectRecord
    <2> QED
      BY <1>1, <2>1, EffectClaim, EffectNextRow, EffectUnhandled, EffectBlock, EffectDryRun,
         EffectMarkSubmitted, EffectReserve, EffectSubmit, EffectLookup, EffectSettle,
         EffectRetryAfterError, EffectSubmitBlob
         DEF WorkerStep
  <1>2. CASE UNCHANGED vars
    <2>1. UNCHANGED ledgerVars /\ UNCHANGED outbox /\ UNCHANGED wk /\ UNCHANGED faults
      BY <1>2 DEF vars, executorVars
    <2>2. (Informed' => Informed) /\ (NoneFailed' => NoneFailed) /\ {} \in SUBSET Rows
      BY <2>1, FaultsGrow
    <2> QED BY <2>1, <2>2, EffectUnclaimed
  <1> QED BY <1>1, <1>2, EffectApi, EffectCrash, EffectLedger DEF Next

\* What all theorems of this module rest on.
IInv == TypeInv /\ ClaimInv /\ TruthInv /\ EffectInv

LEMMA IInvInit == Init => IInv
  BY TypeInit, ClaimInit, TruthInit, EffectInit DEF IInv

LEMMA IInvNext == IInv /\ [Next]_vars => IInv'
  BY TypeNext, ClaimNext, TruthNext, EffectNext DEF IInv

LEMMA IInvCorrect == Spec => []IInv
  BY IInvInit, IInvNext, PTL DEF Spec

----------------------------------------------------------------------------
(* What the invariant says of every row.                                    *)

LEMMA AtMost ==
  ASSUME NEW S \in SUBSET Txs, NEW n \in Nat,
         \A t \in S : t.attempt <= n,
         \A t, u \in S : t.attempt = u.attempt => t = u
  PROVE  Cardinality(S) <= n + 1
  <1> DEFINE f == [t \in S |-> t.attempt]
  <1>1. \A t \in S : t.attempt \in 0..n
    BY DEF Txs
  <1>2. f \in Injection(S, 0..n)
    BY <1>1 DEF Injection, IsInjective
  <1>3. IsFiniteSet(0..n) /\ Cardinality(0..n) = n + 1
    BY FS_Interval
  <1> HIDE DEF f
  <1> QED BY <1>2, <1>3, FS_Injection

LEMMA EffectsAreBounded == IInv => BoundedSubmissions
  <1> SUFFICES ASSUME IInv, NEW r \in Rows
               PROVE  /\ OnLedger(r) # {} => outbox[r].claims > 0
                      /\ Cardinality(OnLedger(r))
                           <= IF r \in CosignedRows THEN 1 ELSE MaxSubmitRetries + 1
    BY DEF BoundedSubmissions
  <1>1. OnLedger(r) # {} => outbox[r].claims > 0
    BY DEF IInv, EffectInv, RowOK, ClaimInv, ClaimsOK
  <1>2. OnLedger(r) \in SUBSET Txs /\ OnLedger(r) \subseteq InLedger
    BY LedgerTyped DEF IInv
  <1>3. \A t \in OnLedger(r) : t.row = r
    BY DEF OnLedger
  <1>4. AttemptsOK
    BY DEF IInv, EffectInv
  <1>5. \A t, u \in OnLedger(r) : t.attempt = u.attempt => t = u
    BY <1>2, <1>3, <1>4 DEF AttemptsOK
  <1>6. CASE r \in CosignedRows
    <2>1. \A t \in OnLedger(r) : t.attempt <= 0
      BY <1>2, <1>3, <1>4, <1>6 DEF AttemptsOK
    <2>2. Cardinality(OnLedger(r)) <= 0 + 1
      BY <1>2, <1>5, <2>1, AtMost
    <2> QED BY <1>1, <1>6, <2>2
  <1>7. CASE r \notin CosignedRows
    <2>1. \A t \in OnLedger(r) : t.attempt <= MaxSubmitRetries
      BY <1>2, <1>4 DEF AttemptsOK
    <2>2. Cardinality(OnLedger(r)) <= MaxSubmitRetries + 1
      BY <1>2, <1>5, <2>1, AtMost, ExecutorAssumption
    <2> QED BY <1>1, <1>7, <2>2
  <1> QED BY <1>6, <1>7

LEMMA InformedOnce == IInv => AtMostOnce
  <1> SUFFICES ASSUME IInv, Informed, NEW r \in Rows PROVE Cardinality(OnLedger(r)) <= 1
    BY DEF AtMostOnce
  <1>1. \A t, u \in OnLedger(r) : t = u
    BY LedgerTyped DEF IInv, EffectInv, OneEach
  <1>2. CASE OnLedger(r) = {}
    BY <1>2, FS_EmptySet
  <1>3. CASE OnLedger(r) # {}
    <2>1. PICK t : t \in OnLedger(r)
      BY <1>3
    <2>2. OnLedger(r) = {t}
      BY <1>1, <2>1
    <2>3. Cardinality({t}) = 1
      BY FS_Singleton
    <2> QED BY <2>2, <2>3
  <1> QED BY <1>2, <1>3

\* A row brings to the ledger at most one transaction per attempt of the retry
\* matrix, and one if it is a signed blob, whatever requests, answers,
\* statements and workers are lost between them, and none before it is claimed.
THEOREM SubmissionsAreBounded == Spec => []BoundedSubmissions
  BY IInvCorrect, EffectsAreBounded, PTL

\* As long as the executor is told the truth, its retries never follow a
\* transaction that the ledger took in: whatever requests fail and workers die,
\* a row is on the ledger at most once.
THEOREM InformedRowsSubmitOnce == Spec => []AtMostOnce
  BY IInvCorrect, InformedOnce, PTL

\* As long as the executor is told the truth, FAILED means that the row has had
\* no effect and will have none: on the paths of the retries, of a validated
\* failure, of a refused submission and of the catch blocks alike.
THEOREM FailedRowsHaveNoEffect == Spec => []FailedHasNoEffect
  <1>1. IInv => FailedHasNoEffect
    BY DEF IInv, EffectInv, RowOK, TrueOf, FailedHasNoEffect
  <1> QED BY <1>1, IInvCorrect, PTL

\* As long as the executor is told the truth, whatever a row has on the ledger
\* can be found from the row: by its hash, or because it still says SUBMITTED,
\* which is written before the submission so that a crash leaves it there.
THEOREM RowsLeadToTheirTx == Spec => []Traceable
  <1>1. IInv => Traceable
    BY DEF IInv, EffectInv, RowOK, TrueOf, Traceable
  <1> QED BY <1>1, IInvCorrect, PTL

----------------------------------------------------------------------------
(* How a step changes the rows, as long as no statement fails: it inserts   *)
(* one, claims some, or carries on with one that is being worked on.        *)

Taken == {"processing", "submitted"}

Inserts(r) == outbox[r].status = "absent" /\ outbox'[r].status \in ClaimableStatuses
Claims(r) == outbox[r].status \in ClaimableStatuses /\ outbox'[r].status = "processing"
WorksOn(r) ==
    outbox[r].status \in Taken /\ outbox'[r].status \in {"submitted"} \cup SettledStatuses

OneMoves ==
    \E r \in Rows : /\ Inserts(r) \/ WorksOn(r)
                    /\ \A q \in Rows \ {r} : outbox'[q] = outbox[q]
SomeClaimed ==
    \E S \in SUBSET Rows : /\ \A r \in S : Claims(r)
                           /\ \A q \in Rows \ S : outbox'[q] = outbox[q]

RowsChange ==
    \/ UNCHANGED outbox
    \/ UNCHANGED validated /\ (OneMoves \/ SomeClaimed)

\* A worker sets its row to o.
LEMMA WorkWritten ==
  ASSUME IInv, NoneFailed, NEW w \in Workers, Busy(wk[w]),
         wk[w].pc \in {"begin", "unhandled"} \cup Underway,
         NEW o, o.status \in {"submitted"} \cup SettledStatuses,
         outbox' = [outbox EXCEPT ![Row(w)] = o], UNCHANGED validated
  PROVE  RowsChange
  <1>1. Row(w) \in Rows /\ outbox[Row(w)].status \in Taken
    BY AtWork DEF IInv, StatusFits, Taken
  <1>2. /\ outbox'[Row(w)] = o
        /\ \A q \in Rows \ {Row(w)} : outbox'[q] = outbox[q]
    BY <1>1 DEF IInv, TypeInv, OutboxOK
  <1> QED BY <1>1, <1>2 DEF RowsChange, OneMoves, WorksOn

LEMMA WorkUpdated ==
  ASSUME IInv, NoneFailed', NEW w \in Workers, Busy(wk[w]),
         wk[w].pc \in {"begin", "unhandled"} \cup Underway,
         NEW o, o.status \in {"submitted"} \cup SettledStatuses,
         NEW p, NEW e, Update(w, o, p, e), UNCHANGED validated
  PROVE  RowsChange
  <1>1. ~Fault("db")
    BY FaultsTell DEF IInv
  <1>2. outbox' = [outbox EXCEPT ![Row(w)] = o] /\ NoneFailed
    BY <1>1 DEF Update, NoFault, NoneFailed
  <1> QED BY <1>2, WorkWritten

LEMMA RowsChangeStep ==
  ASSUME IInv, NoneFailed', NEW w \in Workers, WorkerStep(w) \/ Crash(w)
  PROVE  RowsChange
  <1>1. CASE ProcessPending(w)
    <2>1. PICK S \in OldestClaimable : ClaimRows(S)
      BY <1>1 DEF ProcessPending
    <2>2. S \subseteq Rows /\ \A r \in S : outbox[r].status \in ClaimableStatuses
      BY DEF OldestClaimable, Claimable
    <2>3. /\ \A r \in Rows \ S : outbox'[r] = outbox[r]
          /\ \A r \in S : outbox'[r].status = "processing"
      BY <2>1, <2>2 DEF ClaimRows, IInv, TypeInv, OutboxOK, RowRecords
    <2> QED BY <1>1, <2>2, <2>3 DEF RowsChange, SomeClaimed, Claims, ProcessPending, ledgerVars
  <1>2. ASSUME NEW s \in {"submitted"} \cup SettledStatuses, NEW p, NEW e,
               wk[w].pc \in {"begin", "unhandled"} \cup Underway, Busy(wk[w]),
               UNCHANGED validated,
               Update(w, [outbox[Row(w)] EXCEPT !.status = s], p, e)
        PROVE  RowsChange
    <2> DEFINE o == [outbox[Row(w)] EXCEPT !.status = s]
    <2>1. o.status = s
      BY <1>2, AtWork DEF IInv, RowRecords
    <2>2. Update(w, o, p, e)
      BY <1>2
    <2> HIDE DEF o
    <2> QED BY <1>2, <2>1, <2>2, WorkUpdated
  <1>3. CASE Block(w) \/ BlockNoSigner(w) \/ GiveUp(w, "caught") \/ GiveUp(w, "cosignCaught")
    BY <1>2, <1>3 DEF Block, BlockNoSigner, GiveUp, Underway, Busy, SettledStatuses, ledgerVars
  <1>4. CASE MarkSubmitted(w)
    BY <1>2, <1>4 DEF MarkSubmitted, Busy, RowsChange, ledgerVars
  <1>5. CASE Unhandled(w)
    <2> DEFINE o == [outbox[Row(w)] EXCEPT !.status = "failed"]
    <2>1. Busy(wk[w]) /\ wk[w].pc = "unhandled" /\ UNCHANGED validated
      BY <1>5 DEF Unhandled, Busy, ledgerVars
    <2>2. o.status = "failed"
      BY <2>1, AtWork DEF IInv, RowRecords
    <2>3. ~Fault("db")
      BY FaultsTell DEF IInv
    <2>4. outbox' = [outbox EXCEPT ![Row(w)] = o] /\ NoneFailed
      BY <1>5, <2>3 DEF Unhandled, NoFault, NoneFailed
    <2> HIDE DEF o
    <2> QED BY <2>1, <2>2, <2>4, WorkWritten DEF SettledStatuses
  <1>6. CASE PrepareDryRun(w)
    <2> DEFINE o == [outbox[Row(w)] EXCEPT !.status = "prepared", !.hash = DryHash(w),
                                           !.result = "dry"]
    <2>1. Busy(wk[w]) /\ wk[w].pc = "begin" /\ UNCHANGED validated
      BY <1>6 DEF PrepareDryRun, Busy, ledgerVars
    <2>2. o.status = "prepared" /\ Update(w, o, "prepared", "unhandled")
      BY <1>6, <2>1, AtWork DEF IInv, RowRecords, PrepareDryRun
    <2> HIDE DEF o
    <2> QED BY <2>1, <2>2, WorkUpdated DEF SettledStatuses
  <1>7. CASE \/ SettleValidated(w) \/ SettleUnknown(w) \/ SettleRejected(w)
             \/ SettleBlobValidated(w) \/ AwaitBlobValidation(w) \/ SettleBlobRejected(w)
    <2>1. /\ wk[w].pc \in Underway /\ Busy(wk[w]) /\ UNCHANGED validated
      BY <1>7 DEF Underway, Busy, ledgerVars, SettleValidated, SettleUnknown, SettleRejected,
                  SettleBlobValidated, AwaitBlobValidation, SettleBlobRejected
    <2>2. PICK s, res, p, e :
            /\ s \in {"validated", "failed", "manual_review", "submitted"}
            /\ \/ Update(w, Settled(w, s, res), p, e)
               \/ Update(w, [Settled(w, s, res) EXCEPT !.meta = Meta(w)], p, e)
      <3>1. {ValidatedStatus(w), RejectedStatus(w), RejectedBlobStatus(w)}
              \subseteq {"validated", "failed", "manual_review", "submitted"}
        BY DEF ValidatedStatus, RejectedStatus, RejectedBlobStatus
      <3> QED
        BY <1>7, <3>1
           DEF SettleValidated, SettleUnknown, SettleRejected,
               SettleBlobValidated, AwaitBlobValidation, SettleBlobRejected
    <2> DEFINE o == Settled(w, s, res)
               b == [o EXCEPT !.meta = Meta(w)]
    <2>3. o.status = s /\ b.status = s
      BY <2>1, AtWork DEF IInv, Settled, RowRecords
    <2>4. Update(w, o, p, e) \/ Update(w, b, p, e)
      BY <2>2
    <2>5. s \in {"submitted"} \cup SettledStatuses
      BY <2>2 DEF SettledStatuses
    <2> HIDE DEF o, b
    <2> QED BY <2>1, <2>3, <2>4, <2>5, WorkUpdated
  <1>8. CASE UNCHANGED outbox
    BY <1>8 DEF RowsChange
  <1>9. \/ UNCHANGED outbox
        \/ ProcessPending(w) \/ Unhandled(w) \/ Block(w) \/ PrepareDryRun(w) \/ MarkSubmitted(w)
        \/ BlockNoSigner(w) \/ SettleValidated(w) \/ SettleUnknown(w) \/ SettleRejected(w)
        \/ GiveUp(w, "caught") \/ SettleBlobValidated(w) \/ AwaitBlobValidation(w)
        \/ SettleBlobRejected(w) \/ GiveUp(w, "cosignCaught")
    BY DEF WorkerStep, Crash, NextRow, Record, Reserve, Submit, Lookup, RetryAfterError, SubmitBlob
  <1> QED BY <1>1, <1>3, <1>4, <1>5, <1>6, <1>7, <1>8, <1>9

LEMMA RowsChangeNext == IInv /\ NoneFailed' /\ [Next]_vars => RowsChange
  <1> SUFFICES ASSUME IInv, NoneFailed', [Next]_vars PROVE RowsChange
    OBVIOUS
  <1>1. CASE ApiStep
    <2>1. PICK r \in Rows : Enqueue(r) \/ EnqueueCosigned(r)
      BY <1>1 DEF ApiStep
    <2>2. Inserts(r) /\ \A q \in Rows \ {r} : outbox'[q] = outbox[q]
      BY <2>1 DEF Enqueue, EnqueueCosigned, Inserts, ClaimableStatuses, IInv, TypeInv, OutboxOK,
                  RowRecords
    <2>3. UNCHANGED validated
      BY <2>1 DEF Enqueue, EnqueueCosigned, ledgerVars
    <2> QED BY <2>2, <2>3 DEF RowsChange, OneMoves
  <1>2. CASE LedgerStep \/ UNCHANGED vars
    BY <1>2 DEF RowsChange, LedgerStep, vars, executorVars
  <1> QED BY <1>1, <1>2, RowsChangeStep DEF Next

LEMMA SettledKept == IInv /\ [Next]_vars /\ faults'["db"] = 0 =>
    \A r \in Rows : outbox[r].status \in SettledStatuses => outbox'[r].status = outbox[r].status
  <1> SUFFICES ASSUME IInv, [Next]_vars, faults'["db"] = 0, NEW r \in Rows,
                      outbox[r].status \in SettledStatuses
               PROVE  outbox'[r].status = outbox[r].status
    OBVIOUS
  <1>1. RowsChange
    BY RowsChangeNext DEF NoneFailed
  <1>2. ~Inserts(r) /\ ~Claims(r) /\ ~WorksOn(r)
    BY DEF Inserts, Claims, WorksOn, Taken, SettledStatuses, ClaimableStatuses
  <1>3. CASE OneMoves
    <2>1. PICK q \in Rows : /\ Inserts(q) \/ WorksOn(q)
                            /\ \A u \in Rows \ {q} : outbox'[u] = outbox[u]
      BY <1>3 DEF OneMoves
    <2>2. q # r
      BY <1>2, <2>1
    <2> QED BY <2>1, <2>2
  <1>4. CASE SomeClaimed
    <2>1. PICK S \in SUBSET Rows : /\ \A q \in S : Claims(q)
                                   /\ \A q \in Rows \ S : outbox'[q] = outbox[q]
      BY <1>4 DEF SomeClaimed
    <2>2. r \notin S
      BY <1>2, <2>1
    <2> QED BY <2>1, <2>2
  <1> QED BY <1>1, <1>3, <1>4 DEF RowsChange

\* As long as no statement fails, the executor never touches a settled row
\* again: no late answer, second worker or catch block overwrites its status.
THEOREM SettledRowsAreFinal == Spec => SettledIsFinal
  BY IInvCorrect, SettledKept, PTL DEF Spec, SettledIsFinal

----------------------------------------------------------------------------
(* What the outbox names is on record. A row is named a transaction in one  *)
(* statement and the transaction is recorded in a later one; in between the *)
(* worker holds the row, and what it is about to record is what the row     *)
(* names. A row that is not there yet names nothing.                        *)

Recording == {"prepared", "record", "recordBlob"}

ToRecord(x) ==
    IF x.pc = "prepared" THEN [row |-> x.cur.row, attempt |-> 0, seq |-> 0] ELSE x.tx

HashFits(x, hash) ==
    Busy(x) => hash = IF x.pc \in Recording THEN ToRecord(x) ELSE NoTx

OnRecord(o, S) ==
    o.hash # NoTx /\ o.status \notin {"manual_review", "submitted"} => o.hash \in S

RecordInv ==
    Undisturbed =>
        /\ \A r \in Rows : outbox[r].status \in Unclaimed => outbox[r].hash = NoTx
        /\ \A w \in Workers : /\ \A s \in wk[w].batch : outbox[s.row].hash = NoTx
                              /\ HashFits(wk[w], outbox[wk[w].cur.row].hash)
        /\ \A r \in Rows : Idle(r) => OnRecord(outbox[r], recorded)

LEMMA RecordInit == Init => RecordInv
  <1> SUFFICES ASSUME Init PROVE RecordInv
    OBVIOUS
  <1>1. \A r \in Rows : outbox[r].hash = NoTx
    BY DEF Init, ExecutorInit, AbsentRow
  <1>2. \A w \in Workers : wk[w].pc = "idle" /\ wk[w].batch = {}
    BY DEF Init, ExecutorInit, Started
  <1> QED BY <1>1, <1>2 DEF RecordInv, HashFits, Busy, OnRecord

LEMMA DisturbedStays ==
  ASSUME TypeInv,
         \/ NoFault \/ UNCHANGED faults
         \/ Fault("net") \/ Fault("lost") \/ Fault("db") \/ Fault("crash")
  PROVE  /\ Undisturbed' => Undisturbed
         /\ Fault("db") \/ Fault("crash") => ~Undisturbed'
  <1>1. faults \in [FaultKinds -> Nat]
    BY DEF TypeInv, FaultsOK
  <1> QED BY <1>1 DEF NoFault, Fault, FaultKinds, Undisturbed

\* A worker becomes x and sets its row to o.
LEMMA RecordKept ==
  ASSUME IInv, RecordInv, Undisturbed, NEW w \in Workers, Busy(wk[w]),
         NEW x, Become(w, x), x.batch = wk[w].batch, Busy(x) => x.cur = wk[w].cur,
         NEW o, outbox' = [outbox EXCEPT ![Row(w)] = o], recorded \subseteq recorded',
         o.status \notin Unclaimed, HashFits(x, o.hash),
         ~Busy(x) => OnRecord(o, recorded')
  PROVE  RecordInv'
  <1>1. \A r \in Rows : outbox'[r] = IF r = Row(w) THEN o ELSE outbox[r]
    BY DEF IInv, TypeInv, OutboxOK
  <1>2. \A v \in Workers : wk'[v] = IF v = w THEN x ELSE wk[v]
    BY DEF Become, IInv, TypeInv, WorkersOK
  <1>3. \A r \in Rows : outbox'[r].status \in Unclaimed => outbox'[r].hash = NoTx
    BY <1>1 DEF RecordInv
  <1>4. ASSUME NEW v \in Workers
        PROVE  /\ \A s \in wk'[v].batch : outbox'[s.row].hash = NoTx
               /\ HashFits(wk'[v], outbox'[wk'[v].cur.row].hash)
    <2>1. wk'[v].batch = wk[v].batch
      BY <1>2
    <2>2. \A s \in wk[v].batch : s.row \in Rows /\ s.row # Row(w)
      BY OthersHold DEF IInv
    <2>3. \A s \in wk'[v].batch : outbox'[s.row].hash = NoTx
      BY <1>1, <2>1, <2>2 DEF RecordInv
    <2>4. CASE v = w
      <3>1. Row(w) \in Rows
        BY OthersHold DEF IInv
      <3>2. Busy(x) => outbox'[x.cur.row] = o
        BY <1>1, <3>1 DEF Row
      <3> QED BY <1>2, <2>3, <2>4, <3>2 DEF HashFits
    <2>5. CASE v # w
      <3>1. Busy(wk[v]) => outbox'[wk[v].cur.row] = outbox[wk[v].cur.row]
        BY <1>1, <2>5, OthersHold DEF IInv
      <3> QED BY <1>2, <2>3, <2>5, <3>1 DEF RecordInv, HashFits
    <2> QED BY <2>4, <2>5
  <1>5. ASSUME NEW r \in Rows, Idle(r)' PROVE OnRecord(outbox'[r], recorded')
    <2>1. CASE r = Row(w)
      <3>1. ~Busy(x)
        <4>1. ASSUME Busy(x) PROVE FALSE
          <5>1. wk'[w].pc \notin {"idle", "next"} /\ wk'[w].cur.row = r
            BY <1>2, <2>1, <4>1 DEF Busy, Row
          <5>2. r \in Held(w)'
            BY <5>1 DEF Held, Row
          <5> QED BY <1>5, <5>2 DEF Idle
        <4> QED BY <4>1
      <3> QED BY <1>1, <2>1, <3>1
    <2>2. CASE r # Row(w)
      <3>1. ASSUME NEW v \in Workers PROVE r \notin Held(v)
        <4>1. r \notin Held(v)'
          BY <1>5 DEF Idle
        <4>2. CASE v = w
          BY <1>2, <2>2, <4>1, <4>2 DEF Held, Row
        <4>3. CASE v # w
          BY <1>2, <4>1, <4>3 DEF Held, Row
        <4> QED BY <4>2, <4>3
      <3> QED BY <1>1, <2>2, <3>1 DEF RecordInv, Idle, OnRecord
    <2> QED BY <2>1, <2>2
  <1> QED BY <1>3, <1>4, <1>5 DEF RecordInv

\* A worker becomes x, and its row stays.
LEMMA RecordQuiet ==
  ASSUME IInv, RecordInv, Undisturbed, NEW w \in Workers, Busy(wk[w]),
         NEW x, Become(w, x), x.batch = wk[w].batch, Busy(x) => x.cur = wk[w].cur,
         UNCHANGED outbox, recorded \subseteq recorded',
         HashFits(x, outbox[Row(w)].hash),
         ~Busy(x) => OnRecord(outbox[Row(w)], recorded')
  PROVE  RecordInv'
  <1> DEFINE o == outbox[Row(w)]
  <1>1. Row(w) \in Rows /\ o.status \notin Unclaimed
    BY OthersHold DEF IInv
  <1>2. outbox' = [outbox EXCEPT ![Row(w)] = o]
    BY <1>1 DEF IInv, TypeInv, OutboxOK
  <1> HIDE DEF o
  <1> QED BY <1>1, <1>2, RecordKept DEF o

\* A worker that has nothing to record goes on to p, where it has not either.
LEMMA RecordGoto ==
  ASSUME IInv, RecordInv, Undisturbed, NEW w \in Workers, Busy(wk[w]),
         wk[w].pc \notin Recording,
         NEW x, Become(w, x), x.batch = wk[w].batch, x.cur = wk[w].cur,
         Busy(x), x.pc \notin Recording, UNCHANGED outbox, UNCHANGED recorded
  PROVE  RecordInv'
  <1>1. HashFits(x, outbox[Row(w)].hash)
    BY DEF RecordInv, HashFits, Row
  <1> QED BY <1>1, RecordQuiet

\* A statement that did not throw, and named its row nothing new.
LEMMA RecordStatus ==
  ASSUME IInv, RecordInv, Undisturbed, Undisturbed', NEW w \in Workers, Busy(wk[w]),
         wk[w].pc \notin Recording, NEW s, s \notin Unclaimed,
         NEW p, p = "done" \/ p \notin Recording \cup {"idle", "next"}, NEW e,
         Update(w, [outbox[Row(w)] EXCEPT !.status = s], p, e), UNCHANGED recorded
  PROVE  RecordInv'
  <1> DEFINE o == [outbox[Row(w)] EXCEPT !.status = s]
  <1>1. o.status = s /\ o.hash = outbox[Row(w)].hash
    BY AtWork DEF IInv, RowRecords
  <1>2. o.hash = NoTx
    BY <1>1 DEF RecordInv, HashFits, Row
  <1>3. /\ outbox' = [outbox EXCEPT ![Row(w)] = o]
        /\ IF p = "done" THEN Finish(w) ELSE Goto(w, p)
    BY DisturbedStays DEF Update, IInv
  <1> HIDE DEF o
  <1>4. CASE p = "done"
    <2> DEFINE x == AfterRow(w)
    <2>1. Become(w, x) /\ ~Busy(x) /\ x.batch = wk[w].batch
      BY <1>3, <1>4, FinishFits DEF Finish
    <2>2. HashFits(x, o.hash) /\ OnRecord(o, recorded')
      BY <1>2, <2>1 DEF HashFits, OnRecord
    <2> HIDE DEF x
    <2> QED BY <1>1, <1>3, <2>1, <2>2, RecordKept
  <1>5. CASE p # "done"
    <2> DEFINE x == [wk[w] EXCEPT !.pc = p]
    <2>1. Become(w, x) /\ x.batch = wk[w].batch /\ x.cur = wk[w].cur /\ x.pc = p
      BY <1>3, <1>5, GotoFits DEF IInv, Goto
    <2>2. Busy(x) /\ HashFits(x, o.hash)
      BY <1>2, <1>5, <2>1 DEF Busy, HashFits
    <2> HIDE DEF x
    <2> QED BY <1>1, <1>3, <2>1, <2>2, RecordKept
  <1> QED BY <1>4, <1>5

\* A statement that named the row what the worker now records, or an awaited
\* transaction.
LEMMA RecordNamed ==
  ASSUME IInv, RecordInv, Undisturbed, Undisturbed', NEW w \in Workers, Busy(wk[w]),
         NEW o, o.status \notin Unclaimed, NEW p, NEW e, Update(w, o, p, e),
         UNCHANGED recorded,
         \/ p = "prepared" /\ o.hash = DryHash(w)
         \/ p \in {"record", "recordBlob"} /\ o.hash = wk[w].tx
         \/ p = "done" /\ o.status \in {"manual_review", "submitted"}
  PROVE  RecordInv'
  <1>1. /\ outbox' = [outbox EXCEPT ![Row(w)] = o]
        /\ IF p = "done" THEN Finish(w) ELSE Goto(w, p)
    BY DisturbedStays DEF Update, IInv
  <1>2. CASE p = "done"
    <2> DEFINE x == AfterRow(w)
    <2>1. Become(w, x) /\ ~Busy(x) /\ x.batch = wk[w].batch
      BY <1>1, <1>2, FinishFits DEF Finish
    <2>2. HashFits(x, o.hash) /\ OnRecord(o, recorded')
      BY <1>2, <2>1 DEF HashFits, OnRecord
    <2> HIDE DEF x
    <2> QED BY <1>1, <2>1, <2>2, RecordKept
  <1>3. CASE p # "done"
    <2> DEFINE x == [wk[w] EXCEPT !.pc = p]
    <2>1. /\ Become(w, x) /\ x.batch = wk[w].batch /\ x.cur = wk[w].cur /\ x.pc = p
          /\ x.tx = wk[w].tx
      BY <1>1, <1>3, GotoFits DEF IInv, Goto
    <2>2. Busy(x) /\ HashFits(x, o.hash)
      BY <1>3, <2>1 DEF Busy, HashFits, Recording, ToRecord, DryHash, Row
    <2> HIDE DEF x
    <2> QED BY <1>1, <2>1, <2>2, RecordKept
  <1> QED BY <1>2, <1>3

LEMMA RecordRecord ==
  ASSUME IInv, RecordInv, Undisturbed, Undisturbed', NEW w \in Workers,
         \/ Record(w, "prepared", DryHash(w), "unhandled")
         \/ Record(w, "record", wk[w].tx, "caught")
         \/ Record(w, "recordBlob", wk[w].tx, "cosignCaught")
  PROVE  RecordInv'
  <1> DEFINE x == AfterRow(w)
  <1>1. /\ wk[w].pc \in Recording /\ Busy(wk[w])
        /\ Finish(w) /\ UNCHANGED outbox /\ recorded' = recorded \cup {ToRecord(wk[w])}
    BY DisturbedStays DEF Record, IInv, Recording, Busy, ToRecord, DryHash, Row
  <1>2. Become(w, x) /\ ~Busy(x) /\ x.batch = wk[w].batch
    BY <1>1, FinishFits DEF Finish
  <1>3. outbox[Row(w)].hash = ToRecord(wk[w])
    BY <1>1 DEF RecordInv, HashFits, Row
  <1>4. HashFits(x, outbox[Row(w)].hash) /\ OnRecord(outbox[Row(w)], recorded')
    BY <1>1, <1>2, <1>3 DEF HashFits, OnRecord
  <1> HIDE DEF x
  <1> QED BY <1>1, <1>2, <1>4, RecordQuiet

\* Reserving, signing, submitting, looking up and retrying name no row anything.
LEMMA RecordMoves ==
  ASSUME IInv, RecordInv, Undisturbed, Undisturbed', NEW w \in Workers,
         \/ Reserve(w) \/ Submit(w) \/ SubmitBlob(w) \/ RetryAfterError(w)
         \/ Lookup(w, "lookup", "found", "unknown")
         \/ Lookup(w, "lookupBlob", "foundBlob", "awaitBlob")
  PROVE  RecordInv'
  <1>1. Busy(wk[w]) /\ wk[w].pc \notin Recording /\ UNCHANGED outbox /\ UNCHANGED recorded
    BY DEF Busy, Recording, Reserve, Submit, SubmitBlob, RetryAfterError, Lookup
  <1>2. wk \in [Workers -> WorkerRecords]
    BY DEF IInv, TypeInv, WorkersOK
  <1>3. ASSUME NEW x, Become(w, x), x.batch = wk[w].batch, x.cur = wk[w].cur,
               x.pc \notin Recording \cup {"idle", "next"}
        PROVE  RecordInv'
    BY <1>1, <1>3, RecordGoto DEF Busy
  <1>4. ASSUME NEW p, p \notin Recording \cup {"idle", "next"}, Goto(w, p) PROVE RecordInv'
    <2> DEFINE x == [wk[w] EXCEPT !.pc = p]
    <2>1. Become(w, x) /\ x.pc = p /\ x.batch = wk[w].batch /\ x.cur = wk[w].cur
      BY <1>4, GotoFits DEF IInv, Goto
    <2> HIDE DEF x
    <2> QED BY <1>3, <1>4, <2>1
  <1>5. ASSUME NEW p, p \notin Recording \cup {"idle", "next"}, NEW c,
               Become(w, [wk[w] EXCEPT !.code = c, !.pc = p])
        PROVE  RecordInv'
    <2> DEFINE x == [wk[w] EXCEPT !.code = c, !.pc = p]
    <2>1. Become(w, x) /\ x.pc = p /\ x.batch = wk[w].batch /\ x.cur = wk[w].cur
      BY <1>2, <1>5 DEF WorkerRecords
    <2> HIDE DEF x
    <2> QED BY <1>3, <1>5, <2>1
  <1>6. ASSUME NEW p, p \notin Recording \cup {"idle", "next"}, NEW c, NEW t,
               Become(w, [wk[w] EXCEPT !.tx = t, !.code = c, !.pc = p])
        PROVE  RecordInv'
    <2> DEFINE x == [wk[w] EXCEPT !.tx = t, !.code = c, !.pc = p]
    <2>1. Become(w, x) /\ x.pc = p /\ x.batch = wk[w].batch /\ x.cur = wk[w].cur
      BY <1>2, <1>6 DEF WorkerRecords
    <2> HIDE DEF x
    <2> QED BY <1>3, <1>6, <2>1
  <1>7. ASSUME Retry(w) PROVE RecordInv'
    <2> DEFINE x == [wk[w] EXCEPT !.pc = "reserve", !.attempt = @ + 1, !.tx = NoTx]
    <2>1. Become(w, x) /\ x.pc = "reserve" /\ x.batch = wk[w].batch /\ x.cur = wk[w].cur
      BY <1>2, <1>7 DEF Retry, WorkerRecords
    <2> HIDE DEF x
    <2> QED BY <1>3, <2>1 DEF Recording
  <1>8. {"caught", "cosignCaught", "submit", "resubmit", "lookup", "found", "unknown",
         "rejected", "resubmitBlob", "lookupBlob", "foundBlob", "awaitBlob", "rejectedBlob"}
          \cap (Recording \cup {"idle", "next"}) = {}
    BY DEF Recording
  <1>9. CASE Reserve(w)
    <2>1. CASE Goto(w, "caught")
      BY <1>4, <1>8, <2>1
    <2>2. ASSUME NEW t, Become(w, [wk[w] EXCEPT !.pc = "submit", !.tx = t]) PROVE RecordInv'
      <3> DEFINE x == [wk[w] EXCEPT !.pc = "submit", !.tx = t]
      <3>1. Become(w, x) /\ x.pc = "submit" /\ x.batch = wk[w].batch /\ x.cur = wk[w].cur
        BY <1>2, <2>2 DEF WorkerRecords
      <3> HIDE DEF x
      <3> QED BY <1>3, <1>8, <3>1
    <2> QED BY <1>9, <2>1, <2>2 DEF Reserve
  <1>10. CASE Submit(w)
    <2>1. ASSUME NEW c, SubmitAnswered(w, c) PROVE RecordInv'
      BY <1>5, <1>7, <1>8, <2>1 DEF SubmitAnswered
    <2> QED BY <1>4, <1>8, <1>10, <2>1 DEF Submit, AnswerLost
  <1>11. CASE SubmitBlob(w)
    BY <1>4, <1>6, <1>8, <1>11 DEF SubmitBlob, AnswerLost
  <1>12. CASE RetryAfterError(w)
    BY <1>7, <1>12 DEF RetryAfterError
  <1>13. CASE \/ Lookup(w, "lookup", "found", "unknown")
              \/ Lookup(w, "lookupBlob", "foundBlob", "awaitBlob")
    <2>1. ASSUME NEW p, p \notin Recording \cup {"idle", "next"}, NEW c,
                 Become(w, [wk[w] EXCEPT !.pc = p, !.code = c])
          PROVE  RecordInv'
      <3> DEFINE x == [wk[w] EXCEPT !.pc = p, !.code = c]
      <3>1. Become(w, x) /\ x.pc = p /\ x.batch = wk[w].batch /\ x.cur = wk[w].cur
        BY <1>2, <2>1 DEF WorkerRecords
      <3> HIDE DEF x
      <3> QED BY <1>3, <2>1, <3>1
    <2> QED BY <1>4, <1>8, <1>13, <2>1 DEF Lookup
  <1> QED BY <1>9, <1>10, <1>11, <1>12, <1>13

LEMMA RecordStatuses ==
  ASSUME IInv, RecordInv, Undisturbed, Undisturbed', NEW w \in Workers,
         \/ Block(w) \/ BlockNoSigner(w) \/ GiveUp(w, "caught") \/ GiveUp(w, "cosignCaught")
         \/ MarkSubmitted(w) \/ Unhandled(w)
  PROVE  RecordInv'
  <1>1. /\ Busy(wk[w]) /\ wk[w].pc \notin Recording /\ UNCHANGED recorded
    BY DEF Busy, Recording, Block, BlockNoSigner, GiveUp, MarkSubmitted, Unhandled
  <1>2. /\ {"blocked", "failed", "submitted"} \cap Unclaimed = {}
        /\ {"submitBlob", "reserve", "noSigner", "unhandled"}
             \cap (Recording \cup {"idle", "next"}) = {}
    BY DEF Unclaimed, ClaimableStatuses, Recording
  <1>3. CASE Block(w) \/ BlockNoSigner(w) \/ GiveUp(w, "caught") \/ GiveUp(w, "cosignCaught")
    <2>1. PICK s \in {"blocked", "failed"} :
              Update(w, [outbox[Row(w)] EXCEPT !.status = s], "done", "unhandled")
      BY <1>3 DEF Block, BlockNoSigner, GiveUp
    <2>2. s \notin Unclaimed
      BY <1>2
    <2> QED BY <1>1, <2>1, <2>2, RecordStatus
  <1>4. CASE Update(w, [outbox[Row(w)] EXCEPT !.status = "submitted"], Dispatch(w), "unhandled")
    <2>1. Dispatch(w) \notin Recording \cup {"idle", "next"} /\ "submitted" \notin Unclaimed
      BY <1>2 DEF Dispatch
    <2> QED BY <1>1, <1>4, <2>1, RecordStatus
  <1>5. CASE Goto(w, "unhandled") /\ UNCHANGED outbox
    <2> DEFINE x == [wk[w] EXCEPT !.pc = "unhandled"]
    <2>1. /\ Become(w, x) /\ x.pc = "unhandled" /\ x.batch = wk[w].batch
          /\ x.cur = wk[w].cur
      BY <1>5, GotoFits DEF IInv, Goto
    <2> HIDE DEF x
    <2> QED BY <1>1, <1>2, <1>5, <2>1, RecordGoto DEF Busy
  <1>6. CASE Unhandled(w)
    <2> DEFINE x == AfterRow(w)
               o == [outbox[Row(w)] EXCEPT !.status = "failed"]
    <2>1. Become(w, x) /\ ~Busy(x) /\ x.batch = wk[w].batch
      BY <1>6, FinishFits DEF Finish, Unhandled
    <2>2. o.status = "failed" /\ o.hash = outbox[Row(w)].hash
      BY <1>1, AtWork DEF IInv, RowRecords
    <2>3. o.hash = NoTx
      BY <1>1, <2>2 DEF RecordInv, HashFits, Row
    <2>4. HashFits(x, o.hash) /\ OnRecord(o, recorded') /\ o.status \notin Unclaimed
      BY <1>2, <2>1, <2>2, <2>3 DEF HashFits, OnRecord
    <2>5. outbox' = [outbox EXCEPT ![Row(w)] = o]
      BY <1>6, DisturbedStays DEF Unhandled, IInv
    <2> HIDE DEF x, o
    <2> QED BY <1>1, <2>1, <2>4, <2>5, RecordKept
  <1> QED BY <1>3, <1>4, <1>5, <1>6 DEF MarkSubmitted

LEMMA RecordSettle ==
  ASSUME IInv, RecordInv, Undisturbed, Undisturbed', NEW w \in Workers,
         \/ PrepareDryRun(w)
         \/ SettleValidated(w) \/ SettleUnknown(w) \/ SettleRejected(w)
         \/ SettleBlobValidated(w) \/ AwaitBlobValidation(w) \/ SettleBlobRejected(w)
  PROVE  RecordInv'
  <1>1. Busy(wk[w]) /\ UNCHANGED recorded
    BY DEF Busy, PrepareDryRun, SettleValidated, SettleUnknown, SettleRejected,
           SettleBlobValidated, AwaitBlobValidation, SettleBlobRejected
  <1>2. {"prepared", "validated", "failed", "manual_review", "submitted"} \cap Unclaimed = {}
    BY DEF Unclaimed, ClaimableStatuses
  <1>3. CASE PrepareDryRun(w)
    <2> DEFINE o == [outbox[Row(w)] EXCEPT !.status = "prepared", !.hash = DryHash(w),
                                           !.result = "dry"]
    <2>1. o.status = "prepared" /\ o.hash = DryHash(w)
      BY <1>1, AtWork DEF IInv, RowRecords
    <2>2. Update(w, o, "prepared", "unhandled")
      BY <1>3 DEF PrepareDryRun
    <2> HIDE DEF o
    <2> QED BY <1>1, <1>2, <2>1, <2>2, RecordNamed
  <1>4. ASSUME NEW s \in {"validated", "failed", "manual_review", "submitted"}, NEW res,
               NEW p, NEW e,
               \/ p \in {"record", "recordBlob"}
               \/ p = "done" /\ s \in {"manual_review", "submitted"},
               \/ Update(w, Settled(w, s, res), p, e)
               \/ Update(w, [Settled(w, s, res) EXCEPT !.meta = Meta(w)], p, e)
        PROVE  RecordInv'
    <2> DEFINE o == Settled(w, s, res)
               b == [o EXCEPT !.meta = Meta(w)]
    <2>1. /\ o.status = s /\ o.hash = wk[w].tx
          /\ b.status = s /\ b.hash = wk[w].tx
      BY <1>1, AtWork DEF IInv, Settled, RowRecords
    <2>2. Update(w, o, p, e) \/ Update(w, b, p, e)
      BY <1>4
    <2>3. s \notin Unclaimed
      BY <1>2
    <2> HIDE DEF o, b
    <2> QED BY <1>1, <1>4, <2>1, <2>2, <2>3, RecordNamed
  <1>5. {ValidatedStatus(w), RejectedStatus(w), RejectedBlobStatus(w)}
          \subseteq {"validated", "failed", "manual_review", "submitted"}
    BY DEF ValidatedStatus, RejectedStatus, RejectedBlobStatus
  <1>6. CASE \/ SettleValidated(w) \/ SettleRejected(w)
             \/ SettleBlobValidated(w) \/ SettleBlobRejected(w)
    BY <1>4, <1>5, <1>6
       DEF SettleValidated, SettleRejected, SettleBlobValidated, SettleBlobRejected
  <1>7. CASE SettleUnknown(w) \/ AwaitBlobValidation(w)
    BY <1>4, <1>7 DEF SettleUnknown, AwaitBlobValidation
  <1> QED BY <1>3, <1>6, <1>7

\* Rows of S, which no worker held and which named nothing, are written; they name
\* nothing after it. A worker that does not go on as it was has taken some of S, or
\* turned to a row of its batch, and drops no row that names something.
LEMMA RecordUnclaimed ==
  ASSUME IInv, RecordInv, Undisturbed,
         NEW S \in SUBSET Rows, \A r \in S : outbox[r].status \in Unclaimed,
         \A r \in Rows \ S : outbox'[r] = outbox[r],
         \A r \in S : outbox'[r].hash = NoTx,
         UNCHANGED recorded,
         \A v \in Workers :
           \/ wk'[v] = wk[v]
           \/ /\ \A s \in wk'[v].batch : s.row \in S \cup {q.row : q \in wk[v].batch}
              /\ wk[v].pc \in {"idle", "next"} /\ wk'[v].pc \in {"next", "begin"}
              /\ wk'[v].pc = "begin" => wk'[v].cur.row \in {q.row : q \in wk[v].batch}
              /\ \A r \in Held(v) : r \in Held(v)' \/ outbox[r].hash = NoTx
  PROVE  RecordInv'
  <1>1. \A r \in Rows : outbox'[r].status \in Unclaimed => outbox'[r].hash = NoTx
    BY DEF RecordInv
  <1>2. \A v \in Workers : \A r \in Held(v) : r \in Rows /\ r \notin S
    BY DEF IInv, ClaimInv, HeldOK
  <1>3. ASSUME NEW v \in Workers
        PROVE  /\ \A s \in wk'[v].batch : outbox'[s.row].hash = NoTx
               /\ HashFits(wk'[v], outbox'[wk'[v].cur.row].hash)
               /\ \A r \in Held(v) : r \in Held(v)' \/ outbox[r].hash = NoTx
    <2>1. \A q \in wk[v].batch : q.row \in Rows /\ q.row \notin S
      BY <1>2 DEF Held
    <2>2. \A q \in wk[v].batch : outbox'[q.row].hash = NoTx
      BY <2>1 DEF RecordInv
    <2>3. CASE wk'[v] = wk[v]
      <3>1. Busy(wk[v]) => outbox'[wk[v].cur.row] = outbox[wk[v].cur.row]
        BY <1>2 DEF Busy, Held, Row
      <3>2. Held(v)' = Held(v)
        BY <2>3 DEF Held, Row
      <3> QED BY <2>2, <2>3, <3>1, <3>2 DEF RecordInv, HashFits
    <2>4. CASE wk'[v] # wk[v]
      <3>1. \A s \in wk'[v].batch : outbox'[s.row].hash = NoTx
        BY <2>2, <2>4
      <3>2. HashFits(wk'[v], outbox'[wk'[v].cur.row].hash)
        BY <2>2, <2>4 DEF HashFits, Busy, Recording
      <3> QED BY <2>4, <3>1, <3>2
    <2> QED BY <2>3, <2>4
  <1>4. ASSUME NEW r \in Rows, Idle(r)' PROVE OnRecord(outbox'[r], recorded')
    <2>1. CASE Idle(r) /\ r \notin S
      BY <2>1 DEF RecordInv, OnRecord
    <2>2. CASE r \in S
      BY <2>2 DEF OnRecord
    <2>3. CASE ~Idle(r)
      <3>1. PICK v \in Workers : r \in Held(v)
        BY <2>3 DEF Idle
      <3>2. r \notin S /\ outbox[r].hash = NoTx
        BY <1>2, <1>3, <1>4, <3>1 DEF Idle
      <3> QED BY <3>2 DEF OnRecord
    <2> QED BY <2>1, <2>2, <2>3
  <1> QED BY <1>1, <1>3, <1>4 DEF RecordInv

LEMMA RecordApi ==
  ASSUME IInv, RecordInv, Undisturbed, ApiStep PROVE RecordInv'
  <1>1. PICK r \in Rows : Enqueue(r) \/ EnqueueCosigned(r)
    BY DEF ApiStep
  <1>2. outbox[r].status \in Unclaimed
    BY <1>1 DEF Enqueue, EnqueueCosigned, Unclaimed
  <1>3. /\ \A q \in Rows \ {r} : outbox'[q] = outbox[q]
        /\ outbox'[r].hash = outbox[r].hash
    BY <1>1 DEF Enqueue, EnqueueCosigned, IInv, TypeInv, OutboxOK, RowRecords
  <1>4. outbox[r].hash = NoTx
    BY <1>2 DEF RecordInv
  <1>5. UNCHANGED recorded /\ UNCHANGED wk
    BY <1>1 DEF Enqueue, EnqueueCosigned
  <1>6. {r} \in SUBSET Rows
    OBVIOUS
  <1> QED BY <1>2, <1>3, <1>4, <1>5, <1>6, RecordUnclaimed

LEMMA RecordClaim ==
  ASSUME IInv, RecordInv, Undisturbed, Undisturbed', NEW w \in Workers, ProcessPending(w)
  PROVE  RecordInv'
  <1> DEFINE snaps(S) == {[row |-> r, meta |-> outbox[r].meta] : r \in S}
             x(S, spike) == [wk[w] EXCEPT !.pc = "next", !.feeSpike = spike,
                                          !.batch = snaps(S)]
  <1>1. PICK S \in OldestClaimable :
            ClaimRows(S) /\ \E spike \in BOOLEAN : Become(w, x(S, spike))
    BY DisturbedStays DEF ProcessPending, NetworkStatuses, IInv
  <1>2. S \in SUBSET Rows /\ \A r \in S : outbox[r].status \in Unclaimed
    BY DEF OldestClaimable, Claimable, Unclaimed
  <1>3. PICK spike \in BOOLEAN : Become(w, x(S, spike))
    BY <1>1
  <1>4. /\ \A r \in Rows \ S : outbox'[r] = outbox[r]
        /\ \A r \in S : outbox'[r].hash = outbox[r].hash
    <2>1. ClaimRows(S)
      BY <1>1
    <2> QED BY <1>2, <2>1 DEF ClaimRows, IInv, TypeInv, OutboxOK, RowRecords
  <1>5. \A r \in S : outbox[r].hash = NoTx
    BY <1>2 DEF RecordInv
  <1>6. /\ wk[w].pc = "idle" /\ UNCHANGED recorded
    BY DEF ProcessPending
  <1>7. \A s \in snaps(S) : s.row \in S
    OBVIOUS
  <1> HIDE DEF snaps
  <1>8. /\ \A v \in Workers : v # w => wk'[v] = wk[v]
        /\ wk'[w].pc = "next" /\ wk'[w].batch = snaps(S)
    BY <1>3 DEF Become, IInv, TypeInv, WorkersOK, WorkerRecords
  <1>9. \A r \in Held(w) : outbox[r].hash = NoTx
    BY <1>6 DEF Held, RecordInv
  <1>10. \A s \in wk'[w].batch : s.row \in S
    BY <1>7, <1>8
  <1> QED BY <1>2, <1>4, <1>5, <1>6, <1>8, <1>9, <1>10, RecordUnclaimed

LEMMA RecordNextRow ==
  ASSUME IInv, RecordInv, Undisturbed, NEW w \in Workers, NextRow(w) PROVE RecordInv'
  <1>1. PICK s \in wk[w].batch :
          Become(w, [wk[w] EXCEPT !.pc = "begin", !.cur = s, !.batch = @ \ {s}])
    BY DEF NextRow
  <1>2. /\ wk'[w].pc = "begin" /\ wk'[w].cur = s /\ wk'[w].batch = wk[w].batch \ {s}
        /\ \A v \in Workers : v # w => wk'[v] = wk[v]
    BY <1>1 DEF Become, IInv, TypeInv, WorkersOK, WorkerRecords
  <1>3. wk[w].pc = "next" /\ UNCHANGED outbox /\ UNCHANGED recorded
    BY DEF NextRow
  <1>4. \A r \in Held(w) : r \in Held(w)'
    BY <1>2, <1>3 DEF Held, Row
  <1>5. {} \in SUBSET Rows
    OBVIOUS
  <1> QED BY <1>2, <1>3, <1>4, <1>5, RecordUnclaimed

LEMMA RecordNext == IInv /\ RecordInv /\ [Next]_vars => RecordInv'
  <1> SUFFICES ASSUME IInv, RecordInv, [Next]_vars, Undisturbed' PROVE RecordInv'
    BY DEF RecordInv
  <1>1. CASE UNCHANGED vars
    <2>1. /\ UNCHANGED <<outbox, recorded, wk, faults>>
      BY <1>1 DEF vars, executorVars
    <2>2. Undisturbed /\ {} \in SUBSET Rows
      BY <2>1, DisturbedStays DEF IInv
    <2> QED BY <2>1, <2>2, RecordUnclaimed
  <1>2. CASE LedgerStep
    <2>1. /\ UNCHANGED <<outbox, recorded, wk, faults>>
      BY <1>2 DEF LedgerStep, executorVars
    <2>2. Undisturbed /\ {} \in SUBSET Rows
      BY <2>1, DisturbedStays DEF IInv
    <2> QED BY <2>1, <2>2, RecordUnclaimed
  <1>3. CASE ApiStep
    <2>1. UNCHANGED faults
      BY <1>3 DEF ApiStep, Enqueue, EnqueueCosigned
    <2> QED BY <1>3, <2>1, RecordApi, DisturbedStays DEF IInv
  <1>4. ASSUME NEW w \in Workers, WorkerStep(w) PROVE RecordInv'
    <2>1. \/ NoFault \/ UNCHANGED faults
          \/ Fault("net") \/ Fault("lost") \/ Fault("db") \/ Fault("crash")
      BY <1>4 DEF WorkerStep, ProcessPending, NextRow, Unhandled, Block, PrepareDryRun, Record,
                  MarkSubmitted, BlockNoSigner, Reserve, Submit, Lookup, SettleValidated,
                  SettleUnknown, SettleRejected, RetryAfterError, GiveUp, SubmitBlob,
                  SettleBlobValidated, AwaitBlobValidation, SettleBlobRejected, Update, AnswerLost
    <2>2. Undisturbed
      BY <2>1, DisturbedStays DEF IInv
    <2> QED
      BY <1>4, <2>2, RecordClaim, RecordNextRow, RecordStatuses, RecordSettle, RecordMoves,
         RecordRecord
         DEF WorkerStep
  <1>5. ASSUME NEW w \in Workers, Crash(w) PROVE RecordInv'
    BY <1>5, DisturbedStays DEF Crash, IInv
  <1> QED BY <1>1, <1>2, <1>3, <1>4, <1>5 DEF Next

\* As long as no statement fails and no worker dies, a row that is done with and
\* names a transaction names a recorded one, whatever requests and answers are lost
\* between naming and recording and whoever else works on the outbox; the ones left
\* out are those an operator or the indexer has to follow up.
THEOREM FinishedRowsAreRecorded == Spec => []Recorded
  <1>1. RecordInv => Recorded
    BY DEF RecordInv, OnRecord, Recorded
  <1> QED BY <1>1, RecordInit, RecordNext, IInvCorrect, PTL DEF Spec

----------------------------------------------------------------------------
(* The executor implements the abstract outbox, as long as no statement     *)
(* fails. Each of its steps is one of OutboxPromise or leaves all three of  *)
(* its variables as they are.                                               *)

phase == [r \in Rows |-> PhaseOf(outbox[r].status)]
executed == {r \in Rows : Executed(r) # {}}
confirmed == {r \in Rows : outbox[r].status = "validated"}

PromiseStep == Promise!Next \/ UNCHANGED <<phase, executed, confirmed>>

LEMMA Phases ==
  /\ PhaseOf("absent") = "absent"
  /\ \A s \in ClaimableStatuses : PhaseOf(s) = "queued"
  /\ \A s \in Taken : PhaseOf(s) = "taken"
  /\ \A s \in SettledStatuses : PhaseOf(s) = "settled"
  /\ \A s \in OutboxStatuses \ Unclaimed : PhaseOf(s) \in {"taken", "settled"}
  BY DEF PhaseOf, ClaimableStatuses, Taken, SettledStatuses, Unclaimed

LEMMA PromiseInit == Init => Promise!Init
  BY Phases DEF Init, LedgerInit, ExecutorInit, AbsentRow, Executed, Promise!Init

LEMMA ValidatedByLedger == [Next]_vars => UNCHANGED validated \/ LedgerStep
  <1> SUFFICES ASSUME [Next]_vars, ~LedgerStep PROVE UNCHANGED validated
    OBVIOUS
  <1>1. CASE ApiStep
    BY <1>1 DEF ApiStep, Enqueue, EnqueueCosigned, ledgerVars
  <1>2. ASSUME NEW w \in Workers, WorkerStep(w) \/ Crash(w)
        PROVE  UNCHANGED validated
    <2>1. CASE Submit(w) \/ SubmitBlob(w)
      BY <2>1 DEF Submit, SubmitBlob, Accept, ledgerVars
    <2>2. CASE ~(Submit(w) \/ SubmitBlob(w))
      BY <1>2, <2>2
         DEF WorkerStep, Crash, ProcessPending, NextRow, Unhandled, Block, PrepareDryRun,
             Record, MarkSubmitted, BlockNoSigner, Reserve, Lookup, SettleValidated,
             SettleUnknown, SettleRejected, RetryAfterError, GiveUp,
             SettleBlobValidated, AwaitBlobValidation, SettleBlobRejected, ledgerVars
    <2> QED BY <2>1, <2>2
  <1>3. CASE UNCHANGED vars
    BY <1>3 DEF vars, ledgerVars
  <1> QED BY <1>1, <1>2, <1>3 DEF Next

\* A row that a validated ledger has a transaction of has been taken.
LEMMA PromiseExecute ==
  ASSUME IInv, LedgerStep
  PROVE  PromiseStep
  <1>1. PICK t \in pool : Validate(t) \/ Expire(t)
    BY DEF LedgerStep
  <1>2. UNCHANGED outbox /\ UNCHANGED phase /\ UNCHANGED confirmed
    BY DEF LedgerStep, executorVars, phase, confirmed
  <1>3. CASE UNCHANGED validated
    <2>1. UNCHANGED executed
      BY <1>3 DEF executed, Executed
    <2> QED BY <1>2, <2>1 DEF PromiseStep
  <1>4. CASE ~UNCHANGED validated
    <2>1. PICK c : validated' = validated \cup {[tx |-> t, code |-> c]}
      BY <1>1, <1>4 DEF Validate, Expire
    <2>2. t.row \in Rows /\ t \in OnLedger(t.row)
      BY DEF IInv, TypeInv, LedgerOK, Txs, OnLedger
    <2>3. outbox[t.row].status \in OutboxStatuses \ Unclaimed
      BY <2>2 DEF IInv, EffectInv, RowOK, TypeInv, OutboxOK, RowRecords, Unclaimed
    <2>4. phase[t.row] \in {"taken", "settled"}
      BY <2>2, <2>3, Phases DEF phase
    <2>5. executed' = executed \/ executed' = executed \cup {t.row}
      <3>1. \A r : r # t.row => Executed(r)' = Executed(r)
        BY <2>1 DEF Executed
      <3>2. \A r : Executed(r) \subseteq Executed(r)'
        BY <2>1 DEF Executed
      <3> QED BY <2>2, <3>1, <3>2 DEF executed
    <2>6. CASE executed' = executed \cup {t.row}
      <3>1. Promise!Execute(t.row)
        BY <1>2, <2>4, <2>6 DEF Promise!Execute, phase, executed, confirmed
      <3> QED BY <2>2, <3>1 DEF PromiseStep, Promise!Next
    <2> QED BY <1>2, <2>5, <2>6 DEF PromiseStep
  <1> QED BY <1>3, <1>4

LEMMA PromiseRows ==
  ASSUME IInv, IInv', UNCHANGED validated, OneMoves \/ SomeClaimed
  PROVE  PromiseStep
  <1>1. UNCHANGED executed
    BY DEF executed, Executed
  <1>2. ASSUME NEW r \in Rows, Inserts(r), \A q \in Rows \ {r} : outbox'[q] = outbox[q]
        PROVE  PromiseStep
    <2>1. phase[r] = "absent" /\ phase' = [phase EXCEPT ![r] = "queued"]
      BY <1>2, Phases DEF Inserts, phase
    <2>2. UNCHANGED confirmed
      BY <1>2 DEF Inserts, confirmed, ClaimableStatuses
    <2>3. Promise!Queue(r)
      BY <1>1, <2>1, <2>2 DEF Promise!Queue, phase, executed, confirmed
    <2> QED BY <2>3 DEF PromiseStep, Promise!Next
  <1>3. ASSUME NEW r \in Rows, WorksOn(r), \A q \in Rows \ {r} : outbox'[q] = outbox[q]
        PROVE  PromiseStep
    <2>1. outbox[r].status # "validated" /\ phase[r] = "taken"
      BY <1>3, Phases DEF WorksOn, Taken, phase
    <2>2. CASE outbox'[r].status = "submitted"
      <3>1. UNCHANGED phase
        BY <1>3, <2>1, <2>2, Phases DEF phase, Taken
      <3>2. UNCHANGED confirmed
        BY <1>3, <2>1, <2>2 DEF confirmed
      <3> QED BY <1>1, <3>1, <3>2 DEF PromiseStep
    <2>3. CASE outbox'[r].status \in SettledStatuses
      <3>1. phase' = [phase EXCEPT ![r] = "settled"]
        BY <1>3, <2>3, Phases DEF phase
      <3>2. \/ UNCHANGED confirmed
            \/ r \in executed /\ confirmed' = confirmed \cup {r}
        <4>1. CASE outbox'[r].status = "validated"
          <5>1. Executed(r)' # {}
            BY <4>1 DEF IInv, TruthInv, ValidatedOnLedger
          <5>2. r \in executed
            BY <5>1 DEF executed, Executed
          <5>3. confirmed' = confirmed \cup {r}
            BY <1>3, <4>1 DEF confirmed
          <5> QED BY <5>2, <5>3
        <4>2. CASE outbox'[r].status # "validated"
          BY <1>3, <2>1, <4>2 DEF confirmed
        <4> QED BY <4>1, <4>2
      <3>3. Promise!Settle(r)
        BY <1>1, <2>1, <3>1, <3>2 DEF Promise!Settle, phase, executed, confirmed
      <3> QED BY <3>3 DEF PromiseStep, Promise!Next
    <2> QED BY <1>3, <2>2, <2>3 DEF WorksOn
  <1>4. ASSUME NEW S \in SUBSET Rows, \A r \in S : Claims(r),
               \A q \in Rows \ S : outbox'[q] = outbox[q]
        PROVE  PromiseStep
    <2>1. /\ \A r \in S : phase[r] = "queued"
          /\ phase' = [r \in Rows |-> IF r \in S THEN "taken" ELSE phase[r]]
      BY <1>4, Phases DEF Claims, phase, Taken
    <2>2. UNCHANGED confirmed
      BY <1>4 DEF Claims, confirmed, ClaimableStatuses
    <2>3. Promise!Take(S)
      BY <1>1, <2>1, <2>2 DEF Promise!Take, phase, executed, confirmed
    <2> QED BY <2>3 DEF PromiseStep, Promise!Next
  <1> QED BY <1>2, <1>3, <1>4 DEF OneMoves, SomeClaimed

LEMMA PromiseNext == IInv /\ IInv' /\ NoneFailed' /\ [Next]_vars => PromiseStep
  <1> SUFFICES ASSUME IInv, IInv', NoneFailed', [Next]_vars PROVE PromiseStep
    OBVIOUS
  <1>1. CASE LedgerStep
    BY <1>1, PromiseExecute
  <1>2. CASE UNCHANGED validated
    <2>1. CASE UNCHANGED outbox
      BY <1>2, <2>1 DEF PromiseStep, phase, executed, confirmed, Executed
    <2>2. CASE OneMoves \/ SomeClaimed
      BY <1>2, <2>2, PromiseRows
    <2> QED BY <2>1, <2>2, RowsChangeNext DEF RowsChange
  <1> QED BY <1>1, <1>2, ValidatedByLedger

\* As long as no statement fails, the executor keeps the outbox's promise,
\* whatever requests and answers are lost and workers die: a row is taken once,
\* executes only then, and is settled once and truthfully.
THEOREM ExecutorKeepsPromise == Spec /\ [](faults["db"] = 0) => KeepsPromise
  <1>1. IInv /\ IInv' /\ (faults["db"] = 0)' /\ [Next]_vars
          => [Promise!Next]_(Promise!promiseVars)
    BY PromiseNext DEF PromiseStep, NoneFailed, Promise!promiseVars, phase, executed, confirmed
  <1> QED
    BY <1>1, IInvCorrect, PromiseInit, PTL DEF Spec, KeepsPromise, Promise!Spec
=============================================================================
