------------------------ MODULE LedgerIndexer_proofs ------------------------
(* Theorems about LedgerIndexer, for every set of rows, aggregates and      *)
(* workers, every order of their steps and every combination of faults.     *)
EXTENDS LedgerIndexer, TLAPS

----------------------------------------------------------------------------
(* Type correctness. It is inductive together with the fact that a worker   *)
(* that is past the list has a candidate in hand.                           *)

RowRecords == [status : OutboxStatuses \cup {"absent"}, result : Results]
AggregateRecords ==
    [status : {"absent", "queued", "active", "funded", "cover_funded"}, object : BOOLEAN]
Fates == {"none", "open", "success", "failed", "expired"}

LocalOK(x) == x \in WorkerRecords /\ (x.pc # "list" => x.cur \in Candidates)

TypeInv ==
    /\ outbox \in [Rows -> RowRecords]
    /\ aggregate \in [Aggregates -> AggregateRecords]
    /\ runs \subseteq Rows
    /\ fate \in [Rows -> Fates]
    /\ wk \in [Workers -> WorkerRecords]
    /\ \A w \in Workers : LocalOK(wk[w])
    /\ faults \in 0..MaxFaults

LEMMA TypeInvImpliesTypeOK == TypeInv => IndexerTypeOK
  BY DEF TypeInv, IndexerTypeOK, RowRecords, AggregateRecords, Fates

LEMMA StartedType ==
  ASSUME NEW dryRun \in BOOLEAN
  PROVE  LocalOK(Started(dryRun))
  BY DEF Started, LocalOK, WorkerRecords, NoCandidate

LEMMA TypeInit == Init => TypeInv
  <1> SUFFICES ASSUME Init PROVE TypeInv
    OBVIOUS
  <1>1. \A dryRun \in Modes : LocalOK(Started(dryRun))
    BY StartedType, IndexerAssumption
  <1>2. wk \in [Workers -> WorkerRecords] /\ \A w \in Workers : LocalOK(wk[w])
    BY <1>1 DEF Init, LocalOK
  <1> QED
    BY <1>2, IndexerAssumption
       DEF Init, TypeInv, RowRecords, AggregateRecords, Fates, Results, OutboxStatuses

\* What a worker becomes.
LEMMA BecomeType ==
  ASSUME TypeInv, NEW w \in Workers, NEW x, LocalOK(x), Become(w, x)
  PROVE  wk' \in [Workers -> WorkerRecords] /\ \A v \in Workers : LocalOK(wk'[v])
  BY DEF TypeInv, LocalOK, Become

\* A worker with a candidate in hand goes on with it.
LEMMA GotoType ==
  ASSUME TypeInv, NEW w \in Workers, wk[w].pc # "list",
         NEW p \in {"lookup", "enrich", "save", "mark", "error"}
  PROVE  LocalOK([wk[w] EXCEPT !.pc = p])
  BY DEF TypeInv, LocalOK, WorkerRecords

LEMMA EndJobType ==
  ASSUME TypeInv, NEW w \in Workers
  PROVE  LocalOK([Started(wk[w].dryRun) EXCEPT
                    !.job = IF wk[w].job = "index" THEN "reconcile" ELSE "index"])
  <1>1. wk[w].dryRun \in BOOLEAN
    BY DEF TypeInv, WorkerRecords
  <1> QED BY <1>1 DEF Started, LocalOK, WorkerRecords, NoCandidate

\* Turning to a candidate, or to the other job when there is none.
LEMMA WorkOnType ==
  ASSUME TypeInv, NEW w \in Workers, NEW batch \in SUBSET Candidates, WorkOn(w, batch)
  PROVE  wk' \in [Workers -> WorkerRecords] /\ \A v \in Workers : LocalOK(wk'[v])
  <1>1. CASE EndJob(w)
    BY <1>1, EndJobType, BecomeType DEF EndJob
  <1>2. ASSUME NEW c \in batch, NEW p \in {"lookup", "enrich"},
               Become(w, [wk[w] EXCEPT !.pc = p, !.batch = batch \ {c}, !.cur = c])
        PROVE  wk' \in [Workers -> WorkerRecords] /\ \A v \in Workers : LocalOK(wk'[v])
    <2>1. LocalOK([wk[w] EXCEPT !.pc = p, !.batch = batch \ {c}, !.cur = c])
      BY DEF TypeInv, LocalOK, WorkerRecords
    <2> QED BY <2>1, <1>2, BecomeType
  <1> QED BY <1>1, <1>2 DEF WorkOn

LEMMA ListedType ==
  ASSUME TypeInv, NEW statuses
  PROVE  Listed(statuses) \in SUBSET Candidates
  BY DEF TypeInv, Listed, Candidates, RowRecords

LEMMA FinishType ==
  ASSUME TypeInv, NEW w \in Workers, Finish(w)
  PROVE  wk' \in [Workers -> WorkerRecords] /\ \A v \in Workers : LocalOK(wk'[v])
  <1>1. wk[w].batch \in SUBSET Candidates
    BY DEF TypeInv, WorkerRecords
  <1> QED BY <1>1, WorkOnType DEF Finish

LEMMA FaultType ==
  ASSUME TypeInv, NoFault \/ \E kind \in FaultKinds : Fault(kind)
  PROVE  faults' \in 0..MaxFaults
  BY IndexerAssumption DEF TypeInv, NoFault, Fault

LEMMA HeldRow ==
  ASSUME TypeInv, NEW w \in Workers, wk[w].pc # "list"
  PROVE  Row(w) \in Rows /\ Result(w) \in Results
  BY DEF TypeInv, LocalOK, Candidates, Row, Result

LEMMA WriteRow ==
  ASSUME TypeInv, NEW r \in Rows, NEW o \in RowRecords
  PROVE  [outbox EXCEPT ![r] = o] \in [Rows -> RowRecords]
  BY DEF TypeInv

LEMMA EnrichedType ==
  ASSUME TypeInv, NEW w \in Workers, wk[w].pc # "list"
  PROVE  Enriched(w) \in [Aggregates -> AggregateRecords]
  BY HeldRow, IndexerAssumption
     DEF TypeInv, Enriched, Created, AggregateRecords, Kinds, CreationKinds, FundingKinds

LEMMA TypeRowStep ==
  ASSUME TypeInv, NEW r \in Rows, RowStep(r) PROVE TypeInv'
  <1> USE IndexerAssumption DEF TypeInv
  <1>1. CASE InsertAggregate(r)
    BY <1>1 DEF InsertAggregate, AggregateRecords
  <1>2. CASE Enqueue(r)
    BY <1>2 DEF Enqueue, RowRecords, OutboxStatuses
  <1>3. CASE Take(r)
    <2>1. \E o \in RowRecords : outbox' = [outbox EXCEPT ![r] = o]
      BY <1>3 DEF Take, SetRow, RowRecords, OutboxStatuses, Results
    <2>2. outbox' \in [Rows -> RowRecords]
      BY <2>1, WriteRow
    <2>3. UNCHANGED <<aggregate, runs, fate, wk, faults>>
      BY <1>3 DEF Take
    <2> QED BY <2>2, <2>3
  <1>4. CASE Settle(r)
    <2>1. \E o \in RowRecords : outbox' = [outbox EXCEPT ![r] = o]
      BY <1>4 DEF Settle, SetRow, RowRecords, OutboxStatuses, Results
    <2>2. fate' \in [Rows -> Fates]
      BY <1>4 DEF Settle, Fates
    <2>3. outbox' \in [Rows -> RowRecords]
      BY <2>1, WriteRow
    <2>4. UNCHANGED <<aggregate, runs, wk, faults>>
      BY <1>4 DEF Settle
    <2> QED BY <2>2, <2>3, <2>4
  <1>5. CASE Decide(r)
    BY <1>5 DEF Decide, Fates
  <1> QED BY <1>1, <1>2, <1>3, <1>4, <1>5 DEF RowStep

LEMMA TypeJobStep ==
  ASSUME TypeInv, NEW w \in Workers, JobStep(w) PROVE TypeInv'
  <1> DEFINE Workers_ == wk' \in [Workers -> WorkerRecords]
                           /\ \A v \in Workers : LocalOK(wk'[v])
  <1>1. CASE ListToIndex(w)
    <2>1. IndexCandidates \in SUBSET Candidates
      BY ListedType DEF IndexCandidates
    <2>2. Workers_
      BY <1>1, <2>1, WorkOnType, EndJobType, BecomeType DEF ListToIndex, EndJob
    <2> QED BY <1>1, <2>2 DEF ListToIndex, TypeInv
  <1>2. CASE ListToReconcile(w)
    <2>1. Workers_
      BY <1>2, ListedType, WorkOnType DEF ListToReconcile
    <2> QED BY <1>2, <2>1 DEF ListToReconcile, TypeInv
  <1>3. CASE LookUp(w)
    <2>1. Row(w) \in Rows /\ wk[w].pc # "list"
      BY <1>3, HeldRow DEF LookUp
    <2>2. CASE fate[Row(w)] \in {"success", "failed"}
               /\ Become(w, [wk[w] EXCEPT !.pc = "enrich", !.cur.result = fate[Row(w)]])
      <3>1. LocalOK([wk[w] EXCEPT !.pc = "enrich", !.cur.result = fate[Row(w)]])
        <4>1. wk[w] \in WorkerRecords /\ wk[w].cur \in Candidates /\ fate[Row(w)] \in Results
          BY <2>1, <2>2 DEF TypeInv, LocalOK, Results
        <4>2. [wk[w].cur EXCEPT !.result = fate[Row(w)]] \in Candidates
          BY <4>1 DEF Candidates
        <4> QED BY <4>1, <4>2 DEF LocalOK, WorkerRecords
      <3>2. [outbox EXCEPT ![Row(w)].result = fate[Row(w)]] \in [Rows -> RowRecords]
        BY <2>1, <2>2 DEF TypeInv, RowRecords, Results
      <3> QED BY <1>3, <2>2, <3>1, <3>2, BecomeType, FaultType DEF LookUp, Fault, TypeInv
    <2>3. CASE Goto(w, "enrich") /\ UNCHANGED outbox
      <3>1. Workers_
        BY <2>1, <2>3, GotoType, BecomeType DEF Goto
      <3> QED BY <1>3, <2>3, <3>1, FaultType DEF LookUp, Fault, TypeInv
    <2> QED BY <1>3, <2>2, <2>3 DEF LookUp
  <1>4. CASE Enrich(w)
    <2>1. Workers_
      BY <1>4, GotoType, BecomeType DEF Enrich, Goto
    <2>2. aggregate' \in [Aggregates -> AggregateRecords]
      BY <1>4, EnrichedType DEF Enrich, TypeInv
    <2> QED BY <1>4, <2>1, <2>2, FaultType DEF Enrich, Fault, TypeInv
  <1>5. CASE SaveRun(w)
    <2>1. Workers_
      BY <1>5, GotoType, BecomeType DEF SaveRun, Goto
    <2>2. runs' \subseteq Rows
      BY <1>5, HeldRow DEF SaveRun, TypeInv
    <2> QED BY <1>5, <2>1, <2>2, FaultType DEF SaveRun, Fault, TypeInv
  <1>6. CASE Mark(w)
    <2>1. Row(w) \in Rows /\ wk[w].pc # "list"
      BY <1>6, HeldRow DEF Mark
    <2>2. Workers_
      BY <1>6, <2>1, FinishType, GotoType, BecomeType DEF Mark, Goto
    <2>3. \A s \in {"indexed", "reconciled"} :
             [outbox EXCEPT ![Row(w)].status = s] \in [Rows -> RowRecords]
      BY <2>1 DEF TypeInv, RowRecords, OutboxStatuses
    <2> QED BY <1>6, <2>2, <2>3, FaultType DEF Mark, Fault, TypeInv
  <1>7. CASE SaveError(w)
    <2>1. Workers_
      BY <1>7, FinishType, EndJobType, BecomeType DEF SaveError, EndJob
    <2> QED BY <1>7, <2>1, FaultType DEF SaveError, Fault, TypeInv
  <1> QED BY <1>1, <1>2, <1>3, <1>4, <1>5, <1>6, <1>7 DEF JobStep

LEMMA TypeCrash ==
  ASSUME TypeInv, NEW w \in Workers, Crash(w) PROVE TypeInv'
  <1>1. PICK dryRun \in Modes : Become(w, Started(dryRun))
    BY DEF Crash
  <1>2. LocalOK(Started(dryRun))
    BY StartedType, IndexerAssumption
  <1> QED BY <1>1, <1>2, BecomeType, FaultType DEF Crash, Fault, TypeInv

LEMMA TypeNext == TypeInv /\ [Next]_vars => TypeInv'
  <1> SUFFICES ASSUME TypeInv, [Next]_vars PROVE TypeInv'
    OBVIOUS
  <1>1. CASE UNCHANGED vars
    BY <1>1 DEF TypeInv, vars
  <1> QED BY <1>1, TypeRowStep, TypeJobStep, TypeCrash DEF Next

\* The indexer's variables keep their types, for all rows, workers and faults.
THEOREM IndexerTypeCorrect == Spec => []IndexerTypeOK
  BY TypeInit, TypeNext, TypeInvImpliesTypeOK, PTL DEF Spec

----------------------------------------------------------------------------
(* The safety properties. They are inductive together with what a row's     *)
(* columns say of its fate, and with what stays true of a candidate between *)
(* the moment it is listed and the moment it is worked on.                  *)

Decided == {"success", "failed"}

\* An aggregate that is funded has had a deposit validated with success, or
\* taken for one in a dry run.
FundedHasDeposit ==
    \A a \in Aggregates :
        aggregate[a].status \in {"funded", "cover_funded"} =>
            \E r \in Rows :
                /\ Target[r] = a /\ Kind[r] \in FundingKinds
                /\ fate[r] = "success" \/ outbox[r].result = "dry"

\* What the status, the result and the fate of a row have to do with each other. Only
\* a LoanSet is ever left SUBMITTED with a result, and so looked up.
RowOK(r) ==
    /\ outbox[r].status \in {"absent", "pending"} => outbox[r].result = "none"
    /\ outbox[r].status # "absent" => Ready(r)
    /\ outbox[r].status = "validated" => outbox[r].result = "success"
    /\ outbox[r].status = "prepared" => outbox[r].result = "dry"
    /\ outbox[r].status \in {"indexed", "reconciled"} => outbox[r].result # "none"
    /\ outbox[r].result \in {"none", "dry"} => fate[r] = "none"
    /\ outbox[r].result \in Decided => fate[r] = outbox[r].result
    /\ Kind[r] # "LOAN_SET" =>
         /\ outbox[r].status = "submitted" => outbox[r].result = "none"
         /\ outbox[r].status \in {"prepared", "validated", "indexed", "reconciled"} =>
              outbox[r].result \in {"success", "dry"}

\* What is still true of a candidate, however long ago it was listed.
CandidateOK(c) ==
    /\ outbox[c.row].result # "none" /\ c.result # "none"
    /\ c.result = "success" => fate[c.row] = "success"
    /\ c.result = "dry" <=> outbox[c.row].result = "dry"
    /\ Kind[c.row] # "LOAN_SET" =>
         c.result = outbox[c.row].result /\ c.result \in {"success", "dry"}

\* How far a worker has come with its candidate.
WorkerOK(x) ==
    /\ \A c \in x.batch : CandidateOK(c)
    /\ x.pc # "list" => CandidateOK(x.cur)
    /\ x.pc = "lookup" => x.cur.result = "engine"
    /\ x.pc \in {"save", "mark"} /\ Kind[x.cur.row] \in CreationKinds /\ x.cur.result = "success" =>
         aggregate[Target[x.cur.row]].object
    /\ x.pc = "mark" /\ x.job = "reconcile" => x.cur.row \in runs

RowsOK == \A r \in Rows : RowOK(r)
WorkersOK == \A w \in Workers : WorkerOK(wk[w])
SafetyInv ==
    /\ TypeInv /\ RowsOK /\ WorkersOK
    /\ ObjectsAreReal /\ FundedHasDeposit /\ WrittenBack /\ ReconciledHasRun

LEMMA SafetyInit == Init => SafetyInv
  <1> SUFFICES ASSUME Init PROVE SafetyInv
    OBVIOUS
  <1>1. RowsOK
    BY DEF Init, RowsOK, RowOK, Decided, Ready
  <1>2. WorkersOK
    <2>1. ASSUME NEW w \in Workers PROVE WorkerOK(wk[w])
      BY DEF Init, Started, NoCandidate, WorkerOK
    <2> QED BY <2>1 DEF WorkersOK
  <1>3. ObjectsAreReal /\ FundedHasDeposit /\ WrittenBack /\ ReconciledHasRun
    BY IndexerAssumption
       DEF Init, ObjectsAreReal, FundedHasDeposit, WrittenBack, ReconciledHasRun
  <1> QED BY <1>1, <1>2, <1>3, TypeInit DEF SafetyInv

\* What no step takes back: all that the invariant says of a candidate rests on it.
Grows ==
    /\ \A r \in Rows :
         /\ fate[r] = "success" => fate'[r] = "success"
         /\ outbox[r].result # "none" => outbox'[r].result # "none"
         /\ outbox[r].result = "dry" => outbox'[r].result = "dry"
         /\ outbox'[r].result = "dry" => outbox[r].result \in {"none", "dry"}
         /\ Kind[r] # "LOAN_SET" /\ outbox[r].result # "none" =>
              outbox'[r].result = outbox[r].result
    /\ \A a \in Aggregates : aggregate[a].object => aggregate'[a].object
    /\ runs \subseteq runs'

LEMMA GrowCandidate ==
  ASSUME Grows
  PROVE  \A c \in Candidates : CandidateOK(c) => CandidateOK(c)'
  BY DEF Grows, CandidateOK, Candidates

LEMMA HeldCandidate ==
  ASSUME TypeInv, WorkersOK, NEW w \in Workers
  PROVE  /\ wk[w].batch \subseteq Candidates
         /\ \A c \in wk[w].batch : CandidateOK(c)
         /\ wk[w].pc # "list" => wk[w].cur \in Candidates /\ CandidateOK(wk[w].cur)
  BY DEF TypeInv, LocalOK, WorkerRecords, WorkersOK, WorkerOK

\* A worker that a step does not concern.
LEMMA GrowWorker ==
  ASSUME TypeInv, WorkersOK, Grows, NEW w \in Workers, wk'[w] = wk[w]
  PROVE  WorkerOK(wk[w])'
  <1>1. /\ \A c \in wk[w].batch : CandidateOK(c)'
        /\ wk[w].pc # "list" => CandidateOK(wk[w].cur)'
    BY HeldCandidate, GrowCandidate
  <1>2. WorkerOK(wk[w])
    BY DEF WorkersOK
  <1>3. wk[w].pc # "list" => wk[w].cur.row \in Rows /\ Target[wk[w].cur.row] \in Aggregates
    BY HeldCandidate, IndexerAssumption DEF Candidates
  <1>4. runs \subseteq runs' /\ \A a \in Aggregates : aggregate[a].object => aggregate'[a].object
    BY DEF Grows
  <1> QED BY <1>1, <1>2, <1>3, <1>4 DEF WorkerOK

LEMMA GrowWorkers ==
  ASSUME TypeInv, WorkersOK, Grows, UNCHANGED wk
  PROVE  WorkersOK'
  BY GrowWorker DEF WorkersOK

----------------------------------------------------------------------------
(* The steps of the API, the executor and the ledger.                       *)

LEMMA RowGrows ==
  ASSUME TypeInv, RowsOK, NEW r \in Rows, RowStep(r) PROVE Grows
  <1> USE IndexerAssumption DEF Grows, TypeInv, RowRecords, AggregateRecords
  <1>0. RowOK(r)
    BY DEF RowsOK
  <1>1. CASE InsertAggregate(r)
    BY <1>1 DEF InsertAggregate
  <1>2. CASE Enqueue(r)
    BY <1>2 DEF Enqueue
  <1>3. CASE Take(r)
    BY <1>0, <1>3 DEF Take, SetRow, RowOK
  <1>4. CASE Settle(r)
    BY <1>0, <1>4 DEF Settle, SetRow, RowOK
  <1>5. CASE Decide(r)
    BY <1>5 DEF Decide
  <1> QED BY <1>1, <1>2, <1>3, <1>4, <1>5 DEF RowStep

\* An aggregate that has its ID keeps it, and what was ready stays so.
LEMMA StaysReady ==
  ASSUME Grows, NEW r \in Rows, Ready(r) PROVE Ready(r)'
  BY IndexerAssumption DEF Grows, Ready

LEMMA RowRowsOK ==
  ASSUME TypeInv, RowsOK, NEW r \in Rows, RowStep(r) PROVE RowsOK'
  <1> USE DEF TypeInv, RowRecords
  <1>0. Grows
    BY RowGrows
  <1> SUFFICES ASSUME NEW q \in Rows PROVE RowOK(q)'
    BY DEF RowsOK
  <1>q. RowOK(q) /\ RowOK(r)
    BY DEF RowsOK
  <1>p. Ready(q) => Ready(q)'
    BY <1>0, StaysReady
  <1>1. CASE InsertAggregate(r)
    BY <1>q, <1>p, <1>1 DEF InsertAggregate, RowOK
  <1>2. CASE Enqueue(r)
    BY <1>q, <1>p, <1>2 DEF Enqueue, RowOK, Decided
  <1>3. CASE Take(r)
    BY <1>q, <1>p, <1>3 DEF Take, SetRow, RowOK, Decided
  <1>4. CASE Settle(r)
    BY <1>q, <1>p, <1>4 DEF Settle, SetRow, RowOK, Decided
  <1>5. CASE Decide(r)
    BY <1>q, <1>p, <1>5 DEF Decide, RowOK, Decided
  <1> QED BY <1>1, <1>2, <1>3, <1>4, <1>5 DEF RowStep

LEMMA RowObjects ==
  ASSUME TypeInv, RowsOK, ObjectsAreReal, NEW r \in Rows, RowStep(r) PROVE ObjectsAreReal'
  <1> DEFINE Real(a) == \E q \in Rows :
                           Target[q] = a /\ Kind[q] \in CreationKinds /\ fate[q] = "success"
  <1>1. /\ \A a \in Aggregates :
             aggregate[a].object \/ aggregate[a].status \notin {"absent", "queued"} =>
                 aggregate[a].object /\ Real(a)
        /\ \A q \in Rows : outbox[q].status # "absent" /\ Needs[q] # NoAggregate => Real(Needs[q])
    BY DEF ObjectsAreReal
  <1>2. \A a : Real(a) => Real(a)'
    BY RowGrows DEF Grows
  <1>3. \A a \in Aggregates :
             aggregate'[a].object \/ aggregate'[a].status \notin {"absent", "queued"} =>
                 aggregate'[a].object /\ Real(a)'
    <2> SUFFICES ASSUME NEW a \in Aggregates,
                        aggregate'[a].object \/ aggregate'[a].status \notin {"absent", "queued"}
                 PROVE  aggregate'[a].object /\ Real(a)'
      OBVIOUS
    <2>1. /\ aggregate[a].object \/ aggregate[a].status \notin {"absent", "queued"}
          /\ aggregate'[a].object = aggregate[a].object
      BY DEF RowStep, InsertAggregate, Enqueue, Take, Settle, Decide, TypeInv, AggregateRecords
    <2> QED BY <1>1, <1>2, <2>1
  <1>4. ASSUME NEW q \in Rows, outbox'[q].status # "absent", Needs[q] # NoAggregate
        PROVE  Real(Needs[q])'
    <2>1. RowOK(q)'
      BY RowRowsOK DEF RowsOK
    <2>2. Ready(q)' /\ Needs[q] \in Aggregates
      BY <1>4, <2>1, IndexerAssumption DEF RowOK
    <2> QED BY <1>3, <1>4, <2>2 DEF Ready
  <1> QED BY <1>3, <1>4 DEF ObjectsAreReal

LEMMA RowFunded ==
  ASSUME TypeInv, RowsOK, FundedHasDeposit, NEW r \in Rows, RowStep(r) PROVE FundedHasDeposit'
  <1>1. \A a \in Aggregates : aggregate'[a].status \in {"funded", "cover_funded"} =>
                               aggregate[a].status \in {"funded", "cover_funded"}
    BY DEF RowStep, InsertAggregate, Enqueue, Take, Settle, Decide, TypeInv, AggregateRecords
  <1> QED BY <1>1, RowGrows DEF FundedHasDeposit, Grows

LEMMA RowWrittenBack ==
  ASSUME TypeInv, RowsOK, WrittenBack, NEW r \in Rows, RowStep(r) PROVE WrittenBack'
  <1> SUFFICES ASSUME NEW q \in Rows, Kind[q] \in {"VAULT_CREATE", "LOAN_BROKER_SET"},
                      outbox'[q].status \in {"indexed", "reconciled"}, fate'[q] = "success"
               PROVE  aggregate'[Target[q]].object
    BY DEF WrittenBack
  <1>1. outbox[q].status \in {"indexed", "reconciled"}
    BY DEF RowStep, InsertAggregate, Enqueue, Take, SetRow, Settle, Decide, TypeInv, RowRecords
  <1>2. fate[q] = "success"
    <2>1. RowOK(q)
      BY DEF RowsOK
    <2>2. outbox[q].result \in {"success", "dry"} /\ fate[q] # "open"
      BY <1>1, <2>1 DEF RowOK, Decided
    <2> QED BY <1>1, <2>2
            DEF RowStep, InsertAggregate, Enqueue, Take, Settle, Decide, TypeInv
  <1> QED BY <1>1, <1>2, RowGrows, IndexerAssumption DEF WrittenBack, Grows

LEMMA RowHasRun ==
  ASSUME TypeInv, ReconciledHasRun, NEW r \in Rows, RowStep(r) PROVE ReconciledHasRun'
  BY DEF ReconciledHasRun, RowStep, InsertAggregate, Enqueue, Take, SetRow, Settle, Decide,
         TypeInv, RowRecords

LEMMA SafetyRowStep ==
  ASSUME SafetyInv, NEW r \in Rows, RowStep(r) PROVE SafetyInv'
  <1> USE DEF SafetyInv
  <1>1. TypeInv' /\ RowsOK'
    BY TypeRowStep, RowRowsOK
  <1>2. UNCHANGED wk
    BY DEF RowStep, InsertAggregate, Enqueue, Take, Settle, Decide
  <1>3. WorkersOK'
    BY <1>2, RowGrows, GrowWorkers
  <1> QED BY <1>1, <1>3, RowObjects, RowFunded, RowWrittenBack, RowHasRun

----------------------------------------------------------------------------
(* The steps of the jobs.                                                   *)

\* A worker past the list works on a row that has been decided on.
LEMMA Working ==
  ASSUME TypeInv, WorkersOK, NEW w \in Workers, wk[w].pc # "list"
  PROVE  /\ Row(w) \in Rows /\ Target[Row(w)] \in Aggregates
         /\ outbox[Row(w)].result # "none"
         /\ Result(w) = "success" => fate[Row(w)] = "success"
         /\ Result(w) = "dry" <=> outbox[Row(w)].result = "dry"
         /\ Kind[Row(w)] # "LOAN_SET" =>
              Result(w) = outbox[Row(w)].result /\ Result(w) \in {"success", "dry"}
         /\ WorkerOK(wk[w])
  BY HeldCandidate, HeldRow, IndexerAssumption DEF CandidateOK, Row, Result, WorkersOK

\* What the enrichment does to an aggregate.
LEMMA EnrichedAggregate ==
  ASSUME TypeInv, WorkersOK, RowsOK, NEW w \in Workers, wk[w].pc # "list",
         NEW a \in Aggregates, Enriched(w)[a] # aggregate[a]
  PROVE  /\ a = Target[Row(w)]
         /\ \/ Created(w) /\ Enriched(w)[a] = [status |-> "active", object |-> TRUE]
            \/ /\ Kind[Row(w)] \in FundingKinds
               /\ Enriched(w)[a].object = aggregate[a].object /\ Ready(Row(w))
  <1>1. RowOK(Row(w))
    BY Working DEF RowsOK
  <1>2. Ready(Row(w))
    BY <1>1, Working DEF RowOK
  <1> QED BY <1>2, Working
          DEF Enriched, Created, CreationKinds, FundingKinds, TypeInv, AggregateRecords

LEMMA EnrichGrows ==
  ASSUME TypeInv, WorkersOK, RowsOK, NEW w \in Workers, wk[w].pc # "list",
         NEW a \in Aggregates, aggregate[a].object
  PROVE  Enriched(w)[a].object
  BY EnrichedAggregate

LEMMA JobGrows ==
  ASSUME TypeInv, WorkersOK, RowsOK, NEW w \in Workers, JobStep(w) PROVE Grows
  <1> USE DEF Grows, TypeInv, RowRecords
  <1>1. CASE ListToIndex(w) \/ ListToReconcile(w) \/ SaveError(w)
    BY <1>1 DEF ListToIndex, ListToReconcile, SaveError
  <1>2. CASE LookUp(w)
    <2>1. wk[w].pc = "lookup"
      BY <1>2 DEF LookUp
    <2>2. Result(w) = "engine"
      BY <2>1 DEF WorkersOK, WorkerOK, Result
    <2>3. outbox' # outbox => /\ fate[Row(w)] \in {"success", "failed"}
                              /\ outbox' = [outbox EXCEPT ![Row(w)].result = fate[Row(w)]]
      BY <1>2 DEF LookUp
    <2> QED BY <1>2, <2>1, <2>2, <2>3, Working DEF LookUp
  <1>3. CASE Enrich(w)
    BY <1>3, EnrichGrows DEF Enrich
  <1>4. CASE SaveRun(w)
    BY <1>4 DEF SaveRun
  <1>5. CASE Mark(w)
    BY <1>5 DEF Mark
  <1> QED BY <1>1, <1>2, <1>3, <1>4, <1>5 DEF JobStep

LEMMA JobRowsOK ==
  ASSUME TypeInv, WorkersOK, RowsOK, NEW w \in Workers, JobStep(w) PROVE RowsOK'
  <1> USE DEF TypeInv, RowRecords
  <1> SUFFICES ASSUME NEW q \in Rows PROVE RowOK(q)'
    BY DEF RowsOK
  <1>q. RowOK(q)
    BY DEF RowsOK
  <1>p. Ready(q) => Ready(q)'
    BY JobGrows, StaysReady
  <1>1. CASE ListToIndex(w) \/ ListToReconcile(w) \/ SaveError(w) \/ SaveRun(w)
    BY <1>q, <1>p, <1>1 DEF ListToIndex, ListToReconcile, SaveError, SaveRun, RowOK
  <1>2. CASE LookUp(w)
    <2>1. wk[w].pc = "lookup"
      BY <1>2 DEF LookUp
    <2>2. Result(w) = "engine"
      BY <2>1 DEF WorkersOK, WorkerOK, Result
    <2>3. outbox' # outbox => /\ fate[Row(w)] \in {"success", "failed"}
                              /\ outbox' = [outbox EXCEPT ![Row(w)].result = fate[Row(w)]]
      BY <1>2 DEF LookUp
    <2>4. fate' = fate
      BY <1>2 DEF LookUp
    <2>5. RowOK(Row(w))
      BY <2>1, Working DEF RowsOK
    <2> QED BY <1>q, <1>p, <2>1, <2>2, <2>3, <2>4, <2>5, Working DEF RowOK, Decided
  <1>3. CASE Enrich(w)
    BY <1>q, <1>p, <1>3 DEF Enrich, RowOK
  <1>4. CASE Mark(w)
    <2>1. /\ wk[w].pc # "list" /\ UNCHANGED fate
          /\ \E s \in {"indexed", "reconciled"} :
                outbox' \in {outbox, [outbox EXCEPT ![Row(w)].status = s]}
      BY <1>4 DEF Mark
    <2>2. RowOK(Row(w))
      BY <2>1, Working DEF RowsOK
    <2> QED BY <1>q, <1>p, <2>1, <2>2, Working DEF RowOK, Decided
  <1> QED BY <1>1, <1>2, <1>3, <1>4 DEF JobStep

\* A worker that turns to the next of candidates that are still good.
LEMMA WorkOnOK ==
  ASSUME TypeInv, NEW w \in Workers, NEW batch \in SUBSET Candidates, WorkOn(w, batch),
         \A c \in batch : CandidateOK(c)'
  PROVE  WorkerOK(wk[w])'
  <1>1. CASE EndJob(w)
    BY <1>1 DEF EndJob, Become, Started, WorkerOK, TypeInv
  <1>2. ASSUME NEW c \in batch,
               Become(w, [wk[w] EXCEPT
                            !.pc = IF wk[w].job = "index" /\ c.result = "engine"
                                   THEN "lookup" ELSE "enrich",
                            !.batch = batch \ {c}, !.cur = c])
        PROVE  WorkerOK(wk[w])'
    <2>1. /\ wk'[w].cur = c /\ wk'[w].batch = batch \ {c}
          /\ wk'[w].pc \in {"lookup", "enrich"}
          /\ wk'[w].pc = "lookup" => c.result = "engine"
      BY <1>2 DEF Become, TypeInv, WorkerRecords
    <2> QED BY <2>1 DEF WorkerOK
  <1> QED BY <1>1, <1>2 DEF WorkOn

LEMMA ListedOK ==
  ASSUME TypeInv, RowsOK
  PROVE  /\ \A c \in IndexCandidates : CandidateOK(c)
         /\ \A c \in Listed(ReconcilableStatuses) : CandidateOK(c)
  <1> USE DEF Listed, CandidateOK, RowsOK, RowOK, Decided, TypeInv, RowRecords, Results
  <1>1. \A c \in IndexCandidates : CandidateOK(c)
    BY DEF IndexCandidates, IndexableStatuses
  <1>2. \A c \in Listed(ReconcilableStatuses) : CandidateOK(c)
    BY DEF ReconcilableStatuses
  <1> QED BY <1>1, <1>2

LEMMA FinishOK ==
  ASSUME TypeInv, WorkersOK, Grows, NEW w \in Workers, Finish(w)
  PROVE  WorkerOK(wk[w])'
  <1>1. wk[w].batch \in SUBSET Candidates /\ \A c \in wk[w].batch : CandidateOK(c)'
    BY HeldCandidate, GrowCandidate
  <1> QED BY <1>1, WorkOnOK DEF Finish

\* A worker that goes on with the candidate in hand.
LEMMA GotoOK ==
  ASSUME TypeInv, WorkersOK, Grows, NEW w \in Workers, wk[w].pc # "list",
         NEW p \in {"enrich", "save", "mark", "error"}, Goto(w, p),
         p \in {"save", "mark"} /\ Kind[Row(w)] \in CreationKinds /\ Result(w) = "success" =>
             aggregate'[Target[Row(w)]].object,
         p = "mark" /\ wk[w].job = "reconcile" => Row(w) \in runs'
  PROVE  WorkerOK(wk[w])'
  <1>1. CandidateOK(wk[w].cur)' /\ \A c \in wk[w].batch : CandidateOK(c)'
    <2>1. wk'[w].cur = wk[w].cur
      BY DEF Goto, Become, TypeInv, WorkerRecords
    <2>2. wk[w].cur \in Candidates /\ CandidateOK(wk[w].cur)
      BY HeldCandidate
    <2>3. \A c \in wk[w].batch : CandidateOK(c)'
      BY HeldCandidate, GrowCandidate
    <2> QED BY <2>1, <2>2, <2>3, GrowCandidate
  <1>2. /\ wk'[w].pc = p /\ wk'[w].cur = wk[w].cur
        /\ wk'[w].batch = wk[w].batch /\ wk'[w].job = wk[w].job
    BY DEF Goto, Become, TypeInv, WorkerRecords
  <1> QED BY <1>1, <1>2 DEF WorkerOK, Row, Result

LEMMA JobWorkerOK ==
  ASSUME TypeInv, WorkersOK, RowsOK, NEW w \in Workers, JobStep(w)
  PROVE  WorkerOK(wk[w])'
  <1>0. Grows
    BY JobGrows
  <1>1. CASE ListToIndex(w)
    <2>1. IndexCandidates \in SUBSET Candidates /\ \A c \in IndexCandidates : CandidateOK(c)'
      BY <1>0, ListedType, ListedOK, GrowCandidate DEF IndexCandidates
    <2>2. CASE WorkOn(w, IndexCandidates)
      BY <2>1, <2>2, WorkOnOK
    <2>3. CASE EndJob(w)
      BY <2>3 DEF EndJob, Become, Started, WorkerOK, TypeInv
    <2> QED BY <1>1, <2>2, <2>3 DEF ListToIndex
  <1>2. CASE ListToReconcile(w)
    <2>1. \A c \in Listed(ReconcilableStatuses) : CandidateOK(c)'
      BY <1>0, ListedType, ListedOK, GrowCandidate
    <2> QED BY <1>2, <2>1, ListedType, WorkOnOK DEF ListToReconcile
  <1>3. CASE LookUp(w)
    <2>1. wk[w].pc = "lookup"
      BY <1>3 DEF LookUp
    <2>2. CASE fate[Row(w)] \in {"success", "failed"}
               /\ Become(w, [wk[w] EXCEPT !.pc = "enrich", !.cur.result = fate[Row(w)]])
      <3>1. /\ wk'[w].pc = "enrich" /\ wk'[w].batch = wk[w].batch
            /\ wk'[w].cur.row = Row(w) /\ wk'[w].cur.result = fate[Row(w)]
        BY <2>2 DEF Become, TypeInv, WorkerRecords, Candidates, NoCandidate, Row
      <3>2. \A c \in wk[w].batch : CandidateOK(c)'
        BY <1>0, HeldCandidate, GrowCandidate
      <3>3. Result(w) = "engine" /\ fate' = fate
        BY <1>3, <2>1 DEF LookUp, WorkersOK, WorkerOK, Result
      <3>4. /\ Row(w) \in Rows /\ Kind[Row(w)] = "LOAN_SET"
            /\ outbox'[Row(w)].result \notin {"none", "dry"}
        BY <1>0, <2>1, <3>3, Working DEF Grows
      <3> QED BY <2>2, <3>1, <3>2, <3>3, <3>4 DEF WorkerOK, CandidateOK
    <2>3. CASE Goto(w, "enrich")
      BY <1>0, <2>1, <2>3, GotoOK
    <2> QED BY <1>3, <2>2, <2>3 DEF LookUp
  <1>4. CASE Enrich(w)
    <2>1. wk[w].pc = "enrich" /\ UNCHANGED runs
      BY <1>4 DEF Enrich
    <2>2. CASE aggregate' = Enriched(w) /\ Goto(w, IF wk[w].job = "index" THEN "mark" ELSE "save")
      <3>1. Kind[Row(w)] \in CreationKinds /\ Result(w) = "success" =>
              aggregate'[Target[Row(w)]].object
        BY <2>1, <2>2, Working DEF Enriched, Created, CreationKinds, TypeInv
      <3> QED BY <1>0, <2>1, <2>2, <3>1, GotoOK
    <2>3. CASE Goto(w, "error")
      BY <1>0, <2>1, <2>3, GotoOK
    <2> QED BY <1>4, <2>2, <2>3 DEF Enrich
  <1>5. CASE SaveRun(w)
    <2>1. wk[w].pc = "save" /\ UNCHANGED aggregate
      BY <1>5 DEF SaveRun
    <2>2. CASE runs' = runs \cup {Row(w)} /\ Goto(w, "mark")
      <3>1. Kind[Row(w)] \in CreationKinds /\ Result(w) = "success" =>
              aggregate'[Target[Row(w)]].object
        BY <2>1, Working DEF WorkerOK, Row, Result
      <3> QED BY <1>0, <2>1, <2>2, <3>1, GotoOK
    <2>3. CASE Goto(w, "error")
      BY <1>0, <2>1, <2>3, GotoOK
    <2> QED BY <1>5, <2>2, <2>3 DEF SaveRun
  <1>6. CASE Mark(w)
    <2>1. wk[w].pc = "mark"
      BY <1>6 DEF Mark
    <2>2. Finish(w) \/ Goto(w, "error")
      BY <1>6 DEF Mark
    <2> QED BY <1>0, <2>1, <2>2, FinishOK, GotoOK
  <1>7. CASE SaveError(w)
    <2>1. CASE EndJob(w)
      BY <2>1 DEF EndJob, Become, Started, WorkerOK, TypeInv
    <2>2. CASE Finish(w)
      BY <1>0, <2>2, FinishOK
    <2> QED BY <1>7, <2>1, <2>2 DEF SaveError
  <1> QED BY <1>1, <1>2, <1>3, <1>4, <1>5, <1>6, <1>7 DEF JobStep

LEMMA JobWorkersOK ==
  ASSUME TypeInv, WorkersOK, RowsOK, NEW w \in Workers, JobStep(w)
  PROVE  WorkersOK'
  <1>1. \A v \in Workers \ {w} : wk'[v] = wk[v]
    BY DEF JobStep, ListToIndex, ListToReconcile, LookUp, Enrich, SaveRun, Mark, SaveError,
           Finish, WorkOn, EndJob, Goto, Become, TypeInv
  <1>2. \A v \in Workers \ {w} : WorkerOK(wk[v])'
    BY <1>1, JobGrows, GrowWorker
  <1> QED BY <1>2, JobWorkerOK DEF WorkersOK

LEMMA JobObjects ==
  ASSUME SafetyInv, NEW w \in Workers, JobStep(w) PROVE ObjectsAreReal'
  <1> USE DEF SafetyInv
  <1> DEFINE Real(a) == \E q \in Rows :
                           Target[q] = a /\ Kind[q] \in CreationKinds /\ fate[q] = "success"
  <1>1. /\ \A a \in Aggregates :
             aggregate[a].object \/ aggregate[a].status \notin {"absent", "queued"} =>
                 aggregate[a].object /\ Real(a)
        /\ \A q \in Rows : outbox[q].status # "absent" /\ Needs[q] # NoAggregate => Real(Needs[q])
    BY DEF ObjectsAreReal
  <1>2. \A a : Real(a) => Real(a)'
    BY JobGrows DEF Grows
  <1>3. ASSUME NEW a \in Aggregates,
               aggregate'[a].object \/ aggregate'[a].status \notin {"absent", "queued"}
        PROVE  aggregate'[a].object /\ Real(a)'
    <2>1. CASE aggregate'[a] = aggregate[a]
      BY <1>1, <1>2, <1>3, <2>1
    <2>2. CASE aggregate'[a] # aggregate[a]
      <3>1. wk[w].pc # "list" /\ aggregate' = Enriched(w)
        BY <2>2 DEF JobStep, ListToIndex, ListToReconcile, LookUp, Enrich, SaveRun, Mark, SaveError
      <3>2. CASE Created(w) /\ Enriched(w)[a] = [status |-> "active", object |-> TRUE]
        <4>1. a = Target[Row(w)] /\ Row(w) \in Rows /\ fate[Row(w)] = "success"
          BY <2>2, <3>1, <3>2, EnrichedAggregate, Working DEF Created
        <4>2. Real(a)
          BY <3>2, <4>1 DEF Created
        <4> QED BY <1>2, <3>1, <3>2, <4>2
      <3>3. CASE /\ Kind[Row(w)] \in FundingKinds
                 /\ Enriched(w)[a].object = aggregate[a].object /\ Ready(Row(w))
        <4>1. a = Target[Row(w)] /\ Row(w) \in Rows
          BY <2>2, <3>1, EnrichedAggregate, Working
        <4>2. aggregate[a].object
          BY <3>3, <4>1, IndexerAssumption DEF Ready
        <4> QED BY <1>1, <1>2, <3>1, <3>3, <4>2
      <3> QED BY <2>2, <3>1, <3>2, <3>3, EnrichedAggregate
    <2> QED BY <2>1, <2>2
  <1>4. ASSUME NEW q \in Rows, outbox'[q].status # "absent", Needs[q] # NoAggregate
        PROVE  Real(Needs[q])'
    <2>1. Ready(q)' /\ Needs[q] \in Aggregates
      BY <1>4, JobRowsOK, IndexerAssumption DEF RowsOK, RowOK
    <2> QED BY <1>3, <1>4, <2>1 DEF Ready
  <1> QED BY <1>3, <1>4 DEF ObjectsAreReal

LEMMA JobFunded ==
  ASSUME SafetyInv, NEW w \in Workers, JobStep(w) PROVE FundedHasDeposit'
  <1> USE DEF SafetyInv
  <1> SUFFICES ASSUME NEW a \in Aggregates, aggregate'[a].status \in {"funded", "cover_funded"}
               PROVE  \E r \in Rows : /\ Target[r] = a /\ Kind[r] \in FundingKinds
                                      /\ fate'[r] = "success" \/ outbox'[r].result = "dry"
    BY DEF FundedHasDeposit
  <1>1. CASE aggregate'[a] = aggregate[a]
    BY <1>1, JobGrows DEF FundedHasDeposit, Grows
  <1>2. CASE aggregate'[a] # aggregate[a]
    <2>1. wk[w].pc # "list" /\ aggregate' = Enriched(w)
      BY <1>2 DEF JobStep, ListToIndex, ListToReconcile, LookUp, Enrich, SaveRun, Mark, SaveError
    <2>2. a = Target[Row(w)] /\ Kind[Row(w)] \in FundingKinds
      BY <1>2, <2>1, EnrichedAggregate
    <2>3. /\ Row(w) \in Rows
          /\ fate[Row(w)] = "success" \/ outbox[Row(w)].result = "dry"
      BY <2>1, <2>2, Working DEF FundingKinds
    <2> QED BY <2>2, <2>3, JobGrows DEF Grows
  <1> QED BY <1>1, <1>2

\* The only step of a job that gives a row another status is that it marks it.
LEMMA OnlyMarks ==
  ASSUME TypeInv, NEW w \in Workers, JobStep(w),
         NEW r \in Rows, outbox'[r].status # outbox[r].status
  PROVE  /\ Mark(w) /\ Row(w) = r
         /\ outbox'[r].status = IF wk[w].job = "index" THEN "indexed" ELSE "reconciled"
         /\ wk[w].job \in {"index", "reconcile"}
  <1> USE DEF TypeInv, RowRecords, WorkerRecords
  <1>1. CASE Mark(w)
    BY <1>1 DEF Mark
  <1>2. CASE LookUp(w)
    <2>1. outbox' \in {outbox, [outbox EXCEPT ![Row(w)].result = fate[Row(w)]]}
      BY <1>2 DEF LookUp
    <2> QED BY <2>1
  <1>3. UNCHANGED outbox \/ Mark(w) \/ LookUp(w)
    BY DEF JobStep, ListToIndex, ListToReconcile, Enrich, SaveRun, SaveError
  <1> QED BY <1>1, <1>2, <1>3

LEMMA JobWrittenBack ==
  ASSUME SafetyInv, NEW w \in Workers, JobStep(w) PROVE WrittenBack'
  <1> USE DEF SafetyInv
  <1> SUFFICES ASSUME NEW r \in Rows, Kind[r] \in {"VAULT_CREATE", "LOAN_BROKER_SET"},
                      outbox'[r].status \in {"indexed", "reconciled"}, fate'[r] = "success"
               PROVE  aggregate'[Target[r]].object
    BY DEF WrittenBack
  <1>0. Target[r] \in Aggregates /\ fate' = fate
    BY IndexerAssumption
       DEF JobStep, ListToIndex, ListToReconcile, LookUp, Enrich, SaveRun, Mark, SaveError
  <1>1. CASE outbox[r].status \in {"indexed", "reconciled"}
    BY <1>0, <1>1, JobGrows DEF WrittenBack, Grows
  <1>2. CASE outbox[r].status \notin {"indexed", "reconciled"}
    <2>1. Mark(w) /\ Row(w) = r
      BY <1>2, OnlyMarks
    <2>2. wk[w].pc = "mark" /\ RowOK(r)
      BY <2>1 DEF Mark, RowsOK
    <2>3. Result(w) = outbox[r].result /\ Result(w) \in {"success", "dry"} /\ WorkerOK(wk[w])
      BY <2>1, <2>2, Working
    <2>4. Result(w) = "success"
      BY <1>0, <2>2, <2>3 DEF RowOK
    <2> QED BY <1>0, <2>1, <2>2, <2>3, <2>4, JobGrows DEF WorkerOK, Row, Result, CreationKinds, Grows
  <1> QED BY <1>1, <1>2

LEMMA JobHasRun ==
  ASSUME SafetyInv, NEW w \in Workers, JobStep(w) PROVE ReconciledHasRun'
  <1> USE DEF SafetyInv
  <1> SUFFICES ASSUME NEW r \in Rows, outbox'[r].status = "reconciled" PROVE r \in runs'
    BY DEF ReconciledHasRun
  <1>1. CASE outbox[r].status = "reconciled"
    BY <1>1, JobGrows DEF ReconciledHasRun, Grows
  <1>2. CASE outbox[r].status # "reconciled"
    <2>1. Mark(w) /\ Row(w) = r /\ wk[w].job = "reconcile"
      BY <1>2, OnlyMarks
    <2> QED BY <2>1 DEF Mark, WorkersOK, WorkerOK, Row
  <1> QED BY <1>1, <1>2

LEMMA SafetyJobStep ==
  ASSUME SafetyInv, NEW w \in Workers, JobStep(w) PROVE SafetyInv'
  <1>1. TypeInv' /\ RowsOK' /\ WorkersOK'
    BY TypeJobStep, JobRowsOK, JobWorkersOK DEF SafetyInv
  <1> QED BY <1>1, JobObjects, JobFunded, JobWrittenBack, JobHasRun DEF SafetyInv

\* A worker that dies forgets its candidates; nothing else changes.
LEMMA SafetyCrash ==
  ASSUME SafetyInv, NEW w \in Workers, Crash(w) PROVE SafetyInv'
  <1> USE DEF SafetyInv
  <1>1. UNCHANGED <<outbox, aggregate, runs, fate>> /\ Grows
    BY DEF Crash, Grows
  <1>2. RowsOK'
    BY <1>1 DEF RowsOK, RowOK, Ready
  <1>3. WorkersOK'
    <2>1. WorkerOK(wk[w])'
      BY DEF Crash, Become, Started, WorkerOK, TypeInv
    <2>2. \A v \in Workers \ {w} : wk'[v] = wk[v]
      BY DEF Crash, Become, TypeInv
    <2> QED BY <1>1, <2>1, <2>2, GrowWorker DEF WorkersOK
  <1> QED BY <1>1, <1>2, <1>3, TypeCrash
          DEF ObjectsAreReal, FundedHasDeposit, WrittenBack, ReconciledHasRun

LEMMA SafetyNext == SafetyInv /\ [Next]_vars => SafetyInv'
  <1> SUFFICES ASSUME SafetyInv, [Next]_vars PROVE SafetyInv'
    OBVIOUS
  <1>1. CASE UNCHANGED vars
    BY <1>1, TypeNext
       DEF vars, SafetyInv, RowsOK, RowOK, Ready, WorkersOK, WorkerOK, CandidateOK,
           ObjectsAreReal, FundedHasDeposit, WrittenBack, ReconciledHasRun
  <1> QED BY <1>1, SafetyRowStep, SafetyJobStep, SafetyCrash DEF Next

LEMMA SafetyInductive == Spec => []SafetyInv
  BY SafetyInit, SafetyNext, PTL DEF Spec

\* Whatever order API, executor, ledger and workers act in, an aggregate has a
\* ledger ID only if the ledger validated its creation, and no transaction in
\* the outbox names an object that was not created.
THEOREM ObjectsCorrect == Spec => []ObjectsAreReal
  <1>1. SafetyInv => ObjectsAreReal
    BY DEF SafetyInv
  <1> QED BY <1>1, SafetyInductive, PTL

\* The unconditional update of the enrichment never funds an aggregate without a
\* deposit that succeeded, but for a dry run.
THEOREM FundedCorrect == Spec => []FundedHasDeposit
  <1>1. SafetyInv => FundedHasDeposit
    BY DEF SafetyInv
  <1> QED BY <1>1, SafetyInductive, PTL

\* No fault and no worker that overtakes another makes the jobs pass over the
\* creation of a vault or a broker.
THEOREM WrittenBackCorrect == Spec => []WrittenBack
  <1>1. SafetyInv => WrittenBack
    BY DEF SafetyInv
  <1> QED BY <1>1, SafetyInductive, PTL

\* A row is RECONCILED only after a run of its own was saved.
THEOREM ReconciledCorrect == Spec => []ReconciledHasRun
  <1>1. SafetyInv => ReconciledHasRun
    BY DEF SafetyInv
  <1> QED BY <1>1, SafetyInductive, PTL

----------------------------------------------------------------------------
(* What no step takes back.                                                 *)

LEMMA RowTakesNothingBack ==
  ASSUME SafetyInv, NEW r \in Rows, RowStep(r), NEW q \in Rows
  PROVE  /\ outbox[q].result \in Decided => outbox'[q].result = outbox[q].result
         /\ outbox[q].status \in {"indexed", "reconciled"} => outbox'[q].status = outbox[q].status
  <1>1. /\ outbox \in [Rows -> RowRecords]
        /\ outbox[q].result \in Decided => outbox[q].status # "pending"
    BY DEF SafetyInv, TypeInv, RowsOK, RowOK, Decided
  <1> QED BY <1>1 DEF RowStep, InsertAggregate, Enqueue, Take, SetRow, Settle, Decide, RowRecords,
                      Decided

LEMMA JobTakesNothingBack ==
  ASSUME SafetyInv, NEW w \in Workers, JobStep(w), NEW q \in Rows
  PROVE  /\ outbox[q].result \in Decided => outbox'[q].result = outbox[q].result
         /\ outbox[q].status \in {"indexed", "reconciled"} =>
              outbox'[q].status \in {"indexed", "reconciled"}
  <1>1. /\ outbox \in [Rows -> RowRecords]
        /\ outbox[q].result \in Decided => fate[q] = outbox[q].result
    BY DEF SafetyInv, TypeInv, RowsOK, RowOK
  <1>2. CASE LookUp(w)
    <2>1. outbox' \in {outbox, [outbox EXCEPT ![Row(w)].result = fate[Row(w)]]}
      BY <1>2 DEF LookUp
    <2> QED BY <1>1, <2>1 DEF RowRecords
  <1>3. CASE Mark(w)
    <2>1. \E s \in {"indexed", "reconciled"} :
            outbox' \in {outbox, [outbox EXCEPT ![Row(w)].status = s]}
      BY <1>3 DEF Mark
    <2> QED BY <1>1, <2>1 DEF RowRecords
  <1>4. UNCHANGED outbox \/ LookUp(w) \/ Mark(w)
    BY DEF JobStep, ListToIndex, ListToReconcile, Enrich, SaveRun, SaveError
  <1> QED BY <1>2, <1>3, <1>4

LEMMA NextTakesNothingBack ==
  ASSUME SafetyInv, [Next]_vars
  PROVE  /\ \A r \in Rows :
              /\ outbox[r].result \in {"success", "failed"} =>
                   outbox'[r].result = outbox[r].result
              /\ outbox[r].status \in {"indexed", "reconciled"} =>
                   outbox'[r].status \in {"indexed", "reconciled"}
         /\ \A a \in Aggregates : aggregate[a].object => aggregate'[a].object
         /\ runs \subseteq runs'
  <1>1. ASSUME NEW r \in Rows, RowStep(r) PROVE Grows
    BY <1>1, RowGrows DEF SafetyInv
  <1>2. ASSUME NEW w \in Workers, JobStep(w) PROVE Grows
    BY <1>2, JobGrows DEF SafetyInv
  <1>3. ASSUME NEW w \in Workers, Crash(w) PROVE UNCHANGED <<outbox, aggregate, runs>>
    BY <1>3 DEF Crash
  <1>4. CASE UNCHANGED <<outbox, aggregate, runs>>
    BY <1>4
  <1>5. CASE Grows /\ \E r \in Rows : RowStep(r)
    BY <1>5, RowTakesNothingBack DEF Grows, Decided
  <1>6. CASE Grows /\ \E w \in Workers : JobStep(w)
    BY <1>6, JobTakesNothingBack DEF Grows, Decided
  <1> QED BY <1>1, <1>2, <1>3, <1>4, <1>5, <1>6 DEF Next, vars

\* Whatever candidates a worker still works on, it takes no result, mark, object or run
\* back that has been written since they were listed.
THEOREM NothingIsTakenBack == Spec => NothingTakenBack
  BY SafetyInductive, NextTakesNothingBack, PTL DEF Spec, NothingTakenBack

----------------------------------------------------------------------------
(* The promise about aggregates. A row's transaction creates an object or   *)
(* pays into one at the step that gives the row its fate; by then it has    *)
(* been enqueued, so that its aggregate is there and what it names is ready.*)

Stage == [a \in Aggregates |-> aggregate[a].status]
KnownObjects == {a \in Aggregates : aggregate[a].object}

PlacedInv == \A r \in Rows : outbox[r].status # "absent" => aggregate[Target[r]].status # "absent"

LifecycleStep ==
    Lifecycle!Next \/ UNCHANGED <<Stage, KnownObjects, CreatedOnLedger, PaidInto>>

LEMMA PlacedInit == Init => PlacedInv
  BY DEF Init, PlacedInv

\* What the steps of the API, the executor and the ledger have in common.
LEMMA RowFrame ==
  ASSUME SafetyInv, NEW r \in Rows, RowStep(r)
  PROVE  /\ \A q \in Rows \ {r} : outbox'[q] = outbox[q] /\ fate'[q] = fate[q]
         /\ \/ InsertAggregate(r)
            \/ Enqueue(r)
            \/ UNCHANGED aggregate /\ outbox[r].status # "absent" /\ Ready(r)
  <1> USE DEF SafetyInv, TypeInv, RowRecords
  <1>1. RowOK(r)
    BY DEF RowsOK
  <1>2. ASSUME Take(r) \/ Settle(r) \/ Decide(r)
        PROVE  UNCHANGED aggregate /\ outbox[r].status # "absent"
    BY <1>1, <1>2 DEF Take, Settle, Decide, RowOK
  <1>3. \A q \in Rows \ {r} : outbox'[q] = outbox[q] /\ fate'[q] = fate[q]
    BY DEF RowStep, InsertAggregate, Enqueue, Take, SetRow, Settle, Decide
  <1> QED BY <1>1, <1>2, <1>3 DEF RowStep, RowOK

\* A step of a job gives no row a fate, and takes none for a deposit in a dry run.
LEMMA JobFrame ==
  ASSUME SafetyInv, NEW w \in Workers, JobStep(w)
  PROVE  /\ UNCHANGED fate
         /\ \A r \in Rows : outbox'[r].result = "dry" <=> outbox[r].result = "dry"
         /\ \A r \in Rows : outbox[r].status = "absent" <=> outbox'[r].status = "absent"
         /\ UNCHANGED aggregate \/ (wk[w].pc # "list" /\ aggregate' = Enriched(w))
  <1> USE DEF SafetyInv, TypeInv, RowRecords
  <1>1. UNCHANGED fate
    BY DEF JobStep, ListToIndex, ListToReconcile, LookUp, Enrich, SaveRun, Mark, SaveError
  <1>2. UNCHANGED aggregate \/ (wk[w].pc # "list" /\ aggregate' = Enriched(w))
    BY DEF JobStep, ListToIndex, ListToReconcile, LookUp, Enrich, SaveRun, Mark, SaveError
  <1>3. CASE LookUp(w)
    <2>1. wk[w].pc = "lookup"
      BY <1>3 DEF LookUp
    <2>2. Result(w) = "engine" /\ outbox[Row(w)].result # "dry"
      BY <2>1, Working DEF WorkersOK, WorkerOK, Result
    <2>3. outbox' # outbox => /\ fate[Row(w)] \in {"success", "failed"}
                              /\ outbox' = [outbox EXCEPT ![Row(w)].result = fate[Row(w)]]
      BY <1>3 DEF LookUp
    <2> QED BY <1>1, <1>2, <2>1, <2>2, <2>3
  <1>4. CASE Mark(w)
    <2>1. wk[w].pc = "mark"
      BY <1>4 DEF Mark
    <2>2. outbox[Row(w)].status # "absent"
      BY <2>1, Working DEF RowsOK, RowOK
    <2>3. \E s \in {"indexed", "reconciled"} :
            outbox' \in {outbox, [outbox EXCEPT ![Row(w)].status = s]}
      BY <1>4 DEF Mark
    <2> QED BY <1>1, <1>2, <2>2, <2>3
  <1>5. UNCHANGED outbox \/ LookUp(w) \/ Mark(w)
    BY DEF JobStep, ListToIndex, ListToReconcile, Enrich, SaveRun, SaveError
  <1> QED BY <1>1, <1>2, <1>3, <1>4, <1>5

LEMMA PlacedNext == SafetyInv /\ PlacedInv /\ [Next]_vars => PlacedInv'
  <1> SUFFICES ASSUME SafetyInv, PlacedInv, [Next]_vars PROVE PlacedInv'
    OBVIOUS
  <1> USE IndexerAssumption DEF SafetyInv, TypeInv, AggregateRecords, RowRecords
  <1>1. ASSUME NEW r \in Rows, RowStep(r) PROVE PlacedInv'
    <2>1. CASE InsertAggregate(r)
      BY <2>1 DEF InsertAggregate, PlacedInv
    <2>2. CASE Enqueue(r)
      BY <2>2 DEF Enqueue, PlacedInv
    <2>3. CASE UNCHANGED aggregate /\ outbox[r].status # "absent"
      <3>1. ASSUME NEW q \in Rows, outbox'[q].status # "absent" PROVE outbox[q].status # "absent"
        BY <1>1, <2>3, <3>1, RowFrame
      <3> QED BY <2>3, <3>1 DEF PlacedInv
    <2> QED BY <1>1, <2>1, <2>2, <2>3, RowFrame
  <1>2. ASSUME NEW w \in Workers, JobStep(w) PROVE PlacedInv'
    <2>1. ASSUME NEW a \in Aggregates, wk[w].pc # "list", aggregate[a].status # "absent"
          PROVE  Enriched(w)[a].status # "absent"
      BY <2>1, HeldRow DEF Enriched
    <2> QED BY <1>2, <2>1, JobFrame DEF PlacedInv
  <1>3. CASE \E w \in Workers : Crash(w)
    BY <1>3 DEF Crash, PlacedInv
  <1>4. CASE UNCHANGED vars
    BY <1>4 DEF vars, PlacedInv
  <1> QED BY <1>1, <1>2, <1>3, <1>4 DEF Next

LEMMA LifecycleInit == Init => Lifecycle!Init
  BY DEF Init, Lifecycle!Init, CreatedOnLedger, PaidInto

\* A row whose transaction is created or paid by a step.
LEMMA FateMaps ==
  ASSUME SafetyInv, PlacedInv, NEW r \in Rows, RowStep(r),
         UNCHANGED aggregate, outbox[r].status # "absent", Ready(r)
  PROVE  LifecycleStep
  <1> DEFINE t == Target[r]
  <1>1. t \in Aggregates /\ Kind[r] \in Kinds /\ aggregate[t].status # "absent"
    BY IndexerAssumption DEF PlacedInv
  <1>2. Grows
    BY RowGrows DEF SafetyInv
  <1>3. UNCHANGED <<Stage, KnownObjects>>
    BY DEF Stage, KnownObjects
  <1>4. CreatedOnLedger' \in {CreatedOnLedger, CreatedOnLedger \cup {t}}
    <2>1. CreatedOnLedger \subseteq CreatedOnLedger'
      BY <1>2 DEF CreatedOnLedger, Grows
    <2>2. CreatedOnLedger' \subseteq CreatedOnLedger \cup {t}
      BY RowFrame DEF CreatedOnLedger
    <2> QED BY <2>1, <2>2
  <1>5. PaidInto' \in {PaidInto, PaidInto \cup {t}}
    <2>1. PaidInto \subseteq PaidInto'
      BY <1>2 DEF PaidInto, Grows
    <2>2. PaidInto' \subseteq PaidInto \cup {t}
      BY RowFrame DEF PaidInto
    <2> QED BY <2>1, <2>2
  <1>6. CASE Kind[r] \in CreationKinds
    <2>1. PaidInto' = PaidInto
      <3>1. r \notin {q \in Rows : Kind[q] \in FundingKinds}
        BY <1>6 DEF CreationKinds, FundingKinds
      <3> QED BY <3>1, RowFrame DEF PaidInto
    <2>2. Needs[r] \in CreatedUpon[t]
      BY <1>1, <1>6 DEF CreatedUpon
    <2>3. Needs[r] # NoAggregate => Needs[r] \in KnownObjects
      BY IndexerAssumption DEF Ready, KnownObjects
    <2>4. CASE CreatedOnLedger' = CreatedOnLedger \cup {t}
      <3>1. Lifecycle!Create(t)
        BY <1>1, <1>3, <2>1, <2>2, <2>3, <2>4 DEF Lifecycle!Create, Stage, KnownObjects
      <3> QED BY <1>1, <3>1 DEF LifecycleStep, Lifecycle!Next
    <2> QED BY <1>3, <1>4, <2>1, <2>4 DEF LifecycleStep
  <1>7. CASE Kind[r] \in FundingKinds
    <2>1. CreatedOnLedger' = CreatedOnLedger
      <3>1. r \notin {q \in Rows : Kind[q] \in CreationKinds}
        BY <1>7 DEF CreationKinds, FundingKinds
      <3> QED BY <3>1, RowFrame DEF CreatedOnLedger
    <2>2. t \in KnownObjects
      BY <1>1, <1>7, IndexerAssumption DEF Ready, KnownObjects
    <2>3. CASE PaidInto' = PaidInto \cup {t}
      <3>1. Lifecycle!Pay(t)
        BY <1>3, <2>1, <2>2, <2>3 DEF Lifecycle!Pay, Stage, KnownObjects
      <3> QED BY <1>1, <3>1 DEF LifecycleStep, Lifecycle!Next
    <2> QED BY <1>3, <1>5, <2>1, <2>3 DEF LifecycleStep
  <1> QED BY <1>1, <1>6, <1>7 DEF Kinds

\* The insertion of an aggregate, and a transaction that is enqueued.
LEMMA InsertMaps ==
  ASSUME SafetyInv, NEW r \in Rows, InsertAggregate(r) \/ Enqueue(r)
  PROVE  LifecycleStep
  <1> USE IndexerAssumption DEF SafetyInv, TypeInv, AggregateRecords, RowRecords
  <1>1. CASE InsertAggregate(r)
    <2>1. /\ Target[r] \in Aggregates /\ Stage[Target[r]] = "absent"
          /\ Stage' = [Stage EXCEPT ![Target[r]] = "queued"]
          /\ KnownObjects' = KnownObjects
      BY <1>1 DEF InsertAggregate, Stage, KnownObjects
    <2>2. UNCHANGED <<CreatedOnLedger, PaidInto>>
      BY <1>1 DEF InsertAggregate, CreatedOnLedger, PaidInto
    <2>3. Lifecycle!Insert(Target[r])
      BY <2>1, <2>2 DEF Lifecycle!Insert, Stage, KnownObjects
    <2> QED BY <2>1, <2>3 DEF LifecycleStep, Lifecycle!Next
  <1>2. CASE Enqueue(r)
    <2>1. UNCHANGED <<aggregate, fate>> /\ \A q \in Rows : outbox'[q].result = outbox[q].result
      BY <1>2 DEF Enqueue
    <2> QED BY <2>1 DEF LifecycleStep, Stage, KnownObjects, CreatedOnLedger, PaidInto
  <1> QED BY <1>1, <1>2

\* An enrichment writes a creation back, or funds.
LEMMA EnrichMaps ==
  ASSUME SafetyInv, NEW w \in Workers, wk[w].pc # "list", aggregate' = Enriched(w),
         UNCHANGED <<CreatedOnLedger, PaidInto>>
  PROVE  LifecycleStep
  <1>1. PICK t \in Aggregates : t = Target[Row(w)] /\ Row(w) \in Rows
    BY Working DEF SafetyInv
  <1>2. \A a \in Aggregates \ {t} : aggregate'[a] = aggregate[a]
    BY <1>1, EnrichedAggregate DEF SafetyInv
  <1>0. aggregate \in [Aggregates -> AggregateRecords]
    BY DEF SafetyInv, TypeInv
  <1>3. Stage' = [Stage EXCEPT ![t] = aggregate'[t].status]
    BY <1>1, <1>2 DEF Stage
  <1>4. CASE aggregate'[t] = aggregate[t]
    <2>1. UNCHANGED <<Stage, KnownObjects>>
      BY <1>2, <1>4 DEF Stage, KnownObjects
    <2> QED BY <2>1 DEF LifecycleStep
  <1>5. CASE Created(w) /\ aggregate'[t] = [status |-> "active", object |-> TRUE]
    <2>1. t \in CreatedOnLedger
      BY <1>1, <1>5, Working DEF SafetyInv, Created, CreatedOnLedger
    <2>2. Stage' = [Stage EXCEPT ![t] = "active"] /\ KnownObjects' = KnownObjects \cup {t}
      BY <1>1, <1>2, <1>3, <1>5 DEF KnownObjects
    <2>3. Lifecycle!WriteBack(t)
      BY <2>1, <2>2 DEF Lifecycle!WriteBack, Stage, KnownObjects
    <2> QED BY <1>1, <2>3 DEF LifecycleStep, Lifecycle!Next
  <1>6. CASE Kind[Row(w)] \in FundingKinds /\ aggregate'[t].object = aggregate[t].object
    <2>1. t \in PaidInto
      <3>1. Kind[Row(w)] # "LOAN_SET"
        BY <1>6 DEF FundingKinds
      <3> QED BY <1>1, <1>6, <3>1, Working DEF SafetyInv, PaidInto
    <2>2. aggregate'[t].status \in {"funded", "cover_funded"}
      BY <1>0, <1>1, <1>6
         DEF Enriched, Created, CreationKinds, FundingKinds, AggregateRecords
    <2>3. KnownObjects' = KnownObjects
      BY <1>1, <1>2, <1>6 DEF KnownObjects
    <2>4. Lifecycle!Fund(t)
      BY <1>3, <2>1, <2>2, <2>3 DEF Lifecycle!Fund, Stage, KnownObjects
    <2> QED BY <1>1, <2>4 DEF LifecycleStep, Lifecycle!Next
  <1> QED BY <1>1, <1>4, <1>5, <1>6, EnrichedAggregate DEF SafetyInv

LEMMA JobMaps ==
  ASSUME SafetyInv, NEW w \in Workers, JobStep(w) PROVE LifecycleStep
  <1>1. UNCHANGED <<CreatedOnLedger, PaidInto>>
    BY JobFrame DEF CreatedOnLedger, PaidInto
  <1>2. CASE UNCHANGED aggregate
    BY <1>1, <1>2 DEF LifecycleStep, Stage, KnownObjects
  <1> QED BY <1>1, <1>2, JobFrame, EnrichMaps

LEMMA NextMaps ==
  ASSUME SafetyInv, PlacedInv, [Next]_vars
  PROVE  [Lifecycle!Next]_(Lifecycle!promiseVars)
  <1>1. ASSUME NEW r \in Rows, RowStep(r) PROVE LifecycleStep
    BY <1>1, RowFrame, FateMaps, InsertMaps
  <1>2. ASSUME UNCHANGED vars \/ \E w \in Workers : Crash(w) PROVE LifecycleStep
    <2>1. UNCHANGED <<outbox, aggregate, fate>>
      BY <1>2 DEF vars, Crash
    <2> QED BY <2>1 DEF LifecycleStep, Stage, KnownObjects, CreatedOnLedger, PaidInto
  <1>3. LifecycleStep
    BY <1>1, <1>2, JobMaps DEF Next
  <1> QED BY <1>3 DEF LifecycleStep, Lifecycle!promiseVars, Stage, KnownObjects

\* The jobs, the executor and the handlers implement the abstract life of vaults,
\* brokers and loans, whichever worker enriches with whatever it listed.
THEOREM AggregatesKeepPromise == Spec => KeepsAggregatePromise
  BY SafetyInductive, PlacedInit, PlacedNext, LifecycleInit, NextMaps, PTL
     DEF Spec, KeepsAggregatePromise, Lifecycle!Spec
=============================================================================
