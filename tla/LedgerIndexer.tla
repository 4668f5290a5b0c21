---------------------------- MODULE LedgerIndexer ----------------------------
(* The two jobs that follow the executor in a worker's tick:                *)
(* runLedgerIndexer and runReconciliation, the enrichment of vaults,        *)
(* brokers and loans they share (xrpl-state.js), and the handlers that      *)
(* create these aggregates and depend on what the jobs write back           *)
(* (vaults.service.js).                                                     *)
(*                                                                          *)
(* A job lists its candidates in one query and then works on them as they   *)
(* were listed, a statement or a request at a time; other workers run the   *)
(* same jobs. The executor appears by its effect on a row (OutboxExecutor   *)
(* has its steps). A row's result is null ("none"), the answer to a submit  *)
(* ("engine"), that of a dry run ("dry"), or a validated transaction with   *)
(* its metadata ("success", "failed").                                      *)
EXTENDS SharedTypes, Naturals

CONSTANTS
    Rows,         \* outbox rows, numbered; fewer than a job's limit of 20
    Aggregates,   \* vaults, loan brokers and loans
    NoAggregate,
    Kind,         \* the transaction kind of a row
    Target,       \* the aggregate of a row
    Needs,        \* the aggregate whose ledger object a row's transaction names
    Workers,      \* worker processes
    Modes,        \* values of config.dryRun a worker may be started with
    FaultKinds,   \* the faults that may happen: "net", "db", "crash"
    MaxFaults     \* bound: how many of them

CreationKinds == {"VAULT_CREATE", "LOAN_BROKER_SET", "LOAN_SET"}
FundingKinds == {"VAULT_DEPOSIT", "LOAN_BROKER_COLLATERAL_DEPOSIT"}
Kinds == CreationKinds \cup FundingKinds

ASSUME IndexerAssumption ==
    /\ Rows \subseteq Nat \ {0}
    /\ NoAggregate \notin Aggregates
    /\ Kind \in [Rows -> Kinds]
    /\ Target \in [Rows -> Aggregates]
    /\ Needs \in [Rows -> Aggregates \cup {NoAggregate}]
    /\ \A r \in Rows : Kind[r] \in FundingKinds => Needs[r] = Target[r]
    /\ Modes \subseteq BOOLEAN /\ Modes # {}
    /\ MaxFaults \in Nat

VARIABLES
    outbox,     \* status and result of each row
    aggregate,  \* status of each aggregate, and whether its ledger ID is known
    runs,       \* rows with a reconciliation run that is not of an error
    fate,       \* what the ledger made of a row's transaction
    wk,         \* the memory of each worker
    faults      \* how many faults have happened

vars == <<outbox, aggregate, runs, fate, wk, faults>>

Results == {"none", "engine", "dry", "success", "failed"}
Candidates == [row : Rows, result : Results]

NoCandidate == [row |-> 0, result |-> "none"]

Started(dryRun) ==
    [job |-> "index", pc |-> "list", batch |-> {}, cur |-> NoCandidate, dryRun |-> dryRun]

\* No aggregate has been inserted and no row enqueued.
Init ==
    /\ outbox = [r \in Rows |-> [status |-> "absent", result |-> "none"]]
    /\ aggregate = [a \in Aggregates |-> [status |-> "absent", object |-> FALSE]]
    /\ runs = {}
    /\ fate = [r \in Rows |-> "none"]
    /\ wk \in [Workers -> {Started(dryRun) : dryRun \in Modes}]
    /\ faults = 0

NoFault == UNCHANGED faults
Fault(kind) ==
    /\ kind \in FaultKinds
    /\ faults < MaxFaults
    /\ faults' = faults + 1

----------------------------------------------------------------------------
(* The control API.                                                         *)

\* The ledger object that row r's transaction names has had its ID written back.
Ready(r) == Needs[r] # NoAggregate => aggregate[Needs[r]].object

\* createVault and createLoanBroker insert the aggregate before they enqueue its
\* creation, a broker only if its vault is ready; a loan is inserted by create, and
\* "queued" stands for all it is before it is active (LoanCosign tells).
InsertAggregate(r) ==
    /\ Kind[r] \in CreationKinds
    /\ aggregate[Target[r]].status = "absent"
    /\ Kind[r] # "LOAN_SET" => Ready(r)
    /\ aggregate' = [aggregate EXCEPT ![Target[r]].status = "queued"]
    /\ UNCHANGED <<outbox, runs, fate, wk, faults>>

\* The transaction is enqueued: by the rest of these two handlers, which may fail
\* before it; by deposit and depositCollateral; by prepareCosignPacket. All but the
\* creation of a vault are refused until the object they name is ready.
Enqueue(r) ==
    /\ outbox[r].status = "absent"
    /\ aggregate[Target[r]].status # "absent"
    /\ Ready(r)
    /\ outbox' = [outbox EXCEPT ![r].status = "pending"]
    /\ UNCHANGED <<aggregate, runs, fate, wk, faults>>

----------------------------------------------------------------------------
(* The executor and the ledger, by their effect on a row.                   *)

SetRow(r, status, result) ==
    outbox' = [outbox EXCEPT ![r] = [status |-> status, result |-> result]]

\* A live worker claims the row and marks it SUBMITTED; one in a dry run
\* prepares it.
Take(r) ==
    /\ outbox[r].status = "pending"
    /\ \E w \in Workers :
         IF wk[w].dryRun THEN SetRow(r, "prepared", "dry") ELSE SetRow(r, "submitted", "none")
    /\ UNCHANGED <<aggregate, runs, fate, wk, faults>>

\* The executor settles the row it has in hand. The ledger refused the
\* transaction, which for a LoanSet may mean to try later; or it took it in and
\* the executor found it validated, or did not find it: a LoanSet then stays
\* SUBMITTED for the indexer.
Settle(r) ==
    /\ outbox[r] = [status |-> "submitted", result |-> "none"]
    /\ \/ /\ fate' = fate
          /\ \/ \E s \in {"failed", "manual_review"} : SetRow(r, s, "engine")
             \/ SetRow(r, "blocked", "none")
             \/ Kind[r] = "LOAN_SET" /\ SetRow(r, "submitted", "engine")
       \/ /\ fate' = [fate EXCEPT ![r] = "success"]
          /\ SetRow(r, "validated", "success")
       \/ /\ fate' = [fate EXCEPT ![r] = "failed"]
          /\ SetRow(r, "failed", "failed")
       \/ /\ fate' = [fate EXCEPT ![r] = "open"]
          /\ SetRow(r, IF Kind[r] = "LOAN_SET" THEN "submitted" ELSE "manual_review", "engine")
    /\ UNCHANGED <<aggregate, runs, wk, faults>>

\* A transaction that was not found yet validates, or expires.
Decide(r) ==
    /\ fate[r] = "open"
    /\ \E f \in {"success", "failed", "expired"} : fate' = [fate EXCEPT ![r] = f]
    /\ UNCHANGED <<outbox, aggregate, runs, wk, faults>>

----------------------------------------------------------------------------
(* A tick: the indexer over its candidates, then the reconciliation.        *)

Become(w, x) == wk' = [wk EXCEPT ![w] = x]
Goto(w, p) == Become(w, [wk[w] EXCEPT !.pc = p])
Row(w) == wk[w].cur.row
Result(w) == wk[w].cur.result

\* The job of worker w is at an end, and the other one's turn comes.
EndJob(w) ==
    Become(w, [Started(wk[w].dryRun) EXCEPT
                 !.job = IF wk[w].job = "index" THEN "reconcile" ELSE "index"])

\* Worker w turns to one of the candidates it has still to do. The indexer looks
\* up a transaction that has no metadata.
WorkOn(w, batch) ==
    IF batch = {} THEN EndJob(w)
    ELSE \E c \in batch :
           Become(w, [wk[w] EXCEPT
                        !.pc = IF wk[w].job = "index" /\ c.result = "engine"
                               THEN "lookup" ELSE "enrich",
                        !.batch = batch \ {c}, !.cur = c])
Finish(w) == WorkOn(w, wk[w].batch)

Listed(statuses) ==
    {[row |-> r, result |-> outbox[r].result] : r \in {q \in Rows : outbox[q].status \in statuses}}

\* Faulty variant: a row without a result is a candidate too.
AllIndexCandidates == Listed(IndexableStatuses)

\* A candidate without a result is passed over: all that could be looked up is
\* the hash the broker reported, of a transaction that is never submitted.
IndexCandidates == {c \in Listed(IndexableStatuses) : c.result # "none"}

\* The indexer does nothing in a dry run, when no ledger has closed since the
\* checkpoint, and when the ledger does not answer.
ListToIndex(w) ==
    /\ wk[w].job = "index" /\ wk[w].pc = "list"
    /\ \/ ~wk[w].dryRun /\ WorkOn(w, IndexCandidates)
       \/ EndJob(w)
    /\ UNCHANGED <<outbox, aggregate, runs, fate, faults>>

ListToReconcile(w) ==
    /\ wk[w].job = "reconcile" /\ wk[w].pc = "list"
    /\ WorkOn(w, Listed(ReconcilableStatuses))
    /\ UNCHANGED <<outbox, aggregate, runs, fate, faults>>

\* Faulty variant: a result is taken over though it is not validated yet.
LookUpUnvalidated(w) ==
    /\ wk[w].pc = "lookup"
    /\ NoFault
    /\ Become(w, [wk[w] EXCEPT !.pc = "enrich", !.cur.result = fate[Row(w)]])
    /\ outbox' = [outbox EXCEPT ![Row(w)].result = fate[Row(w)]]
    /\ UNCHANGED <<aggregate, runs, fate>>

\* The indexer takes over the result of a validated transaction and goes on with
\* what it has when there is none, or the request fails, or the update.
LookUp(w) ==
    /\ wk[w].pc = "lookup"
    /\ LET written == [outbox EXCEPT ![Row(w)].result = fate[Row(w)]] IN
       \/ /\ fate[Row(w)] \in {"success", "failed"}
          /\ Become(w, [wk[w] EXCEPT !.pc = "enrich", !.cur.result = fate[Row(w)]])
          /\ \/ NoFault /\ outbox' = written
             \/ Fault("db") /\ outbox' \in {outbox, written}
       \/ /\ fate[Row(w)] \in {"success", "failed"} => Fault("net")
          /\ fate[Row(w)] \notin {"success", "failed"} => NoFault
          /\ Goto(w, "enrich")
          /\ UNCHANGED outbox
    /\ UNCHANGED <<aggregate, runs, fate>>

\* Faulty variant: the metadata is not asked for the object.
CreatedUnchecked(w) == Kind[Row(w)] \in CreationKinds

\* The metadata of a successful creation names the created object.
Created(w) == Kind[Row(w)] \in CreationKinds /\ Result(w) = "success"

\* enrichAggregateFromValidatedOutbox: a creation is written back if its
\* metadata has the object; a deposit is, whatever its result.
Enriched(w) ==
    LET a == Target[Row(w)] IN
    CASE Kind[Row(w)] = "VAULT_DEPOSIT" -> [aggregate EXCEPT ![a].status = "funded"]
      [] Kind[Row(w)] = "LOAN_BROKER_COLLATERAL_DEPOSIT" ->
            [aggregate EXCEPT ![a].status = "cover_funded"]
      [] Created(w) -> [aggregate EXCEPT ![a] = [status |-> "active", object |-> TRUE]]
      [] OTHER -> aggregate

\* Faulty variant: an error of the write-back is swallowed.
EnrichUncaught(w) ==
    /\ wk[w].pc = "enrich"
    /\ \/ NoFault /\ aggregate' = Enriched(w)
       \/ Fault("db") /\ aggregate' \in {aggregate, Enriched(w)}
    /\ Goto(w, IF wk[w].job = "index" THEN "mark" ELSE "save")
    /\ UNCHANGED <<outbox, runs, fate>>

Enrich(w) ==
    /\ wk[w].pc = "enrich"
    /\ \/ /\ NoFault
          /\ aggregate' = Enriched(w)
          /\ Goto(w, IF wk[w].job = "index" THEN "mark" ELSE "save")
       \/ /\ Fault("db")
          /\ aggregate' \in {aggregate, Enriched(w)}
          /\ Goto(w, "error")
    /\ UNCHANGED <<outbox, runs, fate>>

\* Faulty variant: an error of the save is swallowed.
SaveRunUncaught(w) ==
    /\ wk[w].pc = "save"
    /\ \/ NoFault /\ runs' = runs \cup {Row(w)}
       \/ Fault("db") /\ runs' \in {runs, runs \cup {Row(w)}}
    /\ Goto(w, "mark")
    /\ UNCHANGED <<outbox, aggregate, fate>>

\* The reconciliation verifies that the objects of the metadata are there and
\* saves a run. An object that is not found, or a request that fails, is written
\* into it and changes nothing else: such a mismatch is a warning, never critical.
SaveRun(w) ==
    /\ wk[w].pc = "save"
    /\ \/ NoFault /\ runs' = runs \cup {Row(w)} /\ Goto(w, "mark")
       \/ Fault("db") /\ runs' \in {runs, runs \cup {Row(w)}} /\ Goto(w, "error")
    /\ UNCHANGED <<outbox, aggregate, fate>>

\* Faulty variant: the row is written back as it was listed.
MarkAsListed(w) ==
    /\ wk[w].pc = "mark"
    /\ LET marked == [outbox EXCEPT ![Row(w)] =
                        [status |-> IF wk[w].job = "index" THEN "indexed" ELSE "reconciled",
                         result |-> Result(w)]] IN
       \/ NoFault /\ outbox' = marked /\ Finish(w)
       \/ Fault("db") /\ outbox' \in {outbox, marked} /\ Goto(w, "error")
    /\ UNCHANGED <<aggregate, runs, fate>>

\* The row is INDEXED or RECONCILED, whatever it has become meanwhile.
Mark(w) ==
    /\ wk[w].pc = "mark"
    /\ LET marked == [outbox EXCEPT ![Row(w)].status =
                        IF wk[w].job = "index" THEN "indexed" ELSE "reconciled"] IN
       \/ NoFault /\ outbox' = marked /\ Finish(w)
       \/ Fault("db") /\ outbox' \in {outbox, marked} /\ Goto(w, "error")
    /\ UNCHANGED <<aggregate, runs, fate>>

\* The catch of either job saves a run with the error; an error of that ends it.
SaveError(w) ==
    /\ wk[w].pc = "error"
    /\ \/ NoFault /\ Finish(w)
       \/ Fault("db") /\ EndJob(w)
    /\ UNCHANGED <<outbox, aggregate, runs, fate>>

\* A worker dies, and is started again, perhaps in another mode.
Crash(w) ==
    /\ Fault("crash")
    /\ \E dryRun \in Modes : Become(w, Started(dryRun))
    /\ UNCHANGED <<outbox, aggregate, runs, fate>>

JobStep(w) ==
    \/ ListToIndex(w) \/ ListToReconcile(w) \/ LookUp(w)
    \/ Enrich(w) \/ SaveRun(w) \/ Mark(w) \/ SaveError(w)

RowStep(r) == InsertAggregate(r) \/ Enqueue(r) \/ Take(r) \/ Settle(r) \/ Decide(r)

Next ==
    \/ \E r \in Rows : RowStep(r)
    \/ \E w \in Workers : JobStep(w) \/ Crash(w)

Spec == Init /\ [][Next]_vars

\* A worker's ticks keep coming, and each ends. Nothing is asked of the executor.
FairSpec == Spec /\ \A w \in Workers : WF_vars(JobStep(w))

----------------------------------------------------------------------------
(* Properties.                                                              *)

WorkerRecords ==
    [job : {"index", "reconcile"},
     pc : {"list", "lookup", "enrich", "save", "mark", "error"},
     batch : SUBSET Candidates, cur : Candidates \cup {NoCandidate}, dryRun : BOOLEAN]

\* The variables hold what the tables and the objects of the code hold.
IndexerTypeOK ==
    /\ outbox \in [Rows -> [status : OutboxStatuses \cup {"absent"}, result : Results]]
    /\ aggregate \in [Aggregates ->
                        [status : {"absent", "queued", "active", "funded", "cover_funded"},
                         object : BOOLEAN]]
    /\ runs \subseteq Rows
    /\ fate \in [Rows -> {"none", "open", "success", "failed", "expired"}]
    /\ wk \in [Workers -> WorkerRecords]
    /\ faults \in 0..MaxFaults

\* What is written back is real: an aggregate with a ledger ID, or in a status
\* that tells of one, has had its creation validated with success; and so has
\* every aggregate a transaction in the outbox names.
ObjectsAreReal ==
    LET Real(a) == \E r \in Rows :
                      Target[r] = a /\ Kind[r] \in CreationKinds /\ fate[r] = "success" IN
    /\ \A a \in Aggregates :
         aggregate[a].object \/ aggregate[a].status \notin {"absent", "queued"} =>
             aggregate[a].object /\ Real(a)
    /\ \A r \in Rows :
         outbox[r].status # "absent" /\ Needs[r] # NoAggregate => Real(Needs[r])

\* No creation is lost: once a vault's or broker's row is through with the
\* indexer or the reconciliation, its object has been written back.
WrittenBack ==
    \A r \in Rows :
        /\ Kind[r] \in {"VAULT_CREATE", "LOAN_BROKER_SET"}
        /\ outbox[r].status \in {"indexed", "reconciled"}
        /\ fate[r] = "success"
        => aggregate[Target[r]].object

\* A RECONCILED row has a run that reconciled it, not only runs that failed.
ReconciledHasRun ==
    \A r \in Rows :
        outbox[r].status = "reconciled" => r \in runs

\* Workers with candidates listed long ago take nothing back that another has
\* written since: a validated result stays on its row, a row that a job has marked
\* stays marked, an aggregate keeps the ID of its object, a saved run is there.
NothingTakenBack ==
    [][/\ \A r \in Rows :
            /\ outbox[r].result \in {"success", "failed"} => outbox'[r].result = outbox[r].result
            /\ outbox[r].status \in {"indexed", "reconciled"} =>
                 outbox'[r].status \in {"indexed", "reconciled"}
       /\ \A a \in Aggregates : aggregate[a].object => aggregate'[a].object
       /\ runs \subseteq runs']_vars

\* A row that is INDEXED or RECONCILED outside a dry run has been decided on by
\* the ledger.
IndexedIsValidated ==
    \A r \in Rows :
        outbox[r].status \in {"indexed", "reconciled"} /\ outbox[r].result # "dry" =>
            fate[r] \in {"success", "failed"}

\* Every VALIDATED, INDEXED or PREPARED row is RECONCILED in the end, whatever
\* fails on the way.
EventuallyReconciled ==
    \A r \in Rows :
        outbox[r].status \in {"validated", "indexed", "prepared"}
            ~> outbox[r].status = "reconciled"

(* The abstract life of an aggregate, and rows, jobs and workers as one.     *)

CreatedOnLedger ==
    {a \in Aggregates : \E r \in Rows :
        Target[r] = a /\ Kind[r] \in CreationKinds /\ fate[r] = "success"}

PaidInto ==
    {a \in Aggregates : \E r \in Rows :
        /\ Target[r] = a /\ Kind[r] \in FundingKinds
        /\ fate[r] = "success" \/ outbox[r].result = "dry"}

CreatedUpon ==
    [a \in Aggregates |->
        {Needs[r] : r \in {q \in Rows : Target[q] = a /\ Kind[q] \in CreationKinds}}]

Lifecycle == INSTANCE AggregatePromise WITH
    Parents <- CreatedUpon,
    stage <- [a \in Aggregates |-> aggregate[a].status],
    known <- {a \in Aggregates : aggregate[a].object},
    created <- CreatedOnLedger,
    paid <- PaidInto

\* Whichever worker enriches with whatever it listed, and whatever fails, aggregates
\* live as is promised: created, known, paid into and funded in this order, each upon
\* what is known.
KeepsAggregatePromise == Lifecycle!Spec
=============================================================================
