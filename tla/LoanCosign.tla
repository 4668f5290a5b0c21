----------------------------- MODULE LoanCosign -----------------------------
(* The two-phase signing of a LoanSet: loans.service.js over the outbox and *)
(* the evidence log, composed with the worker that claims from the same     *)
(* outbox (OutboxExecutor).                                                 *)
(*                                                                          *)
(* A request is a handler of the control API: a chain of awaits, each one   *)
(* database statement. What it has read stays in its memory (req) and may   *)
(* be stale when it writes. A loan has one LoanSet row: the unique index on *)
(* (aggregate, kind, dedupe key) allows no second.                          *)
EXTENDS OutboxExecutor

CONSTANTS
    Users,       \* the actors of requests
    Staff,       \* the admins and operators among them
    BorrowerOf,  \* the user linked to the borrower party of each loan
    Requests     \* the requests that may be made: a bound

ASSUME CosignAssumption ==
    /\ Staff \subseteq Users
    /\ BorrowerOf \in [CosignedRows -> Users]

VARIABLES
    loan,      \* status of each loan
    evidence,  \* [loan, actor, action] of the evidence events
    req        \* the memory of each request

cosignVars == <<loan, evidence, req>>
allVars == <<vars, cosignVars>>

Loans == CosignedRows
LoanStatuses == {"absent", "approved", "cosign_pending"}
Actions == {"LOAN_APPROVE", "PREPARE_COSIGN", "BROKER_SIGN", "BORROWER_SIGN"}
Events == [loan : Loans, actor : Users, action : Actions]

NotMade == [pc |-> "notMade"]
Done == [pc |-> "done"]
Request(p, l, u, a) == [pc |-> p, loan |-> l, actor |-> u, action |-> a, meta |-> NoMeta]

CosignInit ==
    /\ Init
    /\ loan = [l \in Loans |-> "absent"]
    /\ evidence = {}
    /\ req = [q \in Requests |-> NotMade]

----------------------------------------------------------------------------
(* The forms a handler is built from.                                       *)

Answered(q) == req' = [req EXCEPT ![q] = Done]
Await(q, p) == req' = [req EXCEPT ![q].pc = p]

\* Faulty variant: a request answers without evidence of what it did.
AnswerUnevidenced(q) ==
    /\ req[q].pc = "evidence"
    /\ Answered(q)
    /\ UNCHANGED <<vars, loan, evidence>>

\* A request appends the evidence of what it did, the last thing it does.
AppendEvidence(q) ==
    /\ req[q].pc = "evidence"
    /\ evidence' = evidence \cup
         {[loan |-> req[q].loan, actor |-> req[q].actor, action |-> req[q].action]}
    /\ Answered(q)
    /\ UNCHANGED <<vars, loan>>

\* The loan is in the database, and the request that created it is through:
\* its ID, a fresh UUID, is what that request answers with.
Known(l) ==
    /\ loan[l] # "absent"
    /\ \A q \in Requests :
         req[q].pc = "evidence" => req[q].action # "LOAN_APPROVE" \/ req[q].loan # l

\* Faulty variant: a submitter is only checked for having closed the books.
MayPerformButApproved(u, l, action) ==
    \A e \in evidence : e.loan = l /\ e.actor = u => e.action # "RECONCILIATION_CLOSE"

\* enforceSoD: none of the user's earlier actions on the loan bars this one.
MayPerform(u, l, action) ==
    \A e \in evidence : e.loan = l /\ e.actor = u => e.action \notin SoDConstraints[action]
----------------------------------------------------------------------------
(* create                                                                   *)

CreateLoan(q) ==
    /\ req[q] = NotMade
    /\ \E l \in Loans, u \in Staff :
         /\ loan[l] = "absent"
         /\ loan' = [loan EXCEPT ![l] = "approved"]
         /\ req' = [req EXCEPT ![q] = Request("evidence", l, u, "LOAN_APPROVE")]
    /\ UNCHANGED <<vars, evidence>>

----------------------------------------------------------------------------
(* prepareCosignPacket                                                      *)

CheckPrepare(q) ==
    /\ req[q] = NotMade
    /\ \E l \in Loans, u \in Staff :
         /\ Known(l)
         /\ MayPerform(u, l, "LOAN_SUBMIT")
         /\ req' = [req EXCEPT ![q] = Request("enqueue", l, u, "PREPARE_COSIGN")]
    /\ UNCHANGED <<vars, loan, evidence>>

\* Faulty variant: the loan does not learn of its row.
EnqueueWithoutUpdate(q) ==
    /\ req[q].pc = "enqueue"
    /\ outbox[req[q].loan].status = "absent"
    /\ outbox' = [outbox EXCEPT ![req[q].loan].status = "pending"]
    /\ Await(q, "evidence")
    /\ UNCHANGED <<ledgerVars, recorded, lease, wk, faults, loan, evidence>>

\* enqueueTx throws if the loan has a row already.
EnqueueLoanSet(q) ==
    /\ req[q].pc = "enqueue"
    /\ LET l == req[q].loan IN
       \/ /\ outbox[l].status = "absent"
          /\ outbox' = [outbox EXCEPT ![l].status = "pending"]
          /\ Await(q, "updateLoan")
       \/ /\ outbox[l].status # "absent"
          /\ Answered(q)
          /\ UNCHANGED outbox
    /\ UNCHANGED <<ledgerVars, recorded, lease, wk, faults, loan, evidence>>

UpdateLoan(q) ==
    /\ req[q].pc = "updateLoan"
    /\ loan' = [loan EXCEPT ![req[q].loan] = "cosign_pending"]
    /\ Await(q, "evidence")
    /\ UNCHANGED <<vars, evidence>>

----------------------------------------------------------------------------
(* recordBrokerSignature                                                    *)

\* Faulty variant: the broker signs whatever has a row.
CheckBrokerButStatus(q) ==
    /\ req[q] = NotMade
    /\ \E l \in Loans, u \in Staff :
         /\ Known(l)
         /\ MayPerform(u, l, "LOAN_SUBMIT")
         /\ req' = [req EXCEPT ![q] = Request("findUnsigned", l, u, "BROKER_SIGN")]
    /\ UNCHANGED <<vars, loan, evidence>>

CheckBroker(q) ==
    /\ req[q] = NotMade
    /\ \E l \in Loans, u \in Staff :
         /\ Known(l)
         /\ loan[l] = "cosign_pending"
         /\ MayPerform(u, l, "LOAN_SUBMIT")
         /\ req' = [req EXCEPT ![q] = Request("findUnsigned", l, u, "BROKER_SIGN")]
    /\ UNCHANGED <<vars, loan, evidence>>

\* listOutboxByAggregate: a row to sign, with the metadata it has now; a
\* handler that finds none ends.
FindRow(q, here, statuses, there) ==
    /\ req[q].pc = here
    /\ LET row == outbox[req[q].loan] IN
       IF row.status \in statuses
       THEN req' = [req EXCEPT ![q].pc = there, ![q].meta = row.meta]
       ELSE Answered(q)
    /\ UNCHANGED <<vars, loan, evidence>>

FindUnsigned(q) == FindRow(q, "findUnsigned", {"pending", "processing"}, "writeBroker")

\* What updateOutbox leaves: the status, and the metadata as the handler read
\* it with its own signature added.
Sign(q, status, meta, hash) ==
    /\ outbox' = [outbox EXCEPT ![req[q].loan].status = status,
                                ![req[q].loan].meta = meta, ![req[q].loan].hash = hash]
    /\ Await(q, "evidence")
    /\ UNCHANGED <<ledgerVars, recorded, lease, wk, faults, loan, evidence>>

\* The hash the broker reports is of a transaction signed by one party, which
\* is never the one submitted: one attempt no worker makes stands for it.
BrokerHash(l, s) == [row |-> l, attempt |-> MaxSubmitRetries + 1, seq |-> s]

\* The broker has signed at some time before, with the sequence of that time.
WriteBroker(q) ==
    /\ req[q].pc = "writeBroker"
    /\ \E s \in 1..nextSeq :
         Sign(q, "signed_1", [req[q].meta EXCEPT !.broker = s], BrokerHash(req[q].loan, s))

----------------------------------------------------------------------------
(* recordBorrowerSignature                                                  *)

CheckBorrower(q) ==
    /\ req[q] = NotMade
    /\ \E l \in Loans :
         /\ Known(l)
         /\ req' = [req EXCEPT ![q] = Request("findSigned", l, BorrowerOf[l], "BORROWER_SIGN")]
    /\ UNCHANGED <<vars, loan, evidence>>

\* Faulty variant: the borrower may sign before the broker has.
FindSignedOrPending(q) ==
    FindRow(q, "findSigned", {"pending", "signed_1"}, "writeBorrower")

FindSigned(q) == FindRow(q, "findSigned", {"signed_1"}, "writeBorrower")

\* The borrower counter-signs the blob of the row as it was read.
WriteBorrower(q) ==
    /\ req[q].pc = "writeBorrower"
    /\ Sign(q, "signed_2", [req[q].meta EXCEPT !.counter = req[q].meta.broker],
            outbox[req[q].loan].hash)

----------------------------------------------------------------------------
\* A request ends early: the process dies, or a statement throws (before or
\* after it took effect).
Abort(q) ==
    /\ req[q] # NotMade /\ req[q] # Done
    /\ Fault("crash")
    /\ Answered(q)
    /\ UNCHANGED <<ledgerVars, outbox, recorded, lease, wk, loan, evidence>>

RequestStep(q) ==
    \/ CreateLoan(q)
    \/ CheckPrepare(q) \/ EnqueueLoanSet(q) \/ UpdateLoan(q)
    \/ CheckBroker(q) \/ FindUnsigned(q) \/ WriteBroker(q)
    \/ CheckBorrower(q) \/ FindSigned(q) \/ WriteBorrower(q)
    \/ AppendEvidence(q)
    \/ Abort(q)

CosignNext ==
    \/ \E q \in Requests : RequestStep(q)
    \/ \E w \in Workers : (WorkerStep(w) \/ Crash(w)) /\ UNCHANGED cosignVars
    \/ LedgerStep /\ UNCHANGED cosignVars

CosignSpec == CosignInit /\ [][CosignNext]_allVars

----------------------------------------------------------------------------
(* Properties.                                                              *)

RequestRecords ==
    [pc : {"enqueue", "updateLoan", "findUnsigned", "writeBroker", "findSigned",
           "writeBorrower", "evidence"},
     loan : Loans, actor : Users, action : Actions, meta : Metadata]

\* The variables of the signing stay in their types, the executor's in theirs.
CosignTypeOK ==
    /\ TypeOK
    /\ loan \in [Loans -> LoanStatuses]
    /\ evidence \subseteq Events
    /\ req \in [Requests -> RequestRecords \cup {NotMade, Done}]

\* The broker signs first, the counterparty second: however requests and
\* workers overlap, no row and no worker has a counter-signed LoanSet the
\* broker has not signed, and the signing statuses tell the signatures.
SignatureOrder ==
    /\ \A l \in Loans :
         LET row == outbox[l] IN
         /\ row.meta.counter # NoBlob \/ row.status = "signed_1" => row.meta.broker # NoBlob
         /\ row.status = "signed_2" => row.meta.counter # NoBlob
    /\ \A w \in Workers : Blob(w) # NoBlob => Meta(w).broker # NoBlob

\* No process died and no request was cut short so far.
NoneDied == faults["crash"] = 0

\* The evidence log names an action on a loan, or the request that did it is about
\* to append it.
InEvidence(l, action) ==
    \/ \E e \in evidence : e.loan = l /\ e.action = action
    \/ \E q \in Requests :
         req[q].pc = "evidence" /\ req[q].loan = l /\ req[q].action = action

\* As long as no process dies, a signature on a row is in the evidence log, or the
\* request that wrote it is about to append it.
SignaturesEvidenced ==
    NoneDied => \A l \in Loans :
        /\ outbox[l].meta.broker # NoBlob => InEvidence(l, "BROKER_SIGN")
        /\ outbox[l].meta.counter # NoBlob => InEvidence(l, "BORROWER_SIGN")

\* As long as no process dies, no LoanSet gets to the ledger without evidence of
\* both signatures, whichever of the metadata that workers and requests hold and
\* write back it was taken from.
LoanSetsEvidenced ==
    NoneDied => \A l \in Loans :
        OnLedger(l) # {} =>
            InEvidence(l, "BROKER_SIGN") /\ InEvidence(l, "BORROWER_SIGN")

\* A loan waits for signatures if and only if it has a row to be signed, whichever
\* of two requests that prepare it comes first; only a request that dies between
\* the two statements leaves a row that can neither be signed nor prepared anew.
PendingHasRow ==
    \A l \in Loans :
        /\ loan[l] = "cosign_pending" => outbox[l].status # "absent"
        /\ outbox[l].status # "absent" =>
             \/ loan[l] = "cosign_pending"
             \/ faults["crash"] > 0
             \/ \E q \in Requests : req[q].pc = "updateLoan" /\ req[q].loan = l

\* The user who approves a loan does not submit it: its evidence never names one
\* user for the approval and for the packet or the broker's signature. (The loan
\* is listed before its evidence is stored; a client that does not wait for the
\* answer to its creation is outside of what Known allows, and could do both.)
SeparationOfDuties ==
    \A d, e \in evidence :
        /\ d.loan = e.loan
        /\ d.action = "LOAN_APPROVE"
        /\ e.action \in {"PREPARE_COSIGN", "BROKER_SIGN"}
        => d.actor # e.actor

\* A LoanSet row stays PENDING until the broker signs.
PendingUntilBrokerSigns ==
    [][\A l \in Loans :
         outbox[l].status = "pending" => outbox'[l].status \in {"pending", "signed_1"}]_allVars

(* The abstract signing, and the handlers and the worker as one that keeps it. *)

\* The metadata of loan l that is kept: in its row, by a worker that has claimed
\* the row, by a request about to write it.
Kept(l) ==
    {outbox[l].meta}
        \cup {s.meta : s \in {t \in UNION {wk[w].batch \cup {wk[w].cur} : w \in Workers} :
                                t.row = l}}
        \cup {req[q].meta : q \in {p \in Requests :
                 req[p].pc \in {"writeBroker", "writeBorrower"} /\ req[p].loan = l}}

\* The parties whose signatures of loan l are kept there or on the ledger.
SignedBy(l) ==
    {p \in {"broker", "borrower"} :
        \/ OnLedger(l) # {}
        \/ \E m \in Kept(l) : (IF p = "broker" THEN m.broker ELSE m.counter) # NoBlob}

Lending == INSTANCE LoanPromise WITH
    stage <- loan,
    signed <- [l \in Loans |-> SignedBy(l)],
    executed <- {l \in Loans : Executed(l) # {}}

\* Whatever dies or fails, and whatever is written over what, the signing keeps its
\* promise: broker first, borrower second, and only then the ledger.
KeepsLoanPromise == Lending!Spec
=============================================================================
