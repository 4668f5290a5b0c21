-------------------------- MODULE SequenceCoordinator --------------------------
(* How the worker reserves account sequences: sequence-coordinator.js over   *)
(* reserveAccountSequence and forgetAccountSequence of the two stores, and   *)
(* the part of _signAndSubmit that uses and gives up what it reserved. What  *)
(* OutboxExecutor takes for one step is taken apart here: the advisory lock, *)
(* the read, the request to the ledger and the write of one reservation, and *)
(* the DELETE of a forget that nobody waits for and that takes no lock.      *)
(*                                                                           *)
(* One account. Its row ("row") is a row of xrpl_account_sequences with the  *)
(* store "pg", an entry of the MemoryDatabase with "memory", and the cache   *)
(* of the in-process coordinator with "local". Only PostgreSQL is shared:    *)
(* with the other two there is one worker, which works on a row at a time.   *)
(* Within a PostgreSQL transaction, statements that no other statement can   *)
(* tell apart are one step: the lock, the DELETE of an expired lease and the *)
(* SELECT; the INSERT or UPDATE and the COMMIT, until which a concurrent     *)
(* DELETE waits.                                                             *)
EXTENDS XrplLedger, FiniteSets

CONSTANTS
    Workers,          \* worker processes
    Jobs,             \* the outbox rows to submit
    NoJob,
    Nobody,
    Stores,           \* the stores to start with: of "pg", "memory", "local"
    MaxSubmitRetries, \* MAX_SUBMIT_RETRIES
    MaxFaults         \* bound: how many kinds of faults may happen, each once

\* A request fails; the answer to a submit is lost; a statement throws, the
\* COMMIT perhaps after it took effect; a worker dies; somebody else submits a
\* transaction of the account (the blob of a LoanSet, or its owner).
FaultKinds == {"net", "lost", "db", "crash", "spend"}

ASSUME SequenceAssumption ==
    /\ NoJob \notin Jobs
    /\ Nobody \notin Workers
    /\ Stores \subseteq {"pg", "memory", "local"}
    /\ MaxSubmitRetries \in Nat
    /\ MaxFaults \in Nat

VARIABLES
    store,    \* the store in use
    row,      \* the next sequence and its lease, NoRow: there is none
    holder,   \* who holds the account's lock
    forgets,  \* DELETEs on their way to the database
    wk,       \* the memory of each worker
    todo,     \* jobs nobody has taken yet
    faults,   \* the kinds of faults that have happened
    era,      \* history: how often the row has gone
    granted   \* history: the sequences handed out, with their era and taker

coordVars == <<store, row, holder, forgets, wk, todo, faults, era, granted>>
vars == <<ledgerVars, coordVars>>

NoRow == [seq |-> 0, fresh |-> FALSE]
Lease(s) == [seq |-> s, fresh |-> TRUE]
Idle == [pc |-> "idle", job |-> NoJob, attempt |-> 0, seq |-> 0, fetched |-> FALSE, era |-> 0]
Off == [Idle EXCEPT !.pc = "off"]

Init ==
    /\ LedgerInit
    /\ store \in Stores
    /\ row = NoRow
    /\ holder = Nobody
    /\ forgets = 0
    /\ \E on \in SUBSET Workers :
         /\ IF store = "pg" THEN on = Workers ELSE \E w \in Workers : on = {w}
         /\ wk = [w \in Workers |-> IF w \in on THEN Idle ELSE Off]
    /\ todo = Jobs
    /\ faults = {}
    /\ era = 0
    /\ granted = {}

NoFault == UNCHANGED faults
Fault(kind) ==
    /\ kind \notin faults
    /\ Cardinality(faults) < MaxFaults
    /\ faults' = faults \cup {kind}

Become(w, x) == wk' = [wk EXCEPT ![w] = x]
Goto(w, p) == Become(w, [wk[w] EXCEPT !.pc = p])

\* The lock goes with the transaction that took it, or the turn in the chain.
Unlock(w) == holder' = IF holder = w THEN Nobody ELSE holder

\* The row becomes r; when there was another one it is gone, and an era ends.
Replace(r) ==
    /\ row' = r
    /\ era' = IF row = NoRow THEN era ELSE era + 1

----------------------------------------------------------------------------
(* A reservation.                                                           *)

Begin(w) ==
    /\ wk[w].pc = "idle"
    /\ \E j \in todo :
         /\ todo' = todo \ {j}
         /\ Become(w, [Idle EXCEPT !.pc = "lock", !.job = j])
    /\ UNCHANGED <<ledgerVars, store, row, holder, forgets, faults, era, granted>>

\* A row whose lease has run out does not count; the MemoryDatabase keeps none.
Readable == row # NoRow /\ (row.fresh \/ store = "memory")

\* Faulty variant: nobody waits for the lock.
LockWithoutWaiting(w) ==
    /\ wk[w].pc = "lock"
    /\ holder' = w
    /\ Become(w, [wk[w] EXCEPT !.pc = IF Readable THEN "write" ELSE "fetch",
                               !.fetched = ~Readable, !.seq = row.seq, !.era = era])
    /\ UNCHANGED <<ledgerVars, store, row, forgets, todo, faults, era, granted>>

\* The worker comes to the head of the line, and reads.
Lock(w) ==
    /\ wk[w].pc = "lock"
    /\ holder = Nobody
    /\ holder' = w
    /\ Become(w, [wk[w] EXCEPT !.pc = IF Readable THEN "write" ELSE "fetch",
                               !.fetched = ~Readable, !.seq = row.seq, !.era = era])
    /\ UNCHANGED <<ledgerVars, store, row, forgets, todo, faults, era, granted>>

\* Faulty variant: the transaction of a failed request stays open.
ThrowInTransaction(w) ==
    /\ Goto(w, "caught")
    /\ UNCHANGED holder

\* An error: ROLLBACK, or the end of the turn in the chain.
Throw(w) ==
    /\ Goto(w, "caught")
    /\ Unlock(w)

\* account_info, asked with the lock held.
Fetch(w) ==
    /\ wk[w].pc = "fetch"
    /\ \/ /\ NoFault
          /\ Become(w, [wk[w] EXCEPT !.pc = "write", !.seq = nextSeq])
          /\ UNCHANGED holder
       \/ Fault("net") /\ Throw(w)
    /\ UNCHANGED <<ledgerVars, store, row, forgets, todo, era, granted>>

\* The INSERT of a fetched sequence replaces a row with an expired lease; the
\* UPDATE of one that was read finds no row if a forget came in between. The
\* in-process coordinator goes on to submit with its turn not over.
Write(w) ==
    /\ wk[w].pc = "write"
    /\ LET s == wk[w].seq IN
       \/ /\ NoFault
          /\ IF wk[w].fetched THEN Replace(Lease(s + 1))
             ELSE row' = (IF row = NoRow THEN NoRow ELSE Lease(s + 1)) /\ UNCHANGED era
          /\ granted' = granted \cup
               {[seq |-> s, era |-> IF wk[w].fetched THEN era' ELSE wk[w].era,
                 job |-> wk[w].job, attempt |-> wk[w].attempt]}
          /\ Goto(w, "submit")
          /\ IF store = "local" THEN UNCHANGED holder ELSE Unlock(w)
       \/ /\ store = "pg" /\ Fault("db")
          /\ \/ UNCHANGED <<row, era>>
             \/ wk[w].fetched /\ Replace(Lease(s + 1))
             \/ ~wk[w].fetched /\ row # NoRow /\ row' = Lease(s + 1) /\ UNCHANGED era
          /\ Throw(w)
          /\ UNCHANGED granted
    /\ UNCHANGED <<ledgerVars, store, forgets, todo>>

----------------------------------------------------------------------------
(* What the executor does with it.                                          *)

\* invalidate: PostgreSQL gets a DELETE nobody waits for; the others forget now.
Invalidate ==
    \/ store = "pg" /\ forgets' = forgets + 1 /\ UNCHANGED <<row, era>>
    \/ store # "pg" /\ Replace(NoRow) /\ UNCHANGED forgets

\* Faulty variant: one retry too many.
MayRetryOffByOne(w) == wk[w].attempt <= MaxSubmitRetries

MayRetry(w) == wk[w].attempt < MaxSubmitRetries
Again(w) == [Idle EXCEPT !.pc = "lock", !.job = wk[w].job, !.attempt = wk[w].attempt + 1]

\* Faulty variant: a transaction that is in is submitted again.
AnsweredAndRetried(w, c) ==
    IF MayRetry(w) THEN Become(w, Again(w)) /\ Invalidate
    ELSE Become(w, Idle) /\ UNCHANGED <<row, era, forgets>>

\* A sequence error gives the reservation up before the retry, another code that
\* is retried keeps it; with every other code the submission is over.
Answered(w, c) ==
    IF ClassifyResult(c) = "retry" /\ MayRetry(w)
    THEN /\ Become(w, Again(w))
         /\ IF c \in SequenceErrors THEN Invalidate ELSE UNCHANGED <<row, era, forgets>>
    ELSE Become(w, Idle) /\ UNCHANGED <<row, era, forgets>>

Submit(w) ==
    /\ wk[w].pc = "submit"
    /\ \/ \E c \in Answers(wk[w].seq) :
            /\ Accept([job |-> wk[w].job, attempt |-> wk[w].attempt, seq |-> wk[w].seq], c)
            /\ \/ NoFault /\ Answered(w, c)
               \/ Fault("lost") /\ Goto(w, "caught") /\ UNCHANGED <<row, era, forgets>>
       \/ /\ Fault("net")
          /\ Goto(w, "caught")
          /\ UNCHANGED <<ledgerVars, row, era, forgets>>
    /\ Unlock(w)
    /\ UNCHANGED <<store, todo, granted>>

\* The catch of _signAndSubmit: an error is retried or not, by its message.
Caught(w) ==
    /\ wk[w].pc = "caught"
    /\ \/ MayRetry(w) /\ Become(w, Again(w)) /\ Invalidate
       \/ Become(w, Idle) /\ UNCHANGED <<row, era, forgets>>
    /\ UNCHANGED <<ledgerVars, store, holder, todo, faults, granted>>

----------------------------------------------------------------------------
(* What happens meanwhile.                                                  *)

\* The DELETE of a forget arrives, or has failed, and nobody notices.
Forget ==
    /\ forgets > 0
    /\ forgets' = forgets - 1
    /\ Replace(NoRow) \/ UNCHANGED <<row, era>>
    /\ UNCHANGED <<ledgerVars, store, holder, wk, todo, faults, granted>>

\* LEASE_TTL_MS go by without a reservation.
ExpireLease ==
    /\ row.fresh
    /\ row' = [row EXCEPT !.fresh = FALSE]
    /\ UNCHANGED <<ledgerVars, store, holder, forgets, wk, todo, faults, era, granted>>

\* A worker dies and starts anew: its transaction is rolled back, its memory lost.
Crash(w) ==
    /\ wk[w].pc \notin {"idle", "off"}
    /\ Fault("crash")
    /\ Become(w, Idle)
    /\ Unlock(w)
    /\ IF store = "pg" THEN UNCHANGED <<row, era>> ELSE Replace(NoRow)
    /\ UNCHANGED <<ledgerVars, store, forgets, todo, granted>>

\* The ledger moves on, or somebody else uses one of the account's sequences.
LedgerStep ==
    /\ \/ NoFault /\ \E t \in pool : Validate(t) \/ Expire(t)
       \/ /\ Fault("spend")
          /\ nextSeq' = nextSeq + 1
          /\ UNCHANGED <<pool, validated>>
    /\ UNCHANGED <<store, row, holder, forgets, wk, todo, era, granted>>

WorkerStep(w) == Begin(w) \/ Fetch(w) \/ Write(w) \/ Submit(w) \/ Caught(w)

Next ==
    \/ \E w \in Workers : WorkerStep(w) \/ Lock(w) \/ Crash(w)
    \/ Forget \/ ExpireLease
    \/ LedgerStep

Spec == Init /\ [][Next]_vars

\* Requests and statements are answered or throw; the lock is granted in the
\* order it was asked for, by PostgreSQL as by the chain of promises, so nobody
\* who waits for it is passed over for ever.
FairSpec == Spec /\ \A w \in Workers : WF_vars(WorkerStep(w)) /\ SF_vars(Lock(w))

----------------------------------------------------------------------------
(* Properties.                                                              *)

WorkerMemories ==
    [pc : {"off", "idle", "lock", "fetch", "write", "submit", "caught"},
     job : Jobs \cup {NoJob}, attempt : 0..MaxSubmitRetries, seq : Nat,
     fetched : BOOLEAN, era : Nat]

Grants == [seq : Nat, era : Nat, job : Jobs \cup {NoJob}, attempt : 0..MaxSubmitRetries]

\* The variables stay in the sets the code draws from; in particular no job is
\* attempted more than MAX_SUBMIT_RETRIES times after the first.
SequenceTypeOK ==
    /\ store \in Stores
    /\ row \in [seq : Nat, fresh : BOOLEAN]
    /\ holder \in Workers \cup {Nobody}
    /\ forgets \in Nat
    /\ wk \in [Workers -> WorkerMemories]
    /\ todo \subseteq Jobs
    /\ faults \subseteq FaultKinds
    /\ era \in Nat
    /\ granted \subseteq Grants
    /\ nextSeq \in Nat

\* What a life of the row hands out only goes up, so that no worker is given a
\* sequence below one that has been given: a reservation whose row somebody forgot
\* between its read and its write still comes after all that were made in its life.
GrantsIncrease ==
    [][\A g \in granted' \ granted, h \in granted : g.era = h.era => h.seq < g.seq]_vars

TxsOf(j) == {t \in pool \cup {v.tx : v \in validated} : t.job = j}

\* Unless the answer to a submit is lost, a job brings at most one transaction to
\* the ledger, although two workers may hold the same sequence when one of them
\* has forgotten the row the other reserved from.
OneTxPerJob ==
    "lost" \notin faults => \A j \in Jobs : Cardinality(TxsOf(j)) <= 1

\* Every attempt ends, whatever requests and statements fail: no error leaves the
\* account's lock behind for the others to wait for.
EveryAttemptEnds ==
    \A w \in Workers : wk[w].pc \notin {"idle", "off"} ~> wk[w].pc = "idle"
============================================================================
