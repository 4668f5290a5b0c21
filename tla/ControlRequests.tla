--------------------------- MODULE ControlRequests ---------------------------
(* The requests of the control API that enqueue transactions and keep the   *)
(* records about them: the router with its rate limiter (RateLimit), the    *)
(* handlers of vaults.service.js and borrowers.service.js, and the          *)
(* statements they make on either store, enqueueTx with its dedupe key      *)
(* among them. (LoanCosign has the loans.)                                  *)
(*                                                                          *)
(* A handler is a chain of awaits, each one statement; with the             *)
(* MemoryDatabase, too, another handler may run between two of them. A      *)
(* request is known by its number: the row it enqueues, the vault, broker   *)
(* or borrower it creates and the amount it tells of have it for a name.    *)
(* Only PostgreSQL throws, and only it looks at what it is given: it throws *)
(* at a value that does not fit its column, a reference to nothing, an      *)
(* address that is taken.                                                   *)
EXTENDS RateLimit, Sequences

CONSTANTS
    Clients,    \* addresses requests come from
    Requests,   \* 1..n: bound on the requests that are made
    Workloads,  \* bound: requests that are done at the start, and what clients ask for
    Accounts,   \* lender accounts, borrowers' addresses, users to link
    Stores,     \* the stores to start with: of "pg", "memory"
    MaxFaults   \* bound: PostgreSQL statements that throw, crashes of the process

Creations == {"vault", "broker", "borrower"}
CollateralRoutes == {"collateral", "cover"}
Routes == Creations \cup CollateralRoutes \cup {"deposit", "link"}

\* The rate limiter's keys: a client and the path, with the ID in it if any.
RequestKeys == Clients \X Routes \X (Requests \cup {0})

ASSUME RequestsAssumption ==
    /\ Keys = RequestKeys
    /\ Requests \subseteq Nat \ {0}
    /\ \A load \in Workloads :
         /\ \E n \in 0..2 : 1..n \subseteq Requests /\ load.past \in [1..n -> Creations]
         /\ load.routes \subseteq Routes
    /\ Stores \subseteq {"pg", "memory"}
    /\ MaxFaults \in Nat

VARIABLES
    routes,  \* what the clients ask for
    store,   \* the store in use
    db,      \* its tables
    req,     \* the memory of each request
    faults   \* how many faults have happened

vars == <<rateVars, routes, store, db, req, faults>>

NoAccount == "none"
NotMade == [pc |-> "notMade", route |-> "none", target |-> 0, account |-> NoAccount, at |-> 0]

\* The rows of each table: vaults, brokers and parties created, those of them
\* whose ledger object has been written back; tx_outbox with the status of each
\* row; vault_positions; the cover ledger; party_wallets; the users linked to
\* parties; evidence_events.
NoRows ==
    [created |-> {}, ready |-> {}, outbox |-> [q \in Requests |-> "absent"],
     positions |-> {}, cover |-> {}, wallets |-> {}, links |-> {}, evidence |-> {}]

\* The tables when the requests of a past are done, their rows reconciled.
RowsAfter(past) ==
    LET made == DOMAIN past
        enqueued == {q \in made : past[q] # "borrower"} IN
    [NoRows EXCEPT
        !.created = made, !.ready = enqueued, !.evidence = made,
        !.outbox = [q \in Requests |-> IF q \in enqueued THEN "reconciled" ELSE "absent"],
        !.wallets = IF store = "pg" THEN made \ enqueued ELSE {}]

\* Nothing has been asked for yet, or a vault, a broker of it or a borrower.
Init ==
    /\ RateInit
    /\ store \in Stores
    /\ \E load \in Workloads :
         /\ routes = load.routes
         /\ db = RowsAfter(load.past)
         /\ req = [q \in Requests |->
                     IF q \in DOMAIN load.past
                     THEN [NotMade EXCEPT !.pc = "done", !.route = load.past[q],
                                          !.target = IF load.past[q] = "broker" THEN 1 ELSE 0]
                     ELSE NotMade]
    /\ faults = 0

Become(q, x) == req' = [req EXCEPT ![q] = x]
Goto(q, p) == Become(q, [req[q] EXCEPT !.pc = p])
NoFault == UNCHANGED faults
Fault == store = "pg" /\ faults < MaxFaults /\ faults' = faults + 1

----------------------------------------------------------------------------
(* The router, and the chains of the handlers.                              *)

\* What a request may be about: a route with an ID is asked for what there is.
Targets(route) ==
    LET Of(r) == {t \in db.created : req[t].route = r} IN
    CASE route \in {"vault", "borrower"} -> {0}
      [] route \in {"broker", "deposit"} -> Of("vault")
      [] route \in CollateralRoutes -> Of("broker")
      [] route = "link" -> Of("borrower")

First(route) == IF route \in {"vault", "borrower"} THEN "insert" ELSE "read"

\* enqueueTx looks for the dedupe key and then inserts; the MemoryDatabase does
\* both with no await in between.
Enqueuing == IF store = "pg" THEN "check" ELSE "row"

\* Faulty variant: the evidence is appended before there is a row to tell of.
AfterInsertEvidence(q) ==
    IF req[q].pc \in {"read", "insert"} THEN "evidence" ELSE "done"

After(q) ==
    LET route == req[q].route IN
    CASE req[q].pc = "read" ->
            IF route = "broker" THEN "insert" ELSE IF route = "link" THEN "effect" ELSE Enqueuing
      [] req[q].pc = "insert" ->
            IF route # "borrower" THEN Enqueuing ELSE IF store = "pg" THEN "effect" ELSE "evidence"
      [] req[q].pc = "check" -> "row"
      [] req[q].pc = "row" ->
            IF route \in Creations THEN "evidence" ELSE "effect"
      [] req[q].pc = "effect" -> "evidence"
      [] req[q].pc = "evidence" -> "done"

\* A request arrives. The rate limiter comes first: it counts what is then turned
\* away for its token, role or body, too.
Receive(q) ==
    /\ req[q] = NotMade
    /\ \A p \in Requests : p < q => req[p] # NotMade
    /\ \E client \in Clients, route \in routes, allowed \in BOOLEAN :
       \E target \in Targets(route),
          account \in IF route \in {"deposit", "borrower", "link"} THEN Accounts ELSE {NoAccount} :
         /\ Check(<<client, route, target>>, allowed)
         /\ \E p \in {"refused"} \cup IF allowed THEN {First(route)} ELSE {} :
              Become(q, [pc |-> p, route |-> route, target |-> target, account |-> account,
                         at |-> 0])
    /\ UNCHANGED <<routes, store, db, faults>>

\* One statement of request q makes the tables into d, or throws, perhaps after it
\* took effect; the router answers 500.
Statement(q, d) ==
    /\ \/ NoFault /\ db' = d /\ Goto(q, After(q))
       \/ Fault /\ db' \in {db, d} /\ Goto(q, "failed")
    /\ UNCHANGED <<rateVars, routes, store>>

\* The handler throws at what it read, or the database at what it was given: then
\* the request is refused, or broken off, if the statements before it stay.
End(q, p) ==
    /\ Goto(q, p)
    /\ UNCHANGED <<rateVars, routes, store, db, faults>>
Reject(q) == End(q, "refused")
BreakOff(q) == store = "pg" /\ End(q, "brokenOff")

----------------------------------------------------------------------------
(* The statements.                                                          *)

\* createVault, createLoanBroker, createBorrower.
Insert(q) ==
    /\ req[q].pc = "insert"
    /\ \/ Statement(q, [db EXCEPT !.created = @ \cup {q}])
       \/ store = "pg" /\ Reject(q)

\* getVault, getLoanBroker: the object must be on the ledger, and the owner of a
\* new broker that of the vault. A borrower is only looked for. The dedupe key of a
\* collateral deposit has the time in it, taken now.
Read(q) ==
    LET route == req[q].route IN
    /\ req[q].pc = "read"
    /\ \/ /\ route = "link" \/ req[q].target \in db.ready
          /\ NoFault
          /\ Become(q, [req[q] EXCEPT !.pc = After(q),
                                      !.at = IF route \in CollateralRoutes THEN now ELSE 0])
       \/ /\ route = "broker" \/ (route # "link" /\ req[q].target \notin db.ready)
          /\ NoFault /\ Goto(q, "refused")
       \/ Fault /\ Goto(q, "failed")
    /\ UNCHANGED <<rateVars, routes, store, db>>

\* What the unique index compares: aggregate, kind and dedupe key.
SameKey(p, q) ==
    LET Same(f) == req[p][f] = req[q][f] IN
    \/ p = q
    \/ req[p].route = "deposit" /\ Same("route") /\ Same("target") /\ Same("account")
    \/ {req[p].route, req[q].route} \subseteq CollateralRoutes /\ Same("target") /\ Same("at")

RowsLike(q) == {p \in Requests : db.outbox[p] # "absent" /\ SameKey(p, q)}
DoneStatuses == {"validated", "indexed", "failed", "closed"}
Unfinished(q) == {p \in RowsLike(q) : db.outbox[p] \notin DoneStatuses}

CheckDedupe(q) ==
    /\ req[q].pc = "check"
    /\ IF Unfinished(q) = {} THEN Statement(q, db) ELSE Reject(q)

\* Faulty variant: the database has no unique index.
DuplicatesWithoutIndex(q) == IF store = "pg" THEN {} ELSE Unfinished(q)

\* The rows that keep q's from being inserted: with PostgreSQL the unique index
\* counts rows of every status.
Duplicates(q) == IF store = "pg" THEN RowsLike(q) ELSE Unfinished(q)

\* Faulty variant: a duplicate is passed over.
InsertRowOnConflictDoNothing(q) ==
    /\ req[q].pc = "row"
    /\ Statement(q, IF Duplicates(q) = {} THEN [db EXCEPT !.outbox[q] = "pending"] ELSE db)

InsertRow(q) ==
    /\ req[q].pc = "row"
    /\ IF Duplicates(q) = {} THEN Statement(q, [db EXCEPT !.outbox[q] = "pending"])
       ELSE Reject(q)

\* Faulty variant: a position is added to those there are.
InsertPosition(q) ==
    /\ req[q].pc = "effect" /\ req[q].route = "deposit"
    /\ Statement(q, [db EXCEPT !.positions = @ \cup
         {[vault |-> req[q].target, lender |-> req[q].account, amount |-> q]}])

\* upsertVaultPosition: one position for each vault and lender, overwritten.
UpsertPosition(q) ==
    LET p == [vault |-> req[q].target, lender |-> req[q].account, amount |-> q] IN
    /\ req[q].pc = "effect" /\ req[q].route = "deposit"
    /\ \/ Statement(q, [db EXCEPT !.positions =
                {o \in @ : o.vault # p.vault \/ o.lender # p.lender} \cup {p}])
       \/ BreakOff(q)

AppendCoverLedger(q) ==
    /\ req[q].pc = "effect" /\ req[q].route \in CollateralRoutes
    /\ Statement(q, [db EXCEPT !.cover = @ \cup {q}]) \/ BreakOff(q)

\* createBorrower's second statement; an address is that of one wallet.
InsertWallet(q) ==
    /\ req[q].pc = "effect" /\ req[q].route = "borrower"
    /\ IF \E p \in db.wallets : req[p].account = req[q].account THEN BreakOff(q)
       ELSE Statement(q, [db EXCEPT !.wallets = @ \cup {q}])

\* linkAuthUser: with PostgreSQL a user is linked to one party.
LinkAuthUser(q) ==
    LET l == [party |-> req[q].target, user |-> req[q].account]
        others == {o \in db.links : o.party # l.party} IN
    /\ req[q].pc = "effect" /\ req[q].route = "link"
    /\ IF store = "pg" /\ \E o \in others : o.user = l.user THEN Reject(q)
       ELSE Statement(q, [db EXCEPT !.links = others \cup {l}])

\* Faulty variant: an error of the evidence is swallowed.
AppendEvidenceUncaught(q) ==
    /\ req[q].pc = "evidence"
    /\ \/ Statement(q, [db EXCEPT !.evidence = @ \cup {q}])
       \/ Fault /\ Goto(q, "done") /\ UNCHANGED <<rateVars, routes, store, db>>

AppendEvidence(q) ==
    /\ req[q].pc = "evidence"
    /\ Statement(q, [db EXCEPT !.evidence = @ \cup {q}])

----------------------------------------------------------------------------
(* What happens meanwhile.                                                  *)

\* The worker, by its effects on a row: it is settled, and what it created is
\* written back, indexed and reconciled. "pending" is all that may still execute.
Work(q) ==
    /\ \/ /\ db.outbox[q] = "pending"
          /\ \E s \in {"validated", "failed", "blocked", "manual_review"} :
               db' = [db EXCEPT !.outbox[q] = s]
       \/ /\ db.outbox[q] = "validated"
          /\ db' = [db EXCEPT !.outbox[q] = "indexed",
                              !.ready = IF req[q].route \in Creations THEN @ \cup {q} ELSE @]
       \/ /\ db.outbox[q] = "indexed"
          /\ db' = [db EXCEPT !.outbox[q] = "reconciled"]
    /\ UNCHANGED <<rateVars, routes, store, req, faults>>

InFlight(q) == req[q].pc \notin {"notMade", "refused", "brokenOff", "failed", "done"}

\* The API process dies with all its requests and is started anew. (With the
\* MemoryDatabase everything is gone.)
Crash ==
    /\ store = "pg"
    /\ Fault
    /\ req' = [q \in Requests |-> IF InFlight(q) THEN [req[q] EXCEPT !.pc = "failed"] ELSE req[q]]
    /\ Restart
    /\ UNCHANGED <<routes, store, db>>

RequestStep(q) ==
    \/ Receive(q)
    \/ Insert(q) \/ Read(q) \/ CheckDedupe(q) \/ InsertRow(q)
    \/ UpsertPosition(q) \/ AppendCoverLedger(q) \/ InsertWallet(q) \/ LinkAuthUser(q)
    \/ AppendEvidence(q)

Next ==
    \/ \E q \in Requests : RequestStep(q) \/ Work(q)
    \/ Crash
    \/ Tick /\ UNCHANGED <<routes, store, db, req, faults>>

Spec == Init /\ [][Next]_vars

----------------------------------------------------------------------------
(* Properties.                                                              *)

RequestRecords ==
    [pc : {"notMade", "insert", "read", "check", "row", "effect", "evidence",
           "done", "refused", "brokenOff", "failed"},
     route : Routes \cup {"none"}, target : Requests \cup {0},
     account : Accounts \cup {NoAccount}, at : Nat]

\* The variables hold what the tables may hold: one position for each vault and
\* lender, one user for each party, no more buckets than the limiter allows.
RequestTypeOK ==
    /\ RateTypeOK
    /\ Cardinality({k \in Keys : buckets[k] # NoBucket}) <= MaxBuckets
    /\ store \in Stores
    /\ req \in [Requests -> RequestRecords]
    /\ db.created \subseteq Requests
    /\ db.ready \subseteq db.created
    /\ db.cover \subseteq Requests
    /\ db.wallets \subseteq db.created
    /\ db.evidence \subseteq Requests
    /\ \A o, p \in db.positions : o.vault = p.vault /\ o.lender = p.lender => o = p
    /\ \A o, p \in db.links : o.party = p.party => o = p

\* However two requests overlap, a dedupe key never has two rows that may still
\* execute; with PostgreSQL it never has a second row at all, so a deposit that
\* failed is not made again.
OneRow ==
    LET MayExecute(q) == db.outbox[q] \in {"pending", "manual_review"} IN
    \A p, q \in Requests :
        p # q /\ p \in RowsLike(q) /\ q \in RowsLike(p) =>
            store = "memory" /\ ~(MayExecute(p) /\ MayExecute(q))

\* With PostgreSQL a position tells the amount of the one deposit its lender has
\* in the outbox for that vault: no request that was refused has overwritten it.
PositionIsDeposit ==
    \A p \in db.positions :
        store = "pg" =>
            {q \in Requests :
                /\ db.outbox[q] # "absent" /\ req[q].route = "deposit"
                /\ req[q].target = p.vault /\ req[q].account = p.lender} = {p.amount}

\* Nothing is told of a transaction that is not in the outbox: a cover entry, a
\* position and the evidence of a request come after its row, whatever is refused
\* or fails, and the evidence of a collateral deposit after its cover entry.
EffectsBacked ==
    /\ \A q \in db.cover \cup {p.amount : p \in db.positions} : db.outbox[q] # "absent"
    /\ \A q \in db.evidence :
         /\ req[q].route \notin {"borrower", "link"} => db.outbox[q] # "absent"
         /\ req[q].route \in CollateralRoutes => q \in db.cover
         /\ req[q].route = "borrower" /\ store = "pg" => q \in db.wallets

\* A refused request leaves nothing behind, and one that is answered has done all
\* it is for: a vault or broker without its row, a row without its evidence or a
\* deposit without its entry is left only by a request that failed or broke off.
RefusedOrDone ==
    \A q \in Requests :
        LET row == db.outbox[q] # "absent" IN
        /\ req[q].pc = "refused" =>
             /\ ~row
             /\ q \notin db.created \cup db.cover \cup db.wallets \cup db.evidence
             /\ \A p \in db.positions : p.amount # q
        /\ req[q].pc = "done" =>
             /\ q \in db.evidence
             /\ row <=> req[q].route \notin {"borrower", "link"}
             /\ q \in db.created <=> req[q].route \in Creations
             /\ q \in db.cover <=> req[q].route \in CollateralRoutes
=============================================================================
