------------------------ MODULE ControlRequests_proofs ------------------------
(* Theorems about ControlRequests and its rate limiter, for every set of    *)
(* clients and requests, whatever is asked for in whichever order, in       *)
(* either store, and for every number of faults.                            *)
EXTENDS ControlRequests, FiniteSetTheorems, TLAPS

----------------------------------------------------------------------------
(* Types.                                                                   *)

Statuses == {"absent", "pending", "validated", "failed", "blocked", "manual_review",
             "indexed", "reconciled"}
Positions == [vault : Requests \cup {0}, lender : Accounts \cup {NoAccount}, amount : Requests]
Links == [party : Requests \cup {0}, user : Accounts \cup {NoAccount}]
Tables ==
    [created : SUBSET Requests, ready : SUBSET Requests, outbox : [Requests -> Statuses],
     positions : SUBSET Positions, cover : SUBSET Requests, wallets : SUBSET Requests,
     links : SUBSET Links, evidence : SUBSET Requests]
Pcs == {"notMade", "insert", "read", "check", "row", "effect", "evidence",
        "done", "refused", "brokenOff", "failed"}

TypeInv ==
    /\ routes \subseteq Routes
    /\ store \in Stores
    /\ db \in Tables
    /\ req \in [Requests -> RequestRecords]

LEMMA TypeInit == Init => TypeInv
  <1> SUFFICES ASSUME Init PROVE TypeInv
    OBVIOUS
  <1>1. PICK load \in Workloads :
          /\ routes = load.routes
          /\ db = RowsAfter(load.past)
          /\ req = [q \in Requests |->
                     IF q \in DOMAIN load.past
                     THEN [NotMade EXCEPT !.pc = "done", !.route = load.past[q],
                                          !.target = IF load.past[q] = "broker" THEN 1 ELSE 0]
                     ELSE NotMade]
    BY DEF Init
  <1>2. PICK n \in 0..2 : load.past \in [1..n -> Creations] /\ 1..n \subseteq Requests
    BY RequestsAssumption
  <1>3. DOMAIN load.past = 1..n
    BY <1>2
  <1>4. db \in Tables
    <2>1. [NoRows EXCEPT !.outbox = [q \in Requests |-> "absent"]] = NoRows
      BY DEF NoRows
    <2> QED BY <1>1, <1>2, <1>3 DEF RowsAfter, NoRows, Tables, Statuses
  <1>5. req \in [Requests -> RequestRecords]
    <2>1. NotMade \in RequestRecords
      BY DEF NotMade, RequestRecords, NoAccount
    <2>2. ASSUME NEW q \in 1..n
          PROVE  [NotMade EXCEPT !.pc = "done", !.route = load.past[q],
                                 !.target = IF load.past[q] = "broker" THEN 1 ELSE 0]
                   \in RequestRecords
      <3>1. 1 \in Requests
        BY <1>2, <2>2
      <3>2. load.past[q] \in Routes
        BY <1>2, <2>2 DEF Routes
      <3> QED BY <3>1, <3>2 DEF NotMade, RequestRecords, NoAccount
    <2> QED BY <1>1, <1>3, <2>1, <2>2
  <1>6. routes \subseteq Routes
    BY <1>1, RequestsAssumption
  <1> QED BY <1>4, <1>5, <1>6 DEF Init, TypeInv

LEMMA BecomeType ==
  ASSUME TypeInv, NEW q \in Requests, NEW x \in RequestRecords, Become(q, x)
  PROVE  req' \in [Requests -> RequestRecords]
  BY DEF TypeInv, Become

LEMMA GotoType ==
  ASSUME TypeInv, NEW q \in Requests, NEW p \in Pcs, Goto(q, p)
  PROVE  req' \in [Requests -> RequestRecords]
  <1>1. req[q] \in RequestRecords
    BY DEF TypeInv
  <1>2. [req[q] EXCEPT !.pc = p] \in RequestRecords
    BY <1>1 DEF RequestRecords, Pcs
  <1> QED BY <1>2, BecomeType DEF Goto

LEMMA AfterType ==
  ASSUME NEW q \in Requests,
         req[q].pc \in {"read", "insert", "check", "row", "effect", "evidence"}
  PROVE  After(q) \in Pcs
  BY DEF After, Enqueuing, Pcs

LEMMA StatementType ==
  ASSUME TypeInv, NEW q \in Requests, NEW d \in Tables, Statement(q, d), After(q) \in Pcs
  PROVE  TypeInv'
  <1>1. db' \in Tables
    BY DEF Statement, TypeInv
  <1>2. req' \in [Requests -> RequestRecords]
    BY GotoType DEF Statement, Pcs
  <1> QED BY <1>1, <1>2 DEF Statement, TypeInv

LEMMA EndType ==
  ASSUME TypeInv, NEW q \in Requests, Reject(q) \/ BreakOff(q)
  PROVE  TypeInv'
  <1>1. req' \in [Requests -> RequestRecords]
    BY GotoType DEF Reject, BreakOff, End, Pcs
  <1> QED BY <1>1 DEF Reject, BreakOff, End, TypeInv

LEMMA TypeReceive ==
  ASSUME TypeInv, NEW q \in Requests, Receive(q) PROVE TypeInv'
  <1> DEFINE Accepted(route, target, account, p) ==
          Become(q, [pc |-> p, route |-> route, target |-> target, account |-> account,
                     at |-> 0])
  <1>0. PICK route \in routes :
          \E target \in Targets(route), account \in Accounts \cup {NoAccount},
             p \in {"refused", First(route)} : Accepted(route, target, account, p)
    BY DEF Receive
  <1>1. PICK target \in Targets(route), account \in Accounts \cup {NoAccount},
             p \in {"refused", First(route)} : Accepted(route, target, account, p)
    BY <1>0
  <1>2. route \in Routes /\ target \in Requests \cup {0}
    BY DEF TypeInv, Targets, Tables, Routes, Creations, CollateralRoutes
  <1>3. p \in Pcs
    BY DEF First, Pcs
  <1>4. [pc |-> p, route |-> route, target |-> target, account |-> account, at |-> 0]
          \in RequestRecords
    BY <1>2, <1>3 DEF RequestRecords, Pcs
  <1> QED BY <1>1, <1>4, BecomeType DEF Receive, TypeInv

LEMMA TypeInsert ==
  ASSUME TypeInv, NEW q \in Requests, Insert(q) PROVE TypeInv'
  <1>1. [db EXCEPT !.created = @ \cup {q}] \in Tables
    BY DEF TypeInv, Tables
  <1> QED BY <1>1, StatementType, AfterType, EndType DEF Insert

LEMMA TypeRead ==
  ASSUME TypeInv, NEW q \in Requests, Read(q), now \in Nat PROVE TypeInv'
  <1>1. After(q) \in Pcs
    BY AfterType DEF Read
  <1>2. ASSUME NEW t \in Nat PROVE [req[q] EXCEPT !.pc = After(q), !.at = t] \in RequestRecords
    <2>1. req[q] \in RequestRecords
      BY DEF TypeInv
    <2> QED BY <1>1, <1>2, <2>1 DEF RequestRecords, Pcs
  <1>3. req' \in [Requests -> RequestRecords]
    <2>1. CASE Goto(q, "refused") \/ Goto(q, "failed")
      BY <2>1, GotoType DEF Pcs
    <2>2. CASE Become(q, [req[q] EXCEPT !.pc = After(q),
                            !.at = IF req[q].route \in CollateralRoutes THEN now ELSE 0])
      BY <1>2, <2>2, BecomeType
    <2> QED BY <2>1, <2>2 DEF Read
  <1> QED BY <1>3 DEF Read, TypeInv

LEMMA TypeCheckDedupe ==
  ASSUME TypeInv, NEW q \in Requests, CheckDedupe(q) PROVE TypeInv'
  <1>1. db \in Tables
    BY DEF TypeInv
  <1> QED BY <1>1, StatementType, AfterType, EndType DEF CheckDedupe

LEMMA TypeInsertRow ==
  ASSUME TypeInv, NEW q \in Requests, InsertRow(q) PROVE TypeInv'
  <1>1. [db EXCEPT !.outbox[q] = "pending"] \in Tables
    BY DEF TypeInv, Tables, Statuses
  <1> QED BY <1>1, StatementType, AfterType, EndType DEF InsertRow

LEMMA TypeUpsertPosition ==
  ASSUME TypeInv, NEW q \in Requests, UpsertPosition(q) PROVE TypeInv'
  <1> DEFINE p == [vault |-> req[q].target, lender |-> req[q].account, amount |-> q]
             d == [db EXCEPT !.positions =
                     {o \in @ : o.vault # p.vault \/ o.lender # p.lender} \cup {p}]
  <1>1. p \in Positions
    BY DEF TypeInv, RequestRecords, Positions
  <1>2. d \in Tables
    <2> HIDE DEF p
    <2> QED BY <1>1 DEF TypeInv, Tables
  <1>3. Statement(q, d) \/ BreakOff(q)
    BY DEF UpsertPosition
  <1> QED BY <1>2, <1>3, StatementType, AfterType, EndType DEF UpsertPosition

LEMMA TypeAppendCoverLedger ==
  ASSUME TypeInv, NEW q \in Requests, AppendCoverLedger(q) PROVE TypeInv'
  <1>1. [db EXCEPT !.cover = @ \cup {q}] \in Tables
    BY DEF TypeInv, Tables
  <1> QED BY <1>1, StatementType, AfterType, EndType DEF AppendCoverLedger

LEMMA TypeInsertWallet ==
  ASSUME TypeInv, NEW q \in Requests, InsertWallet(q) PROVE TypeInv'
  <1>1. [db EXCEPT !.wallets = @ \cup {q}] \in Tables
    BY DEF TypeInv, Tables
  <1> QED BY <1>1, StatementType, AfterType, EndType DEF InsertWallet

LEMMA TypeLinkAuthUser ==
  ASSUME TypeInv, NEW q \in Requests, LinkAuthUser(q) PROVE TypeInv'
  <1> DEFINE l == [party |-> req[q].target, user |-> req[q].account]
             d == [db EXCEPT !.links = {o \in db.links : o.party # l.party} \cup {l}]
  <1>1. l \in Links
    BY DEF TypeInv, RequestRecords, Links
  <1>2. d \in Tables
    <2> HIDE DEF l
    <2> QED BY <1>1 DEF TypeInv, Tables
  <1>3. Statement(q, d) \/ Reject(q)
    BY DEF LinkAuthUser
  <1> QED BY <1>2, <1>3, StatementType, AfterType, EndType DEF LinkAuthUser

LEMMA TypeAppendEvidence ==
  ASSUME TypeInv, NEW q \in Requests, AppendEvidence(q) PROVE TypeInv'
  <1>1. [db EXCEPT !.evidence = @ \cup {q}] \in Tables
    BY DEF TypeInv, Tables
  <1> QED BY <1>1, StatementType, AfterType DEF AppendEvidence

LEMMA TypeWork ==
  ASSUME TypeInv, NEW q \in Requests, Work(q) PROVE TypeInv'
  <1>1. ASSUME NEW s \in Statuses PROVE [db EXCEPT !.outbox[q] = s] \in Tables
    BY <1>1 DEF TypeInv, Tables
  <1>2. [db EXCEPT !.outbox[q] = "indexed",
                   !.ready = IF req[q].route \in Creations THEN @ \cup {q} ELSE @] \in Tables
    BY DEF TypeInv, Tables, Statuses
  <1>3. db' \in Tables
    BY <1>1, <1>2 DEF Work, Statuses
  <1> QED BY <1>3 DEF Work, TypeInv

LEMMA TypeCrash ==
  ASSUME TypeInv, Crash PROVE TypeInv'
  <1>1. ASSUME NEW q \in Requests PROVE [req[q] EXCEPT !.pc = "failed"] \in RequestRecords
    <2>1. req[q] \in RequestRecords
      BY DEF TypeInv
    <2> QED BY <2>1 DEF RequestRecords
  <1>2. req' \in [Requests -> RequestRecords]
    BY <1>1 DEF Crash, TypeInv
  <1> QED BY <1>2 DEF Crash, TypeInv

LEMMA TypeNext == TypeInv /\ now \in Nat /\ [Next]_vars => TypeInv'
  <1> SUFFICES ASSUME TypeInv, now \in Nat, [Next]_vars PROVE TypeInv'
    OBVIOUS
  <1>1. ASSUME NEW q \in Requests, RequestStep(q) PROVE TypeInv'
    BY <1>1, TypeReceive, TypeInsert, TypeRead, TypeCheckDedupe, TypeInsertRow,
       TypeUpsertPosition, TypeAppendCoverLedger, TypeInsertWallet, TypeLinkAuthUser,
       TypeAppendEvidence DEF RequestStep
  <1>2. CASE Tick /\ UNCHANGED <<routes, store, db, req, faults>>
    BY <1>2 DEF TypeInv
  <1>3. CASE UNCHANGED vars
    BY <1>3 DEF TypeInv, vars
  <1> QED BY <1>1, <1>2, <1>3, TypeWork, TypeCrash DEF Next

----------------------------------------------------------------------------
(* How far a request has come, and what it has left in the tables.          *)

HasRow(q) == db.outbox[q] # "absent"
Rowless == {"borrower", "link"}

Untouched(q) ==
    /\ ~HasRow(q)
    /\ q \notin db.created \cup db.cover \cup db.wallets \cup db.evidence
    /\ \A p \in db.positions : p.amount # q

\* All that the request is for, but for its evidence.
Complete(q) ==
    /\ req[q].route \in Routes
    /\ HasRow(q) <=> req[q].route \notin Rowless
    /\ q \in db.created <=> req[q].route \in Creations
    /\ q \in db.cover <=> req[q].route \in CollateralRoutes
    /\ req[q].route = "borrower" /\ store = "pg" => q \in db.wallets

\* What each row of the tables has to do with its request, whatever failed.
Backed(q) ==
    /\ q \in db.ready \cup db.wallets => q \in db.created
    /\ q \in db.cover => HasRow(q) /\ req[q].route \in CollateralRoutes
    /\ q \in db.wallets => req[q].route = "borrower"
    /\ q \in db.evidence => Complete(q)
    /\ HasRow(q) => req[q].route \notin Rowless
    /\ HasRow(q) /\ req[q].route \in Creations => q \in db.created
    /\ \A p \in db.positions :
         p.amount = q => /\ HasRow(q) /\ req[q].route = "deposit"
                         /\ req[q].target = p.vault /\ req[q].account = p.lender

Reached(q) ==
    LET route == req[q].route
        pc == req[q].pc IN
    /\ pc \in {"notMade", "insert", "read", "refused"} => Untouched(q)
    /\ pc = "insert" => route \in Creations
    /\ pc = "read" => route \in Routes \ {"vault", "borrower"}
    /\ pc \in {"check", "row"} =>
         /\ ~HasRow(q) /\ route \in Routes \ Rowless
         /\ q \in db.created <=> route \in Creations
    /\ pc = "effect" =>
         /\ route \in Routes \ {"vault", "broker"} /\ q \notin db.evidence
         /\ HasRow(q) <=> route \notin Rowless
         /\ q \in db.created <=> route \in Creations
         /\ route = "borrower" => store = "pg"
    /\ pc \in {"evidence", "done"} => Complete(q)
    /\ pc = "done" => q \in db.evidence

StageInv == \A q \in Requests : Reached(q) /\ Backed(q)

LEMMA StageInit == Init => StageInv
  <1> SUFFICES ASSUME Init, NEW q \in Requests PROVE Reached(q) /\ Backed(q)
    BY DEF StageInv
  <1>1. PICK load \in Workloads :
          /\ db = RowsAfter(load.past)
          /\ req = [i \in Requests |->
                     IF i \in DOMAIN load.past
                     THEN [NotMade EXCEPT !.pc = "done", !.route = load.past[i],
                                          !.target = IF load.past[i] = "broker" THEN 1 ELSE 0]
                     ELSE NotMade]
    BY DEF Init
  <1>2. PICK n \in 0..2 : load.past \in [1..n -> Creations] /\ 1..n \subseteq Requests
    BY RequestsAssumption
  <1>3. DOMAIN load.past = 1..n
    BY <1>2
  <1>4. CASE q \notin 1..n
    BY <1>1, <1>3, <1>4 DEF RowsAfter, NoRows, NotMade, Reached, Backed, Untouched, HasRow
  <1>5. CASE q \in 1..n
    <2>1. load.past[q] \in Creations
      BY <1>2, <1>5
    <2>2. req[q].pc = "done" /\ req[q].route = load.past[q]
      BY <1>1, <1>3, <1>5 DEF NotMade
    <2>3. /\ q \in db.created /\ q \in db.evidence /\ db.cover = {} /\ db.positions = {}
          /\ HasRow(q) <=> load.past[q] # "borrower"
          /\ q \in db.wallets <=> store = "pg" /\ load.past[q] = "borrower"
      BY <1>1, <1>3, <1>5 DEF RowsAfter, NoRows, HasRow
    <2> QED BY <2>1, <2>2, <2>3
            DEF Reached, Backed, Complete, Rowless, Creations, CollateralRoutes, Routes
  <1> QED BY <1>4, <1>5

\* The step leaves request i and what there is of it in the tables alone.
Alone(i) ==
    /\ store' = store
    /\ req'[i] = req[i]
    /\ db'.outbox[i] = db.outbox[i]
    /\ i \in db'.created <=> i \in db.created
    /\ i \in db'.ready <=> i \in db.ready
    /\ i \in db'.cover <=> i \in db.cover
    /\ i \in db'.wallets <=> i \in db.wallets
    /\ i \in db'.evidence <=> i \in db.evidence
    /\ \A p \in db'.positions : p.amount = i => p \in db.positions

LEMMA AloneStays ==
  ASSUME NEW i \in Requests, Reached(i), Backed(i), Alone(i)
  PROVE  Reached(i)' /\ Backed(i)'
  <1>1. HasRow(i)' <=> HasRow(i)
    BY DEF Alone, HasRow
  <1>2. Untouched(i) => Untouched(i)'
    BY <1>1 DEF Alone, Untouched
  <1>3. Complete(i) => Complete(i)'
    BY <1>1 DEF Alone, Complete
  <1>4. Reached(i)'
    BY <1>1, <1>2, <1>3 DEF Alone, Reached
  <1>5. Backed(i)'
    BY <1>1, <1>3 DEF Alone, Backed
  <1> QED BY <1>4, <1>5

\* Only the program counter of q moves: it fails, is broken off or is refused.
LEMMA EndStage ==
  ASSUME TypeInv, StageInv, NEW q \in Requests,
         UNCHANGED <<store, db>>,
         \/ Goto(q, "failed") \/ Goto(q, "brokenOff")
         \/ Goto(q, "refused") /\ Untouched(q)
  PROVE  StageInv'
  <1> SUFFICES ASSUME NEW i \in Requests PROVE Reached(i)' /\ Backed(i)'
    BY DEF StageInv
  <1>1. Reached(i) /\ Backed(i)
    BY DEF StageInv
  <1>2. CASE i # q
    <2>1. Alone(i)
      BY <1>2 DEF Goto, Become, TypeInv, Alone
    <2> QED BY <1>1, <2>1, AloneStays
  <1>3. CASE i = q
    <2>1. PICK p \in {"failed", "brokenOff", "refused"} :
            /\ req'[q] = [req[q] EXCEPT !.pc = p]
            /\ p = "refused" => Untouched(q)
      BY DEF Goto, Become, TypeInv
    <2>2. req[q] \in RequestRecords
      BY DEF TypeInv
    <2>3. req'[q].pc = p /\ req'[q].route = req[q].route /\ req'[q].target = req[q].target
            /\ req'[q].account = req[q].account
      BY <2>1, <2>2 DEF RequestRecords
    <2>4. /\ HasRow(q)' <=> HasRow(q)
          /\ Untouched(q)' <=> Untouched(q)
          /\ Complete(q)' <=> Complete(q)
      BY <2>3 DEF HasRow, Untouched, Complete
    <2>5. Reached(q)'
      BY <2>1, <2>3, <2>4 DEF Reached
    <2>6. Backed(q)'
      BY <1>1, <1>3, <2>3, <2>4 DEF Backed
    <2> QED BY <1>3, <2>5, <2>6
  <1> QED BY <1>2, <1>3

\* Only the program counter of q moves.
Moved(q) ==
    /\ req'[q].route = req[q].route
    /\ req'[q].target = req[q].target
    /\ req'[q].account = req[q].account
    /\ req'[q].at = req[q].at
    /\ \A i \in Requests \ {q} : req'[i] = req[i]

LEMMA GotoMoves ==
  ASSUME TypeInv, NEW q \in Requests, NEW p, Goto(q, p)
  PROVE  Moved(q) /\ req'[q].pc = p
  <1>1. req[q] \in RequestRecords
    BY DEF TypeInv
  <1>2. req'[q] = [req[q] EXCEPT !.pc = p]
    BY DEF Goto, Become, TypeInv
  <1>3. req'[q].pc = p /\ req'[q].route = req[q].route /\ req'[q].target = req[q].target
          /\ req'[q].account = req[q].account /\ req'[q].at = req[q].at
    BY <1>1, <1>2 DEF RequestRecords
  <1>4. \A i \in Requests \ {q} : req'[i] = req[i]
    BY DEF Goto, Become, TypeInv
  <1> QED BY <1>3, <1>4 DEF Moved

\* A statement keeps the invariant, if what it writes is about q only and what q has
\* left in the tables is right, whether the handler goes on or not.
LEMMA StatementStage ==
  ASSUME TypeInv, StageInv, NEW q \in Requests, NEW d, Statement(q, d),
         ASSUME db' = d, Moved(q), store' = store
         PROVE  /\ \A i \in Requests \ {q} : Alone(i)
                /\ Backed(q)'
                /\ req'[q].pc = After(q) => Reached(q)'
  PROVE  StageInv'
  <1>0. store' = store
    BY DEF Statement
  <1>1. CASE db' = db /\ Goto(q, "failed")
    BY <1>0, <1>1, EndStage
  <1>2. CASE db' = d /\ (Goto(q, "failed") \/ Goto(q, After(q)))
    <2>1. Moved(q) /\ req'[q].pc \in {"failed", After(q)}
      BY <1>2, GotoMoves
    <2>2. /\ \A i \in Requests \ {q} : Alone(i)
          /\ Backed(q)'
          /\ req'[q].pc = After(q) => Reached(q)'
      BY <1>0, <1>2, <2>1
    <2>3. Reached(q)'
      BY <2>1, <2>2 DEF Reached
    <2>4. \A i \in Requests \ {q} : Reached(i)' /\ Backed(i)'
      BY <2>2, AloneStays DEF StageInv
    <2> QED BY <2>2, <2>3, <2>4 DEF StageInv
  <1> QED BY <1>1, <1>2 DEF Statement

LEMMA StageReceive ==
  ASSUME TypeInv, StageInv, NEW q \in Requests, Receive(q) PROVE StageInv'
  <1> SUFFICES ASSUME NEW i \in Requests PROVE Reached(i)' /\ Backed(i)'
    BY DEF StageInv
  <1>1. Reached(i) /\ Backed(i)
    BY DEF StageInv
  <1>2. CASE i # q
    <2>1. Alone(i)
      BY <1>2 DEF Receive, Become, TypeInv, Alone
    <2> QED BY <1>1, <2>1, AloneStays
  <1>3. CASE i = q
    <2>1. Untouched(q)
      BY <1>1, <1>3 DEF Reached, Receive, NotMade
    <2>2. db' = db /\ store' = store
      BY DEF Receive
    <2>3. Untouched(q)'
      BY <2>1, <2>2 DEF Untouched, HasRow
    <2>4. PICK route \in routes : req'[q].route = route /\ req'[q].pc \in {"refused", First(route)}
      BY DEF Receive, Become, TypeInv
    <2>5. route \in Routes
      BY DEF TypeInv
    <2>6. Reached(q)'
      BY <2>3, <2>4, <2>5 DEF Reached, First, Creations, CollateralRoutes, Routes
    <2>7. q \notin db.ready
      BY <1>1, <1>3, <2>1 DEF Backed, Untouched
    <2>8. Backed(q)'
      BY <2>2, <2>3, <2>7 DEF Untouched, Backed
    <2> QED BY <1>3, <2>6, <2>8
  <1> QED BY <1>2, <1>3

LEMMA StageInsert ==
  ASSUME TypeInv, StageInv, NEW q \in Requests, Insert(q) PROVE StageInv'
  <1> DEFINE d == [db EXCEPT !.created = @ \cup {q}]
  <1>1. Reached(q) /\ Backed(q) /\ Untouched(q) /\ req[q].route \in Creations
    BY DEF StageInv, Insert, Reached
  <1>2. CASE Statement(q, d)
    <2>1. ASSUME db' = d, Moved(q), store' = store
          PROVE  /\ \A i \in Requests \ {q} : Alone(i)
                 /\ Backed(q)'
                 /\ req'[q].pc = After(q) => Reached(q)'
      <3>1. /\ db'.created = db.created \cup {q}
            /\ db'.ready = db.ready /\ db'.outbox = db.outbox /\ db'.cover = db.cover
            /\ db'.positions = db.positions /\ db'.wallets = db.wallets
            /\ db'.evidence = db.evidence
        BY <2>1 DEF TypeInv, Tables
      <3>2. \A i \in Requests \ {q} : Alone(i)
        BY <2>1, <3>1 DEF Alone, Moved
      <3>3. /\ ~HasRow(q)'
            /\ q \notin db'.cover \cup db'.wallets \cup db'.evidence
            /\ \A p \in db'.positions : p.amount # q
        BY <1>1, <3>1 DEF Untouched, HasRow
      <3>4. Backed(q)'
        BY <3>1, <3>3 DEF Backed
      <3>5. req'[q].pc = After(q) => Reached(q)'
        BY <1>1, <2>1, <3>1, <3>3
           DEF Insert, Moved, After, Enqueuing, Reached, Complete, Rowless, Creations,
               CollateralRoutes, Routes
      <3> QED BY <3>2, <3>4, <3>5
    <2> QED BY <1>2, <2>1, StatementStage
  <1>3. CASE Reject(q)
    BY <1>1, <1>3, EndStage DEF Reject, End
  <1> QED BY <1>2, <1>3 DEF Insert

LEMMA StageRead ==
  ASSUME TypeInv, StageInv, NEW q \in Requests, Read(q) PROVE StageInv'
  <1>1. Reached(q) /\ Backed(q) /\ Untouched(q)
          /\ req[q].route \in Routes \ {"vault", "borrower"}
    BY DEF StageInv, Read, Reached
  <1>2. db' = db /\ store' = store
    BY DEF Read
  <1>3. CASE Goto(q, "refused") \/ Goto(q, "failed")
    BY <1>1, <1>2, <1>3, EndStage
  <1>4. CASE Become(q, [req[q] EXCEPT !.pc = After(q),
                          !.at = IF req[q].route \in CollateralRoutes THEN now ELSE 0])
    <2>1. /\ req'[q].pc = After(q) /\ req'[q].route = req[q].route
          /\ \A i \in Requests \ {q} : req'[i] = req[i]
      BY <1>4 DEF Become, TypeInv, RequestRecords
    <2>2. \A i \in Requests \ {q} : Reached(i)' /\ Backed(i)'
      BY <1>2, <2>1, AloneStays DEF StageInv, Alone
    <2>3. Untouched(q)'
      BY <1>1, <1>2 DEF Untouched, HasRow
    <2>4. Backed(q)'
      BY <1>1, <1>2, <2>3 DEF Untouched, Backed
    <2>5. Reached(q)'
      BY <1>1, <2>1, <2>3
         DEF Untouched, Read, After, Enqueuing, Reached, Rowless, Creations, CollateralRoutes,
             Routes
    <2> QED BY <2>2, <2>4, <2>5 DEF StageInv
  <1> QED BY <1>3, <1>4 DEF Read

\* A request that creates something is not a duplicate of another.
LEMMA CreationsAreNew ==
  ASSUME NEW q \in Requests, req[q].route \in Creations, ~HasRow(q)
  PROVE  RowsLike(q) = {}
  BY DEF RowsLike, SameKey, HasRow, Creations, CollateralRoutes

\* What is refused when it enqueues has left nothing.
LEMMA DuplicateUntouched ==
  ASSUME StageInv, NEW q \in Requests, req[q].pc \in {"check", "row"}, RowsLike(q) # {}
  PROVE  Untouched(q)
  <1>1. Reached(q) /\ Backed(q) /\ ~HasRow(q) /\ req[q].route \in Routes \ Rowless
    BY DEF StageInv, Reached
  <1>2. q \notin db.created
    BY <1>1, CreationsAreNew DEF Reached
  <1>3. q \notin db.evidence
    BY <1>1 DEF Backed, Complete
  <1> QED BY <1>1, <1>2, <1>3 DEF Backed, Untouched

LEMMA StageCheckDedupe ==
  ASSUME TypeInv, StageInv, NEW q \in Requests, CheckDedupe(q) PROVE StageInv'
  <1>1. Reached(q) /\ Backed(q) /\ req[q].pc = "check"
    BY DEF StageInv, CheckDedupe
  <1>2. CASE Statement(q, db)
    <2>1. ASSUME db' = db, Moved(q), store' = store
          PROVE  /\ \A i \in Requests \ {q} : Alone(i)
                 /\ Backed(q)'
                 /\ req'[q].pc = After(q) => Reached(q)'
      <3>1. \A i \in Requests \ {q} : Alone(i)
        BY <2>1 DEF Alone, Moved
      <3>2. Backed(q)'
        BY <1>1, <2>1 DEF Moved, Backed, Complete, HasRow
      <3>3. req'[q].pc = After(q) => Reached(q)'
        BY <1>1, <2>1 DEF Moved, After, Reached, HasRow
      <3> QED BY <3>1, <3>2, <3>3
    <2> QED BY <1>2, <2>1, StatementStage
  <1>3. CASE Unfinished(q) # {} /\ Reject(q)
    <2>1. Untouched(q)
      BY <1>1, <1>3, DuplicateUntouched DEF Unfinished
    <2> QED BY <1>3, <2>1, EndStage DEF Reject, End
  <1> QED BY <1>2, <1>3 DEF CheckDedupe

LEMMA StageInsertRow ==
  ASSUME TypeInv, StageInv, NEW q \in Requests, InsertRow(q) PROVE StageInv'
  <1> DEFINE d == [db EXCEPT !.outbox[q] = "pending"]
  <1>1. Reached(q) /\ Backed(q) /\ req[q].pc = "row" /\ ~HasRow(q)
          /\ req[q].route \in Routes \ Rowless
          /\ (q \in db.created <=> req[q].route \in Creations)
    BY DEF StageInv, InsertRow, Reached
  <1>2. CASE Statement(q, d)
    <2>1. ASSUME db' = d, Moved(q), store' = store
          PROVE  /\ \A i \in Requests \ {q} : Alone(i)
                 /\ Backed(q)'
                 /\ req'[q].pc = After(q) => Reached(q)'
      <3>1. /\ db'.outbox[q] = "pending"
            /\ \A i \in Requests \ {q} : db'.outbox[i] = db.outbox[i]
            /\ db'.created = db.created /\ db'.ready = db.ready /\ db'.cover = db.cover
            /\ db'.positions = db.positions /\ db'.wallets = db.wallets
            /\ db'.evidence = db.evidence
        BY <2>1 DEF TypeInv, Tables
      <3>2. \A i \in Requests \ {q} : Alone(i)
        BY <2>1, <3>1 DEF Alone, Moved
      <3>3. q \notin db.cover /\ q \notin db.evidence /\ (\A p \in db.positions : p.amount # q)
        BY <1>1 DEF Backed, Complete
      <3>4. HasRow(q)'
        BY <3>1 DEF HasRow
      <3>5. Backed(q)'
        BY <1>1, <2>1, <3>1, <3>3, <3>4 DEF Backed, Moved
      <3>6. req'[q].pc = After(q) => Reached(q)'
        BY <1>1, <2>1, <3>1, <3>3, <3>4
           DEF Moved, After, Reached, Complete, Rowless, Creations, CollateralRoutes, Routes
      <3> QED BY <3>2, <3>5, <3>6
    <2> QED BY <1>2, <2>1, StatementStage
  <1>3. CASE Duplicates(q) # {} /\ Reject(q)
    <2>1. Untouched(q)
      BY <1>1, <1>3, DuplicateUntouched DEF Duplicates, Unfinished
    <2> QED BY <1>3, <2>1, EndStage DEF Reject, End
  <1> QED BY <1>2, <1>3 DEF InsertRow

LEMMA StageUpsertPosition ==
  ASSUME TypeInv, StageInv, NEW q \in Requests, UpsertPosition(q) PROVE StageInv'
  <1> DEFINE p == [vault |-> req[q].target, lender |-> req[q].account, amount |-> q]
             d == [db EXCEPT !.positions =
                     {o \in @ : o.vault # p.vault \/ o.lender # p.lender} \cup {p}]
  <1>1. Reached(q) /\ Backed(q) /\ req[q].pc = "effect" /\ req[q].route = "deposit" /\ HasRow(q)
    BY DEF StageInv, UpsertPosition, Reached, Rowless
  <1>2. CASE Statement(q, d)
    <2>1. ASSUME db' = d, Moved(q), store' = store
          PROVE  /\ \A i \in Requests \ {q} : Alone(i)
                 /\ Backed(q)'
                 /\ req'[q].pc = After(q) => Reached(q)'
      <3>1. /\ db'.positions = {o \in db.positions : o.vault # p.vault \/ o.lender # p.lender}
                                 \cup {p}
            /\ db'.ready = db.ready /\ db'.created = db.created /\ db'.outbox = db.outbox
            /\ db'.cover = db.cover /\ db'.wallets = db.wallets /\ db'.evidence = db.evidence
        BY <2>1 DEF TypeInv, Tables
      <3>2. p.amount = q /\ p.vault = req[q].target /\ p.lender = req[q].account
        OBVIOUS
      <3> HIDE DEF p
      <3>3. \A i \in Requests \ {q} : Alone(i)
        BY <2>1, <3>1, <3>2 DEF Alone, Moved
      <3>4. HasRow(q)' /\ (Complete(q) => Complete(q)')
        BY <1>1, <2>1, <3>1 DEF HasRow, Complete, Moved
      <3>5. \A o \in db'.positions :
              o.amount = q => req[q].target = o.vault /\ req[q].account = o.lender
        BY <1>1, <3>1, <3>2 DEF Backed
      <3>6. Backed(q)'
        BY <1>1, <2>1, <3>1, <3>4, <3>5 DEF Backed, Moved, Creations, CollateralRoutes, Rowless
      <3>7. req'[q].pc = After(q) => Reached(q)'
        BY <1>1, <2>1, <3>1, <3>4
           DEF Moved, After, Reached, Backed, Complete, Rowless, Creations, CollateralRoutes,
               Routes
      <3> QED BY <3>3, <3>6, <3>7
    <2> QED BY <1>2, <2>1, StatementStage
  <1>3. CASE BreakOff(q)
    BY <1>3, EndStage DEF BreakOff, End
  <1> QED BY <1>2, <1>3 DEF UpsertPosition

LEMMA StageAppendCoverLedger ==
  ASSUME TypeInv, StageInv, NEW q \in Requests, AppendCoverLedger(q) PROVE StageInv'
  <1> DEFINE d == [db EXCEPT !.cover = @ \cup {q}]
  <1>1. Reached(q) /\ Backed(q) /\ req[q].pc = "effect" /\ req[q].route \in CollateralRoutes
          /\ HasRow(q) /\ q \notin db.evidence
    BY DEF StageInv, AppendCoverLedger, Reached, Rowless, CollateralRoutes
  <1>2. CASE Statement(q, d)
    <2>1. ASSUME db' = d, Moved(q), store' = store
          PROVE  /\ \A i \in Requests \ {q} : Alone(i)
                 /\ Backed(q)'
                 /\ req'[q].pc = After(q) => Reached(q)'
      <3>1. /\ db'.cover = db.cover \cup {q}
            /\ db'.ready = db.ready /\ db'.created = db.created /\ db'.outbox = db.outbox
            /\ db'.positions = db.positions /\ db'.wallets = db.wallets
            /\ db'.evidence = db.evidence
        BY <2>1 DEF TypeInv, Tables
      <3>2. \A i \in Requests \ {q} : Alone(i)
        BY <2>1, <3>1 DEF Alone, Moved
      <3>3. HasRow(q)'
        BY <1>1, <3>1 DEF HasRow
      <3>4. Backed(q)'
        BY <1>1, <2>1, <3>1, <3>3 DEF Backed, Moved
      <3>5. req'[q].pc = After(q) => Reached(q)'
        BY <1>1, <2>1, <3>1, <3>3
           DEF Moved, After, Reached, Complete, Rowless, Creations, CollateralRoutes, Routes
      <3> QED BY <3>2, <3>4, <3>5
    <2> QED BY <1>2, <2>1, StatementStage
  <1>3. CASE BreakOff(q)
    BY <1>3, EndStage DEF BreakOff, End
  <1> QED BY <1>2, <1>3 DEF AppendCoverLedger

LEMMA StageInsertWallet ==
  ASSUME TypeInv, StageInv, NEW q \in Requests, InsertWallet(q) PROVE StageInv'
  <1> DEFINE d == [db EXCEPT !.wallets = @ \cup {q}]
  <1>1. Reached(q) /\ Backed(q) /\ req[q].pc = "effect" /\ req[q].route = "borrower"
          /\ ~HasRow(q) /\ q \in db.created /\ q \notin db.evidence
    BY DEF StageInv, InsertWallet, Reached, Rowless, Creations
  <1>2. CASE Statement(q, d)
    <2>1. ASSUME db' = d, Moved(q), store' = store
          PROVE  /\ \A i \in Requests \ {q} : Alone(i)
                 /\ Backed(q)'
                 /\ req'[q].pc = After(q) => Reached(q)'
      <3>1. /\ db'.wallets = db.wallets \cup {q}
            /\ db'.ready = db.ready /\ db'.created = db.created /\ db'.outbox = db.outbox
            /\ db'.cover = db.cover /\ db'.positions = db.positions
            /\ db'.evidence = db.evidence
        BY <2>1 DEF TypeInv, Tables
      <3>2. \A i \in Requests \ {q} : Alone(i)
        BY <2>1, <3>1 DEF Alone, Moved
      <3>3. ~HasRow(q)'
        BY <1>1, <3>1 DEF HasRow
      <3>4. q \notin db.cover /\ (\A o \in db.positions : o.amount # q)
        BY <1>1 DEF Backed
      <3>5. Backed(q)'
        BY <1>1, <2>1, <3>1, <3>3, <3>4 DEF Backed, Moved
      <3>6. req'[q].pc = After(q) => Reached(q)'
        BY <1>1, <2>1, <3>1, <3>3, <3>4
           DEF Moved, After, Reached, Complete, Rowless, Creations, CollateralRoutes, Routes
      <3> QED BY <3>2, <3>5, <3>6
    <2> QED BY <1>2, <2>1, StatementStage
  <1>3. CASE BreakOff(q)
    BY <1>3, EndStage DEF BreakOff, End
  <1> QED BY <1>2, <1>3 DEF InsertWallet

LEMMA StageLinkAuthUser ==
  ASSUME TypeInv, StageInv, NEW q \in Requests, LinkAuthUser(q) PROVE StageInv'
  <1> DEFINE l == [party |-> req[q].target, user |-> req[q].account]
             d == [db EXCEPT !.links = {o \in db.links : o.party # l.party} \cup {l}]
  <1>1. Reached(q) /\ Backed(q) /\ req[q].pc = "effect" /\ req[q].route = "link"
          /\ ~HasRow(q) /\ q \notin db.created /\ q \notin db.evidence
    BY DEF StageInv, LinkAuthUser, Reached, Rowless, Creations
  <1>2. CASE Statement(q, d)
    <2>1. ASSUME db' = d, Moved(q), store' = store
          PROVE  /\ \A i \in Requests \ {q} : Alone(i)
                 /\ Backed(q)'
                 /\ req'[q].pc = After(q) => Reached(q)'
      <3>1. /\ db'.ready = db.ready /\ db'.created = db.created /\ db'.outbox = db.outbox
            /\ db'.cover = db.cover /\ db'.positions = db.positions
            /\ db'.wallets = db.wallets /\ db'.evidence = db.evidence
        BY <2>1 DEF TypeInv, Tables
      <3> HIDE DEF d
      <3>2. \A i \in Requests \ {q} : Alone(i)
        BY <2>1, <3>1 DEF Alone, Moved
      <3>3. ~HasRow(q)'
        BY <1>1, <3>1 DEF HasRow
      <3>4. Backed(q)'
        BY <1>1, <2>1, <3>1, <3>3 DEF Backed, Moved
      <3>5. req'[q].pc = After(q) => Reached(q)'
        BY <1>1, <2>1, <3>1, <3>3
           DEF Backed, Moved, After, Reached, Complete, Rowless, Creations, CollateralRoutes,
               Routes
      <3> QED BY <3>2, <3>4, <3>5
    <2> QED BY <1>2, <2>1, StatementStage
  <1>3. CASE Reject(q)
    <2>1. Untouched(q)
      BY <1>1 DEF Backed, Untouched
    <2> QED BY <1>3, <2>1, EndStage DEF Reject, End
  <1> QED BY <1>2, <1>3 DEF LinkAuthUser

LEMMA StageAppendEvidence ==
  ASSUME TypeInv, StageInv, NEW q \in Requests, AppendEvidence(q) PROVE StageInv'
  <1> DEFINE d == [db EXCEPT !.evidence = @ \cup {q}]
  <1>1. Reached(q) /\ Backed(q) /\ req[q].pc = "evidence" /\ Complete(q)
    BY DEF StageInv, AppendEvidence, Reached
  <1>2. Statement(q, d)
    BY DEF AppendEvidence
  <1>3. ASSUME db' = d, Moved(q), store' = store
        PROVE  /\ \A i \in Requests \ {q} : Alone(i)
               /\ Backed(q)'
               /\ req'[q].pc = After(q) => Reached(q)'
    <2>1. /\ db'.evidence = db.evidence \cup {q}
          /\ db'.ready = db.ready /\ db'.created = db.created /\ db'.outbox = db.outbox
          /\ db'.cover = db.cover /\ db'.positions = db.positions
          /\ db'.wallets = db.wallets
      BY <1>3 DEF TypeInv, Tables
    <2>2. \A i \in Requests \ {q} : Alone(i)
      BY <1>3, <2>1 DEF Alone, Moved
    <2>3. Complete(q)'
      BY <1>1, <1>3, <2>1 DEF Complete, HasRow, Moved
    <2>4. Backed(q)'
      BY <1>1, <1>3, <2>1, <2>3 DEF Backed, HasRow, Moved
    <2>5. req'[q].pc = After(q) => Reached(q)'
      BY <1>1, <2>1, <2>3 DEF After, Reached
    <2> QED BY <2>2, <2>4, <2>5
  <1> QED BY <1>2, <1>3, StatementStage

LEMMA StageWork ==
  ASSUME TypeInv, StageInv, NEW q \in Requests, Work(q) PROVE StageInv'
  <1> SUFFICES ASSUME NEW i \in Requests PROVE Reached(i)' /\ Backed(i)'
    BY DEF StageInv
  <1>1. Reached(i) /\ Backed(i)
    BY DEF StageInv
  <1>2. /\ db'.outbox[q] # "absent" /\ db.outbox[q] # "absent"
        /\ \A r \in Requests \ {q} : db'.outbox[r] = db.outbox[r]
        /\ db'.ready = db.ready \/ (db'.ready = db.ready \cup {q} /\ req[q].route \in Creations)
        /\ db'.created = db.created /\ db'.cover = db.cover /\ db'.positions = db.positions
        /\ db'.wallets = db.wallets /\ db'.evidence = db.evidence
    <2>1. db \in Tables /\ db.outbox[q] # "absent"
      BY DEF Work, TypeInv
    <2>2. CASE \E s \in Statuses \ {"absent"} : db' = [db EXCEPT !.outbox[q] = s]
      BY <2>1, <2>2 DEF Tables
    <2>3. CASE db' = [db EXCEPT !.outbox[q] = "indexed",
                                !.ready = IF req[q].route \in Creations THEN @ \cup {q} ELSE @]
      BY <2>1, <2>3 DEF Tables
    <2> QED BY <2>2, <2>3 DEF Work, Statuses
  <1>3. store' = store /\ req' = req
    BY DEF Work
  <1>4. CASE i # q
    <2>1. Alone(i)
      BY <1>2, <1>3, <1>4 DEF Alone
    <2> QED BY <1>1, <2>1, AloneStays
  <1>5. CASE i = q
    <2>1. HasRow(q) /\ HasRow(q)'
      BY <1>2 DEF HasRow
    <2>2. (Complete(q) <=> Complete(q)') /\ ~Untouched(q)
      BY <1>2, <1>3, <2>1 DEF Complete, Untouched
    <2>3. Reached(q)'
      BY <1>1, <1>2, <1>3, <1>5, <2>1, <2>2 DEF Reached
    <2>4. Backed(q)'
      BY <1>1, <1>2, <1>3, <1>5, <2>1, <2>2 DEF Backed
    <2> QED BY <1>5, <2>3, <2>4
  <1> QED BY <1>4, <1>5

LEMMA StageCrash ==
  ASSUME TypeInv, StageInv, Crash PROVE StageInv'
  <1> SUFFICES ASSUME NEW i \in Requests PROVE Reached(i)' /\ Backed(i)'
    BY DEF StageInv
  <1>1. Reached(i) /\ Backed(i)
    BY DEF StageInv
  <1>2. db' = db /\ store' = store
    BY DEF Crash
  <1>3. CASE ~InFlight(i)
    <2>1. Alone(i)
      BY <1>2, <1>3 DEF Crash, Alone
    <2> QED BY <1>1, <2>1, AloneStays
  <1>4. CASE InFlight(i)
    <2>1. /\ req'[i].pc = "failed" /\ req'[i].route = req[i].route
          /\ req'[i].target = req[i].target /\ req'[i].account = req[i].account
      BY <1>4 DEF Crash, TypeInv, RequestRecords
    <2>2. Reached(i)'
      BY <2>1 DEF Reached
    <2>3. Backed(i)'
      BY <1>1, <1>2, <2>1 DEF Backed, Complete, HasRow
    <2> QED BY <2>2, <2>3
  <1> QED BY <1>3, <1>4

LEMMA StageNext == TypeInv /\ StageInv /\ [Next]_vars => StageInv'
  <1> SUFFICES ASSUME TypeInv, StageInv, [Next]_vars PROVE StageInv'
    OBVIOUS
  <1>1. ASSUME NEW q \in Requests, RequestStep(q) PROVE StageInv'
    BY <1>1, StageReceive, StageInsert, StageRead, StageCheckDedupe, StageInsertRow,
       StageUpsertPosition, StageAppendCoverLedger, StageInsertWallet, StageLinkAuthUser,
       StageAppendEvidence DEF RequestStep
  <1>2. CASE UNCHANGED <<store, db, req>>
    <2>1. \A i \in Requests : Alone(i)
      BY <1>2 DEF Alone
    <2> QED BY <2>1, AloneStays DEF StageInv
  <1> QED BY <1>1, <1>2, StageWork, StageCrash DEF Next, vars

LEMMA StageImpliesEffectsBacked == TypeInv /\ StageInv => EffectsBacked
  <1> SUFFICES ASSUME TypeInv, StageInv PROVE EffectsBacked
    OBVIOUS
  <1>1. ASSUME NEW q \in db.cover \cup {p.amount : p \in db.positions}
        PROVE  db.outbox[q] # "absent"
    <2>1. q \in Requests
      BY <1>1 DEF TypeInv, Tables, Positions
    <2> QED BY <1>1, <2>1 DEF StageInv, Backed, HasRow
  <1>2. \A q \in db.evidence : q \in Requests /\ Complete(q)
    BY DEF TypeInv, Tables, StageInv, Backed
  <1> QED BY <1>1, <1>2 DEF EffectsBacked, Complete, HasRow, Rowless

LEMMA StageImpliesRefusedOrDone == StageInv => RefusedOrDone
  BY DEF StageInv, Reached, Complete, Untouched, HasRow, Rowless, RefusedOrDone

----------------------------------------------------------------------------
(* Dedupe keys.                                                             *)

MayExecute(q) == db.outbox[q] \in {"pending", "manual_review"}

Alike(p, q) == p # q /\ HasRow(p) /\ HasRow(q) /\ SameKey(p, q)

KeyInv ==
    \A p, q \in Requests :
        Alike(p, q) => store = "memory" /\ ~(MayExecute(p) /\ MayExecute(q))

LEMMA SameKeySymmetric ==
  ASSUME NEW p \in Requests, NEW q \in Requests, SameKey(p, q) PROVE SameKey(q, p)
  BY DEF SameKey

LEMMA KeyInit == Init => KeyInv
  <1> SUFFICES ASSUME Init, NEW p \in Requests, NEW q \in Requests, Alike(p, q) PROVE FALSE
    BY DEF KeyInv
  <1>1. PICK load \in Workloads :
          /\ db = RowsAfter(load.past)
          /\ req = [i \in Requests |->
                     IF i \in DOMAIN load.past
                     THEN [NotMade EXCEPT !.pc = "done", !.route = load.past[i],
                                          !.target = IF load.past[i] = "broker" THEN 1 ELSE 0]
                     ELSE NotMade]
    BY DEF Init
  <1>2. PICK n \in 0..2 : load.past \in [1..n -> Creations] /\ 1..n \subseteq Requests
    BY RequestsAssumption
  <1>3. p \in 1..n
    BY <1>1, <1>2 DEF Alike, HasRow, RowsAfter, NoRows
  <1>4. req[p].route \in Creations
    BY <1>1, <1>2, <1>3 DEF NotMade
  <1> QED BY <1>4 DEF Alike, SameKey, Creations, CollateralRoutes

\* No row is added, none may execute again, and the key of a row stays.
LEMMA KeyQuiet ==
  ASSUME KeyInv, store' = store,
         ASSUME NEW i \in Requests, HasRow(i)'
         PROVE  /\ HasRow(i) /\ (MayExecute(i)' => MayExecute(i))
                /\ req'[i].route = req[i].route /\ req'[i].target = req[i].target
                /\ req'[i].account = req[i].account /\ req'[i].at = req[i].at
  PROVE  KeyInv'
  <1> SUFFICES ASSUME NEW p \in Requests, NEW q \in Requests, Alike(p, q)'
               PROVE  store' = "memory" /\ ~(MayExecute(p)' /\ MayExecute(q)')
    BY DEF KeyInv
  <1>1. HasRow(p)' /\ HasRow(q)' /\ p # q /\ SameKey(p, q)'
    BY DEF Alike
  <1>2. SameKey(p, q)
    BY <1>1 DEF SameKey
  <1>3. Alike(p, q)
    BY <1>1, <1>2 DEF Alike
  <1> QED BY <1>1, <1>3 DEF KeyInv

LEMMA KeyGoto ==
  ASSUME TypeInv, KeyInv, NEW q \in Requests, NEW p, Goto(q, p), store' = store,
         db'.outbox = db.outbox
  PROVE  KeyInv'
  <1>1. Moved(q)
    BY GotoMoves
  <1> QED BY <1>1, KeyQuiet DEF Moved, HasRow, MayExecute

\* A statement that leaves the outbox alone.
LEMMA KeyStatement ==
  ASSUME TypeInv, KeyInv, NEW q \in Requests, NEW d, Statement(q, d), d.outbox = db.outbox
  PROVE  KeyInv'
  BY KeyGoto DEF Statement

LEMMA KeyEnd ==
  ASSUME TypeInv, KeyInv, NEW q \in Requests, Reject(q) \/ BreakOff(q)
  PROVE  KeyInv'
  BY KeyGoto DEF Reject, BreakOff, End

\* Receive, Read: the key of a request that has no row may change.
LEMMA KeyUnborn ==
  ASSUME TypeInv, StageInv, KeyInv, NEW q \in Requests, Receive(q) \/ Read(q)
  PROVE  KeyInv'
  <1>1. ~HasRow(q)
    BY DEF StageInv, Reached, Untouched, Receive, Read, NotMade
  <1>2. db' = db /\ store' = store /\ \A i \in Requests \ {q} : req'[i] = req[i]
    BY DEF Receive, Read, Become, Goto, TypeInv
  <1> QED BY <1>1, <1>2, KeyQuiet DEF HasRow, MayExecute

LEMMA KeyInsertRow ==
  ASSUME TypeInv, StageInv, KeyInv, NEW q \in Requests, InsertRow(q)
  PROVE  KeyInv'
  <1> DEFINE d == [db EXCEPT !.outbox[q] = "pending"]
  <1>1. CASE Reject(q) \/ (Statement(q, d) /\ db' = db)
    BY <1>1, KeyEnd, KeyGoto DEF Statement
  <1>2. CASE Duplicates(q) = {} /\ Statement(q, d) /\ db' = d
    <2>1. Moved(q) /\ store' = store
      BY <1>2, GotoMoves DEF Statement
    <2>2. \A i \in Requests \ {q} : db'.outbox[i] = db.outbox[i]
      BY <1>2 DEF TypeInv, Tables
    <2>3. ASSUME NEW p \in Requests \ {q}, HasRow(p), SameKey(p, q)
          PROVE  store = "memory" /\ ~MayExecute(p)
      <3>1. p \in RowsLike(q)
        BY <2>3 DEF RowsLike, HasRow
      <3>2. store \in {"pg", "memory"}
        BY RequestsAssumption DEF TypeInv
      <3> QED BY <1>2, <3>1, <3>2 DEF Duplicates, Unfinished, DoneStatuses, MayExecute
    <2> SUFFICES ASSUME NEW p1 \in Requests, NEW p2 \in Requests, Alike(p1, p2)'
                 PROVE  store' = "memory" /\ ~(MayExecute(p1)' /\ MayExecute(p2)')
      BY DEF KeyInv
    <2>4. SameKey(p1, p2) /\ p1 # p2
      BY <2>1 DEF Alike, SameKey, Moved
    <2>5. ASSUME NEW i \in Requests \ {q}
          PROVE  (HasRow(i)' <=> HasRow(i)) /\ (MayExecute(i)' <=> MayExecute(i))
      BY <2>2 DEF HasRow, MayExecute
    <2>6. CASE p1 # q /\ p2 # q
      BY <2>1, <2>4, <2>5, <2>6 DEF Alike, KeyInv
    <2>7. CASE p2 = q
      BY <2>1, <2>3, <2>4, <2>5, <2>7 DEF Alike
    <2>8. CASE p1 = q
      BY <2>1, <2>3, <2>4, <2>5, <2>8, SameKeySymmetric DEF Alike
    <2> QED BY <2>6, <2>7, <2>8
  <1> QED BY <1>1, <1>2 DEF InsertRow, Statement

LEMMA KeyWork ==
  ASSUME TypeInv, KeyInv, NEW q \in Requests, Work(q) PROVE KeyInv'
  <1>1. /\ HasRow(q) /\ (MayExecute(q)' => MayExecute(q))
        /\ \A i \in Requests \ {q} : db'.outbox[i] = db.outbox[i]
    <2>1. db \in Tables /\ db.outbox[q] # "absent"
      BY DEF Work, TypeInv
    <2>2. CASE db.outbox[q] = "pending"
      BY <2>1, <2>2 DEF Work, Tables, HasRow, MayExecute
    <2>3. CASE db' = [db EXCEPT !.outbox[q] = "indexed",
                                !.ready = IF req[q].route \in Creations THEN @ \cup {q} ELSE @]
      BY <2>1, <2>3 DEF Tables, HasRow, MayExecute
    <2>4. CASE db' = [db EXCEPT !.outbox[q] = "reconciled"]
      BY <2>1, <2>4 DEF Tables, HasRow, MayExecute
    <2> QED BY <2>2, <2>3, <2>4 DEF Work
  <1>2. store' = store /\ req' = req
    BY DEF Work
  <1> QED BY <1>1, <1>2, KeyQuiet DEF HasRow, MayExecute

LEMMA KeyCrash ==
  ASSUME TypeInv, KeyInv, Crash PROVE KeyInv'
  <1>1. db' = db /\ store' = store
    BY DEF Crash
  <1>2. ASSUME NEW i \in Requests
        PROVE  /\ req'[i].route = req[i].route /\ req'[i].target = req[i].target
               /\ req'[i].account = req[i].account /\ req'[i].at = req[i].at
    BY DEF Crash, TypeInv, RequestRecords
  <1> QED BY <1>1, <1>2, KeyQuiet DEF HasRow, MayExecute

LEMMA KeyNext == TypeInv /\ StageInv /\ KeyInv /\ [Next]_vars => KeyInv'
  <1> SUFFICES ASSUME TypeInv, StageInv, KeyInv, [Next]_vars PROVE KeyInv'
    OBVIOUS
  <1>1. ASSUME NEW q \in Requests, RequestStep(q) PROVE KeyInv'
    <2>1. CASE Insert(q)
      <3>1. [db EXCEPT !.created = @ \cup {q}].outbox = db.outbox
        BY DEF TypeInv, Tables
      <3> QED BY <2>1, <3>1, KeyStatement, KeyEnd DEF Insert
    <2>2. CASE CheckDedupe(q)
      BY <2>2, KeyStatement, KeyEnd DEF CheckDedupe
    <2>3. CASE UpsertPosition(q)
      <3>1. ASSUME NEW s PROVE [db EXCEPT !.positions = s].outbox = db.outbox
        BY DEF TypeInv, Tables
      <3> QED BY <2>3, <3>1, KeyStatement, KeyEnd DEF UpsertPosition
    <2>4. CASE AppendCoverLedger(q)
      <3>1. [db EXCEPT !.cover = @ \cup {q}].outbox = db.outbox
        BY DEF TypeInv, Tables
      <3> QED BY <2>4, <3>1, KeyStatement, KeyEnd DEF AppendCoverLedger
    <2>5. CASE InsertWallet(q)
      <3>1. [db EXCEPT !.wallets = @ \cup {q}].outbox = db.outbox
        BY DEF TypeInv, Tables
      <3> QED BY <2>5, <3>1, KeyStatement, KeyEnd DEF InsertWallet
    <2>6. CASE LinkAuthUser(q)
      <3>1. ASSUME NEW s PROVE [db EXCEPT !.links = s].outbox = db.outbox
        BY DEF TypeInv, Tables
      <3> QED BY <2>6, <3>1, KeyStatement, KeyEnd DEF LinkAuthUser
    <2>7. CASE AppendEvidence(q)
      <3>1. [db EXCEPT !.evidence = @ \cup {q}].outbox = db.outbox
        BY DEF TypeInv, Tables
      <3> QED BY <2>7, <3>1, KeyStatement DEF AppendEvidence
    <2> QED BY <1>1, <2>1, <2>2, <2>3, <2>4, <2>5, <2>6, <2>7, KeyUnborn, KeyInsertRow
            DEF RequestStep
  <1>2. CASE UNCHANGED <<store, db, req>>
    BY <1>2, KeyQuiet DEF HasRow, MayExecute
  <1> QED BY <1>1, <1>2, KeyWork, KeyCrash DEF Next, vars

LEMMA KeyImpliesOneRow == KeyInv => OneRow
  BY DEF KeyInv, Alike, MayExecute, OneRow, RowsLike, HasRow

LEMMA KeyImpliesPositionIsDeposit == TypeInv /\ StageInv /\ KeyInv => PositionIsDeposit
  <1> SUFFICES ASSUME TypeInv, StageInv, KeyInv, NEW p \in db.positions, store = "pg"
               PROVE  {q \in Requests :
                         /\ db.outbox[q] # "absent" /\ req[q].route = "deposit"
                         /\ req[q].target = p.vault /\ req[q].account = p.lender} = {p.amount}
    BY DEF PositionIsDeposit
  <1>1. p.amount \in Requests
    BY DEF TypeInv, Tables, Positions
  <1>2. /\ HasRow(p.amount) /\ req[p.amount].route = "deposit"
        /\ req[p.amount].target = p.vault /\ req[p.amount].account = p.lender
    BY <1>1 DEF StageInv, Backed
  <1>3. ASSUME NEW q \in Requests, HasRow(q), req[q].route = "deposit",
               req[q].target = p.vault, req[q].account = p.lender
        PROVE  q = p.amount
    <2>1. SameKey(q, p.amount)
      BY <1>2, <1>3 DEF SameKey
    <2> QED BY <1>1, <1>2, <1>3, <2>1 DEF KeyInv, Alike
  <1> QED BY <1>1, <1>2, <1>3 DEF HasRow

----------------------------------------------------------------------------
(* The rate limiter.                                                        *)

Admissions == [key : Keys, at : Nat, windowStart : Nat, count : Nat]
Open(b) == {k \in Keys : b[k] # NoBucket}

\* The buckets b say as much as there is to know of what was admitted: an admission
\* of another window than its key's is a window old, one of the same was counted.
Counts(b) ==
    /\ b \in [Keys -> [windowStart : Nat, count : Nat]]
    /\ IsFiniteSet(Open(b)) /\ Cardinality(Open(b)) <= MaxBuckets
    /\ \A k \in Open(b) : b[k].count \in 1..Quota /\ b[k].windowStart <= now
    /\ \A a \in admitted :
         IF b[a.key] = NoBucket THEN a.windowStart + WindowMs <= now
         ELSE \/ a.windowStart + WindowMs <= b[a.key].windowStart
              \/ a.windowStart = b[a.key].windowStart /\ a.count <= b[a.key].count

\* Admissions of a key have windows that do not overlap, or the same window and
\* different counts.
Apart(a, c) ==
    \/ a.windowStart + WindowMs <= c.windowStart
    \/ c.windowStart + WindowMs <= a.windowStart
    \/ a.windowStart = c.windowStart /\ a.count # c.count

AdmittedInv ==
    /\ admitted \subseteq Admissions
    /\ \A a \in admitted :
         /\ a.count \in 1..Quota
         /\ a.windowStart <= a.at /\ a.at < a.windowStart + WindowMs /\ a.at <= now
    /\ \A a, c \in admitted : a.key = c.key => a = c \/ Apart(a, c)

RateInv == now \in Nat /\ lastCleanup \in Nat /\ Counts(buckets) /\ AdmittedInv

LEMMA NoBucketsCount ==
  ASSUME NEW b, b = [k \in Keys |-> NoBucket], admitted = {}
  PROVE  Counts(b)
  <1>1. Open(b) = {}
    BY DEF Open
  <1>2. IsFiniteSet({}) /\ Cardinality({}) = 0
    BY FS_EmptySet
  <1>3. NoBucket \in [windowStart : Nat, count : Nat]
    BY DEF NoBucket
  <1> QED BY <1>1, <1>2, <1>3, RateLimitAssumption DEF Counts

LEMMA RateInitInv == Init => RateInv
  <1> SUFFICES ASSUME Init PROVE RateInv
    OBVIOUS
  <1>1. RateInit
    BY DEF Init
  <1>2. Counts(buckets)
    BY <1>1, NoBucketsCount DEF RateInit
  <1> QED BY <1>1, <1>2 DEF RateInit, RateInv, AdmittedInv

LEMMA CleanedUpCounts ==
  ASSUME RateInv PROVE Counts(CleanedUp)
  <1> DEFINE b == CleanedUp
  <1>1. ASSUME NEW k \in Keys
        PROVE  b[k] = buckets[k] \/ (b[k] = NoBucket /\ now - buckets[k].windowStart >= 2 * WindowMs)
    BY DEF CleanedUp
  <1>2. b \in [Keys -> [windowStart : Nat, count : Nat]]
    BY DEF CleanedUp, NoBucket, RateInv, Counts
  <1>3. IsFiniteSet(Open(b)) /\ Cardinality(Open(b)) <= MaxBuckets
    <2>1. Open(b) \subseteq Open(buckets)
      BY <1>1 DEF Open
    <2>2. /\ IsFiniteSet(Open(buckets)) /\ Cardinality(Open(buckets)) <= MaxBuckets
      BY DEF RateInv, Counts
    <2>3. /\ IsFiniteSet(Open(b)) /\ Cardinality(Open(b)) <= Cardinality(Open(buckets))
      BY <2>1, <2>2, FS_Subset
    <2>4. Cardinality(Open(b)) \in Nat /\ Cardinality(Open(buckets)) \in Nat
      BY <2>2, <2>3, FS_CardinalityType
    <2> QED BY <2>2, <2>3, <2>4, RateLimitAssumption
  <1>4. \A k \in Open(b) : b[k].count \in 1..Quota /\ b[k].windowStart <= now
    BY <1>1 DEF Open, RateInv, Counts
  <1>5. ASSUME NEW a \in admitted
        PROVE  IF b[a.key] = NoBucket THEN a.windowStart + WindowMs <= now
               ELSE \/ a.windowStart + WindowMs <= b[a.key].windowStart
                    \/ a.windowStart = b[a.key].windowStart /\ a.count <= b[a.key].count
    <2>1. a.key \in Keys /\ a.windowStart \in Nat /\ a.count \in Nat
      BY DEF RateInv, AdmittedInv, Admissions
    <2>2. buckets[a.key].windowStart \in Nat /\ now \in Nat /\ WindowMs \in Nat
      BY <2>1, RateLimitAssumption DEF RateInv, Counts
    <2>3. IF buckets[a.key] = NoBucket THEN a.windowStart + WindowMs <= now
          ELSE \/ a.windowStart + WindowMs <= buckets[a.key].windowStart
               \/ a.windowStart = buckets[a.key].windowStart /\ a.count <= buckets[a.key].count
      BY DEF RateInv, Counts
    <2>4. CASE b[a.key] = buckets[a.key]
      BY <2>3, <2>4
    <2>5. CASE b[a.key] = NoBucket /\ now - buckets[a.key].windowStart >= 2 * WindowMs
      BY <2>1, <2>2, <2>3, <2>5
    <2> QED BY <1>1, <2>1, <2>4, <2>5
  <1> HIDE DEF b
  <1>6. Counts(b)
    BY <1>2, <1>3, <1>4, <1>5 DEF Counts
  <1> QED BY <1>6 DEF b

LEMMA RateCheck ==
  ASSUME RateInv, NEW k \in Keys, NEW allowed \in BOOLEAN, Check(k, allowed)
  PROVE  RateInv'
  <1> DEFINE b == CleanedUp
  <1>1. Counts(b)
    BY CleanedUpCounts
  <1>2. now' = now /\ lastCleanup' \in Nat /\ now \in Nat /\ WindowMs \in Nat \ {0} /\ Max \in Nat
          /\ MaxBuckets \in Nat
    BY RateLimitAssumption DEF Check, RateInv
  <1>3. CASE ~allowed
    <2>1. buckets' = b /\ admitted' = admitted
      BY <1>3 DEF Check
    <2> HIDE DEF b
    <2>2. Counts(buckets)'
      BY <1>1, <1>2, <2>1 DEF Counts, Open
    <2> QED BY <1>2, <2>1, <2>2 DEF RateInv, AdmittedInv, Apart
  <1>4. CASE allowed
    <2> DEFINE c == Counted(b, k)
               e == [key |-> k, at |-> now, windowStart |-> c.windowStart, count |-> c.count]
    <2>1. /\ buckets' = [b EXCEPT ![k] = c] /\ admitted' = admitted \cup {e}
          /\ ~TableFull(b, k) /\ (NewWindow(b, k) \/ b[k].count < Max)
      BY <1>4 DEF Check, Allowed
    <2> HIDE DEF b
    <2>2. b[k] \in [windowStart : Nat, count : Nat]
      BY <1>1 DEF Counts
    <2>3. /\ c \in [windowStart : Nat, count : Nat] /\ c.count \in 1..Quota
          /\ c.windowStart <= now /\ now < c.windowStart + WindowMs
      <3>1. CASE NewWindow(b, k)
        <4>1. c = [windowStart |-> now, count |-> 1]
          BY <3>1 DEF Counted
        <4>2. 1 \in 1..Quota
          BY <1>2 DEF Quota
        <4> QED BY <1>2, <4>1, <4>2
      <3>2. CASE ~NewWindow(b, k)
        <4>1. c.windowStart = b[k].windowStart /\ c.count = b[k].count + 1
                /\ c \in [windowStart : Nat, count : Nat]
          BY <2>2, <3>2 DEF Counted
        <4>2. b[k].count \in 1..Quota /\ b[k].windowStart <= now
          BY <1>1, <3>2 DEF Counts, Open, NewWindow
        <4>3. now - b[k].windowStart < WindowMs
          BY <1>2, <2>2, <3>2 DEF NewWindow
        <4>4. b[k].count < Max
          BY <2>1, <3>2
        <4> QED BY <1>2, <2>2, <4>1, <4>2, <4>3, <4>4 DEF Quota
      <3> QED BY <3>1, <3>2
    <2>4. ASSUME NEW a \in admitted, a.key = k
          PROVE  \/ a.windowStart + WindowMs <= c.windowStart
                 \/ a.windowStart = c.windowStart /\ a.count < c.count
      <3>1. a.windowStart \in Nat /\ a.count \in Nat
        BY DEF RateInv, AdmittedInv, Admissions
      <3>2. IF b[k] = NoBucket THEN a.windowStart + WindowMs <= now
            ELSE \/ a.windowStart + WindowMs <= b[k].windowStart
                 \/ a.windowStart = b[k].windowStart /\ a.count <= b[k].count
        BY <1>1, <2>4 DEF Counts
      <3>3. CASE b[k] = NoBucket
        BY <3>2, <3>3 DEF Counted, NewWindow
      <3>4. CASE b[k] # NoBucket /\ NewWindow(b, k)
        <4>1. c.windowStart = now
          BY <3>4 DEF Counted
        <4>2. now - b[k].windowStart >= WindowMs
          BY <3>4 DEF NewWindow
        <4> QED BY <1>2, <2>2, <3>1, <3>2, <3>4, <4>1, <4>2
      <3>5. CASE ~NewWindow(b, k)
        <4>1. c.windowStart = b[k].windowStart /\ c.count = b[k].count + 1
          BY <2>2, <3>5 DEF Counted
        <4>2. b[k] # NoBucket
          BY <3>5 DEF NewWindow
        <4> QED BY <2>2, <3>1, <3>2, <4>1, <4>2
      <3> QED BY <3>3, <3>4, <3>5
    <2>5. c # NoBucket
      BY <2>3, <1>2 DEF NoBucket, Quota
    <2>6. e.key = k /\ e.at = now /\ e.windowStart = c.windowStart /\ e.count = c.count
            /\ e \in Admissions
      BY <1>2, <2>3 DEF Admissions
    <2>7. \A j \in Keys : buckets'[j] = IF j = k THEN c ELSE b[j]
      BY <1>1, <2>1 DEF Counts
    <2>8. buckets' \in [Keys -> [windowStart : Nat, count : Nat]]
      BY <1>1, <2>1, <2>3 DEF Counts
    <2> HIDE DEF c, e
    <2>9. IsFiniteSet(Open(buckets')) /\ Cardinality(Open(buckets')) <= MaxBuckets
      <3>1. Open(buckets') = Open(b) \cup {k}
        BY <2>5, <2>7 DEF Open
      <3>2. IsFiniteSet(Open(b)) /\ Cardinality(Open(b)) <= MaxBuckets
        BY <1>1 DEF Counts
      <3>3. Cardinality(Open(b)) \in Nat
        BY <3>2, FS_CardinalityType
      <3>4. CASE k \in Open(b)
        <4>1. Open(b) \cup {k} = Open(b)
          BY <3>4
        <4> QED BY <3>1, <3>2, <4>1
      <3>5. CASE k \notin Open(b)
        <4>1. Cardinality(Open(b)) < MaxBuckets
          BY <1>2, <2>1, <3>3, <3>5 DEF TableFull, Open
        <4>2. IsFiniteSet(Open(b) \cup {k})
                /\ Cardinality(Open(b) \cup {k}) = Cardinality(Open(b)) + 1
          BY <3>2, <3>5, FS_AddElement
        <4> QED BY <1>2, <3>1, <3>3, <4>1, <4>2
      <3> QED BY <3>4, <3>5
    <2>10. ASSUME NEW a \in admitted'
           PROVE  IF buckets'[a.key] = NoBucket THEN a.windowStart + WindowMs <= now
                  ELSE \/ a.windowStart + WindowMs <= buckets'[a.key].windowStart
                       \/ /\ a.windowStart = buckets'[a.key].windowStart
                          /\ a.count <= buckets'[a.key].count
      <3>1. a.key \in Keys /\ a.windowStart \in Nat /\ a.count \in Nat
        BY <2>1, <2>6 DEF RateInv, AdmittedInv, Admissions
      <3>2. CASE a = e
        BY <2>3, <2>5, <2>6, <2>7, <3>2
      <3>3. CASE a \in admitted /\ a.key = k
        BY <2>3, <2>4, <2>5, <2>7, <3>1, <3>3
      <3>4. CASE a \in admitted /\ a.key # k
        BY <1>1, <2>7, <3>1, <3>4 DEF Counts
      <3> QED BY <2>1, <3>2, <3>3, <3>4
    <2>11. \A j \in Open(buckets') : buckets'[j].count \in 1..Quota /\ buckets'[j].windowStart <= now
      BY <1>1, <2>3, <2>7 DEF Counts, Open
    <2>12. Counts(buckets)'
      BY <1>2, <2>8, <2>9, <2>10, <2>11 DEF Counts, Open
    <2>13. AdmittedInv'
      <3>1. admitted' \subseteq Admissions
        BY <2>1, <2>6 DEF RateInv, AdmittedInv
      <3>2. \A a \in admitted' :
              /\ a.count \in 1..Quota
              /\ a.windowStart <= a.at /\ a.at < a.windowStart + WindowMs /\ a.at <= now
        BY <1>2, <2>1, <2>3, <2>6 DEF RateInv, AdmittedInv
      <3>3. ASSUME NEW a \in admitted, a.key = k PROVE Apart(a, e) /\ Apart(e, a)
        <4>1. a.windowStart \in Nat /\ a.count \in Nat
          BY DEF RateInv, AdmittedInv, Admissions
        <4> QED BY <2>3, <2>4, <2>6, <3>3, <4>1 DEF Apart
      <3>4. \A a1, a2 \in admitted' : a1.key = a2.key => a1 = a2 \/ Apart(a1, a2)
        BY <2>1, <2>6, <3>3 DEF RateInv, AdmittedInv
      <3> QED BY <1>2, <3>1, <3>2, <3>4 DEF AdmittedInv, Apart
    <2> QED BY <1>2, <2>12, <2>13 DEF RateInv
  <1> QED BY <1>3, <1>4

LEMMA RateTick ==
  ASSUME RateInv, Tick PROVE RateInv'
  <1>1. now' = now + 1 /\ now \in Nat /\ WindowMs \in Nat /\ UNCHANGED <<buckets, lastCleanup, admitted>>
    BY RateLimitAssumption DEF Tick, RateInv
  <1>2. ASSUME NEW a \in admitted PROVE a.windowStart \in Nat /\ a.at \in Nat
    BY DEF RateInv, AdmittedInv, Admissions
  <1>3. Counts(buckets)'
    <2>1. \A k \in Open(buckets) : buckets[k].windowStart \in Nat /\ buckets[k].windowStart <= now
      BY DEF Open, RateInv, Counts
    <2>2. \A k \in Open(buckets) : buckets[k].count \in 1..Quota /\ buckets[k].windowStart <= now'
      BY <1>1, <2>1 DEF RateInv, Counts
    <2>3. ASSUME NEW a \in admitted, a.windowStart + WindowMs <= now
          PROVE  a.windowStart + WindowMs <= now'
      BY <1>1, <1>2, <2>3
    <2> QED BY <1>1, <2>2, <2>3 DEF RateInv, Counts, Open
  <1>4. AdmittedInv'
    <2>1. ASSUME NEW a \in admitted PROVE a.at <= now'
      BY <1>1, <1>2 DEF RateInv, AdmittedInv
    <2> QED BY <1>1, <2>1 DEF RateInv, AdmittedInv, Apart
  <1> QED BY <1>1, <1>3, <1>4 DEF RateInv

LEMMA RateRestart ==
  ASSUME RateInv, Restart PROVE RateInv'
  <1>1. Counts(buckets)'
    <2>1. buckets' = [k \in Keys |-> NoBucket] /\ admitted' = {}
      BY DEF Restart
    <2>2. Open(buckets') = {}
      BY <2>1 DEF Open
    <2>3. IsFiniteSet({}) /\ Cardinality({}) = 0
      BY FS_EmptySet
    <2>4. NoBucket \in [windowStart : Nat, count : Nat]
      BY DEF NoBucket
    <2> QED BY <2>1, <2>2, <2>3, <2>4, RateLimitAssumption DEF Counts, Open
  <1> QED BY <1>1 DEF Restart, RateInv, AdmittedInv

LEMMA RateNext == TypeInv /\ RateInv /\ [Next]_vars => RateInv'
  <1> SUFFICES ASSUME TypeInv, RateInv, [Next]_vars PROVE RateInv'
    OBVIOUS
  <1>1. ASSUME NEW q \in Requests, Receive(q) PROVE RateInv'
    <2>1. PICK client \in Clients, route \in routes, allowed \in BOOLEAN :
            \E target \in Targets(route) : Check(<<client, route, target>>, allowed)
      BY <1>1 DEF Receive
    <2>2. PICK target \in Targets(route) : Check(<<client, route, target>>, allowed)
      BY <2>1
    <2>3. route \in Routes /\ target \in Requests \cup {0}
      BY DEF TypeInv, Targets, Tables, Routes, Creations, CollateralRoutes
    <2>4. <<client, route, target>> \in Keys
      BY <2>3, RequestsAssumption DEF RequestKeys
    <2> QED BY <2>2, <2>4, RateCheck
  <1>2. CASE UNCHANGED rateVars
    BY <1>2 DEF rateVars, RateInv, Counts, Open, AdmittedInv, Apart
  <1>3. ASSUME NEW q \in Requests, RequestStep(q), ~Receive(q) PROVE UNCHANGED rateVars
    BY <1>3 DEF RequestStep, Insert, Read, CheckDedupe, InsertRow, UpsertPosition,
       AppendCoverLedger, InsertWallet, LinkAuthUser, AppendEvidence, Statement, Reject,
       BreakOff, End
  <1>4. ASSUME NEW q \in Requests, Work(q) PROVE UNCHANGED rateVars
    BY <1>4 DEF Work
  <1>5. CASE Crash
    BY <1>5, RateRestart DEF Crash
  <1> QED BY <1>1, <1>2, <1>3, <1>4, <1>5, RateTick DEF Next, vars

\* The admissions that are less than a window from each other are of two windows.
LEMMA TwoWindows ==
  ASSUME RateInv, NEW k \in Keys, NEW t \in Nat
  PROVE  \E s1, s2 \in Nat : \A a \in AdmittedFrom(k, t) : a.windowStart \in {s1, s2}
  <1> DEFINE A == AdmittedFrom(k, t)
  <1>1. A \subseteq admitted /\ WindowMs \in Nat \ {0}
    BY RateLimitAssumption DEF AdmittedFrom
  <1>2. ASSUME NEW a \in A
        PROVE  a.windowStart \in Nat /\ a.windowStart < t + WindowMs /\ t < a.windowStart + WindowMs
    <2>1. a.at \in Nat /\ a.windowStart \in Nat /\ t <= a.at /\ a.at < t + WindowMs
      BY DEF AdmittedFrom, RateInv, AdmittedInv, Admissions
    <2>2. a.windowStart <= a.at /\ a.at < a.windowStart + WindowMs
      BY <1>1 DEF RateInv, AdmittedInv
    <2> QED BY <1>1, <2>1, <2>2
  <1>3. ASSUME NEW a \in A, NEW c \in A, a.windowStart # c.windowStart
        PROVE  \/ a.windowStart + WindowMs <= c.windowStart
               \/ c.windowStart + WindowMs <= a.windowStart
    BY <1>1, <1>3 DEF AdmittedFrom, RateInv, AdmittedInv, Apart
  <1> HIDE DEF A
  <1>4. CASE \A a, c \in A : a.windowStart = c.windowStart
    <2>1. CASE A = {}
      BY <2>1 DEF A
    <2>2. CASE A # {}
      <3>1. PICK a \in A : TRUE
        BY <2>2
      <3>2. \A c \in A : c.windowStart \in {a.windowStart, a.windowStart}
        BY <1>4
      <3> QED BY <1>2, <3>2 DEF A
    <2> QED BY <2>1, <2>2
  <1>5. ASSUME NEW a \in A, NEW c \in A, a.windowStart # c.windowStart
        PROVE  \A e \in A : e.windowStart \in {a.windowStart, c.windowStart}
    <2> SUFFICES ASSUME NEW e \in A, e.windowStart # a.windowStart, e.windowStart # c.windowStart
                 PROVE  FALSE
      OBVIOUS
    <2>1. /\ a.windowStart \in Nat /\ a.windowStart < t + WindowMs /\ t < a.windowStart + WindowMs
          /\ c.windowStart \in Nat /\ c.windowStart < t + WindowMs /\ t < c.windowStart + WindowMs
          /\ e.windowStart \in Nat /\ e.windowStart < t + WindowMs /\ t < e.windowStart + WindowMs
      BY <1>2
    <2>2. /\ \/ a.windowStart + WindowMs <= c.windowStart
             \/ c.windowStart + WindowMs <= a.windowStart
          /\ \/ a.windowStart + WindowMs <= e.windowStart
             \/ e.windowStart + WindowMs <= a.windowStart
          /\ \/ e.windowStart + WindowMs <= c.windowStart
             \/ c.windowStart + WindowMs <= e.windowStart
      BY <1>3, <1>5
    <2> QED BY <1>1, <2>1, <2>2
  <1> QED BY <1>2, <1>4, <1>5 DEF A

LEMMA PairAtMost ==
  ASSUME NEW x, NEW y
  PROVE  IsFiniteSet({x, y}) /\ Cardinality({x, y}) \in 1..2
  <1>1. IsFiniteSet({x}) /\ Cardinality({x}) = 1
    BY FS_Singleton
  <1>2. /\ IsFiniteSet({x} \cup {y})
        /\ Cardinality({x} \cup {y}) = IF y \in {x} THEN Cardinality({x}) ELSE Cardinality({x}) + 1
    BY <1>1, FS_AddElement
  <1>3. {x} \cup {y} = {x, y}
    OBVIOUS
  <1> QED BY <1>1, <1>2, <1>3

LEMMA RateImpliesQuotaBound == RateInv => QuotaBound
  <1> SUFFICES ASSUME RateInv, NEW a0 \in admitted
               PROVE  Cardinality(AdmittedFrom(a0.key, a0.at)) <= 2 * Quota
    BY DEF QuotaBound
  <1> DEFINE A == AdmittedFrom(a0.key, a0.at)
  <1>1. a0.key \in Keys /\ a0.at \in Nat
    BY DEF RateInv, AdmittedInv, Admissions
  <1>2. PICK s1 \in Nat, s2 \in Nat : \A a \in A : a.windowStart \in {s1, s2}
    BY <1>1, TwoWindows
  <1>3. \A a \in A : a \in admitted /\ a.key = a0.key /\ a.count \in 1..Quota
    BY DEF AdmittedFrom, RateInv, AdmittedInv
  <1> DEFINE T == {s1, s2} \X (1..Quota)
             f == [a \in A |-> <<a.windowStart, a.count>>]
  <1>4. ASSUME NEW a \in A, NEW c \in A, a.windowStart = c.windowStart, a.count = c.count
        PROVE  a = c
    <2>1. a = c \/ Apart(a, c)
      BY <1>3 DEF RateInv, AdmittedInv
    <2>2. a.windowStart \in Nat
      BY <1>3 DEF RateInv, AdmittedInv, Admissions
    <2> QED BY <1>4, <2>1, <2>2, RateLimitAssumption DEF Apart
  <1> HIDE DEF A
  <1>5. f \in Injection(A, T)
    <2>1. f \in [A -> T]
      BY <1>2, <1>3
    <2>2. \A a, c \in A : f[a] = f[c] => a = c
      BY <1>4
    <2> QED BY <2>1, <2>2 DEF Injection, IsInjective
  <1>6. Quota \in Nat \ {0}
    BY RateLimitAssumption DEF Quota
  <1>7. IsFiniteSet(T) /\ Cardinality(T) <= 2 * Quota
    <2>1. IsFiniteSet({s1, s2}) /\ Cardinality({s1, s2}) \in 1..2
      BY PairAtMost
    <2>2. IsFiniteSet(1..Quota) /\ Cardinality(1..Quota) = Quota
      BY <1>6, FS_Interval
    <2>3. IsFiniteSet(T) /\ Cardinality(T) = Cardinality({s1, s2}) * Cardinality(1..Quota)
      BY <2>1, <2>2, FS_Product
    <2>4. CASE Cardinality({s1, s2}) = 1
      BY <1>6, <2>2, <2>3, <2>4
    <2>5. CASE Cardinality({s1, s2}) = 2
      BY <1>6, <2>2, <2>3, <2>5
    <2> QED BY <2>1, <2>4, <2>5
  <1> HIDE DEF T, f
  <1>8. IsFiniteSet(A) /\ Cardinality(A) <= Cardinality(T)
    BY <1>5, <1>7, FS_Injection
  <1>9. Cardinality(A) \in Nat /\ Cardinality(T) \in Nat
    BY <1>7, <1>8, FS_CardinalityType
  <1> QED BY <1>6, <1>7, <1>8, <1>9 DEF A

----------------------------------------------------------------------------
(* The tables' own keys.                                                    *)

TablesInv ==
    /\ \A o, p \in db.positions : o.vault = p.vault /\ o.lender = p.lender => o = p
    /\ \A o, p \in db.links : o.party = p.party => o = p

LEMMA TablesInit == Init => TablesInv
  BY DEF Init, RowsAfter, NoRows, TablesInv

LEMMA TablesNext == TypeInv /\ TablesInv /\ [Next]_vars => TablesInv'
  <1> SUFFICES ASSUME TypeInv, TablesInv, [Next]_vars PROVE TablesInv'
    OBVIOUS
  <1>1. CASE db'.positions = db.positions /\ db'.links = db.links
    BY <1>1 DEF TablesInv
  <1>2. ASSUME NEW q \in Requests, UpsertPosition(q) PROVE TablesInv'
    <2> DEFINE p == [vault |-> req[q].target, lender |-> req[q].account, amount |-> q]
               s == {o \in db.positions : o.vault # p.vault \/ o.lender # p.lender} \cup {p}
    <2>1. (db'.positions = db.positions \/ db'.positions = s) /\ db'.links = db.links
      BY <1>2 DEF UpsertPosition, Statement, BreakOff, End, TypeInv, Tables
    <2> HIDE DEF p
    <2>2. \A o, r \in s : o.vault = r.vault /\ o.lender = r.lender => o = r
      BY DEF TablesInv
    <2> QED BY <2>1, <2>2 DEF TablesInv
  <1>3. ASSUME NEW q \in Requests, LinkAuthUser(q) PROVE TablesInv'
    <2> DEFINE l == [party |-> req[q].target, user |-> req[q].account]
               s == {o \in db.links : o.party # l.party} \cup {l}
    <2>1. (db'.links = db.links \/ db'.links = s) /\ db'.positions = db.positions
      BY <1>3 DEF LinkAuthUser, Statement, Reject, End, TypeInv, Tables
    <2> HIDE DEF l
    <2>2. \A o, r \in s : o.party = r.party => o = r
      BY DEF TablesInv
    <2> QED BY <2>1, <2>2 DEF TablesInv
  <1>4. ASSUME NEW q \in Requests,
               Receive(q) \/ Insert(q) \/ Read(q) \/ CheckDedupe(q) \/ InsertRow(q)
                 \/ AppendCoverLedger(q) \/ InsertWallet(q) \/ AppendEvidence(q)
        PROVE  db'.positions = db.positions /\ db'.links = db.links
    BY <1>4 DEF Receive, Insert, Read, CheckDedupe, InsertRow, AppendCoverLedger, InsertWallet,
                AppendEvidence, Statement, Reject, BreakOff, End, TypeInv, Tables
  <1>5. ASSUME NEW q \in Requests, Work(q)
        PROVE  db'.positions = db.positions /\ db'.links = db.links
    BY <1>5 DEF Work, TypeInv, Tables
  <1> QED BY <1>1, <1>2, <1>3, <1>4, <1>5 DEF Next, RequestStep, Crash, vars

LEMMA InvImpliesRequestTypeOK ==
  TypeInv /\ StageInv /\ RateInv /\ TablesInv => RequestTypeOK
  <1> SUFFICES ASSUME TypeInv, StageInv, RateInv, TablesInv PROVE RequestTypeOK
    OBVIOUS
  <1>1. RateTypeOK
    BY DEF RateInv, Counts, AdmittedInv, Admissions, RateTypeOK
  <1>2. Cardinality({k \in Keys : buckets[k] # NoBucket}) <= MaxBuckets
    BY DEF RateInv, Counts, Open
  <1>3. db.ready \subseteq db.created /\ db.wallets \subseteq db.created
    BY DEF TypeInv, Tables, StageInv, Backed
  <1> QED BY <1>1, <1>2, <1>3 DEF TypeInv, Tables, TablesInv, RequestTypeOK

----------------------------------------------------------------------------
(* The theorems.                                                            *)

Inv == TypeInv /\ StageInv /\ KeyInv /\ TablesInv /\ RateInv

LEMMA InvHolds == Spec => []Inv
  <1>1. Init => Inv
    BY TypeInit, StageInit, KeyInit, TablesInit, RateInitInv DEF Inv
  <1>2. Inv /\ [Next]_vars => Inv'
    BY TypeNext, StageNext, KeyNext, TablesNext, RateNext DEF Inv, RateInv
  <1> QED BY <1>1, <1>2, PTL DEF Spec

\* The tables hold what they may hold, and the rate limiter never has more buckets
\* than MAX_BUCKETS.
THEOREM RequestTypeCorrect == Spec => []RequestTypeOK
  BY InvHolds, InvImpliesRequestTypeOK, PTL DEF Inv

\* A dedupe key never has two rows that may execute, in PostgreSQL no second row,
\* though enqueueTx looks and inserts in two statements.
THEOREM DedupeKeysHaveOneRow == Spec => []OneRow
  BY InvHolds, KeyImpliesOneRow, PTL DEF Inv

\* In PostgreSQL a lender's position tells the amount of the one deposit that is in
\* the outbox.
THEOREM PositionsAreDeposits == Spec => []PositionIsDeposit
  BY InvHolds, KeyImpliesPositionIsDeposit, PTL DEF Inv

\* Cover entries, positions and evidence are never ahead of the outbox, wherever a
\* handler fails or the process dies.
THEOREM EffectsAreBacked == Spec => []EffectsBacked
  BY InvHolds, StageImpliesEffectsBacked, PTL DEF Inv

\* A refused request leaves nothing, an answered one has done everything.
THEOREM RequestsAreAllOrNothing == Spec => []RefusedOrDone
  BY InvHolds, StageImpliesRefusedOrDone, PTL DEF Inv

\* No client gets more than two quotas of a path in any stretch of a window's length,
\* for every window, quota, cleanup interval and number of buckets.
THEOREM QuotasAreBounded == Spec => []QuotaBound
  BY InvHolds, RateImpliesQuotaBound, PTL DEF Inv
=============================================================================
