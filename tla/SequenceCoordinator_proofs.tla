---------------------- MODULE SequenceCoordinator_proofs ----------------------
(* Theorems about SequenceCoordinator, for every number of workers, jobs,   *)
(* retries and faults, and under each of the three coordinators.            *)
EXTENDS SequenceCoordinator, FiniteSetTheorems, TLAPS

----------------------------------------------------------------------------
(* Types.                                                                   *)

Txs == [job : Jobs \cup {NoJob}, attempt : 0..MaxSubmitRetries, seq : Nat]

TypeInv == SequenceTypeOK /\ pool \subseteq Txs

LEMMA MemoriesOfRest == Idle \in WorkerMemories /\ Off \in WorkerMemories
  <1>1. 0 \in 0..MaxSubmitRetries
    BY SequenceAssumption
  <1> QED BY <1>1 DEF Idle, Off, WorkerMemories

LEMMA TypeInit == Init => TypeInv
  <1> SUFFICES ASSUME Init PROVE TypeInv
    OBVIOUS
  <1>1. wk \in [Workers -> WorkerMemories]
    BY MemoriesOfRest DEF Init
  <1> QED BY <1>1 DEF Init, TypeInv, SequenceTypeOK, LedgerInit, NoRow

LEMMA BecomeType ==
  ASSUME TypeInv, NEW w \in Workers, NEW x \in WorkerMemories, Become(w, x)
  PROVE  wk' \in [Workers -> WorkerMemories]
  BY DEF Become, TypeInv, SequenceTypeOK

LEMMA GotoType ==
  ASSUME TypeInv, NEW w \in Workers,
         NEW p \in {"off", "idle", "lock", "fetch", "write", "submit", "caught"}, Goto(w, p)
  PROVE  wk' \in [Workers -> WorkerMemories]
  <1>1. wk[w] \in WorkerMemories
    BY DEF TypeInv, SequenceTypeOK
  <1>2. [wk[w] EXCEPT !.pc = p] \in WorkerMemories
    BY <1>1 DEF WorkerMemories
  <1> QED BY <1>2, BecomeType DEF Goto

LEMMA FaultType ==
  ASSUME TypeInv, NoFault \/ \E kind \in FaultKinds : Fault(kind)
  PROVE  faults' \subseteq FaultKinds
  BY DEF NoFault, Fault, TypeInv, SequenceTypeOK

LEMMA UnlockType ==
  ASSUME TypeInv, NEW w \in Workers, holder' = holder \/ Unlock(w)
  PROVE  holder' \in Workers \cup {Nobody}
  BY DEF Unlock, TypeInv, SequenceTypeOK

LEMMA ReplaceType ==
  ASSUME TypeInv, NEW r \in [seq : Nat, fresh : BOOLEAN],
         Replace(r) \/ UNCHANGED <<row, era>>
  PROVE  row' \in [seq : Nat, fresh : BOOLEAN] /\ era' \in Nat
  BY DEF Replace, TypeInv, SequenceTypeOK

LEMMA ForgetType ==
  ASSUME TypeInv, Replace(NoRow) \/ UNCHANGED <<row, era>>
  PROVE  row' \in [seq : Nat, fresh : BOOLEAN] /\ era' \in Nat
  <1>1. NoRow \in [seq : Nat, fresh : BOOLEAN]
    BY DEF NoRow
  <1> QED BY <1>1, ReplaceType

LEMMA InvalidateType ==
  ASSUME TypeInv, Invalidate \/ UNCHANGED <<row, era, forgets>>
  PROVE  row' \in [seq : Nat, fresh : BOOLEAN] /\ era' \in Nat /\ forgets' \in Nat
  <1>1. forgets' \in Nat
    BY DEF Invalidate, TypeInv, SequenceTypeOK
  <1> QED BY <1>1, ForgetType DEF Invalidate

LEMMA AgainType ==
  ASSUME TypeInv, NEW w \in Workers, MayRetry(w)
  PROVE  Again(w) \in WorkerMemories
  <1>1. wk[w] \in WorkerMemories
    BY DEF TypeInv, SequenceTypeOK
  <1>2. wk[w].attempt + 1 \in 0..MaxSubmitRetries
    BY <1>1, SequenceAssumption DEF MayRetry, WorkerMemories
  <1> QED BY <1>1, <1>2 DEF Again, Idle, WorkerMemories

LEMMA TypeBegin ==
  ASSUME TypeInv, NEW w \in Workers, Begin(w) PROVE TypeInv'
  <1>1. PICK j \in todo : todo' = todo \ {j} /\ Become(w, [Idle EXCEPT !.pc = "lock", !.job = j])
    BY DEF Begin
  <1>2. [Idle EXCEPT !.pc = "lock", !.job = j] \in WorkerMemories
    BY MemoriesOfRest DEF Idle, WorkerMemories, TypeInv, SequenceTypeOK
  <1> QED BY <1>1, <1>2, BecomeType DEF Begin, TypeInv, SequenceTypeOK, ledgerVars

LEMMA TypeLock ==
  ASSUME TypeInv, NEW w \in Workers, Lock(w) PROVE TypeInv'
  <1> DEFINE x == [wk[w] EXCEPT !.pc = IF Readable THEN "write" ELSE "fetch",
                                !.fetched = ~Readable, !.seq = row.seq, !.era = era]
  <1>1. wk[w] \in WorkerMemories /\ row.seq \in Nat /\ era \in Nat
    BY DEF TypeInv, SequenceTypeOK
  <1>2. Readable \in BOOLEAN
    BY DEF Readable, TypeInv, SequenceTypeOK
  <1>3. x \in WorkerMemories
    BY <1>1, <1>2 DEF WorkerMemories
  <1>4. Become(w, x)
    BY DEF Lock
  <1>5. wk' \in [Workers -> WorkerMemories]
    BY <1>3, <1>4, BecomeType
  <1> QED BY <1>5 DEF Lock, TypeInv, SequenceTypeOK, ledgerVars

LEMMA TypeFetch ==
  ASSUME TypeInv, NEW w \in Workers, Fetch(w) PROVE TypeInv'
  <1> DEFINE x == [wk[w] EXCEPT !.pc = "write", !.seq = nextSeq]
  <1>1. x \in WorkerMemories
    BY DEF TypeInv, SequenceTypeOK, WorkerMemories
  <1>2. wk' \in [Workers -> WorkerMemories]
    BY <1>1, BecomeType, GotoType DEF Fetch, Throw
  <1>3. holder' \in Workers \cup {Nobody}
    BY UnlockType DEF Fetch, Throw
  <1>4. faults' \subseteq FaultKinds
    BY FaultType DEF Fetch, FaultKinds
  <1> QED BY <1>2, <1>3, <1>4 DEF Fetch, TypeInv, SequenceTypeOK, ledgerVars

\* What Write hands out, if it does.
Grant(w) ==
    [seq |-> wk[w].seq, era |-> IF wk[w].fetched THEN era' ELSE wk[w].era,
     job |-> wk[w].job, attempt |-> wk[w].attempt]

\* The ways in which Write may change the row.
Inserted(w) == wk[w].fetched /\ Replace(Lease(wk[w].seq + 1))
Updated(w) == ~wk[w].fetched /\ row # NoRow /\ row' = Lease(wk[w].seq + 1) /\ UNCHANGED era
Unwritten == UNCHANGED <<row, era>>

LEMMA WriteCases ==
  ASSUME TypeInv, NEW w \in Workers, Write(w)
  PROVE  /\ wk[w].pc = "write"
         /\ Inserted(w) \/ Updated(w) \/ Unwritten
         /\ \/ /\ granted' = granted \cup {Grant(w)}
               /\ Goto(w, "submit")
               /\ wk[w].fetched => Inserted(w)
               /\ ~wk[w].fetched => Updated(w) \/ (row = NoRow /\ Unwritten)
            \/ UNCHANGED granted /\ Goto(w, "caught")
         /\ holder' = holder \/ Unlock(w)
         /\ NoFault \/ Fault("db")
         /\ UNCHANGED <<ledgerVars, store, forgets, todo>>
  <1>1. wk[w].fetched \in BOOLEAN
    BY DEF TypeInv, SequenceTypeOK, WorkerMemories
  <1>2. CASE /\ IF wk[w].fetched THEN Replace(Lease(wk[w].seq + 1))
                ELSE row' = (IF row = NoRow THEN NoRow ELSE Lease(wk[w].seq + 1)) /\ UNCHANGED era
             /\ granted' = granted \cup {Grant(w)}
             /\ Goto(w, "submit")
             /\ IF store = "local" THEN UNCHANGED holder ELSE Unlock(w)
             /\ NoFault
    <2>1. wk[w].fetched => Inserted(w)
      BY <1>2 DEF Inserted
    <2>2. ~wk[w].fetched => Updated(w) \/ (row = NoRow /\ Unwritten)
      BY <1>2 DEF Updated, Unwritten
    <2> QED BY <1>1, <1>2, <2>1, <2>2 DEF Write
  <1>3. CASE /\ Fault("db")
             /\ \/ UNCHANGED <<row, era>>
                \/ wk[w].fetched /\ Replace(Lease(wk[w].seq + 1))
                \/ ~wk[w].fetched /\ row # NoRow /\ row' = Lease(wk[w].seq + 1) /\ UNCHANGED era
             /\ Throw(w)
             /\ UNCHANGED granted
    BY <1>3 DEF Write, Throw, Inserted, Updated, Unwritten
  <1> QED BY <1>2, <1>3 DEF Write, Grant

LEMMA TypeWrite ==
  ASSUME TypeInv, NEW w \in Workers, Write(w) PROVE TypeInv'
  <1> DEFINE r == Lease(wk[w].seq + 1)
  <1>1. wk[w] \in WorkerMemories
    BY DEF TypeInv, SequenceTypeOK
  <1>2. r \in [seq : Nat, fresh : BOOLEAN]
    BY <1>1 DEF Lease, WorkerMemories
  <1>3. row' \in [seq : Nat, fresh : BOOLEAN] /\ era' \in Nat
    <2>1. CASE Updated(w)
      BY <2>1, <1>2 DEF Updated, TypeInv, SequenceTypeOK
    <2>2. CASE Inserted(w) \/ Unwritten
      BY <2>2, <1>2, ReplaceType DEF Inserted, Unwritten
    <2> QED BY <2>1, <2>2, WriteCases
  <1>4. Grant(w) \in Grants
    BY <1>1, <1>3 DEF Grant, Grants, WorkerMemories
  <1>5. granted' \subseteq Grants
    BY <1>4, WriteCases DEF TypeInv, SequenceTypeOK
  <1>6. wk' \in [Workers -> WorkerMemories]
    BY WriteCases, GotoType
  <1>7. holder' \in Workers \cup {Nobody}
    BY WriteCases, UnlockType
  <1>8. faults' \subseteq FaultKinds
    BY WriteCases, FaultType DEF FaultKinds
  <1>9. UNCHANGED <<ledgerVars, store, forgets, todo>>
    BY WriteCases
  <1> QED BY <1>3, <1>5, <1>6, <1>7, <1>8, <1>9 DEF TypeInv, SequenceTypeOK, ledgerVars

LEMMA AnsweredType ==
  ASSUME TypeInv, NEW w \in Workers, NEW c, Answered(w, c)
  PROVE  /\ wk' \in [Workers -> WorkerMemories]
         /\ row' \in [seq : Nat, fresh : BOOLEAN] /\ era' \in Nat /\ forgets' \in Nat
  <1>1. Become(w, Idle) \/ (MayRetry(w) /\ Become(w, Again(w)))
    BY DEF Answered
  <1>2. Invalidate \/ UNCHANGED <<row, era, forgets>>
    BY DEF Answered
  <1> QED BY <1>1, <1>2, InvalidateType, AgainType, MemoriesOfRest, BecomeType

\* The transaction that worker w submits.
Tx(w) == [job |-> wk[w].job, attempt |-> wk[w].attempt, seq |-> wk[w].seq]

\* A submit reaches the ledger, and its answer the worker or nobody, or it does not.
LEMMA SubmitCases ==
  ASSUME NEW w \in Workers, Submit(w)
  PROVE  /\ wk[w].pc = "submit"
         /\ \/ \E c \in Codes : Accept(Tx(w), c) /\ NoFault /\ Answered(w, c)
            \/ /\ \E c \in Codes : Accept(Tx(w), c)
               /\ Fault("lost") /\ Goto(w, "caught") /\ UNCHANGED <<row, era, forgets>>
            \/ /\ Fault("net") /\ Goto(w, "caught")
               /\ UNCHANGED <<ledgerVars, row, era, forgets>>
         /\ Unlock(w)
         /\ UNCHANGED <<store, todo, granted>>
  BY DEF Submit, Answers, Tx

LEMMA TypeSubmit ==
  ASSUME TypeInv, NEW w \in Workers, Submit(w) PROVE TypeInv'
  <1>1. Tx(w) \in Txs
    BY DEF Tx, Txs, TypeInv, SequenceTypeOK, WorkerMemories
  <1>2. Tx(w).seq + 1 \in Nat
    BY <1>1 DEF Txs
  <1>3. nextSeq' \in Nat /\ pool' \subseteq Txs
    <2>1. (\E c \in Codes : Accept(Tx(w), c)) \/ UNCHANGED ledgerVars
      BY SubmitCases
    <2> QED BY <1>1, <1>2, <2>1 DEF Accept, TypeInv, SequenceTypeOK, ledgerVars
  <1>4. /\ wk' \in [Workers -> WorkerMemories]
        /\ row' \in [seq : Nat, fresh : BOOLEAN] /\ era' \in Nat /\ forgets' \in Nat
    <2>1. \/ \E c \in Codes : Answered(w, c)
          \/ Goto(w, "caught") /\ UNCHANGED <<row, era, forgets>>
      BY SubmitCases
    <2> QED BY <2>1, AnsweredType, GotoType DEF TypeInv, SequenceTypeOK
  <1>5. holder' \in Workers \cup {Nobody}
    BY SubmitCases, UnlockType
  <1>6. faults' \subseteq FaultKinds
    BY SubmitCases, FaultType DEF FaultKinds
  <1>7. UNCHANGED <<store, todo, granted>>
    BY SubmitCases
  <1> QED BY <1>3, <1>4, <1>5, <1>6, <1>7 DEF TypeInv, SequenceTypeOK

LEMMA CaughtCases ==
  ASSUME NEW w \in Workers, Caught(w)
  PROVE  /\ Become(w, Idle) \/ (MayRetry(w) /\ Become(w, Again(w)))
         /\ Invalidate \/ UNCHANGED <<row, era, forgets>>
         /\ UNCHANGED <<ledgerVars, store, holder, todo, faults, granted>>
  BY DEF Caught

LEMMA TypeCaught ==
  ASSUME TypeInv, NEW w \in Workers, Caught(w) PROVE TypeInv'
  <1>1. wk' \in [Workers -> WorkerMemories]
    BY CaughtCases, AgainType, MemoriesOfRest, BecomeType
  <1>2. row' \in [seq : Nat, fresh : BOOLEAN] /\ era' \in Nat /\ forgets' \in Nat
    BY CaughtCases, InvalidateType
  <1>3. UNCHANGED <<ledgerVars, store, holder, todo, faults, granted>>
    BY CaughtCases
  <1> QED BY <1>1, <1>2, <1>3 DEF TypeInv, SequenceTypeOK, ledgerVars

LEMMA TypeCrash ==
  ASSUME TypeInv, NEW w \in Workers, Crash(w) PROVE TypeInv'
  <1>1. wk' \in [Workers -> WorkerMemories]
    BY MemoriesOfRest, BecomeType DEF Crash
  <1>2. row' \in [seq : Nat, fresh : BOOLEAN] /\ era' \in Nat
    BY ForgetType DEF Crash
  <1>3. holder' \in Workers \cup {Nobody}
    BY UnlockType DEF Crash
  <1>4. faults' \subseteq FaultKinds
    BY FaultType DEF Crash, FaultKinds
  <1> QED BY <1>1, <1>2, <1>3, <1>4 DEF Crash, TypeInv, SequenceTypeOK, ledgerVars

LEMMA TypeEnvironment ==
  ASSUME TypeInv, Forget \/ ExpireLease \/ LedgerStep PROVE TypeInv'
  <1>1. CASE Forget
    <2>1. row' \in [seq : Nat, fresh : BOOLEAN] /\ era' \in Nat
      BY <1>1, ForgetType DEF Forget
    <2>2. forgets' \in Nat
      BY <1>1 DEF Forget, TypeInv, SequenceTypeOK
    <2> QED BY <1>1, <2>1, <2>2 DEF Forget, TypeInv, SequenceTypeOK, ledgerVars
  <1>2. CASE ExpireLease
    BY <1>2 DEF ExpireLease, TypeInv, SequenceTypeOK, ledgerVars
  <1>3. CASE LedgerStep
    <2>1. nextSeq' \in Nat /\ pool' \subseteq Txs
      BY <1>3 DEF LedgerStep, Validate, Expire, TypeInv, SequenceTypeOK, Txs
    <2>2. faults' \subseteq FaultKinds
      BY <1>3, FaultType DEF LedgerStep, FaultKinds
    <2> QED BY <1>3, <2>1, <2>2 DEF LedgerStep, TypeInv, SequenceTypeOK
  <1> QED BY <1>1, <1>2, <1>3

LEMMA TypeNext == TypeInv /\ [Next]_vars => TypeInv'
  <1> SUFFICES ASSUME TypeInv, [Next]_vars PROVE TypeInv'
    OBVIOUS
  <1>1. ASSUME NEW w \in Workers, WorkerStep(w) \/ Lock(w) \/ Crash(w) PROVE TypeInv'
    BY <1>1, TypeBegin, TypeLock, TypeFetch, TypeWrite, TypeSubmit, TypeCaught, TypeCrash
       DEF WorkerStep
  <1>2. CASE UNCHANGED vars
    BY <1>2 DEF TypeInv, SequenceTypeOK, WorkerMemories, Grants, vars, coordVars, ledgerVars
  <1> QED BY <1>1, <1>2, TypeEnvironment DEF Next

\* The variables keep their types; no job is attempted more often than
\* MAX_SUBMIT_RETRIES allows.
THEOREM SequenceTypeCorrect == Spec => []SequenceTypeOK
  <1>1. TypeInv => SequenceTypeOK
    BY DEF TypeInv
  <1> QED BY <1>1, TypeInit, TypeNext, PTL DEF Spec

----------------------------------------------------------------------------
(* No sequence twice in a row's life. What is handed out from a row lies    *)
(* below what the row says; who has read the row to hand out more holds the *)
(* account's lock, so that only a forget can have changed it since.         *)

\* As long as a row lives, no sequence is handed out twice, whichever workers
\* reserve, fail or die, and whenever an unlocked forget or an expired lease ends
\* the row's life.
ReservedOnce ==
    \A g, h \in granted : g.seq = h.seq /\ g.era = h.era => g = h

Below(e, s) == \A g \in granted : g.era = e => g.seq < s

HeldInv == \A w \in Workers : wk[w].pc \in {"fetch", "write"} => holder = w

RowInv ==
    /\ row # NoRow => row.seq > 0 /\ Below(era, row.seq)
    /\ \A g \in granted : g.era < era \/ (g.era = era /\ row # NoRow)

ReadInv(w) ==
    /\ wk[w].pc = "fetch" => wk[w].fetched
    /\ wk[w].pc = "write" /\ ~wk[w].fetched =>
         /\ Below(wk[w].era, wk[w].seq)
         /\ IF row = NoRow THEN wk[w].era < era
            ELSE wk[w].era = era /\ wk[w].seq = row.seq

OnceInv == HeldInv /\ RowInv /\ (\A w \in Workers : ReadInv(w)) /\ ReservedOnce

LEMMA OnceInit == Init => OnceInv
  BY DEF Init, OnceInv, HeldInv, RowInv, ReadInv, ReservedOnce, Idle, Off

LEMMA LeaseIsRow ==
  ASSUME NEW s \in Nat PROVE Lease(s + 1) # NoRow /\ Lease(s + 1).seq = s + 1
  BY DEF Lease, NoRow

LEMMA Numbers ==
  ASSUME TypeInv
  PROVE  /\ era \in Nat /\ row.seq \in Nat
         /\ \A g \in granted : g.seq \in Nat /\ g.era \in Nat
         /\ \A w \in Workers : /\ wk[w].seq \in Nat /\ wk[w].era \in Nat
                               /\ wk[w].fetched \in BOOLEAN
  BY DEF TypeInv, SequenceTypeOK, WorkerMemories, Grants

\* A lock is only released by who has it.
LEMMA HeldByOthers ==
  ASSUME HeldInv, NEW w \in Workers, NEW x, x.pc \notin {"fetch", "write"} \/ holder' = w,
         wk \in [Workers -> WorkerMemories], Become(w, x),
         holder' = holder \/ Unlock(w)
  PROVE  HeldInv'
  BY DEF HeldInv, Become, Unlock

\* A row that goes leaves those that have read it with what they read.
LEMMA OnceForget ==
  ASSUME TypeInv, OnceInv, Replace(NoRow) \/ UNCHANGED <<row, era>>, UNCHANGED granted
  PROVE  /\ RowInv' /\ ReservedOnce'
         /\ \A w \in Workers : wk'[w] = wk[w] => ReadInv(w)'
  <1>1. CASE UNCHANGED <<row, era>>
    BY <1>1 DEF OnceInv, RowInv, ReadInv, ReservedOnce, Below
  <1>2. CASE Replace(NoRow) /\ row # NoRow
    <2>1. era' = era + 1 /\ row' = NoRow
      BY <1>2 DEF Replace
    <2>2. \A g \in granted : g.era < era'
      BY <2>1, Numbers DEF OnceInv, RowInv
    <2>3. ASSUME NEW w \in Workers, wk'[w] = wk[w] PROVE ReadInv(w)'
      BY <1>2, <2>1, <2>3, Numbers DEF OnceInv, ReadInv, Below
    <2> QED BY <2>1, <2>2, <2>3 DEF OnceInv, RowInv, ReservedOnce
  <1>3. CASE Replace(NoRow) /\ row = NoRow
    BY <1>1, <1>3 DEF Replace
  <1> QED BY <1>1, <1>2, <1>3

\* A worker that does not read or write the row, and may forget it.
LEMMA OnceElsewhere ==
  ASSUME TypeInv, OnceInv, NEW w \in Workers, NEW x, Become(w, x),
         x.pc \notin {"fetch", "write"}, holder' = holder \/ Unlock(w),
         Replace(NoRow) \/ UNCHANGED <<row, era>>, UNCHANGED granted
  PROVE  OnceInv'
  <1>1. wk \in [Workers -> WorkerMemories]
    BY DEF TypeInv, SequenceTypeOK
  <1>2. HeldInv'
    BY <1>1, HeldByOthers DEF OnceInv
  <1>3. wk'[w].pc \notin {"fetch", "write"} /\ \A v \in Workers \ {w} : wk'[v] = wk[v]
    BY <1>1 DEF Become
  <1>4. \A v \in Workers : ReadInv(v)'
    BY <1>3, OnceForget DEF ReadInv
  <1> QED BY <1>2, <1>4, OnceForget DEF OnceInv

LEMMA OnceLock ==
  ASSUME TypeInv, OnceInv, NEW w \in Workers, Lock(w) PROVE OnceInv'
  <1> DEFINE x == [wk[w] EXCEPT !.pc = IF Readable THEN "write" ELSE "fetch",
                                !.fetched = ~Readable, !.seq = row.seq, !.era = era]
  <1>1. /\ wk \in [Workers -> WorkerMemories] /\ wk[w] \in WorkerMemories
        /\ wk' = [wk EXCEPT ![w] = x] /\ holder = Nobody /\ holder' = w
        /\ UNCHANGED <<row, era, granted>>
    BY DEF Lock, Become, TypeInv, SequenceTypeOK
  <1>2. \A v \in Workers \ {w} : wk'[v] = wk[v] /\ wk[v].pc \notin {"fetch", "write"}
    BY <1>1, SequenceAssumption DEF OnceInv, HeldInv
  <1>3. HeldInv'
    BY <1>1, <1>2 DEF HeldInv
  <1>4. ReadInv(w)'
    <2>1. wk'[w] = x
      BY <1>1
    <2>2. /\ x.fetched = ~Readable /\ x.seq = row.seq /\ x.era = era
          /\ x.pc = IF Readable THEN "write" ELSE "fetch"
      BY <1>1 DEF WorkerMemories
    <2>3. Readable => row # NoRow
      BY DEF Readable
    <2> HIDE DEF x
    <2> QED BY <1>1, <2>1, <2>2, <2>3 DEF ReadInv, OnceInv, RowInv, Below
  <1>5. \A v \in Workers : ReadInv(v)'
    BY <1>2, <1>4 DEF ReadInv
  <1> QED BY <1>1, <1>3, <1>5 DEF OnceInv, RowInv, ReservedOnce, Below

LEMMA OnceFetch ==
  ASSUME TypeInv, OnceInv, NEW w \in Workers, Fetch(w) PROVE OnceInv'
  <1>1. /\ wk \in [Workers -> WorkerMemories] /\ wk[w] \in WorkerMemories
        /\ wk[w].pc = "fetch" /\ UNCHANGED <<row, era, granted>>
    BY DEF Fetch, TypeInv, SequenceTypeOK
  <1>2. CASE Throw(w)
    <2>1. Become(w, [wk[w] EXCEPT !.pc = "caught"]) /\ Unlock(w)
      BY <1>2 DEF Throw, Goto
    <2>2. [wk[w] EXCEPT !.pc = "caught"].pc = "caught"
      BY <1>1 DEF WorkerMemories
    <2> QED BY <1>1, <2>1, <2>2, OnceElsewhere
  <1>3. CASE Become(w, [wk[w] EXCEPT !.pc = "write", !.seq = nextSeq]) /\ UNCHANGED holder
    <2> DEFINE x == [wk[w] EXCEPT !.pc = "write", !.seq = nextSeq]
    <2>1. holder = w /\ holder' = w
      BY <1>1, <1>3 DEF OnceInv, HeldInv
    <2>2. HeldInv'
      BY <1>1, <1>3, <2>1, HeldByOthers DEF OnceInv
    <2>3. \A v \in Workers \ {w} : wk'[v] = wk[v]
      BY <1>1, <1>3 DEF Become
    <2>4. wk'[w].fetched = wk[w].fetched
      BY <1>1, <1>3 DEF Become, WorkerMemories
    <2>5. ReadInv(w)'
      BY <1>1, <2>4 DEF OnceInv, ReadInv
    <2> QED BY <1>1, <2>2, <2>3, <2>5 DEF OnceInv, RowInv, ReadInv, ReservedOnce, Below
  <1> QED BY <1>2, <1>3 DEF Fetch

LEMMA OnceWrite ==
  ASSUME TypeInv, OnceInv, NEW w \in Workers, Write(w) PROVE OnceInv'
  <1> DEFINE s == wk[w].seq
             g == Grant(w)
  <1>1. /\ wk \in [Workers -> WorkerMemories] /\ wk[w] \in WorkerMemories
        /\ wk[w].pc = "write" /\ s \in Nat
    BY WriteCases, Numbers DEF TypeInv, SequenceTypeOK
  <1>2. \A v \in Workers \ {w} : wk[v].pc \notin {"fetch", "write"}
    BY <1>1 DEF OnceInv, HeldInv
  <1>3. PICK p \in {"submit", "caught"} : Goto(w, p)
    BY WriteCases
  <1>4. Become(w, [wk[w] EXCEPT !.pc = p]) /\ [wk[w] EXCEPT !.pc = p].pc = p
    BY <1>1, <1>3 DEF Goto, WorkerMemories
  <1>5. HeldInv'
    BY <1>1, <1>4, WriteCases, HeldByOthers DEF OnceInv
  <1>6. \A v \in Workers : ReadInv(v)'
    BY <1>1, <1>2, <1>4 DEF Become, ReadInv
  <1>7. g.seq = s /\ g.era = IF wk[w].fetched THEN era' ELSE wk[w].era
    BY DEF Grant
  <1>8. Lease(s + 1) # NoRow /\ Lease(s + 1).seq = s + 1
    BY <1>1, LeaseIsRow
  <1>9. CASE Inserted(w)
    <2>1. row' = Lease(s + 1) /\ era' = (IF row = NoRow THEN era ELSE era + 1) /\ wk[w].fetched
      BY <1>9 DEF Inserted, Replace
    <2>2. \A h \in granted : h.era < era'
      BY <2>1, Numbers DEF OnceInv, RowInv
    <2>3. granted' \subseteq granted \cup {g} /\ granted \subseteq granted'
      BY WriteCases
    <2>4. g.era = era'
      BY <1>7, <2>1
    <2>5. era' \in Nat
      BY <2>1, Numbers
    <2> HIDE DEF s, g
    <2>6. RowInv'
      BY <1>1, <1>7, <1>8, <2>1, <2>2, <2>3, <2>4, <2>5, Numbers DEF RowInv, Below
    <2>7. ReservedOnce'
      BY <2>2, <2>3, <2>4, <2>5, Numbers DEF OnceInv, ReservedOnce
    <2> QED BY <1>5, <1>6, <2>6, <2>7 DEF OnceInv
  <1>10. CASE Updated(w)
    <2>1. /\ row' = Lease(s + 1) /\ era' = era /\ ~wk[w].fetched /\ row # NoRow
      BY <1>10 DEF Updated
    <2>2. wk[w].era = era /\ Below(era, s)
      BY <1>1, <2>1 DEF OnceInv, ReadInv
    <2>3. granted' \subseteq granted \cup {g} /\ granted \subseteq granted'
      BY WriteCases
    <2>4. g.era = era
      BY <1>7, <2>1, <2>2
    <2> HIDE DEF s, g
    <2>5. RowInv'
      BY <1>1, <1>7, <1>8, <2>1, <2>2, <2>3, <2>4, Numbers DEF OnceInv, RowInv, Below
    <2>6. ReservedOnce'
      BY <1>1, <1>7, <2>2, <2>3, <2>4, Numbers DEF OnceInv, ReservedOnce, Below
    <2> QED BY <1>5, <1>6, <2>5, <2>6 DEF OnceInv
  <1>11. CASE Unwritten /\ UNCHANGED granted
    BY <1>5, <1>6, <1>11 DEF OnceInv, RowInv, ReservedOnce, Unwritten, Below
  <1>12. CASE Unwritten /\ granted' = granted \cup {g} /\ ~wk[w].fetched /\ row = NoRow
    <2>1. g.era < era /\ Below(g.era, g.seq)
      BY <1>1, <1>7, <1>12 DEF OnceInv, ReadInv
    <2> HIDE DEF s, g
    <2>2. RowInv'
      BY <1>12, <2>1, Numbers DEF OnceInv, RowInv, Unwritten
    <2>3. ReservedOnce'
      BY <1>1, <1>7, <1>12, <2>1, Numbers DEF OnceInv, ReservedOnce, Below
    <2> QED BY <1>5, <1>6, <2>2, <2>3 DEF OnceInv
  <1> QED BY <1>9, <1>10, <1>11, <1>12, WriteCases

LEMMA OnceSubmit ==
  ASSUME TypeInv, OnceInv, NEW w \in Workers, Submit(w) PROVE OnceInv'
  <1>1. wk[w] \in WorkerMemories
    BY DEF TypeInv, SequenceTypeOK
  <1>2. /\ Goto(w, "caught") \/ Become(w, Idle) \/ Become(w, Again(w))
        /\ Invalidate \/ UNCHANGED <<row, era>>
        /\ Unlock(w) /\ UNCHANGED granted
    BY SubmitCases DEF Answered
  <1>3. Replace(NoRow) \/ UNCHANGED <<row, era>>
    BY <1>2 DEF Invalidate
  <1>4. /\ [wk[w] EXCEPT !.pc = "caught"].pc = "caught"
        /\ Idle.pc = "idle" /\ Again(w).pc = "lock"
    BY <1>1 DEF WorkerMemories, Idle, Again
  <1> QED BY <1>2, <1>3, <1>4, OnceElsewhere DEF Goto

LEMMA OnceCaught ==
  ASSUME TypeInv, OnceInv, NEW w \in Workers, Caught(w) PROVE OnceInv'
  <1>1. Replace(NoRow) \/ UNCHANGED <<row, era>>
    BY CaughtCases DEF Invalidate
  <1>2. Idle.pc = "idle" /\ Again(w).pc = "lock"
    BY DEF Idle, Again
  <1> QED BY <1>1, <1>2, CaughtCases, OnceElsewhere

LEMMA OnceBeginCrash ==
  ASSUME TypeInv, OnceInv, NEW w \in Workers, Begin(w) \/ Crash(w) PROVE OnceInv'
  <1>1. CASE Begin(w)
    <2>1. PICK j \in todo : Become(w, [Idle EXCEPT !.pc = "lock", !.job = j])
      BY <1>1 DEF Begin
    <2>2. [Idle EXCEPT !.pc = "lock", !.job = j].pc = "lock"
      BY DEF Idle
    <2>3. holder' = holder /\ UNCHANGED <<row, era, granted>>
      BY <1>1 DEF Begin
    <2> QED BY <2>1, <2>2, <2>3, OnceElsewhere
  <1>2. CASE Crash(w)
    <2>1. Become(w, Idle) /\ Unlock(w) /\ UNCHANGED granted
          /\ (Replace(NoRow) \/ UNCHANGED <<row, era>>)
      BY <1>2 DEF Crash
    <2>2. Idle.pc = "idle"
      BY DEF Idle
    <2> QED BY <2>1, <2>2, OnceElsewhere
  <1> QED BY <1>1, <1>2

LEMMA OnceEnvironment ==
  ASSUME TypeInv, OnceInv, Forget \/ ExpireLease \/ LedgerStep PROVE OnceInv'
  <1>1. CASE Forget
    <2>1. UNCHANGED <<wk, holder, granted>> /\ (Replace(NoRow) \/ UNCHANGED <<row, era>>)
      BY <1>1 DEF Forget
    <2> QED BY <2>1, OnceForget DEF OnceInv, HeldInv
  <1>2. CASE ExpireLease
    <2>1. row' = [row EXCEPT !.fresh = FALSE] /\ row.fresh
          /\ UNCHANGED <<wk, holder, era, granted>>
      BY <1>2 DEF ExpireLease
    <2>2. row # NoRow /\ row'.seq = row.seq
      BY <2>1 DEF NoRow, TypeInv, SequenceTypeOK
    <2>3. row' # NoRow
      BY <2>2, Numbers DEF NoRow, OnceInv, RowInv
    <2> QED BY <2>1, <2>2, <2>3 DEF OnceInv, HeldInv, RowInv, ReadInv, ReservedOnce, Below
  <1>3. CASE LedgerStep
    BY <1>3 DEF LedgerStep, OnceInv, HeldInv, RowInv, ReadInv, ReservedOnce, Below
  <1> QED BY <1>1, <1>2, <1>3

LEMMA OnceNext == TypeInv /\ OnceInv /\ [Next]_vars => OnceInv'
  <1> SUFFICES ASSUME TypeInv, OnceInv, [Next]_vars PROVE OnceInv'
    OBVIOUS
  <1>1. ASSUME NEW w \in Workers, WorkerStep(w) \/ Lock(w) \/ Crash(w) PROVE OnceInv'
    BY <1>1, OnceBeginCrash, OnceLock, OnceFetch, OnceWrite, OnceSubmit, OnceCaught
       DEF WorkerStep
  <1>2. CASE UNCHANGED vars
    BY <1>2 DEF OnceInv, HeldInv, RowInv, ReadInv, ReservedOnce, Below, vars, coordVars
  <1> QED BY <1>1, <1>2, OnceEnvironment DEF Next

\* However many workers reserve, fail and die, and whenever a forget or an expired
\* lease ends the life of the row, a life hands out no sequence twice.
THEOREM SequencesAreReservedOnce == Spec => []ReservedOnce
  <1>1. OnceInv => ReservedOnce
    BY DEF OnceInv
  <1> QED BY <1>1, TypeInit, TypeNext, OnceInit, OnceNext, PTL DEF Spec

\* Only a reservation hands anything out.
LEMMA OnlyWriteGrants ==
  ASSUME [Next]_vars, granted' # granted
  PROVE  \E w \in Workers : Write(w)
  BY DEF Next, WorkerStep, Begin, Lock, Fetch, Submit, Caught, Crash, Forget, ExpireLease,
         LedgerStep, vars, coordVars

\* What a reservation hands out lies above all that its life of the row has given.
LEMMA GrantIsAbove ==
  ASSUME TypeInv, OnceInv, NEW w \in Workers, Write(w), NEW h \in granted,
         granted' = granted \cup {Grant(w)}, h.era = Grant(w).era
  PROVE  h.seq < Grant(w).seq \/ granted' = granted
  <1>1. wk[w].pc = "write" /\ Grant(w).seq = wk[w].seq
        /\ Grant(w).era = IF wk[w].fetched THEN era' ELSE wk[w].era
    BY WriteCases DEF Grant
  <1>2. h.era <= era /\ (h.era = era => row # NoRow)
    BY Numbers DEF OnceInv, RowInv
  <1>3. CASE Inserted(w)
    <2>1. Grant(w).era = IF row = NoRow THEN era ELSE era + 1
      BY <1>1, <1>3 DEF Inserted, Replace
    <2> QED BY <1>2, <2>1, Numbers
  <1>4. CASE ~wk[w].fetched
    BY <1>1, <1>4 DEF OnceInv, ReadInv, Below
  <1>5. CASE wk[w].fetched /\ ~Inserted(w)
    BY <1>5, WriteCases
  <1> QED BY <1>3, <1>4, <1>5, Numbers

LEMMA GrantsIncreaseStep ==
  ASSUME TypeInv, OnceInv, [Next]_vars
  PROVE  \A g \in granted' \ granted, h \in granted : g.era = h.era => h.seq < g.seq
  <1> SUFFICES ASSUME NEW g \in granted' \ granted, NEW h \in granted, g.era = h.era
               PROVE  h.seq < g.seq
    OBVIOUS
  <1>1. PICK w \in Workers : Write(w)
    BY OnlyWriteGrants
  <1>2. granted' = granted \cup {Grant(w)} /\ g = Grant(w)
    BY <1>1, WriteCases
  <1> QED BY <1>1, <1>2, GrantIsAbove

\* What a life of the row hands out only goes up, also when the row has been forgotten
\* between a worker's read and its write.
THEOREM GrantsOnlyIncrease == Spec => GrantsIncrease
  <1>1. TypeInv /\ OnceInv /\ [Next]_vars =>
          [\A g \in granted' \ granted, h \in granted : g.era = h.era => h.seq < g.seq]_vars
    BY GrantsIncreaseStep
  <1> QED BY <1>1, TypeInit, TypeNext, OnceInit, OnceNext, PTL DEF Spec, GrantsIncrease

----------------------------------------------------------------------------
(* One transaction for a job. Each job is in one place, and until an answer *)
(* is lost, a job that has a transaction is nobody's any more.              *)

Working(w) == wk[w].pc \notin {"idle", "off"}
OnLedger == pool \cup {v.tx : v \in validated}

PlaceInv ==
    /\ \A w \in Workers : Working(w) => wk[w].job \in Jobs \ todo
    /\ \A v, w \in Workers : Working(v) /\ Working(w) /\ wk[v].job = wk[w].job => v = w

NoneInv ==
    /\ \A t \in OnLedger : t.job \notin todo
    /\ \A w \in Workers, t \in OnLedger : Working(w) => t.job # wk[w].job
    /\ \A t, u \in OnLedger : t.job = u.job => t = u

JobInv == PlaceInv /\ ("lost" \notin faults => NoneInv)

LEMMA JobInit == Init => JobInv
  BY DEF Init, LedgerInit, JobInv, PlaceInv, NoneInv, Working, OnLedger, Idle, Off

\* A code with which a transaction enters the ledger is not one to try again.
LEMMA EnteringIsNotRetried ==
  ASSUME NEW c \in EnteringCodes PROVE ClassifyResult(c) # "retry"
  BY DEF EnteringCodes, ClassifyResult, ResultClassification, PrefixClassification

LEMMA LossIsRemembered ==
  ASSUME NoFault \/ \E kind \in FaultKinds : Fault(kind), "lost" \notin faults'
  PROVE  "lost" \notin faults
  BY DEF NoFault, Fault

\* A worker that stays with its job, or has done with it, while the ledger takes
\* nothing in.
LEMMA JobElsewhere ==
  ASSUME TypeInv, JobInv, NEW w \in Workers, NEW x, Become(w, x), Working(w),
         x.pc \in {"idle", "off"} \/ x.job = wk[w].job,
         OnLedger' = OnLedger, UNCHANGED todo,
         "lost" \notin faults' => "lost" \notin faults
  PROVE  JobInv'
  <1>1. \A v \in Workers : wk'[v] = IF v = w THEN x ELSE wk[v]
    BY DEF Become, TypeInv, SequenceTypeOK
  <1>2. \A v \in Workers : Working(v)' => Working(v) /\ wk'[v].job = wk[v].job
    BY <1>1 DEF Working
  <1>3. PlaceInv'
    BY <1>2 DEF JobInv, PlaceInv
  <1>4. NoneInv => NoneInv'
    BY <1>2 DEF NoneInv
  <1> QED BY <1>3, <1>4 DEF JobInv

LEMMA JobBegin ==
  ASSUME TypeInv, JobInv, NEW w \in Workers, Begin(w) PROVE JobInv'
  <1>1. PICK j \in todo : todo' = todo \ {j} /\ Become(w, [Idle EXCEPT !.pc = "lock", !.job = j])
    BY DEF Begin
  <1> DEFINE x == [Idle EXCEPT !.pc = "lock", !.job = j]
  <1>2. x.pc = "lock" /\ x.job = j /\ j \in Jobs
    BY DEF Idle, TypeInv, SequenceTypeOK
  <1>3. \A v \in Workers : wk'[v] = IF v = w THEN x ELSE wk[v]
    BY <1>1 DEF Become, TypeInv, SequenceTypeOK
  <1>4. UNCHANGED <<ledgerVars, faults>>
    BY DEF Begin
  <1>5. OnLedger' = OnLedger
    BY <1>4 DEF OnLedger, ledgerVars
  <1> HIDE DEF x
  <1>6. \A v \in Workers : IF v = w THEN wk'[v].job = j ELSE wk'[v] = wk[v]
    BY <1>2, <1>3
  <1>7. PlaceInv'
    BY <1>1, <1>2, <1>6 DEF JobInv, PlaceInv, Working
  <1>8. NoneInv => NoneInv'
    BY <1>1, <1>5, <1>6 DEF NoneInv, Working
  <1> QED BY <1>4, <1>7, <1>8 DEF JobInv

LEMMA JobRetried ==
  ASSUME TypeInv, NEW w \in Workers
  PROVE  /\ Again(w).job = wk[w].job /\ Idle.pc = "idle"
         /\ \A p : [wk[w] EXCEPT !.pc = p].job = wk[w].job
  BY DEF Again, Idle, TypeInv, SequenceTypeOK, WorkerMemories

LEMMA JobQuiet ==
  ASSUME TypeInv, JobInv, NEW w \in Workers,
         Lock(w) \/ Fetch(w) \/ Write(w) \/ Caught(w) \/ Crash(w)
  PROVE  JobInv'
  <1>1. UNCHANGED ledgerVars /\ UNCHANGED todo
    BY WriteCases, CaughtCases DEF Lock, Fetch, Crash
  <1>2. OnLedger' = OnLedger
    BY <1>1 DEF OnLedger, ledgerVars
  <1>3. NoFault \/ \E kind \in FaultKinds : Fault(kind)
    BY WriteCases DEF Lock, Fetch, Caught, Crash, NoFault, FaultKinds
  <1>4. Working(w)
    BY WriteCases DEF Working, Lock, Fetch, Caught, Crash
  <1>5. PICK x : Become(w, x) /\ (x.pc \in {"idle", "off"} \/ x.job = wk[w].job)
    <2>1. CASE Lock(w)
      <3> DEFINE x == [wk[w] EXCEPT !.pc = IF Readable THEN "write" ELSE "fetch",
                                    !.fetched = ~Readable, !.seq = row.seq, !.era = era]
      <3>1. Become(w, x)
        BY <2>1 DEF Lock
      <3>2. x.job = wk[w].job
        BY DEF TypeInv, SequenceTypeOK, WorkerMemories
      <3> QED BY <3>1, <3>2
    <2>2. CASE Fetch(w)
      <3>1. [wk[w] EXCEPT !.pc = "write", !.seq = nextSeq].job = wk[w].job
        BY DEF TypeInv, SequenceTypeOK, WorkerMemories
      <3> QED BY <2>2, <3>1, JobRetried DEF Fetch, Throw, Goto
    <2>3. CASE Write(w)
      BY <2>3, WriteCases, JobRetried DEF Goto
    <2>4. CASE Caught(w) \/ Crash(w)
      BY <2>4, CaughtCases, JobRetried DEF Crash
    <2> QED BY <2>1, <2>2, <2>3, <2>4
  <1> QED BY <1>1, <1>2, <1>3, <1>4, <1>5, LossIsRemembered, JobElsewhere

LEMMA JobSubmit ==
  ASSUME TypeInv, JobInv, NEW w \in Workers, Submit(w) PROVE JobInv'
  <1>1. Working(w) /\ UNCHANGED todo
    BY SubmitCases DEF Working
  <1>2. NoFault \/ \E kind \in FaultKinds : Fault(kind)
    BY SubmitCases DEF FaultKinds
  <1>3. PICK x : Become(w, x) /\ (x.pc \in {"idle", "off"} \/ x.job = wk[w].job)
    BY SubmitCases, JobRetried DEF Answered, Goto
  <1>4. CASE OnLedger' = OnLedger
    BY <1>1, <1>2, <1>3, <1>4, LossIsRemembered, JobElsewhere
  <1>5. CASE OnLedger' # OnLedger
    <2>1. PICK c \in Codes : /\ Accept(Tx(w), c)
                             /\ (NoFault /\ Answered(w, c)) \/ Fault("lost")
      BY <1>5, SubmitCases DEF OnLedger, ledgerVars
    <2>2. c \in EnteringCodes /\ OnLedger' = OnLedger \cup {Tx(w)}
      BY <1>5, <2>1 DEF Accept, Enters, OnLedger
    <2>3. CASE Fault("lost")
      <3>1. "lost" \in faults'
        BY <2>3 DEF Fault
      <3>2. \A v \in Workers : wk'[v] = IF v = w THEN x ELSE wk[v]
        BY <1>3 DEF Become, TypeInv, SequenceTypeOK
      <3>3. \A v \in Workers : Working(v)' => Working(v) /\ wk'[v].job = wk[v].job
        BY <1>1, <1>3, <3>2 DEF Working
      <3> QED BY <1>1, <3>1, <3>3 DEF JobInv, PlaceInv
    <2>4. CASE NoFault /\ Answered(w, c)
      <3>1. Become(w, Idle)
        BY <2>2, <2>4, EnteringIsNotRetried DEF Answered
      <3>2. \A v \in Workers : wk'[v] = IF v = w THEN Idle ELSE wk[v]
        BY <3>1 DEF Become, TypeInv, SequenceTypeOK
      <3>3. \A v \in Workers : Working(v)' => Working(v) /\ wk'[v] = wk[v] /\ v # w
        BY <3>2, JobRetried DEF Working
      <3>4. PlaceInv'
        BY <1>1, <3>3 DEF JobInv, PlaceInv
      <3>5. Tx(w).job = wk[w].job
        BY DEF Tx
      <3>6. ASSUME NoneInv PROVE NoneInv'
        <4>1. \A t \in OnLedger : t.job # Tx(w).job
          BY <1>1, <3>5, <3>6 DEF NoneInv
        <4>2. \A t, u \in OnLedger' : t.job = u.job => t = u
          BY <2>2, <3>6, <4>1 DEF NoneInv
        <4>3. \A t \in OnLedger' : t.job \notin todo'
          BY <1>1, <2>2, <3>5, <3>6 DEF NoneInv, JobInv, PlaceInv
        <4>4. \A v \in Workers, t \in OnLedger' : Working(v)' => t.job # wk'[v].job
          BY <1>1, <2>2, <3>3, <3>5, <3>6 DEF NoneInv, JobInv, PlaceInv
        <4> QED BY <4>2, <4>3, <4>4 DEF NoneInv
      <3>7. UNCHANGED faults
        BY <2>4 DEF NoFault
      <3> QED BY <3>4, <3>6, <3>7 DEF JobInv
    <2> QED BY <2>1, <2>3, <2>4
  <1> QED BY <1>4, <1>5

LEMMA JobEnvironment ==
  ASSUME TypeInv, JobInv, Forget \/ ExpireLease \/ LedgerStep PROVE JobInv'
  <1>1. UNCHANGED <<wk, todo>> /\ ("lost" \notin faults' => "lost" \notin faults)
    BY DEF Forget, ExpireLease, LedgerStep, NoFault, Fault
  <1>2. OnLedger' \subseteq OnLedger
    <2>1. CASE Forget \/ ExpireLease
      BY <2>1 DEF Forget, ExpireLease, OnLedger, ledgerVars
    <2>2. CASE LedgerStep
      BY <2>2 DEF LedgerStep, Validate, Expire, OnLedger
    <2> QED BY <2>1, <2>2
  <1> QED BY <1>1, <1>2 DEF JobInv, PlaceInv, NoneInv, Working

LEMMA JobNext == TypeInv /\ JobInv /\ [Next]_vars => JobInv'
  <1> SUFFICES ASSUME TypeInv, JobInv, [Next]_vars PROVE JobInv'
    OBVIOUS
  <1>1. ASSUME NEW w \in Workers, WorkerStep(w) \/ Lock(w) \/ Crash(w) PROVE JobInv'
    BY <1>1, JobBegin, JobQuiet, JobSubmit DEF WorkerStep
  <1>2. CASE UNCHANGED vars
    BY <1>2 DEF JobInv, PlaceInv, NoneInv, Working, OnLedger, vars, coordVars, ledgerVars
  <1> QED BY <1>1, <1>2, JobEnvironment DEF Next

LEMMA OneAtMost ==
  ASSUME NEW S, \A t, u \in S : t = u PROVE Cardinality(S) <= 1
  <1>1. CASE S = {}
    <2>1. Cardinality({}) = 0
      BY FS_EmptySet
    <2> QED BY <1>1, <2>1
  <1>2. CASE S # {}
    <2>1. PICK t \in S : TRUE
      BY <1>2
    <2>2. S = {t}
      BY <2>1
    <2>3. Cardinality({t}) = 1
      BY FS_Singleton
    <2> QED BY <2>2, <2>3
  <1> QED BY <1>1, <1>2

LEMMA JobInvImpliesOneTxPerJob == JobInv => OneTxPerJob
  <1> SUFFICES ASSUME JobInv, "lost" \notin faults, NEW j \in Jobs
               PROVE  Cardinality(TxsOf(j)) <= 1
    BY DEF OneTxPerJob
  <1>1. \A t, u \in TxsOf(j) : t = u
    BY DEF JobInv, NoneInv, OnLedger, TxsOf
  <1> QED BY <1>1, OneAtMost

\* Unless the answer to a submit is lost, a job has one transaction on the ledger at
\* most, whatever becomes of the sequences that were reserved for it.
THEOREM JobsAreSubmittedOnce == Spec => []OneTxPerJob
  <1> QED BY TypeInit, TypeNext, JobInit, JobNext, JobInvImpliesOneTxPerJob, PTL DEF Spec
=============================================================================
