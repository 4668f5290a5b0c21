--------------------------- MODULE AggregatePromise ---------------------------
(* What the orchestrator promises about vaults, loan brokers and loans,      *)
(* whatever rows, jobs and workers are used to keep it: it knows the ledger  *)
(* ID of an object only when the object exists, nothing is created upon or   *)
(* paid into an object before its ID is known, and only what has been paid   *)
(* into is called funded. A later write-back of the creation may call it     *)
(* active again, but no ID is ever forgotten.                                *)

CONSTANTS
    Aggregates,
    NoAggregate,
    Parents     \* the aggregates one may be created upon, or NoAggregate

VARIABLES
    stage,    \* status of each aggregate
    known,    \* aggregates whose ledger ID is known
    created,  \* aggregates whose object is on the ledger
    paid      \* aggregates with a deposit on the ledger, or taken for one in a dry run

promiseVars == <<stage, known, created, paid>>

Init ==
    /\ stage = [a \in Aggregates |-> "absent"]
    /\ known = {}
    /\ created = {}
    /\ paid = {}

Insert(a) ==
    /\ stage[a] = "absent"
    /\ stage' = [stage EXCEPT ![a] = "queued"]
    /\ UNCHANGED <<known, created, paid>>

Create(a) ==
    /\ stage[a] # "absent"
    /\ \E p \in Parents[a] : p # NoAggregate => p \in known
    /\ created' = created \cup {a}
    /\ UNCHANGED <<stage, known, paid>>

WriteBack(a) ==
    /\ a \in created
    /\ stage' = [stage EXCEPT ![a] = "active"]
    /\ known' = known \cup {a}
    /\ UNCHANGED <<created, paid>>

Pay(a) ==
    /\ a \in known
    /\ paid' = paid \cup {a}
    /\ UNCHANGED <<stage, known, created>>

Fund(a) ==
    /\ a \in paid
    /\ \E s \in {"funded", "cover_funded"} : stage' = [stage EXCEPT ![a] = s]
    /\ UNCHANGED <<known, created, paid>>

Next ==
    \E a \in Aggregates : Insert(a) \/ Create(a) \/ WriteBack(a) \/ Pay(a) \/ Fund(a)

Spec == Init /\ [][Next]_promiseVars
===============================================================================
