---------------------------- MODULE OutboxPromise ----------------------------
(* What the outbox promises to the rest of the system, whatever the worker   *)
(* does to keep it: a queued row is taken once; only a taken row executes on *)
(* the ledger; a row is settled once, and it is confirmed only if it has     *)
(* executed. Nothing is promised the other way: a row may execute and be     *)
(* settled without a confirmation, or not be settled at all.                 *)

CONSTANT Rows

VARIABLES
    phase,      \* of each row
    executed,   \* rows with a successful transaction in a validated ledger
    confirmed   \* rows reported as executed

promiseVars == <<phase, executed, confirmed>>

Phases == {"absent", "queued", "taken", "settled"}

Init ==
    /\ phase = [r \in Rows |-> "absent"]
    /\ executed = {}
    /\ confirmed = {}

Queue(r) ==
    /\ phase[r] = "absent"
    /\ phase' = [phase EXCEPT ![r] = "queued"]
    /\ UNCHANGED <<executed, confirmed>>

Take(S) ==
    /\ \A r \in S : phase[r] = "queued"
    /\ phase' = [r \in Rows |-> IF r \in S THEN "taken" ELSE phase[r]]
    /\ UNCHANGED <<executed, confirmed>>

Execute(r) ==
    /\ phase[r] \in {"taken", "settled"}
    /\ executed' = executed \cup {r}
    /\ UNCHANGED <<phase, confirmed>>

Settle(r) ==
    /\ phase[r] = "taken"
    /\ phase' = [phase EXCEPT ![r] = "settled"]
    /\ \/ UNCHANGED confirmed
       \/ r \in executed /\ confirmed' = confirmed \cup {r}
    /\ UNCHANGED executed

Next ==
    \/ \E r \in Rows : Queue(r) \/ Execute(r) \/ Settle(r)
    \/ \E S \in SUBSET Rows : Take(S)

Spec == Init /\ [][Next]_promiseVars
==============================================================================
