----------------------------- MODULE LoanPromise -----------------------------
(* What the signing of loans promises to the broker and the borrower,        *)
(* whatever requests, workers and rows are used to keep it: the broker signs *)
(* a loan that waits for signatures, the borrower one the broker has signed, *)
(* and only a loan that both have signed executes on the ledger. A signature *)
(* may get lost as long as the loan has not executed, but never the broker's *)
(* alone.                                                                    *)

CONSTANT Loans

VARIABLES
    stage,    \* of each loan
    signed,   \* the parties whose signatures of the loan are kept somewhere
    executed  \* loans with a successful transaction in a validated ledger

promiseVars == <<stage, signed, executed>>

Parties == {"broker", "borrower"}

Init ==
    /\ stage = [l \in Loans |-> "absent"]
    /\ signed = [l \in Loans |-> {}]
    /\ executed = {}

Approve(l) ==
    /\ stage[l] = "absent"
    /\ stage' = [stage EXCEPT ![l] = "approved"]
    /\ UNCHANGED <<signed, executed>>

Prepare(l) ==
    /\ stage[l] = "approved"
    /\ stage' = [stage EXCEPT ![l] = "cosign_pending"]
    /\ UNCHANGED <<signed, executed>>

Sign(l, p) ==
    /\ IF p = "broker" THEN stage[l] = "cosign_pending" ELSE "broker" \in signed[l]
    /\ signed' = [signed EXCEPT ![l] = @ \cup {p}]
    /\ UNCHANGED <<stage, executed>>

Execute(l) ==
    /\ signed[l] = Parties
    /\ executed' = executed \cup {l}
    /\ UNCHANGED <<stage, signed>>

Lose ==
    /\ signed' \in [Loans -> {{}, {"broker"}, Parties}]
    /\ \A l \in Loans :
         /\ signed'[l] \subseteq signed[l]
         /\ l \in executed => signed'[l] = signed[l]
    /\ UNCHANGED <<stage, executed>>

Next ==
    \/ \E l \in Loans : Approve(l) \/ Prepare(l) \/ Execute(l)
    \/ \E l \in Loans, p \in Parties : Sign(l, p)
    \/ Lose

Spec == Init /\ [][Next]_promiseVars
==============================================================================
