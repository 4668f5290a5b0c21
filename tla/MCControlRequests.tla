------------------------- MODULE MCControlRequests --------------------------
(* Small instances of ControlRequests for TLC: clients that ask for a few   *)
(* things only, of what there is at the start and of what they create.      *)
EXTENDS ControlRequests

MCWorkloads ==
    {[past |-> <<>>, routes |-> {"borrower"}],
     [past |-> <<"vault">>, routes |-> {"deposit"}],
     [past |-> <<"vault">>, routes |-> {"broker"}],
     [past |-> <<"vault", "vault">>, routes |-> {"vault", "broker"}],
     [past |-> <<"vault", "broker">>, routes |-> {"collateral", "cover"}],
     [past |-> <<"borrower", "borrower">>, routes |-> {"borrower", "link"}]}

\* The clock goes on to where the cleanup drops a bucket only for the workloads of
\* borrowers, to keep the others small.
MCTime == now > 2 => routes \subseteq {"borrower", "link"} /\ faults = 0
=============================================================================
