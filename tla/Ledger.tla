-------------------------------- MODULE Ledger --------------------------------
(***************************************************************************)
(* What the event-sourced accounts of simulate_event_sourcing promise to    *)
(* their users: accounts that are opened once, and deposits and             *)
(* withdrawals that take effect one at a time and never overdraw.           *)
(***************************************************************************)
EXTENDS Integers

CONSTANTS Account, Amount

VARIABLES opened, balance

lvars == <<opened, balance>>

LInit ==
    /\ opened = [a \in Account |-> FALSE]
    /\ balance = [a \in Account |-> 0]

Open(a) ==
    /\ ~opened[a]
    /\ opened' = [opened EXCEPT ![a] = TRUE]
    /\ UNCHANGED balance

Credit(a, n) ==
    /\ opened[a]
    /\ balance' = [balance EXCEPT ![a] = @ + n]
    /\ UNCHANGED opened

Debit(a, n) ==
    /\ opened[a]
    /\ n <= balance[a]
    /\ balance' = [balance EXCEPT ![a] = @ - n]
    /\ UNCHANGED opened

LNext == \E a \in Account : Open(a) \/ \E n \in Amount : Credit(a, n) \/ Debit(a, n)

LSpec == LInit /\ [][LNext]_lvars
=============================================================================
