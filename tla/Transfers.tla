----------------------------- MODULE Transfers -----------------------------
(***************************************************************************)
(* simulate_newsql: concurrent transfers between two accounts in a database  *)
(* whose transactions are serializable, each retried as retryTxn does.       *)
(*                                                                         *)
(* External: a transaction commits only if what it read is still so, or the  *)
(* database asks for a retry; it may ask for one at any statement, fail at   *)
(* any statement, and lose the answer to a COMMIT that took effect.          *)
(***************************************************************************)
EXTENDS Integers, FiniteSets, FiniteSetsExt

CONSTANTS Payer,      \* goroutines, one transfer each
          Seed,       \* balance of each account at the start
          MaxRetries  \* attempts of retryTxn

Account == {"alice", "bob"}
OtherAccount(a) == CHOOSE b \in Account : b # a

VARIABLES
    balance,  \* accounts, as committed
    txn,      \* per goroutine: where its call of transfer is
    applied,  \* history: commits of each goroutine's transfer
    unsure    \* history: goroutines whose COMMIT took effect without an answer

transferVars == <<balance, txn, applied, unsure>>

Init ==
    /\ balance = [a \in Account |-> Seed]
    /\ txn = [p \in Payer |-> [at |-> "start"]]
    /\ applied = [p \in Payer |-> 0] /\ unsure = {}

Goto(p, at) == txn' = [txn EXCEPT ![p].at = at]

Transfer(p, from, amount) ==
    /\ txn[p].at = "start"
    /\ txn' = [txn EXCEPT ![p] = [at |-> "begin", from |-> from, amount |-> amount,
                                  attempt |-> 1, read |-> 0, readTo |-> 0]]
    /\ UNCHANGED <<balance, applied, unsure>>

\* The balance that is checked and debited.
ReadBalance(p) ==
    /\ txn[p].at = "begin"
    /\ txn' = [txn EXCEPT ![p].read = balance[txn[p].from],
                          ![p].at = IF balance[txn[p].from] < txn[p].amount THEN "failed" ELSE "credit"]
    /\ UNCHANGED <<balance, applied, unsure>>

\* The UPDATEs add to what the transaction reads.
Credit(p) ==
    /\ txn[p].at = "credit"
    /\ txn' = [txn EXCEPT ![p].readTo = balance[OtherAccount(txn[p].from)], ![p].at = "commit"]
    /\ UNCHANGED <<balance, applied, unsure>>

\* External: what the transaction read was changed by another one.
Conflict(p) ==
    \/ balance[txn[p].from] # txn[p].read
    \/ balance[OtherAccount(txn[p].from)] # txn[p].readTo

\* A COMMIT, answered or not.
Commit(p) ==
    LET t == txn[p] IN
    /\ t.at = "commit" /\ ~Conflict(p)
    /\ balance' = [balance EXCEPT ![t.from] = t.read - t.amount,
                                  ![OtherAccount(t.from)] = t.readTo + t.amount]
    /\ applied' = [applied EXCEPT ![p] = @ + 1]
    /\ \/ Goto(p, "ok") /\ UNCHANGED unsure
       \/ Goto(p, "unknown") /\ unsure' = unsure \cup {p}

\* Variant: every error of the COMMIT is worth another attempt.
AnyError == {"40001", "08006"}

Retriable == {"40001"}

\* The transaction is gone; a serialization failure is retried as long as attempts are left.
FailsWith(p, code) ==
    LET t == txn[p] IN
    /\ txn' = [txn EXCEPT ![p] =
                 IF code \notin Retriable \/ t.attempt = MaxRetries THEN [t EXCEPT !.at = "failed"]
                 ELSE [t EXCEPT !.at = "begin", !.attempt = t.attempt + 1]]
    /\ UNCHANGED <<balance, applied, unsure>>

\* A statement fails, or the COMMIT does and nothing is committed.
StatementFails(p, code) == txn[p].at \in {"begin", "credit", "commit"} /\ FailsWith(p, code)

\* The connection broke after the COMMIT.
AnswerLost(p) == txn[p].at = "unknown" /\ FailsWith(p, "08006")

Next ==
    \E p \in Payer :
        \/ \E from \in Account, amount \in 1..Seed : Transfer(p, from, amount)
        \/ ReadBalance(p) \/ Credit(p) \/ Commit(p) \/ AnswerLost(p)
        \/ \E code \in {"40001", "08006"} : StatementFails(p, code)

TypeOK ==
    /\ balance \in [Account -> Nat] /\ applied \in [Payer -> Nat] /\ unsure \subseteq Payer
    /\ \A p \in Payer : txn[p].at \notin {"start", "ok"} => txn[p].attempt \in 1..MaxRetries

\* However transfers overlap and fail, each is applied at most once - once if it was
\* reported as done, never if it failed, but for a COMMIT whose answer was lost - no
\* account is overdrawn, and the balances are what the applied transfers make of them.
TransfersExact ==
    LET Moved(a) == {p \in Payer : applied[p] > 0 /\ txn[p].from = a}
        Sums(ps) == MapThenSumSet(LAMBDA p : txn[p].amount, ps) IN
    /\ \A p \in Payer :
         /\ applied[p] <= 1
         /\ txn[p].at = "ok" => applied[p] = 1
         /\ txn[p].at = "failed" => applied[p] = (IF p \in unsure THEN 1 ELSE 0)
    /\ \A a \in Account :
         /\ balance[a] >= 0
         /\ balance[a] = Seed - Sums(Moved(a)) + Sums(Moved(OtherAccount(a)))
=============================================================================
