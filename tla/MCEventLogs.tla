---------------------------- MODULE MCEventLogs ----------------------------
(***************************************************************************)
(* The programs whose writes append events - the event-sourced accounts and *)
(* the CQRS write store - checked one after the other: the first state       *)
(* chooses a program, the variables of the other never change.               *)
(***************************************************************************)
EXTENDS EventStore, OrderProjection

CONSTANT Programs   \* those to check

VARIABLE program

logVars == <<program, vars, projectionVars>>

LogsInit == program \in Programs /\ Init /\ ProjectionInit

LogsNext ==
    /\ \/ program = "accounts" /\ Next /\ UNCHANGED projectionVars
       \/ program = "orders" /\ ProjectionNext /\ UNCHANGED vars
    /\ UNCHANGED program

\* Commands, on accounts and on orders, may stop anywhere; a projector does not.
LogsSpec == LogsInit /\ [][LogsNext]_logVars /\ ProjectionFairness
=============================================================================
