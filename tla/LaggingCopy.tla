----------------------------- MODULE LaggingCopy -----------------------------
(***************************************************************************)
(* What an asynchronous copy promises: rows change one commit at a time in  *)
(* the primary, and the copy of a row only ever moves forward, to a state   *)
(* the primary has committed.  A row is the number of commits it has seen.  *)
(***************************************************************************)
EXTENDS Naturals

CONSTANT Key

VARIABLES primary, copy

cvars == <<primary, copy>>

CInit == primary = [k \in Key |-> 0] /\ copy = [k \in Key |-> 0]

Change(k) ==
    /\ primary' = [primary EXCEPT ![k] = @ + 1]
    /\ UNCHANGED copy

CatchUp(k) ==
    /\ \E v \in copy[k] + 1 .. primary[k] : copy' = [copy EXCEPT ![k] = v]
    /\ UNCHANGED primary

CNext == \E k \in Key : Change(k) \/ CatchUp(k)

CSpec == CInit /\ [][CNext]_cvars
=============================================================================
