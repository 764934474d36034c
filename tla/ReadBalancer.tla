---------------------------- MODULE ReadBalancer ----------------------------
(***************************************************************************)
(* simulate_connection_load_balancing: HAProxy's read endpoint, which checks *)
(* its servers, gives each new connection a server that is up (the primary   *)
(* only when no replica is) and closes the sessions of one it marks down;    *)
(* clients that stop and start replicas, wait for the statistics to say so,  *)
(* and keep pooled connections.                                             *)
(***************************************************************************)
EXTENDS Integers, FiniteSets

CONSTANTS ReadServer, Connection,
          Fall, Rise,   \* checks in a row that change a server's status
          MaxStops      \* bound: replicas stopped

Primary == "primary"
Server == ReadServer \cup {Primary}

VARIABLES
    running,   \* servers that answer
    status,    \* HAProxy: UP, DOWN, or MAINT for a server whose name does not resolve
    checks,    \* HAProxy: checks in a row that contradict the status
    pinned,    \* per connection: its server, or none
    asBackup,  \* history: connections given to the primary when no replica was up
    stops

balancerVars == <<running, status, checks, pinned, asBackup, stops>>

None == "none"

Init ==
    /\ running = Server /\ status = [s \in Server |-> "UP"] /\ checks = [s \in Server |-> 0]
    /\ pinned = [c \in Connection |-> None] /\ asBackup = {} /\ stops = 0

(***************************************************************************)
(* docker stop, docker start.                                              *)
(***************************************************************************)
StopReplica(r) ==
    /\ r \in running /\ stops < MaxStops
    /\ running' = running \ {r} /\ stops' = stops + 1
    /\ UNCHANGED <<status, checks, pinned, asBackup>>

StartReplica(r) ==
    /\ r \notin running /\ running' = running \cup {r}
    /\ UNCHANGED <<status, checks, pinned, asBackup, stops>>

(***************************************************************************)
(* The health check of one server: inter 1s, fall 2, rise 2.                *)
(***************************************************************************)
Contradicts(s) == status[s] # "MAINT" /\ (s \in running) # (status[s] = "UP")
Limit(s) == IF status[s] = "UP" THEN Fall ELSE Rise

\* Variant: sessions are left to their timeouts.
KeepSessions(s) == {}

\* on-marked-down shutdown-sessions.
Shutdown(s) == {c \in Connection : pinned[c] = s}

CheckAgrees(s) ==
    /\ ~Contradicts(s) /\ checks[s] # 0
    /\ checks' = [checks EXCEPT ![s] = 0]
    /\ UNCHANGED <<running, status, pinned, asBackup, stops>>

CheckCounts(s) ==
    /\ Contradicts(s) /\ checks[s] + 1 < Limit(s)
    /\ checks' = [checks EXCEPT ![s] = @ + 1]
    /\ UNCHANGED <<running, status, pinned, asBackup, stops>>

MarkDown(s) ==
    /\ status[s] = "UP" /\ s \notin running /\ checks[s] + 1 >= Fall
    /\ status' = [status EXCEPT ![s] = "DOWN"] /\ checks' = [checks EXCEPT ![s] = 0]
    /\ pinned' = [c \in Connection |-> IF c \in Shutdown(s) THEN None ELSE pinned[c]]
    /\ asBackup' = asBackup \ Shutdown(s)
    /\ UNCHANGED <<running, stops>>

MarkUp(s) ==
    /\ status[s] = "DOWN" /\ s \in running /\ checks[s] + 1 >= Rise
    /\ status' = [status EXCEPT ![s] = "UP"] /\ checks' = [checks EXCEPT ![s] = 0]
    /\ UNCHANGED <<running, pinned, asBackup, stops>>

(***************************************************************************)
(* resolvers docker: a stopped container loses its name.  The resolver holds *)
(* the old answer for 30 s by default, longer than Fall checks take; checks  *)
(* pause until the name is back, and then begin from either status.          *)
(***************************************************************************)
Unresolve(s) ==
    /\ status[s] = "DOWN" /\ s \notin running
    /\ status' = [status EXCEPT ![s] = "MAINT"] /\ checks' = [checks EXCEPT ![s] = 0]
    /\ UNCHANGED <<running, pinned, asBackup, stops>>

Resolve(s) ==
    /\ status[s] = "MAINT" /\ s \in running
    /\ \E word \in {"UP", "DOWN"} : status' = [status EXCEPT ![s] = word]
    /\ checks' = [checks EXCEPT ![s] = 0]
    /\ UNCHANGED <<running, pinned, asBackup, stops>>

\* serverStatus: the statistics say "UP 1/2" while checks are counted; it keeps the word.
ServerStatus(s) == status[s]
AsWanted(servers, word) == \A s \in servers : ServerStatus(s) = word

Check(s) == CheckAgrees(s) \/ CheckCounts(s) \/ MarkDown(s) \/ MarkUp(s)

(***************************************************************************)
(* Connections: distribute opens and closes them, pinnedPool keeps them.     *)
(***************************************************************************)

Candidates ==
    LET up == {r \in ReadServer : status[r] = "UP"} IN IF up # {} THEN up ELSE {Primary}

\* Round robin over the candidates, of which any may be next; a server that is dead but
\* not yet marked so is an error to the client.
Connect(c) ==
    /\ pinned[c] = None
    /\ \E s \in Candidates \cap running :
         /\ pinned' = [pinned EXCEPT ![c] = s]
         /\ asBackup' = IF \A r \in ReadServer : status[r] # "UP" THEN asBackup \cup {c} ELSE asBackup
    /\ UNCHANGED <<running, status, checks, stops>>

\* The client closes it, or the server that held it is gone.
Disconnect(c) ==
    /\ pinned[c] # None
    /\ pinned' = [pinned EXCEPT ![c] = None] /\ asBackup' = asBackup \ {c}
    /\ UNCHANGED <<running, status, checks, stops>>

Next ==
    \/ \E r \in ReadServer : StopReplica(r) \/ StartReplica(r)
    \/ \E s \in Server : Check(s) \/ Unresolve(s) \/ Resolve(s)
    \/ \E c \in Connection : Connect(c) \/ Disconnect(c)

TypeOK ==
    /\ Primary \in running /\ running \subseteq Server
    /\ status \in [Server -> {"UP", "DOWN", "MAINT"}]
    /\ \A s \in Server : checks[s] < Limit(s)
    /\ pinned \in [Connection -> Server \cup {None}] /\ stops \in 0..MaxStops

\* No connection is left on a server that is not up, whenever it was opened, and the
\* primary serves reads only on connections opened while no replica was up
\* (they stay there when the replicas are back).
SessionsFollowStatus ==
    \A c \in Connection : /\ pinned[c] # None => status[pinned[c]] = "UP"
                          /\ pinned[c] = Primary => c \in asBackup

\* waitServers finds the word it waits for: a replica that stops is reported DOWN, before
\* its name is lost, unless it is started again first; it is not reported UP for as long as
\* it is stopped; one that runs again ends UP.
StatusFollows ==
    \A r \in ReadServer :
        /\ r \notin running /\ ServerStatus(r) = "UP" ~> AsWanted({r}, "DOWN") \/ r \in running
        /\ <>[](r \notin running) => <>[]~AsWanted({r}, "UP")
        /\ <>[](r \in running) => <>[]AsWanted({r}, "UP")
=============================================================================
