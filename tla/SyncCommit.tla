----------------------------- MODULE SyncCommit -----------------------------
(***************************************************************************)
(* simulate_sync_async_replication: which standbys a commit waits for        *)
(* (synchronous_standby_names), how far (synchronous_commit), and what       *)
(* happens when a standby stops replaying.  A commit is its WAL position.    *)
(***************************************************************************)
EXTENDS Integers, FiniteSets

CONSTANTS Writer,
          MaxInserts,  \* bound: commits
          MaxChanges   \* bound: replays paused, settings changed

Standby == {"s1", "s2"}
Level == {"local", "remote_write", "on", "remote_apply"}
Stage == {"write", "flush", "replay"}
NoNames == ""   \* commits wait for no standby
Setting == {NoNames, "FIRST", "ANY"}

VARIABLES
    inserts,   \* commits flushed by the primary
    progress,  \* per standby and stage: how far it has come
    names,     \* synchronous_standby_names: none, FIRST 1 (s1, s2), ANY 1 (s1, s2)
    paused,    \* standbys whose replay is paused
    writer,    \* per session: idle, or waiting in COMMIT at a level and position
    promises,  \* history: what acknowledged commits were promised
    changes

syncVars == <<inserts, progress, names, paused, writer, promises, changes>>

Idle == [at |-> "idle"]

Init ==
    /\ inserts = 0 /\ progress = [s \in Standby |-> [g \in Stage |-> 0]]
    /\ names = NoNames /\ paused = {}
    /\ writer = [w \in Writer |-> Idle]
    /\ promises = {} /\ changes = 0

(***************************************************************************)
(* The standbys: WAL is written, flushed, replayed, in this order.           *)
(***************************************************************************)
Before(s, g) == CASE g = "write" -> inserts [] g = "flush" -> progress[s]["write"]
                  [] OTHER -> progress[s]["flush"]

\* Any amount that has arrived; a paused standby receives and flushes, but does not replay.
Advance(s, g) ==
    /\ g = "replay" => s \notin paused
    /\ progress[s][g] < Before(s, g)
    /\ progress' = [progress EXCEPT ![s][g] = Before(s, g)]
    /\ UNCHANGED <<inserts, names, paused, writer, promises, changes>>

(***************************************************************************)
(* insert, benchmark and blockedCommit: the row is flushed on the primary,   *)
(* then the session waits.                                                  *)
(***************************************************************************)
Insert(w, level) ==
    /\ writer[w] = Idle /\ inserts < MaxInserts
    /\ inserts' = inserts + 1
    /\ writer' = [writer EXCEPT ![w] = [at |-> "wait", level |-> level, lsn |-> inserts + 1]]
    /\ UNCHANGED <<progress, names, paused, promises, changes>>

StageOf(level) == CASE level = "remote_write" -> "write" [] level = "on" -> "flush"
                    [] OTHER -> "replay"

\* The standbys that may answer for the names: FIRST 1 takes the first one connected.
Answering == CASE names = "FIRST" -> {"s1"} [] names = "ANY" -> Standby [] OTHER -> {}

Answered(level, lsn) == {s \in Answering : progress[s][StageOf(level)] >= lsn}

\* The COMMIT returns: at once with no names or level local, else with an answer.
Acknowledge(w) ==
    /\ writer[w].at = "wait"
    /\ LET c == writer[w] IN
         \/ (names = NoNames \/ c.level = "local") /\ UNCHANGED promises
         \/ /\ c.level # "local"
            /\ \E s \in Answered(c.level, c.lsn) :
                 promises' = promises \cup {[lsn |-> c.lsn, level |-> c.level, by |-> names]}
    /\ writer' = [writer EXCEPT ![w] = Idle]
    /\ UNCHANGED <<inserts, progress, names, paused, changes>>

\* pg_cancel_backend ends the wait with a warning; the row stays.
CancelWait(w) ==
    /\ writer[w].at = "wait"
    /\ writer' = [writer EXCEPT ![w] = Idle]
    /\ UNCHANGED <<inserts, progress, names, paused, promises, changes>>

(***************************************************************************)
(* The operator.                                                           *)
(***************************************************************************)
Change == changes < MaxChanges /\ changes' = changes + 1

\* setStandbyNames and reset: ALTER SYSTEM and pg_reload_conf; who waits is judged anew.
SetStandbyNames(n) ==
    /\ n # names /\ Change /\ names' = n
    /\ UNCHANGED <<inserts, progress, paused, writer, promises>>

PauseReplay(s) ==
    /\ s \notin paused /\ Change /\ paused' = paused \cup {s}
    /\ UNCHANGED <<inserts, progress, names, writer, promises>>

ResumeReplay(s) ==
    /\ s \in paused /\ paused' = paused \ {s}
    /\ UNCHANGED <<inserts, progress, names, writer, promises, changes>>

\* reset, deferred by main: no names, all replaying.
Reset ==
    /\ names # NoNames \/ paused # {}
    /\ names' = NoNames /\ paused' = {}
    /\ UNCHANGED <<inserts, progress, writer, promises, changes>>

Next ==
    \/ \E s \in Standby : (\E g \in Stage : Advance(s, g)) \/ PauseReplay(s) \/ ResumeReplay(s)
    \/ \E w \in Writer : (\E l \in Level : Insert(w, l)) \/ Acknowledge(w) \/ CancelWait(w)
    \/ \E n \in Setting : SetStandbyNames(n)
    \/ Reset

TypeOK ==
    /\ inserts \in 0..MaxInserts /\ names \in Setting /\ paused \subseteq Standby
    /\ \A s \in Standby, g \in Stage : progress[s][g] <= Before(s, g)
    /\ \A w \in Writer : writer[w] = Idle \/ writer[w].lsn <= inserts
    /\ changes \in 0..MaxChanges

\* What an acknowledged commit is worth, whatever settings changed since: flushed on a
\* standby at level on or above (on s1 if the names were FIRST 1), visible there to
\* readers at remote_apply.
PromisesKept ==
    \A p \in promises :
        \E s \in (IF p.by = "FIRST" THEN {"s1"} ELSE Standby) :
            /\ p.level \in {"on", "remote_apply"} => progress[s]["flush"] >= p.lsn
            /\ p.level = "remote_apply" => progress[s]["replay"] >= p.lsn

\* FIRST 1 stands still with s1's replay, ANY 1 only with that of every standby.
Stalled == \/ names = "FIRST" /\ "s1" \in paused
           \/ names = "ANY" /\ paused = Standby

\* A COMMIT waits for ever only if the standbys its setting needs stay paused.
BlocksOnlyWhenStalled ==
    \A w \in Writer : <>[]~Stalled => []<>(writer[w] = Idle)
=============================================================================
