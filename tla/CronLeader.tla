----------------------------- MODULE CronLeader -----------------------------
(***************************************************************************)
(* Which API replica runs the scheduled jobs (leader-election.service.ts): *)
(* every replica keeps one connection of its own to the database and tries *)
(* for one session advisory lock on it; the lock goes with the session.    *)
(* A step is one turn of a replica's event loop between two awaits, one    *)
(* query in the database, or one event of the environment.                 *)
(***************************************************************************)
EXTENDS Integers, FiniteSets

CONSTANTS Replicas,
          NoOne,        \* nobody holds the lock
          Ghost,        \* a session its replica has left and the database not ended
          MaxDrops,     \* bound: connections lost or refused
          MaxRestarts   \* bound: processes stopped or killed

ASSUME LeaderAssumption ==
    /\ NoOne # Ghost /\ Replicas \cap {NoOne, Ghost} = {}
    /\ MaxDrops \in Nat /\ MaxRestarts \in Nat

VARIABLES phase,        \* the process: down, before the poll timer is set, polling
          client,       \* this.client and connecting
          queries,      \* queries of the election without an answer yet
          leader,       \* isLeader
          lock,         \* the database: whose session holds the lock
          drops, restarts

leaderVars == <<phase, client, queries, leader, lock, drops, restarts>>

\* A query is of the connect ("first"), of a follower's poll or of a leader's.
Kinds == {"first", "acquire", "check"}
Ask(what) == [what |-> what, reply |-> "none"]

LeaderTypeOK ==
    /\ phase \in [Replicas -> {"down", "init", "polling"}]
    /\ client \in [Replicas -> {"none", "connecting", "open", "severed"}]
    /\ queries \in [Replicas -> SUBSET [what : Kinds, reply : {"none", "yes", "no"}]]
    /\ leader \in [Replicas -> BOOLEAN]
    /\ lock \in Replicas \cup {NoOne, Ghost}
    /\ drops \in 0..MaxDrops /\ restarts \in 0..MaxRestarts

LeaderInit ==
    /\ phase = [r \in Replicas |-> "down"]
    /\ client = [r \in Replicas |-> "none"]
    /\ queries = [r \in Replicas |-> {}]
    /\ leader = [r \in Replicas |-> FALSE]
    /\ lock = NoOne
    /\ drops = 0 /\ restarts = 0

\* connecting: a connect, or the first query after it, has not come back.
Connecting(r) == client[r] = "connecting" \/ \E q \in queries[r] : q.what = "first"

\* onModuleInit: connect before the poll timer is set.
Boot(r) ==
    /\ phase[r] = "down"
    /\ phase' = [phase EXCEPT ![r] = "init"]
    /\ client' = [client EXCEPT ![r] = "connecting"]
    /\ UNCHANGED <<queries, leader, lock, drops, restarts>>

Connected(r) ==
    /\ client[r] = "connecting"
    /\ client' = [client EXCEPT ![r] = "open"]
    /\ queries' = [queries EXCEPT ![r] = @ \cup {Ask("first")}]
    /\ UNCHANGED <<phase, leader, lock, drops, restarts>>

ConnectFails(r) ==
    /\ client[r] = "connecting"
    /\ drops < MaxDrops
    /\ drops' = drops + 1
    /\ client' = [client EXCEPT ![r] = "none"]
    /\ leader' = [leader EXCEPT ![r] = FALSE]
    /\ phase' = [phase EXCEPT ![r] = "polling"]
    /\ UNCHANGED <<queries, lock, restarts>>

\* Slip: a follower does not try again while its connection lives.
ReconcileOnce(r) ==
    /\ phase[r] = "polling"
    /\ client[r] = "none" /\ ~Connecting(r)
    /\ client' = [client EXCEPT ![r] = "connecting"]
    /\ UNCHANGED <<phase, queries, leader, lock, drops, restarts>>

\* reconcile, up to its query.  Polls overlap, by bound one of a kind
\* at a time: nothing waits for the last one.
Reconcile(r) ==
    /\ phase[r] = "polling"
    /\ \/ /\ client[r] = "none" /\ ~Connecting(r)
          /\ client' = [client EXCEPT ![r] = "connecting"]
          /\ UNCHANGED queries
       \/ /\ client[r] \in {"open", "severed"}
          /\ LET what == IF leader[r] THEN "check" ELSE "acquire"
             IN /\ \A q \in queries[r] : q.what # what
                /\ queries' = [queries EXCEPT ![r] = @ \cup {Ask(what)}]
          /\ UNCHANGED client
    /\ UNCHANGED <<phase, leader, lock, drops, restarts>>

\* The database runs a query: pg_try_advisory_lock, or SELECT 1.
Serve(r, q) ==
    LET got == q.what = "check" \/ lock \in {NoOne, r}
    IN /\ q \in queries[r] /\ q.reply = "none"
       /\ client[r] = "open"
       /\ lock' = IF q.what # "check" /\ got THEN r ELSE lock
       /\ queries' = [queries EXCEPT ![r] = (@ \ {q}) \cup
                          {[q EXCEPT !.reply = IF got THEN "yes" ELSE "no"]}]
       /\ UNCHANGED <<phase, client, leader, drops, restarts>>

\* Its answer arrives, tryAcquire's rest.
Answer(r, q) ==
    /\ q \in queries[r] /\ q.reply # "none"
    /\ queries' = [queries EXCEPT ![r] = @ \ {q}]
    /\ leader' = IF q.what = "check" THEN leader ELSE [leader EXCEPT ![r] = q.reply = "yes"]
    /\ phase' = IF q.what = "first" THEN [phase EXCEPT ![r] = "polling"] ELSE phase
    /\ UNCHANGED <<client, lock, drops, restarts>>

\* Slip: the client goes and the replica goes on leading.
OnClientDroppedLeading(r) ==
    /\ client' = [client EXCEPT ![r] = "none"]
    /\ queries' = [queries EXCEPT ![r] = {}]
    /\ phase' = [phase EXCEPT ![r] = "polling"]
    /\ lock' = IF lock = r THEN Ghost ELSE lock
    /\ UNCHANGED leader

\* onClientDropped, and the catch of the connect: demote and let the client go.
\* Every query still on it is rejected in the same turn; the session is the
\* database's to end.
OnClientDropped(r) ==
    /\ client' = [client EXCEPT ![r] = "none"]
    /\ queries' = [queries EXCEPT ![r] = {}]
    /\ phase' = [phase EXCEPT ![r] = "polling"]
    /\ leader' = [leader EXCEPT ![r] = FALSE]
    /\ lock' = IF lock = r THEN Ghost ELSE lock

\* The client says 'error' or 'end', or a query on it fails.
ClientLost(r) ==
    /\ \/ client[r] = "severed" /\ UNCHANGED drops
       \/ client[r] = "open" /\ drops < MaxDrops /\ drops' = drops + 1
    /\ OnClientDropped(r)
    /\ UNCHANGED restarts

\* The database ends a session, a restart or a failover: the lock is free before
\* the replica knows.
Sever(r) ==
    /\ client[r] = "open"
    /\ drops < MaxDrops
    /\ drops' = drops + 1
    /\ client' = [client EXCEPT ![r] = "severed"]
    /\ lock' = IF lock = r THEN NoOne ELSE lock
    /\ UNCHANGED <<phase, queries, leader, restarts>>

GhostEnds ==
    /\ lock = Ghost
    /\ lock' = NoOne
    /\ UNCHANGED <<phase, client, queries, leader, drops, restarts>>

\* The process ends: onModuleDestroy unlocks, a kill leaves the session behind.
Exit(r, killed) ==
    /\ phase[r] # "down"
    /\ restarts < MaxRestarts
    /\ restarts' = restarts + 1
    /\ phase' = [phase EXCEPT ![r] = "down"]
    /\ client' = [client EXCEPT ![r] = "none"]
    /\ queries' = [queries EXCEPT ![r] = {}]
    /\ leader' = [leader EXCEPT ![r] = FALSE]
    /\ lock' = IF lock # r THEN lock ELSE IF killed THEN Ghost ELSE NoOne
    /\ UNCHANGED drops

LeaderNext ==
    \/ GhostEnds
    \/ \E r \in Replicas :
          \/ Boot(r) \/ Connected(r) \/ ConnectFails(r) \/ Reconcile(r) \/ ClientLost(r) \/ Sever(r)
          \/ \E q \in queries[r] : Serve(r, q) \/ Answer(r, q)

\* Every replica is started, its event loop turns, the database answers and
\* ends the sessions of the dead.
LeaderFairness ==
    /\ WF_leaderVars(GhostEnds)
    /\ \A r \in Replicas :
        /\ WF_leaderVars(Boot(r)) /\ WF_leaderVars(Connected(r)) /\ WF_leaderVars(Reconcile(r))
        /\ WF_leaderVars(client[r] = "severed" /\ ClientLost(r))
        /\ \A w \in Kinds :
              WF_leaderVars(\E q \in queries[r] : q.what = w /\ (Serve(r, q) \/ Answer(r, q)))

LeaderStep == LeaderNext \/ \E r \in Replicas, k \in BOOLEAN : Exit(r, k)

LeaderSpec ==
    /\ LeaderInit
    /\ [][LeaderStep]_leaderVars
    /\ LeaderFairness

\* A replica leads only while its session holds the lock, or until it hears that
\* the session is gone ...
LeaderHolds == \A r \in Replicas : leader[r] => lock = r \/ client[r] = "severed"

\* ... because only a live session holds it, only a client has queries, and a
\* query answered yes was answered by that session.
Sessions ==
    \A r \in Replicas :
        /\ lock = r => client[r] = "open"
        /\ client[r] \in {"none", "connecting"} => queries[r] = {} /\ ~leader[r]
        /\ leader[r] => phase[r] = "polling"
        /\ phase[r] = "down" => client[r] = "none"
        /\ \A q \in queries[r] :
              /\ q.what # "first" => phase[r] = "polling"
              /\ q.what # "check" /\ q.reply = "yes" => lock = r \/ client[r] = "severed"

Leads == {r \in Replicas : leader[r]}
Contract == INSTANCE LeaderContract WITH ready <- {r \in Replicas : phase[r] = "polling"},
                                         leads <- Leads,
                                         lapsed <- {r \in Leads : lock # r}

\* The election keeps what the cron services rely on: no answer, late or out of
\* order, no overlap of polls and no client let go makes two replicas lead that
\* both hold live sessions, or one lead before it has tried.
KeepsContract == Contract!ContractSpec

\* Whatever was lost, in the end one replica leads and goes on leading
\* (leader-election.service.ts: the poll "bounds how long a dead leader's crons
\* pause before a follower picks them up").
EventuallyLed == <>[](\E r \in Replicas : leader[r] /\ lock = r)
=============================================================================
