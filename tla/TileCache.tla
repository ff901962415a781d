----------------------------- MODULE TileCache -----------------------------
(***************************************************************************)
(* One API process's cache of tiles, aggregates and related-key sets       *)
(* (tile-cache.service.ts), the computes that fill it, the lane that       *)
(* bounds them and the LISTEN connection that empties it.  A step is what  *)
(* one turn of the event loop does between two awaits, one query of the    *)
(* database, or one event of the environment.  A value is the version of   *)
(* each scope its compute read.                                            *)
(***************************************************************************)
EXTENDS Integers, Sequences, FiniteSets, SequencesExt

CONSTANTS Scopes,        \* layers whose writes are announced
          Keys,          \* cache keys
          ScopeOf,       \* the scope a key's prefix names
          DependsOn,     \* the other scopes a key's answer depends on
          Inner,         \* the key a key's compute asks the cache for, or NoKey
          NoKey,
          Laned,         \* keys computed in the lane
          Exempt,        \* keys bounded by nothing
          Asked,         \* keys requests ask for
          Callers,       \* requests
          LaneLimit, MaxQueued, TileCap, MaxEntries,
          MaxWrites,     \* bound: writes of one scope
          Clients,       \* bound: connections ever opened
          NoClient

ASSUME TileAssumption ==
    /\ ScopeOf \in [Keys -> Scopes]
    /\ DependsOn \in [Keys -> SUBSET Scopes]
    /\ Inner \in [Keys -> Keys \cup {NoKey}] /\ NoKey \notin Keys
    /\ Laned \subseteq Keys /\ Exempt \subseteq Keys \ Laned /\ Asked \subseteq Keys
    /\ \A k \in Keys : Inner[k] # NoKey => Inner[k] \in Exempt /\ ScopeOf[Inner[k]] \in DependsOn[k]
    /\ Callers \cap Keys = {}
    /\ NoClient \notin Clients
    /\ LaneLimit \in Nat \ {0} /\ TileCap \in Nat \ {0} /\ MaxEntries \in Nat \ {0}
    /\ MaxQueued \in Nat /\ MaxWrites \in Nat

VARIABLES version,       \* the database: how often each scope was written
          wrote,         \* scopes this process wrote and has not dropped yet
          store,         \* entries, each with those used less recently, and the dependency index both ways
          seqno,         \* invalidationSeq, invalidatedAtSeq and clearedAtSeq
          flight,        \* inFlight: the compute of each key and who waits for it
          lane, tiles,   \* the lane's active count and waiters; activeComputes
          conn, bus,     \* LISTEN connections and what is on its way to each
          listener, starting, timers   \* fields of the service, armed retry timers

dbVars == <<version, wrote>>
computeVars == <<flight, lane, tiles>>
listenVars == <<conn, bus, listener, starting, timers>>
vars == <<dbVars, store, seqno, computeVars, listenVars>>

Unread == -1
Unseen == [s \in Scopes |-> Unread]
Values == [Scopes -> Unread..MaxWrites]
NoFlight == [pc |-> "none", seq |-> 0, seen |-> Unseen, waiting |-> {}]
Reads(k) == {ScopeOf[k]} \cup DependsOn[k]

Store == [keys : SUBSET Keys, older : [Keys -> SUBSET Keys], value : [Keys -> Values],
          dependents : [Scopes -> SUBSET Keys], prefixes : [Keys -> SUBSET Scopes]]
Flight == [pc : {"none", "queued", "keys", "joined", "reading", "failing"},
           seq : Nat, seen : Values, waiting : SUBSET (Callers \cup Keys)]

TypeOK ==
    /\ version \in [Scopes -> 0..MaxWrites] /\ wrote \subseteq Scopes
    /\ store \in Store
    /\ seqno \in [now : Nat, at : [Scopes -> Nat], cleared : Nat]
    /\ flight \in [Keys -> Flight]
    /\ lane \in [active : Nat, waiters : Seq(Keys)] /\ tiles \in Nat
    /\ conn \in [Clients -> {"unused", "connecting", "listening", "up", "gone"}]
    /\ bus \in [Clients -> Seq(Scopes)]
    /\ listener \in Clients \cup {NoClient} /\ starting \in BOOLEAN /\ timers \in Nat

Init ==
    /\ version = [s \in Scopes |-> 0]
    /\ wrote = {}
    /\ store = [keys |-> {}, older |-> [k \in Keys |-> {}], value |-> [k \in Keys |-> Unseen],
                dependents |-> [s \in Scopes |-> {}], prefixes |-> [k \in Keys |-> {}]]
    /\ seqno = [now |-> 0, at |-> [s \in Scopes |-> 0], cleared |-> 0]
    /\ flight = [k \in Keys |-> NoFlight]
    /\ lane = [active |-> 0, waiters |-> <<>>]
    /\ tiles = 0
    /\ conn = [c \in Clients |-> "unused"]
    /\ bus = [c \in Clients |-> <<>>]
    /\ listener = NoClient
    /\ starting = FALSE
    /\ timers = 0

(***************************************************************************)
(* The store: dropEntry, set, registerDependency, invalidatePrefix, clear. *)
(***************************************************************************)
\* Slip: an entry goes and its place in the dependency index stays.
DropOnly(st, ks) ==
    [st EXCEPT !.keys = @ \ ks,
               !.older = [k \in Keys |-> IF k \in ks THEN {} ELSE @[k] \ ks],
               !.value = [k \in Keys |-> IF k \in ks THEN Unseen ELSE @[k]]]

\* dropEntry of each of ks: the entry and its registrations go together.
Drop(st, ks) ==
    LET gone == ks \cap st.keys
    IN [keys       |-> st.keys \ gone,
        older      |-> [k \in Keys |-> IF k \in gone THEN {} ELSE st.older[k] \ gone],
        value      |-> [k \in Keys |-> IF k \in gone THEN Unseen ELSE st.value[k]],
        dependents |-> [s \in Scopes |-> st.dependents[s] \ gone],
        prefixes   |-> [k \in Keys |-> IF k \in gone THEN {} ELSE st.prefixes[k]]]

Register(st, k) ==
    [st EXCEPT !.dependents = [s \in Scopes |-> IF s \in DependsOn[k] THEN @[s] \cup {k} ELSE @[s]],
               !.prefixes[k] = @ \cup DependsOn[k]]

\* The entry becomes the youngest.
Promote(st, k) ==
    [st EXCEPT !.keys = @ \cup {k},
               !.older = [i \in Keys |-> IF i = k THEN st.keys \ {k} ELSE @[i] \ {k}]]

\* set: the oldest entries go until both budgets hold.  A buffer over the byte
\* budget takes every entry with it, itself last.
Put(st, k, v, big) ==
    LET kept == [Promote(st, k) EXCEPT !.value[k] = v]
        over == {i \in kept.keys :
                    big \/ Cardinality(kept.older[i]) + MaxEntries < Cardinality(kept.keys)}
    IN Drop(kept, over)

Invalidate(st, s) ==
    LET cut == Drop(st, {k \in Keys : ScopeOf[k] = s} \cup st.dependents[s])
    IN [cut EXCEPT !.dependents[s] = {},
                   !.prefixes = [k \in Keys |-> IF k \in st.dependents[s] THEN @[k] \ {s} ELSE @[k]]]

InvalidatePrefix(s) ==
    /\ store' = Invalidate(store, s)
    /\ seqno' = [seqno EXCEPT !.now = @ + 1, !.at[s] = seqno.now + 1]

Clear ==
    /\ store' = Drop([store EXCEPT !.dependents = [s \in Scopes |-> {}],
                                   !.prefixes = [k \in Keys |-> {}]], Keys)
    /\ seqno' = [now |-> seqno.now + 1, at |-> [s \in Scopes |-> 0], cleared |-> seqno.now + 1]

\* Slip: a clear does not count as an invalidation.
InvalidatedSinceByPrefix(k) == \E s \in Reads(k) : seqno.at[s] > flight[k].seq

InvalidatedSince(k) ==
    \/ seqno.cleared > flight[k].seq
    \/ \E s \in Reads(k) : seqno.at[s] > flight[k].seq

\* The entry's lifetime is over when it is looked up.
Expire(k) ==
    /\ k \in store.keys
    /\ store' = Drop(store, {k})
    /\ UNCHANGED <<dbVars, seqno, computeVars, listenVars>>

(***************************************************************************)
(* The LISTEN connection.                                                  *)
(***************************************************************************)
Unused == {c \in Clients : conn[c] = "unused"}

\* ensureListener, where the connections stand at cs, the listener at l.
EnsureListener(cs, l, st) ==
    IF l = NoClient /\ ~st
    THEN /\ starting' = TRUE
         /\ conn' = IF Unused = {} THEN cs
                    ELSE [cs EXCEPT ![CHOOSE c \in Unused : TRUE] = "connecting"]
    ELSE starting' = st /\ conn' = cs

\* LISTEN takes effect in the database ...
ListenCommits(c) ==
    /\ conn[c] = "connecting"
    /\ conn' = [conn EXCEPT ![c] = "listening"]
    /\ UNCHANGED <<dbVars, store, seqno, computeVars, bus, listener, starting, timers>>

\* ... and its answer arrives: what was cached before may be stale.
ListenerUp(c) ==
    /\ conn[c] = "listening"
    /\ conn' = [conn EXCEPT ![c] = "up"]
    /\ listener' = c
    /\ starting' = FALSE
    /\ Clear
    /\ UNCHANGED <<dbVars, computeVars, bus, timers>>

\* A connect that fails, an error or the end of the connection: restart.
ListenerLost(c) ==
    /\ conn[c] \in {"connecting", "listening", "up"}
    /\ conn' = [conn EXCEPT ![c] = "gone"]
    /\ bus' = [bus EXCEPT ![c] = <<>>]
    /\ listener' = IF listener = c THEN NoClient ELSE listener
    /\ timers' = timers + 1
    /\ UNCHANGED <<dbVars, store, seqno, computeVars, starting>>

RetryTimer ==
    /\ timers > 0
    /\ timers' = timers - 1
    /\ EnsureListener(conn, listener, FALSE)
    /\ UNCHANGED <<dbVars, store, seqno, computeVars, bus, listener>>

\* One notification: onObservationWritten.
Notify(c) ==
    /\ conn[c] \in {"listening", "up"}
    /\ bus[c] # <<>>
    /\ bus' = [bus EXCEPT ![c] = Tail(@)]
    /\ InvalidatePrefix(Head(bus[c]))
    /\ UNCHANGED <<dbVars, computeVars, conn, listener, starting, timers>>

(***************************************************************************)
(* Writes.  The trigger announces a scope to every listening connection as *)
(* the write commits; the process that wrote also drops the scope itself.  *)
(***************************************************************************)
Write(s, here) ==
    /\ version[s] < MaxWrites
    /\ version' = [version EXCEPT ![s] = @ + 1]
    /\ wrote' = IF here THEN wrote \cup {s} ELSE wrote
    /\ bus' = [c \in Clients |-> IF conn[c] \in {"listening", "up"}
                                 THEN Append(bus[c], s) ELSE bus[c]]
    /\ UNCHANGED <<store, seqno, computeVars, conn, listener, starting, timers>>

Wrote(s) ==
    /\ s \in wrote
    /\ wrote' = wrote \ {s}
    /\ InvalidatePrefix(s)
    /\ UNCHANGED <<version, computeVars, listenVars>>

(***************************************************************************)
(* getOrCompute, for a request or for the compute of another key.          *)
(***************************************************************************)
Begun(k) == IF Inner[k] = NoKey THEN "reading" ELSE "keys"

\* x may ask for k: a free request for one of the keys asked for, or a compute
\* at the point where it needs the inner key.
Asks(x, k) ==
    \/ x \in Callers /\ k \in Asked /\ \A i \in Keys : x \notin flight[i].waiting
    \/ x \in Keys /\ flight[x].pc = "keys" /\ k = Inner[x]

\* The flights once key x has the answer v of its inner key.
Given(fl, x, v) ==
    [fl EXCEPT ![x].pc = "reading",
               ![x].seen = [s \in Scopes |-> IF s \in DependsOn[x] THEN v[s] ELSE @[s]]]

Hit(x, k) ==
    /\ Asks(x, k)
    /\ k \in store.keys
    /\ store' = Promote(store, k)
    /\ flight' = IF x \in Keys THEN Given(flight, x, store.value[k]) ELSE flight
    /\ UNCHANGED <<dbVars, seqno, lane, tiles, listenVars>>

\* What x is doing once it waits for k.
Waits(fl, x, k) ==
    LET joined == [fl EXCEPT ![k].waiting = @ \cup {x}]
    IN IF x \in Keys THEN [joined EXCEPT ![x].pc = "joined"] ELSE joined

Join(x, k) ==
    /\ Asks(x, k)
    /\ k \notin store.keys
    /\ flight[k].pc # "none"
    /\ flight' = Waits(flight, x, k)
    /\ UNCHANGED <<dbVars, store, seqno, lane, tiles, listenVars>>

\* A request for a key that is neither stored nor being computed leads.  Under
\* the tile cap it runs or is refused; in the lane it runs, queues or, with the
\* queue full, is refused, its flight ending as it begins.
Lead(x, k) ==
    LET capped  == k \notin Laned \cup Exempt
        waits   == k \in Laned /\ lane.active >= LaneLimit
        refused == waits /\ Len(lane.waiters) >= MaxQueued
        begun   == [NoFlight EXCEPT !.pc = IF waits THEN "queued" ELSE Begun(k), !.seq = seqno.now]
    IN /\ Asks(x, k)
       /\ k \notin store.keys
       /\ flight[k].pc = "none"
       /\ capped => tiles < TileCap
       /\ tiles' = IF capped THEN tiles + 1 ELSE tiles
       /\ lane' = CASE refused \/ k \notin Laned -> lane
                   [] waits /\ ~refused -> [lane EXCEPT !.waiters = Append(@, k)]
                   [] k \in Laned /\ ~waits -> [lane EXCEPT !.active = @ + 1]
       /\ flight' = IF refused THEN flight ELSE Waits([flight EXCEPT ![k] = begun], x, k)
       /\ EnsureListener(conn, listener, starting)
       /\ UNCHANGED <<dbVars, store, seqno, bus, listener, timers>>

\* The compute of k reads a scope.
Read(k, s) ==
    /\ flight[k].pc = "reading"
    /\ s \in Reads(k)
    /\ flight[k].seen[s] = Unread
    /\ flight' = [flight EXCEPT ![k].seen[s] = version[s]]
    /\ UNCHANGED <<dbVars, store, seqno, lane, tiles, listenVars>>

\* Slip: the slot is given back and the next in line is not called.
ReleasedSilently(k, fl) ==
    /\ flight' = [fl EXCEPT ![k] = NoFlight]
    /\ lane' = IF k \in Laned THEN [lane EXCEPT !.active = @ - 1] ELSE lane
    /\ tiles' = IF k \in Laned \cup Exempt THEN tiles ELSE tiles - 1

\* The finally of a compute, fl being the flights after its outcome: the slot
\* goes to the first waiter of the lane, the flight ends.
Released(k, fl) ==
    LET over == [fl EXCEPT ![k] = NoFlight]
        next == Head(lane.waiters)
    IN IF k \in Laned /\ lane.waiters # <<>>
       THEN /\ lane' = [lane EXCEPT !.waiters = Tail(@)]
            /\ flight' = [over EXCEPT ![next].pc = Begun(next)]
            /\ UNCHANGED tiles
       ELSE /\ lane' = IF k \in Laned THEN [lane EXCEPT !.active = @ - 1] ELSE lane
            /\ flight' = over
            /\ tiles' = IF k \in Laned \cup Exempt THEN tiles ELSE tiles - 1

\* The compute answers: stored, unless an invalidation came since it began.
Complete(k, big) ==
    /\ flight[k].pc = "reading"
    /\ \A s \in Reads(k) : flight[k].seen[s] # Unread
    /\ LET v == flight[k].seen
           waitingKeys == flight[k].waiting \cap Keys
       IN /\ store' = IF InvalidatedSince(k) THEN store ELSE Put(Register(store, k), k, v, big)
          /\ Released(k, [i \in Keys |-> IF i \in waitingKeys
                                         THEN Given(flight, i, v)[i] ELSE flight[i]])
    /\ UNCHANGED <<dbVars, seqno, listenVars>>

\* It throws or runs out of time, and every compute that waits for it throws.
Fail(k) ==
    /\ flight[k].pc \in {"reading", "failing"}
    /\ Released(k, [i \in Keys |-> IF i \in flight[k].waiting
                                   THEN [flight[i] EXCEPT !.pc = "failing"] ELSE flight[i]])
    /\ UNCHANGED <<dbVars, store, seqno, listenVars>>

\* A request hangs up; the last one to go withdraws a compute still queued.
Abort(x) ==
    \E k \in Keys :
        /\ x \in flight[k].waiting
        /\ LET left == flight[k].waiting \ {x}
           IN IF left = {} /\ flight[k].pc = "queued"
              THEN /\ flight' = [flight EXCEPT ![k] = NoFlight]
                   /\ \E p \in DOMAIN lane.waiters :
                          lane.waiters[p] = k /\ lane' = [lane EXCEPT !.waiters = RemoveAt(@, p)]
              ELSE /\ flight' = [flight EXCEPT ![k].waiting = left]
                   /\ UNCHANGED lane
        /\ UNCHANGED <<dbVars, store, seqno, tiles, listenVars>>

Compute(k) == (\E s \in Scopes : Read(k, s)) \/ (\E b \in BOOLEAN : Complete(k, b)) \/ Fail(k)
GetOrCompute(x, k) == Hit(x, k) \/ Join(x, k) \/ Lead(x, k)

Next ==
    \/ \E s \in Scopes : Wrote(s) \/ \E here \in BOOLEAN : Write(s, here)
    \/ \E x \in Callers \cup Keys, k \in Keys : GetOrCompute(x, k)
    \/ \E x \in Callers : Abort(x)
    \/ \E k \in Keys : Compute(k) \/ Expire(k)
    \/ \E c \in Clients : ListenCommits(c) \/ ListenerUp(c) \/ ListenerLost(c) \/ Notify(c)
    \/ RetryTimer

\* A compute ends, if only by its time limit, and one that needs another key asks for it.
Fairness ==
    \A k \in Keys : WF_vars(Compute(k)) /\ WF_vars(\E i \in Keys : GetOrCompute(k, i))

Spec == Init /\ [][Next]_vars
FairSpec == Spec /\ Fairness

(***************************************************************************)
(* Properties.                                                             *)
(***************************************************************************)
\* While the listener is up, an entry differs from the database only where a
\* notification is on its way, whatever writes, clears, evictions and second
\* connections fall before, during or after the compute: where no two keys share
\* an inner key and none is asked for directly (TileNested.cfg otherwise).
Fresh ==
    listener # NoClient =>
        \A k \in store.keys : \A s \in Reads(k) :
            store.value[k][s] = version[s] \/ s \in Range(bus[listener])

\* The two sides of the dependency index agree and speak of stored keys only,
\* each under everything it depends on (dropEntry, "the single exit for a key").
IndexMatches ==
    \A k \in Keys, s \in Scopes :
        LET due == k \in store.keys /\ s \in DependsOn[k]
        IN (k \in store.dependents[s] <=> due) /\ (s \in store.prefixes[k] <=> due)

\* The lane counts what runs in it, is never over its limit, and nobody queues
\* while a slot is free; the tile count likewise.
SlotsBalance ==
    LET Running(ks) == Cardinality({k \in ks : flight[k].pc \notin {"none", "queued"}})
    IN /\ lane.active = Running(Laned) /\ lane.active <= LaneLimit
       /\ Range(lane.waiters) = {k \in Keys : flight[k].pc = "queued"}
       /\ lane.waiters # <<>> => lane.active = LaneLimit
       /\ tiles = Running(Keys \ (Laned \cup Exempt)) /\ tiles <= TileCap

\* Every request is answered, refused or given up.
Answered == \A x \in Callers, k \in Keys : x \in flight[k].waiting ~> x \notin flight[k].waiting

\* A request made after a scope was invalidated is not given an answer computed
\* before: violated by joining (TileJoined.cfg).
JoinsFresh ==
    [][\A x \in Callers, k \in Keys :
          x \in flight'[k].waiting /\ x \notin flight[k].waiting /\ flight[k].pc # "none"
              => ~InvalidatedSince(k)]_vars

\* One LISTEN connection at a time: violated when a request comes between the
\* loss of the listener and its retry timer (TileCache.cfg with this invariant added).
OneListener == Cardinality({c \in Clients : conn[c] \in {"connecting", "listening", "up"}}) <= 1
=============================================================================
