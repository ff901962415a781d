---------------------------- MODULE ObservationLog ----------------------------
(***************************************************************************)
(* One layer's features as the API keeps them: an append-only log of        *)
(* observations, where a feature is whatever its latest one says            *)
(* (apps/portal-api/src/engine, data-layer/features.service.ts), and the    *)
(* layer's syncVersion, a counter inside the item's data blob.              *)
(*                                                                         *)
(* A write is several statements: it reads the feature, bumps the counter,  *)
(* takes its timestamp, takes advisory locks or none, checks, inserts.      *)
(* What a row carries is reduced to what it was computed from (`base`): an  *)
(* update writes the whole feature, its patch merged over the base it read. *)
(***************************************************************************)
EXTENDS Naturals, FiniteSets

CONSTANTS
    MaxEntity,   \* features are 1..MaxEntity, in the order of their lock keys
    Existing,    \* the features there at the start, from an import
    Writers,     \* concurrent requests to the features API
    Ops,         \* the writes that happen
    Batch,       \* the most features one request writes
    Guarding,    \* which requests there are: TRUE, with a baseObservationId
                 \* (the native client); FALSE, without (every other client)
    SchemaEdits, \* TRUE: somebody edits the layer's structure meanwhile
    MaxWrites,   \* bound on the timestamps taken
    MaxVersion   \* bound on the counter

ASSUME LogAssumption ==
    /\ MaxEntity \in Nat
    /\ Existing \subseteq 1..MaxEntity
    /\ Ops \subseteq {"create", "update", "delete", "import"}
    /\ Batch \in Nat
    /\ Guarding \subseteq BOOLEAN
    /\ SchemaEdits \in BOOLEAN
    /\ MaxWrites \in Nat
    /\ MaxVersion \in Nat

Entity == 1..MaxEntity
Time == 0..(MaxWrites + 1)
Version == 0..MaxVersion
NoDraft == MaxVersion + 1

VARIABLES
    log,      \* the observation table
    counter,  \* the layer's syncVersion
    clock,    \* the last timestamp taken
    writer,   \* each request's local variables
    draft,    \* the counter in the data blob an open structure editor holds
    snaps     \* the counters in the item's data snapshots

logVars == <<log, counter, clock, writer, draft, snaps>>

-----------------------------------------------------------------------------
Kind == {"create", "update", "delete"}

\* at:      valid_from and tx_time, taken together by the API process
\* version: source.details.syncVersion, 0 for none
\* base:    the observation it was computed from, by its time; 0 for none
Observation == [entity : Entity, kind : Kind, at : Time, version : Version,
                base : Time, guarded : BOOLEAN]

\* pc:   idle | read | bumped | stamped | checked
\* on:   the features it writes
\* seen: the latest observation of each when it was read
\* held: the advisory locks it holds
WriterState == [pc : {"idle", "read", "bumped", "stamped", "checked"},
                kind : Kind, guarded : BOOLEAN, on : SUBSET Entity,
                seen : [Entity -> Time], version : Version, at : Time,
                held : SUBSET Entity]
Idle == [pc |-> "idle", kind |-> "create", guarded |-> FALSE, on |-> {},
         seen |-> [e \in Entity |-> 0], version |-> 0, at |-> 0, held |-> {}]

TypeOK ==
    /\ log \in SUBSET Observation
    /\ counter \in Version
    /\ clock \in Time
    /\ writer \in [Writers -> WriterState]
    /\ draft \in Version \cup {NoDraft}
    /\ snaps \in SUBSET Version

Of(e) == {o \in log : o.entity = e}

\* (slip: the head by version, the order a delta lists rows in)
HeadByVersion(e) ==
    LET S == Of(e) IN
    IF S = {} THEN 0
    ELSE (CHOOSE o \in S : \A x \in S : x.version <= o.version).at

\* The head of a feature, by its time: latest valid_from, then tx_time.
Head(e) ==
    LET S == Of(e) IN
    IF S = {} THEN 0 ELSE (CHOOSE o \in S : \A x \in S : x.at <= o.at).at

\* (slip: tombstones are left out before the latest row is taken)
LiveOnce(e) == \E o \in Of(e) : o.kind # "delete"

\* What the read path returns: the features whose head is no tombstone.
Live(e) == \E o \in Of(e) : o.at = Head(e) /\ o.kind # "delete"

Init ==
    /\ log = {[entity |-> e, kind |-> "create", at |-> 1, version |-> 0,
               base |-> 0, guarded |-> FALSE] : e \in Existing}
    /\ counter = 0
    /\ clock = 1
    /\ writer = [w \in Writers |-> Idle]
    /\ draft = NoDraft
    /\ snaps = {}

-----------------------------------------------------------------------------
(* A request                                                               *)

\* A request has read the features it is to write.
Start(w, kind, on, guarded) ==
    /\ writer[w].pc = "idle"
    /\ kind \in Ops
    /\ on # {} /\ Cardinality(on) <= Batch
    /\ writer' = [writer EXCEPT ![w] =
          [Idle EXCEPT !.pc = "read", !.kind = kind, !.on = on,
              !.guarded = guarded,
              !.seen = [e \in Entity |-> IF e \in on THEN Head(e) ELSE 0]]]
    /\ UNCHANGED <<log, counter, clock, draft, snaps>>

\* insertFeatures, with ids the client made (the form retry contract).
InsertFeatures(w, on) == Start(w, "create", on, FALSE)

\* updateFeature: a feature that is not live is a 404; a baseObservationId
\* that is not its head is a 409 at once, and the base read otherwise.
UpdateFeature(w, e, guarded) == Live(e) /\ Start(w, "update", {e}, guarded)

\* deleteFeature, likewise.
DeleteFeature(w, e, guarded) == Live(e) /\ Start(w, "delete", {e}, guarded)

\* calculateField: one field of many features, computed from what was read.
CalculateField(w, on) ==
    /\ FALSE \in Guarding
    /\ \A e \in on : Live(e)
    /\ Start(w, "update", on, FALSE)

\* bumpLayerSyncVersion: a compare-and-set on the item's updatedAt, retried.
Bump(w) ==
    /\ writer[w].pc = "read"
    /\ counter < MaxVersion
    /\ counter' = counter + 1
    /\ writer' = [writer EXCEPT ![w].pc = "bumped", ![w].version = counter + 1]
    /\ UNCHANGED <<log, clock, draft, snaps>>

\* validFrom: new Date(), before any transaction begins.
Stamp(w) ==
    /\ writer[w].pc = "bumped"
    /\ clock <= MaxWrites
    /\ clock' = clock + 1
    /\ writer' = [writer EXCEPT ![w].pc = "stamped", ![w].at = clock + 1]
    /\ UNCHANGED <<log, counter, draft, snaps>>

\* (slip: only creates are serialised)
LockingCreates(w) == writer[w].kind = "create"

\* The writes that run in a transaction under advisory locks.
Locking(w) == writer[w].kind = "create" \/ writer[w].guarded
Wanted(w) == writer[w].on \ writer[w].held

\* (slips: locks in the order of the request; locks nobody respects)
TakesAny(w, e) ==
    /\ e \in Wanted(w)
    /\ \A v \in Writers \ {w} : e \notin writer[v].held
TakesHeld(w, e) ==
    /\ e \in Wanted(w)
    /\ \A x \in Wanted(w) : e <= x

\* The lock it waits for next, in sorted order, is free.
Takes(w, e) ==
    /\ e \in Wanted(w)
    /\ \A x \in Wanted(w) : e <= x
    /\ \A v \in Writers \ {w} : e \notin writer[v].held

\* One of the pg_advisory_xact_locks of a create, or the one of a guarded write.
Lock(w, e) ==
    /\ writer[w].pc = "stamped" /\ Locking(w)
    /\ Takes(w, e)
    /\ writer' = [writer EXCEPT ![w].held = @ \cup {e}]
    /\ UNCHANGED <<log, counter, clock, draft, snaps>>

\* (slip: the head is compared before the lock only, when it was read)
PassesAsRead(w) ==
    IF writer[w].kind = "create" THEN {e \in writer[w].on : ~Live(e)}
                                 ELSE writer[w].on

\* What the check under the locks lets through: of a create the features that
\* are not live; a guarded write if the head is still the one it read.
Passes(w) ==
    IF writer[w].kind = "create" THEN {e \in writer[w].on : ~Live(e)}
    ELSE {e \in writer[w].on : Head(e) = writer[w].seen[e]}

\* The snapshot of the guarded INSERT, or writeIfHead's SELECT.  A duplicate is
\* answered with the feature that is there, a conflict with 409.
Check(w) ==
    /\ writer[w].pc = "stamped" /\ Locking(w) /\ Wanted(w) = {}
    /\ writer' = [writer EXCEPT ![w] =
          IF Passes(w) = {} THEN Idle
          ELSE [@ EXCEPT !.pc = "checked", !.on = Passes(w)]]
    /\ UNCHANGED <<log, counter, clock, draft, snaps>>

\* (slip: the source stamp is left out)
WrittenUnversioned(w) ==
    {[entity |-> e, kind |-> writer[w].kind, at |-> writer[w].at,
      base |-> writer[w].seen[e], guarded |-> writer[w].guarded]
        : e \in writer[w].on}

Written(w) ==
    {[entity |-> e, kind |-> writer[w].kind, at |-> writer[w].at,
      version |-> writer[w].version,
      base |-> IF writer[w].kind = "create" THEN 0 ELSE writer[w].seen[e],
      guarded |-> writer[w].guarded] : e \in writer[w].on}

\* The transaction commits and its locks are released; or, for an unguarded
\* update or delete, one plain INSERT, which locks nothing and checks nothing.
Store(w) ==
    /\ writer[w].pc = IF Locking(w) THEN "checked" ELSE "stamped"
    /\ log' = log \cup Written(w)
    /\ writer' = [writer EXCEPT ![w] = Idle]
    /\ UNCHANGED <<counter, clock, draft, snaps>>

\* The request dies; a transaction is rolled back.
GiveUp(w) ==
    /\ writer[w].pc # "idle"
    /\ writer' = [writer EXCEPT ![w] = Idle]
    /\ UNCHANGED <<log, counter, clock, draft, snaps>>

-----------------------------------------------------------------------------
(* An import job commits its COPY: new features, and no version.  It        *)
(* appends; a replace also deletes the scope's rows, locking nothing        *)
(* (copy-writer.ts, deleteScope), and is left out                           *)

Import(on) ==
    /\ "import" \in Ops
    /\ on # {} /\ \A e \in on : Of(e) = {}
    /\ \A e \in on, w \in Writers : e \notin writer[w].on
    /\ clock <= MaxWrites
    /\ clock' = clock + 1
    /\ log' = log \cup
          {[entity |-> e, kind |-> "create", at |-> clock + 1, version |-> 0,
            base |-> 0, guarded |-> FALSE] : e \in on}
    /\ UNCHANGED <<counter, writer, draft, snaps>>

-----------------------------------------------------------------------------
(* The layer's structure: its editor PATCHes the data blob it loaded, the   *)
(* counter in it included, and a revert puts a whole snapshot back           *)

OpenStructure ==
    /\ SchemaEdits
    /\ draft' = counter
    /\ UNCHANGED <<log, counter, clock, writer, snaps>>

\* The blob is snapshot and then replaced.
ReplaceData(version) ==
    /\ counter' = version
    /\ snaps' = snaps \cup {counter}
    /\ UNCHANGED <<log, clock, writer, draft>>

SaveStructure == draft # NoDraft /\ ReplaceData(draft)

Revert(version) == version \in snaps /\ ReplaceData(version)

-----------------------------------------------------------------------------
Writing(w) ==
    \/ \E on \in SUBSET Entity : InsertFeatures(w, on) \/ CalculateField(w, on)
    \/ \E e \in Entity, guarded \in Guarding :
          UpdateFeature(w, e, guarded) \/ DeleteFeature(w, e, guarded)
    \/ Bump(w)
    \/ Stamp(w)
    \/ \E e \in Entity : Lock(w, e)
    \/ Check(w)
    \/ Store(w)
    \/ GiveUp(w)

Structure ==
    OpenStructure \/ SaveStructure \/ \E version \in Version : Revert(version)

LogNext ==
    \/ \E w \in Writers : Writing(w)
    \/ \E on \in SUBSET Entity : Import(on)
    \/ Structure

Spec == Init /\ [][LogNext]_logVars

-----------------------------------------------------------------------------
(* Properties                                                              *)

\* Of the guarded writes made against one observation, one lands
\* (engine.service.ts writeIfHead: two guarded writers cannot both pass).
OneWinnerPerHead ==
    \A o, x \in log :
        o.guarded /\ x.guarded /\ o.entity = x.entity /\ o.base = x.base => o = x

\* A guarded write lands on the head its author saw, nothing in between
\* (engine.service.ts: must not silently overwrite an edit somebody else
\* landed in between).
GuardedSeesAll ==
    [][\A o \in log' \ log : o.guarded => o.base = Head(o.entity)]_log

\* No update lands on anything but what it was merged over, so that a key its
\* caller did not mention keeps its value (features.service.ts updateFeature).
UnmentionedKept ==
    [][\A o \in log' \ log : o.kind = "update" => o.base = Head(o.entity)]_log

\* A create never lands beside a live feature of the same id, however its
\* retries overlap (data-layer.ts writeFeaturesCreateIdempotent).
CreatedOnce ==
    [][\A o \in log' \ log : o.kind = "create" => ~Live(o.entity)]_log

\* A guarded write that is accepted is what is read next: it is at once its
\* feature's head, though rows are ordered by a time taken before the lock.
GuardedIsRead ==
    [][\A o \in log' \ log : o.guarded => o.at > Head(o.entity)]_log

\* The same of every write, a re-create after a delete included
\* (data-layer.ts writeFeaturesCreateIdempotent: resurrection).
WrittenIsRead ==
    [][\A o \in log' \ log : o.at > Head(o.entity)]_log

\* Guarded rows of a feature have the order of their versions, which is the
\* order in which a delta lists them, in their time too, which readers use.
VersionsFollowTime ==
    \A o, x \in log :
        o.guarded /\ x.guarded /\ o.entity = x.entity /\ o.at < x.at
            => o.version < x.version

\* Overlapping batches never wait for each other in a ring: while locks are
\* wanted, some holder or waiter can go on (the sorted lock keys).
SomeoneProceeds ==
    (\E w \in Writers : writer[w].pc = "stamped" /\ Locking(w)) =>
        \E w \in Writers :
            \/ writer[w].pc = "checked"
            \/ /\ writer[w].pc = "stamped" /\ Locking(w)
               /\ Wanted(w) = {} \/ \E e \in Entity : Takes(w, e)

\* The layer's syncVersion is monotonic (shared-types data-layer.ts).
CounterMonotonic == [][counter' >= counter]_counter

\* What a request is about to write, and what it saw of each feature.
Asked(w) == {[feature |-> e, kind |-> writer[w].kind, seen |-> writer[w].seen[e]]
                : e \in writer[w].on}

Layer == INSTANCE LayerContract WITH
    Features <- Entity, Clients <- Writers, Stamps <- Time,
    latest <- [e \in Entity |-> Head(e)],
    live <- {e \in Entity : Live(e)},
    pending <- [w \in Writers |-> Asked(w)]

\* With guarded clients alone, the statements of a write (read, bump, stamp,
\* locks, check, insert) are as if it landed at one moment on what its author
\* saw, whole or refused (engine.service.ts writeIfHead).
WritesAreAtomic == Layer!LayerSpec
=============================================================================
