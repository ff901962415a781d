------------------------------ MODULE LayerDelta ------------------------------
(***************************************************************************)
(* A device's copy of one layer and its refresh: a full download and a      *)
(* cursor at first, afterwards the observations above the cursor, page by   *)
(* page (portal-web/src/lib/offline-download.ts, data-layer/features.       *)
(* service.ts listDelta), over the log that requests keep writing.          *)
(***************************************************************************)
EXTENDS ObservationLog

CONSTANTS
    Limit,      \* the page size the device asks for (DELTA_PAGE_LIMIT)
    MaxLimit,   \* the most rows a delta query returns, the probe included
    Overlap,    \* TRUE: writes may be in flight while a refresh is
    Ghosts      \* TRUE: features may be deleted between a first download that
                \* ended with no cursor and the next one

ASSUME DeltaAssumption ==
    /\ Limit \in Nat \ {0}
    /\ MaxLimit \in Nat \ {0} /\ Limit <= MaxLimit
    /\ Overlap \in BOOLEAN
    /\ Ghosts \in BOOLEAN

NoCursor == MaxVersion + 1

VARIABLES
    cache,   \* the features store: of each feature the row it shows, 0 for none
    cursor,  \* the layer's syncVersion in the device's manifest
    pull,    \* the refresh in progress
    fresh    \* "yes": a refresh has finished, and nothing was written since
             \* it started; "pulling": nothing was, so far; else "no" (history)

deltaVars == <<cache, cursor, pull, fresh>>
vars == <<logVars, deltaVars>>

\* pc: idle | full | seed | ask | answer (queried, the counter not yet read)
\*     | save (all pages applied, the manifest not yet written)
Pull == [pc : {"idle", "full", "seed", "ask", "answer", "save"},
         since : Version, page : SUBSET Observation, truncated : BOOLEAN,
         head : Version]
NoPull == [pc |-> "idle", since |-> 0, page |-> {}, truncated |-> FALSE,
           head |-> 0]

DeltaTypeOK ==
    /\ cache \in [Entity -> Time]
    /\ cursor \in Version \cup {NoCursor}
    /\ pull \in Pull
    /\ fresh \in {"no", "pulling", "yes"}

DeltaInit ==
    /\ Init
    /\ cache = [e \in Entity |-> 0]
    /\ cursor = NoCursor
    /\ pull = NoPull
    /\ fresh = "no"

WritersIdle == \A w \in Writers : writer[w].pc = "idle"

-----------------------------------------------------------------------------
(* The server's side of a refresh                                          *)

\* What a full GeoJSON read returns.
View == [e \in Entity |-> IF Live(e) THEN Head(e) ELSE 0]

AtMost(a, b) == IF a < b THEN a ELSE b

\* listDeltaSince's order: by version, then tx_time.
Precedes(o, x) == o.version < x.version \/ (o.version = x.version /\ o.at <= x.at)

\* The observations a delta since a cursor lists.
RowsSince(since) == {o \in log : o.version > since}

\* The first n of them, ties in any order.
FirstOf(rows, n) ==
    {page \in SUBSET rows :
        /\ Cardinality(page) = AtMost(n, Cardinality(rows))
        /\ \A o \in page, x \in rows \ page : Precedes(o, x)}

\* listDelta asks for one row more than the page to learn whether it is cut
\* short; the query caps what it is asked for.
Query ==
    LET rows == RowsSince(pull.since)
        probed == AtMost(Limit + 1, MaxLimit) IN
    /\ pull.pc = "ask"
    /\ \E page \in FirstOf(rows, AtMost(Limit, MaxLimit)) :
          pull' = [pull EXCEPT !.pc = "answer", !.page = page,
              !.truncated = AtMost(probed, Cardinality(rows)) > Limit]
    /\ UNCHANGED <<logVars, cache, cursor, fresh>>

-----------------------------------------------------------------------------
(* The device's side                                                       *)

\* A refresh of the downloaded area: a delta where the manifest has a cursor.
StartRefresh ==
    /\ pull.pc = "idle"
    /\ Overlap \/ WritersIdle
    /\ pull' = IF cursor = NoCursor THEN [NoPull EXCEPT !.pc = "full"]
               ELSE [NoPull EXCEPT !.pc = "ask", !.since = cursor]
    /\ fresh' = "pulling"
    /\ UNCHANGED <<logVars, cache, cursor>>

\* The full read; what it returns is put, nothing is taken away.
FullRead ==
    /\ pull.pc = "full"
    /\ cache' = [e \in Entity |-> IF View[e] # 0 THEN View[e] ELSE cache[e]]
    /\ pull' = [pull EXCEPT !.pc = "seed"]
    /\ UNCHANGED <<logVars, cursor, fresh>>

\* (slip: the null of a failed seed is kept as a cursor)
SeedNull ==
    /\ pull.pc = "seed"
    /\ pull' = [pull EXCEPT !.pc = "save", !.head = NoCursor]
    /\ UNCHANGED <<logVars, cache, cursor, fresh>>

\* seedSyncVersionCursor: one more request, for the counter.
Seed ==
    /\ pull.pc = "seed"
    /\ pull' = [pull EXCEPT !.pc = "save", !.head = counter]
    /\ UNCHANGED <<logVars, cache, cursor, fresh>>

\* It failed: the layer counts as cached and has no cursor.
SeedMissed ==
    /\ pull.pc = "seed"
    /\ pull' = NoPull
    /\ fresh' = IF fresh = "pulling" THEN "yes" ELSE "no"
    /\ UNCHANGED <<logVars, cache, cursor>>

LastOn(page, e) ==
    CHOOSE o \in page : /\ o.entity = e
                        /\ \A x \in page : x.entity = e => Precedes(x, o)

\* (slip: tombstones are skipped)
AppliedUpserts(page) ==
    [e \in Entity |->
        IF \E o \in page : o.entity = e /\ o.kind # "delete"
        THEN LastOn({o \in page : o.kind # "delete"}, e).at ELSE cache[e]]

\* applyDeltaChanges: the last change of each feature on the page wins.
Applied(page) ==
    [e \in Entity |->
        IF ~\E o \in page : o.entity = e THEN cache[e]
        ELSE IF LastOn(page, e).kind = "delete" THEN 0 ELSE LastOn(page, e).at]

\* A truncated walk goes on above the version of the last change on its page.
NextSince(page) ==
    (CHOOSE o \in page : \A x \in page : Precedes(x, o)).version

\* The counter is read after the query, and both are the answer; the device
\* applies the page and asks for the next, or has reached the head.
Answer ==
    /\ pull.pc = "answer"
    /\ cache' = Applied(pull.page)
    /\ pull' = IF pull.truncated
          THEN [NoPull EXCEPT !.pc = "ask", !.since = NextSince(pull.page)]
          ELSE [NoPull EXCEPT !.pc = "save", !.head = counter]
    /\ UNCHANGED <<logVars, cursor, fresh>>

\* The manifest is written when the whole download has run.
SaveManifest ==
    /\ pull.pc = "save"
    /\ cursor' = pull.head
    /\ pull' = NoPull
    /\ fresh' = IF fresh = "pulling" THEN "yes" ELSE "no"
    /\ UNCHANGED <<logVars, cache>>

\* A request fails or the tab is closed: what was applied stays, the manifest
\* keeps its old cursor.
FailRefresh ==
    /\ pull.pc # "idle"
    /\ pull' = NoPull
    /\ fresh' = "no"
    /\ UNCHANGED <<logVars, cache, cursor>>

-----------------------------------------------------------------------------
\* The log goes on, in between or at the same time.
LogStep ==
    /\ LogNext
    /\ Overlap \/ pull.pc = "idle"
    /\ \/ Ghosts \/ cursor # NoCursor
       \/ \A e \in Entity : cache[e] # 0 => Live(e)'
    /\ fresh' = IF log' # log THEN "no" ELSE fresh
    /\ UNCHANGED <<cache, cursor, pull>>

Refresh ==
    StartRefresh \/ FullRead \/ Seed \/ SeedMissed \/ Query \/ Answer
    \/ SaveManifest \/ FailRefresh

DeltaSpec == DeltaInit /\ [][LogStep \/ Refresh]_vars

-----------------------------------------------------------------------------
\* A device that has just refreshed a layer nobody wrote to meanwhile shows
\* what the layer holds: no feature missing, stale, or already deleted
\* (docs/mobile-field-app.md: a full download first, then incremental upserts
\* and deletes).
Refreshed == fresh = "yes" => cache = View
=============================================================================
