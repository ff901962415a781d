------------------------------ MODULE FieldSync ------------------------------
(***************************************************************************)
(* The field client's offline edit queue and everything that drains it.    *)
(*                                                                         *)
(* One device holds a queue of edits in IndexedDB.  The field page drains  *)
(* it (offline-sync.ts, syncQueue), and so does the service worker         *)
(* (public/sw.js, drainFeatureQueue), each in several transactions with    *)
(* network requests between them, while the person keeps editing            *)
(* (offline-store.ts, enqueueEdit), signs out, or hands the device over.    *)
(* The server is reduced to what a replay can observe of it: a feature is   *)
(* there or not, a create lands once, an update overwrites.                 *)
(*                                                                         *)
(* A step of this module is one IndexedDB transaction, one request, or one  *)
(* event of the environment.                                               *)
(***************************************************************************)
EXTENDS QueueFold, FiniteSets

CONSTANTS
    Features,     \* the features (globalIds) people work on
    OnServer,     \* those the server holds, and the device shows, at the start
    Users,        \* the portal accounts that use the device
    NoOne,        \* no signed-in account
    Pages,        \* the field runtime, open in one or more tabs
    Worker,       \* the service worker
    Drains,       \* those of them that drain the queue: a browser without
                  \* background sync leaves the worker out
    EditOps,      \* the operations the page queues
    MaxEdits,     \* bound on the edits made, online or offline
    SlowReplays,  \* TRUE: a replay may outlive QUEUE_CLAIM_STALE_MS
    Handover      \* when the account may change: "never"; "quiet", by a sign-
                  \* out with no drain running and every tab closed; "anytime"

ASSUME FieldSyncAssumption ==
    /\ OnServer \subseteq Features
    /\ NoOne \notin Users
    /\ Users # {}
    /\ Worker \notin Pages
    /\ Drains \subseteq Pages \cup {Worker}
    /\ EditOps \subseteq QueueOp
    /\ MaxEdits \in Nat
    /\ SlowReplays \in BOOLEAN
    /\ Handover \in {"never", "quiet", "anytime"}

\* Edits are numbered in the order they are made.  A row is named by the first
\* edit it carries, which stands for both its id and its queuedAt: the fold
\* keeps the oldest row's, and a fresh row gets a new one of each.
EditId == 1..MaxEdits

Min0(S) == CHOOSE n \in S : \A m \in S : n <= m

VARIABLES
    queue,     \* the IndexedDB queue store: row id -> row
    drain,     \* each drain's local variables
    made,      \* edits made so far
    server,    \* the features the server holds
    session,   \* the account the browser's cookies authenticate
    identity,  \* the device identity persisted for the worker (meta store)
    viewer,    \* the account each page was rendered for (currentUserId)
    guardDue,  \* pages whose identity guard has not run since they loaded
    capture,   \* of each feature, whether it was captured on this device and
               \* is still in its read cache: "no" | "shown" | "purged"
    (* history *)
    fate,      \* what has become of each edit, the last of: "open";
               \* "exposed", folded where a stale snapshot or a landed insert
               \* is; "landed", applied by the server; "dropped" by a person
    misfiled   \* queued edits the server filed under another account

idVars == <<session, identity, viewer, guardDue>>
history == <<fate, misfiled>>
vars == <<queue, drain, made, server, capture, idVars, history>>

-----------------------------------------------------------------------------
Status == {"pending", "syncing", "failed", "rejected"}
NoRow == [status |-> "none"]
Row == [feature : Features, op : QueueOp, edits : SUBSET EditId,
        status : Status, waiting : BOOLEAN, stale : BOOLEAN, owner : Users]
RowTable == [EditId -> Row \cup {NoRow}]
NoRows == [i \in EditId |-> NoRow]

\* pc:     idle | picking (between rows) | replaying (row claimed, request not
\*         answered) | answered
\* todo:   the rows as listed when the drain started
\* row:    the id of the row in hand, 0 for none
\* claimed:that row as re-read by the claim, which only the worker keeps
\* got:    how its replay ended
DrainState == [pc : {"idle", "picking", "replaying", "answered"},
               as : Users \cup {NoOne}, manual : BOOLEAN,
               todo : RowTable, row : EditId \cup {0},
               claimed : Row \cup {NoRow},
               got : {"none", "done", "unreachable", "failed", "rejected"}]
Idle == [pc |-> "idle", as |-> NoOne, manual |-> FALSE, todo |-> NoRows,
         row |-> 0, claimed |-> NoRow, got |-> "none"]

FateRank == [open |-> 0, exposed |-> 1, landed |-> 2, dropped |-> 3]
Fate == DOMAIN FateRank

TypeOK ==
    /\ queue \in RowTable
    /\ drain \in [Drains -> DrainState]
    /\ made \in 0..MaxEdits
    /\ server \in SUBSET Features
    /\ session \in Users \cup {NoOne}
    /\ identity \in Users \cup {NoOne}
    /\ viewer \in [Pages -> Users \cup {NoOne}]
    /\ guardDue \in SUBSET Pages
    /\ capture \in [Features -> {"no", "shown", "purged"}]
    /\ fate \in [EditId -> Fate]
    /\ misfiled \in SUBSET EditId

Present(rows) == {i \in EditId : rows[i].status # "none"}
RowsOf(rows, f) == {i \in Present(rows) : rows[i].feature = f}
Carried(rows, S) == UNION {rows[i].edits : i \in S}
Mark(before, S, end) ==
    [e \in EditId |-> IF e \in S /\ FateRank[before[e]] < FateRank[end]
                     THEN end ELSE before[e]]
Remove(rows, S) == [i \in EditId |-> IF i \in S THEN NoRow ELSE rows[i]]

Holding(d) == drain[d].pc \in {"replaying", "answered"}
Quiet == \A d \in Drains : drain[d].pc = "idle"

Init ==
    /\ queue = NoRows
    /\ drain = [d \in Drains |-> Idle]
    /\ made = 0
    /\ server = OnServer
    /\ session \in Users
    /\ identity = session
    /\ viewer = [p \in Pages |-> session]
    /\ guardDue = {}
    /\ capture = [f \in Features |-> "no"]
    /\ fate = [e \in EditId |-> "open"]
    /\ misfiled = {}

-----------------------------------------------------------------------------
(* The field runtime: saving a form                                        *)

\* A capture mints a new globalId; an edit or delete is of a feature the map
\* shows, live from the server or captured here and still cached.
CanEdit(f, op) ==
    IF op = "insert" THEN f \notin OnServer /\ capture[f] = "no"
                     ELSE f \in server \/ capture[f] = "shown"

\* (slip: anything not in flight is foldable, a parked row included)
FoldableUnlessSyncing(u, f) ==
    {i \in RowsOf(queue, f) : queue[i].status # "syncing" /\ OwnedBy(queue[i], u)}

Foldable(u, f) ==
    {i \in RowsOf(queue, f) : /\ queue[i].status \in {"pending", "failed"}
                              /\ OwnedBy(queue[i], u)}

\* (slip: the row is not stamped with the account)
FreshRowUnstamped(u, f, op, e) ==
    [feature |-> f, op |-> op, edits |-> {e}, status |-> "pending",
     waiting |-> FALSE, stale |-> FALSE, owner |-> NoOne]

FreshRow(u, f, op, e) ==
    [feature |-> f, op |-> op, edits |-> {e}, status |-> "pending",
     waiting |-> FALSE, stale |-> FALSE, owner |-> u]

\* What queueing op for feature f makes of the foldable rows S, S # {}.
FoldResult(S, op) ==
    FoldedChainOp(queue[Min0(S)].op, op,
        \/ op = "delete"
        \/ \E i \in S \ {Min0(S)} : queue[i].op = "delete")

\* (slip: the new edit is put over the row it should fold into)
FoldedRowReplaced(S, u, f, op, e) == FreshRow(u, f, FoldResult(S, op), e)

\* The row the foldable rows S become: reset, and carrying every edit of them.
FoldedRow(S, u, f, op, e) ==
    [FreshRow(u, f, FoldResult(S, op), e)
        EXCEPT !.edits = Carried(queue, S) \cup {e}]

\* A fold is exposed when some drain still holds the row as it listed it, or
\* when the row is an insert the server has already applied: the bytes the
\* fold adds are then not those the next replay is sure to deliver.
Exposes(i) ==
    \/ \E d \in Drains : i \in Present(drain[d].todo)
    \/ queue[i].op = "insert" /\ queue[i].feature \in server

\* enqueueEdit's readwrite transaction, for edit e of account u.
Enqueue(u, f, op, e, before) ==
    LET S == Foldable(u, f) IN
    \/ /\ S = {}
       /\ queue' = [queue EXCEPT ![e] = FreshRow(u, f, op, e)]
       /\ fate' = before
    \/ /\ S # {} /\ FoldResult(S, op) = Annihilated
       /\ queue' = Remove(queue, S)
       /\ fate' = Mark(before, Carried(queue, S) \cup {e}, "dropped")
    \/ /\ S # {} /\ FoldResult(S, op) # Annihilated
       /\ queue' = [Remove(queue, S) EXCEPT ![Min0(S)] = FoldedRow(S, u, f, op, e)]
       /\ fate' = IF Exposes(Min0(S))
             THEN Mark(before, Carried(queue, S \ {Min0(S)}) \cup {e}, "exposed")
             ELSE before

Shown(f, op) ==
    capture' = IF op = "insert" THEN [capture EXCEPT ![f] = "shown"] ELSE capture

\* Offline, or the request never left the device: the edit goes to the queue.
SaveOffline(p, f, op) ==
    /\ viewer[p] # NoOne
    /\ made < MaxEdits
    /\ CanEdit(f, op)
    /\ made' = made + 1
    /\ Enqueue(viewer[p], f, op, made + 1, fate)
    /\ Shown(f, op)
    /\ UNCHANGED <<drain, server, idVars, misfiled>>

\* Online: the form writes straight to the API, past the queue.  When the
\* answer is lost the same edit is queued as well.
SaveOnline(p, f, op, answered) ==
    /\ viewer[p] # NoOne /\ session # NoOne
    /\ made < MaxEdits
    /\ op \in {"insert", "update"}
    /\ CanEdit(f, op)
    /\ op = "update" => f \in server
    /\ made' = made + 1
    /\ server' = server \cup {f}
    /\ LET landed == Mark(fate, {made + 1}, "landed") IN
          IF answered THEN fate' = landed /\ UNCHANGED queue
                      ELSE Enqueue(viewer[p], f, op, made + 1, landed)
    /\ Shown(f, op)
    /\ UNCHANGED <<drain, idVars, misfiled>>

-----------------------------------------------------------------------------
(* A drain: list, then claim, replay and settle one row at a time           *)

Mine(u) == {i \in Present(queue) : OwnedBy(queue[i], u)}

\* (slip: every claimable row, not only its feature's oldest)
ChainHeadsUngated(mine, ignoreBackoff) ==
    {i \in mine : Claimable(queue[i], ignoreBackoff)}

\* queueChainHeads: the oldest row of each feature, when it is claimable.
ChainHeads(mine, ignoreBackoff) ==
    {i \in mine :
        /\ \A j \in mine : queue[j].feature = queue[i].feature => i <= j
        /\ Claimable(queue[i], ignoreBackoff)}

Start(d, u, ignoreBackoff, heads) ==
    /\ drain[d].pc = "idle"
    /\ heads # {}
    /\ drain' = [drain EXCEPT ![d] =
          [Idle EXCEPT !.pc = "picking", !.as = u, !.manual = ignoreBackoff,
                       !.todo = [i \in EditId |-> IF i \in heads THEN queue[i]
                                                  ELSE NoRow]]]
    /\ UNCHANGED <<queue, made, server, capture, idVars, history>>

\* syncQueue runs as the account its page was rendered for.
StartPageDrain(p, manual) ==
    /\ viewer[p] # NoOne
    /\ Start(p, viewer[p], manual, ChainHeads(Mine(viewer[p]), manual))

\* drainFeatureQueue runs as the persisted identity, and leaves to the page
\* the features that owe a file (owing, not modelled further).
StartWorkerDrain(owing) ==
    /\ identity # NoOne
    /\ Start(Worker, identity, FALSE,
             {i \in ChainHeads(Mine(identity), FALSE) :
                 queue[i].feature \notin owing})

NextRow(d) == Min0(Present(drain[d].todo))

Settled(d, todo) ==
    IF Present(todo) = {} THEN Idle
    ELSE [drain[d] EXCEPT !.pc = "picking", !.todo = todo, !.row = 0,
                          !.claimed = NoRow, !.got = "none"]

\* (slip: the listing decided already, the claim only needs the row to exist)
StillFreeIfThere(d, i) == queue[i].status # "none"

\* What claimQueueRow checks on the row it re-reads.
StillFree(d, i) ==
    /\ queue[i].status # "none"
    /\ OwnedBy(queue[i], drain[d].as)
    /\ Claimable(queue[i], drain[d].manual)

\* claimQueueRow: re-read the row and flip it to 'syncing' in one transaction.
Claim(d) ==
    LET i == NextRow(d)
        claimed == [queue[i] EXCEPT !.status = "syncing", !.stale = FALSE] IN
    /\ drain[d].pc = "picking"
    /\ \/ /\ StillFree(d, i)
          /\ queue' = [queue EXCEPT ![i] = claimed]
          /\ drain' = [drain EXCEPT ![d].pc = "replaying", ![d].row = i,
                           ![d].claimed = IF d = Worker THEN claimed ELSE NoRow]
       \/ /\ ~StillFree(d, i)
          /\ drain' = [drain EXCEPT ![d] =
                Settled(d, Remove(drain[d].todo, {i}))]
          /\ UNCHANGED queue
    /\ UNCHANGED <<made, server, capture, idVars, history>>

\* The replayed bytes are the row as LISTED (replayRecord(record)), not as
\* the claim re-read it.
Sent(d) == drain[d].todo[drain[d].row]

Answered(d, outcome) ==
    drain' = [drain EXCEPT ![d].pc = "answered", ![d].got = outcome]

\* The request does not reach the server: fetch throws.
RequestLost(d) ==
    /\ drain[d].pc = "replaying"
    /\ Answered(d, "unreachable")
    /\ UNCHANGED <<queue, made, server, capture, idVars, history>>

\* The server refuses, or cannot serve, the request; 401 without a session.
ServerRefuses(d, answer) ==
    /\ drain[d].pc = "replaying"
    /\ answer \in {"other4xx", "transient4xx", "5xx"}
    /\ session = NoOne => answer = "transient4xx"
    /\ Answered(d, ReplayOutcome(answer, Sent(d).op))
    /\ UNCHANGED <<queue, made, server, capture, idVars, history>>

\* Every way an answered write can look to the drain: its answer, or no answer,
\* or, in the page, a file of the feature that would not upload after it.
Outcomes(d, answer) ==
    {ReplayOutcome(answer, Sent(d).op), "unreachable"}
      \cup IF d \in Pages /\ answer = "2xx" /\ Sent(d).op # "delete"
           THEN {"failed", "rejected"} ELSE {}

\* The server handles the request under whatever account the cookies name.
ServerHandles(d) ==
    LET r == Sent(d)
        f == r.feature
        found == f \in server
        answer == IF r.op # "insert" /\ ~found THEN "404" ELSE "2xx"
        applies == r.op = "delete" \/ (r.op = "insert") = ~found IN
    /\ drain[d].pc = "replaying"
    /\ session # NoOne
    /\ \E outcome \in Outcomes(d, answer) : Answered(d, outcome)
    /\ IF applies
       THEN /\ server' = IF r.op = "delete" THEN server \ {f} ELSE server \cup {f}
            /\ fate' = Mark(fate, r.edits, "landed")
            /\ misfiled' = IF session # r.owner THEN misfiled \cup r.edits
                                                ELSE misfiled
       ELSE UNCHANGED <<server, fate, misfiled>>
    /\ UNCHANGED <<queue, made, capture, idVars>>

\* What the drain writes back: nothing after success, the listed row when the
\* network failed, the listed (page) or re-read (worker) row after a refusal.
Settle(d) ==
    LET i == drain[d].row
        got == drain[d].got
        restored == [Sent(d) EXCEPT !.stale = FALSE,
            !.status = IF @ = "failed" THEN "failed" ELSE "pending"]
        parked == [(IF d = Worker THEN drain[d].claimed ELSE Sent(d))
                       EXCEPT !.status = got, !.waiting = TRUE, !.stale = FALSE]
    IN
    /\ drain[d].pc = "answered"
    /\ queue' = [queue EXCEPT ![i] =
          CASE got = "done"        -> NoRow
            [] got = "unreachable" -> restored
            [] got \in {"failed", "rejected"} -> parked]
    /\ drain' = [drain EXCEPT ![d] = Settled(d, Remove(drain[d].todo, {i}))]
    /\ UNCHANGED <<made, server, capture, idVars, history>>

\* The tab closes or the browser kills the worker, at any point of a drain.
Die(d) ==
    /\ drain[d].pc # "idle"
    /\ drain' = [drain EXCEPT ![d] = Idle]
    /\ UNCHANGED <<queue, made, server, capture, idVars, history>>

-----------------------------------------------------------------------------
(* Time                                                                    *)

\* A claim turns two minutes old.  With SlowReplays FALSE only a claim whose
\* drain died does.
ClaimGoesStale(i) ==
    /\ queue[i].status = "syncing" /\ ~queue[i].stale
    /\ SlowReplays \/ ~\E d \in Drains : Holding(d) /\ drain[d].row = i
    /\ queue' = [queue EXCEPT ![i].stale = TRUE]
    /\ UNCHANGED <<drain, made, server, capture, idVars, history>>

BackoffElapses(i) ==
    /\ queue[i].status \in {"pending", "failed"} /\ queue[i].waiting
    /\ queue' = [queue EXCEPT ![i].waiting = FALSE]
    /\ UNCHANGED <<drain, made, server, capture, idVars, history>>

-----------------------------------------------------------------------------
(* What a person decides about queued rows                                 *)

RetryRejected(p, i) ==
    /\ viewer[p] # NoOne
    /\ queue[i].status = "rejected" /\ OwnedBy(queue[i], viewer[p])
    /\ queue' = [queue EXCEPT ![i].status = "pending"]
    /\ UNCHANGED <<drain, made, server, capture, idVars, history>>

Drop(S, cached) ==
    /\ queue' = Remove(queue, S)
    /\ fate' = Mark(fate, Carried(queue, S), "dropped")
    /\ capture' = cached
    /\ UNCHANGED <<drain, made, server, idVars, misfiled>>

DiscardRejected(p, i) ==
    /\ viewer[p] # NoOne
    /\ queue[i].status = "rejected" /\ OwnedBy(queue[i], viewer[p])
    /\ Drop({i}, capture)

\* The read cache emptied.
Purged == [f \in Features |-> IF capture[f] = "shown" THEN "purged" ELSE capture[f]]

\* "Remove from device": every owner's rows of the deployment go, and its cache.
RemoveDeployment(p) == viewer[p] # NoOne /\ Drop(Present(queue), Purged)

\* The identity dialog's Remove button.
RemoveForeign(p) ==
    /\ viewer[p] # NoOne /\ p \notin guardDue
    /\ Drop({i \in Present(queue) : ~OwnedBy(queue[i], viewer[p])}, capture)

-----------------------------------------------------------------------------
(* The device changes hands                                                *)

\* federatedSignOut: purge the read caches, clear the identity, end the
\* session, leave the page.  Other tabs stay as they were rendered, unless
\* the hand-over is a quiet one.
SignOut(p) ==
    /\ Handover = "anytime" \/ (Handover = "quiet" /\ Quiet)
    /\ session # NoOne /\ viewer[p] # NoOne
    /\ session' = NoOne
    /\ identity' = NoOne
    /\ capture' = Purged
    /\ viewer' = IF Handover = "quiet" THEN [q \in Pages |-> NoOne]
                                       ELSE [viewer EXCEPT ![p] = NoOne]
    /\ drain' = [d \in Drains |-> IF d = p THEN Idle ELSE drain[d]]
    /\ guardDue' = guardDue \ {p}
    /\ UNCHANGED <<queue, made, server, history>>

\* The session ends with no sign-out on this device.
SessionExpires ==
    /\ Handover # "never"
    /\ session # NoOne
    /\ session' = NoOne
    /\ UNCHANGED <<queue, drain, made, server, capture, identity, viewer,
                   guardDue, history>>

\* The next account signs in; in a quiet hand-over nobody but the last one
\* does before it has signed out.
SignIn(u) ==
    /\ Handover # "never"
    /\ Handover = "quiet" =>
          /\ identity \in {u, NoOne}
          /\ \A p \in Pages : viewer[p] \in {u, NoOne}
    /\ session = NoOne
    /\ session' = u
    /\ UNCHANGED <<queue, drain, made, server, capture, identity, viewer,
                   guardDue, history>>

\* A page is rendered for the session's account; what it was running dies.
LoadPage(p) ==
    /\ session # NoOne /\ viewer[p] # session
    /\ viewer' = [viewer EXCEPT ![p] = session]
    /\ guardDue' = guardDue \cup {p}
    /\ drain' = [d \in Drains |-> IF d = p THEN Idle ELSE drain[d]]
    /\ UNCHANGED <<queue, made, server, capture, session, identity, history>>

\* OfflineIdentityGuard's effect, some time after the load.
RunIdentityGuard(p) ==
    /\ p \in guardDue
    /\ guardDue' = guardDue \ {p}
    /\ identity' = viewer[p]
    /\ capture' = IF identity \in {viewer[p], NoOne} THEN capture ELSE Purged
    /\ UNCHANGED <<queue, drain, made, server, session, viewer, history>>

-----------------------------------------------------------------------------
Edits ==
    \E p \in Pages, f \in Features, op \in EditOps :
        \/ SaveOffline(p, f, op)
        \/ \E answered \in BOOLEAN : SaveOnline(p, f, op, answered)

Draining(d) ==
    \/ Claim(d)
    \/ ServerHandles(d)
    \/ \E answer \in Answers : ServerRefuses(d, answer)
    \/ RequestLost(d)
    \/ Settle(d)

Starts ==
    \/ \E p \in Drains \cap Pages, manual \in BOOLEAN : StartPageDrain(p, manual)
    \/ \E owing \in SUBSET Features :
          Worker \in Drains /\ StartWorkerDrain(owing)

Decisions ==
    \E p \in Pages :
        \/ \E i \in EditId : RetryRejected(p, i) \/ DiscardRejected(p, i)
        \/ RemoveDeployment(p)
        \/ RemoveForeign(p)

Hands ==
    \/ \E p \in Pages : SignOut(p) \/ LoadPage(p) \/ RunIdentityGuard(p)
    \/ \E u \in Users : SignIn(u)
    \/ SessionExpires

Next ==
    \/ Edits
    \/ Starts
    \/ \E d \in Drains : Draining(d) \/ Die(d)
    \/ \E i \in EditId : ClaimGoesStale(i) \/ BackoffElapses(i)
    \/ Decisions
    \/ Hands

Spec == Init /\ [][Next]_vars

\* A drain goes on or dies, and time passes.  The worker promises no more; a
\* page that is given the chance again and again to start a drain, to take a
\* row, to hear the server's own answer and to write it back, does so in the
\* end (someone keeps opening the app where there is signal).
Heard(p) == ServerHandles(p) /\ drain'[p].got \in {"done", "rejected"}
Finishes(p) == Settle(p) /\ drain[p].got \in {"done", "rejected"}
Takes(p) == Claim(p) /\ drain'[p].pc = "replaying"
Fairness ==
    /\ \A p \in Drains \cap Pages :
          /\ SF_vars(\E manual \in BOOLEAN : StartPageDrain(p, manual))
          /\ SF_vars(Takes(p))
          /\ SF_vars(Heard(p))
          /\ SF_vars(Finishes(p))
    /\ \A d \in Drains :
          WF_vars(Claim(d) \/ RequestLost(d) \/ Settle(d) \/ Die(d))
    /\ \A i \in EditId : WF_vars(ClaimGoesStale(i))

FairSpec == Spec /\ Fairness

-----------------------------------------------------------------------------
(* Properties                                                              *)

\* Two drains never replay the same row at once: the claim's single
\* transaction is what keeps the page and the worker apart
\* (offline-store.ts claimQueueRow).  It rests on every replay finishing
\* before its claim goes stale.
ClaimExclusive ==
    \A d, e \in Drains :
        Holding(d) /\ Holding(e) /\ drain[d].row = drain[e].row => d = e

\* Whatever is queued is accounted for: its bytes are in a row, or the server
\* applied them, or a person dropped them, or they were folded where a stale
\* snapshot or a landed insert was (the one way the code loses an edit).
Accounted ==
    \A e \in 1..made : fate[e] = "open" => e \in Carried(queue, Present(queue))

\* A parked row leaves 'rejected' by a person's decision only: no drain, no
\* timer and no fold rewrites it (sync-outcome.ts: a terminal state the drain
\* leaves alone).
RejectedStaysParked ==
    [][\A i \in EditId :
          queue[i].status = "rejected" /\ queue'[i] # queue[i] => Decisions]_vars

\* A row is replayed before any later row of the same account and feature, so
\* an update is never refused for want of the insert queued before it
\* (queueChainHeads). A removed row that a late drain put back does not count.
ReplayInOrder ==
    \A d \in Drains : Holding(d) =>
        \A i \in Present(queue) :
            /\ queue[i].feature = Sent(d).feature
            /\ OwnedBy(queue[i], drain[d].as)
            /\ \A e \in queue[i].edits : fate[e] # "dropped"
            => drain[d].row <= i

\* No edit is stranded: nothing waits for good but a row parked for a person
\* and the rows queued behind it, whatever the worker does and however often a
\* tab dies with a claim (queue-replay.ts: a row stuck in 'syncing' is claimable
\* again once its claim is stale).
EventuallyDrained ==
    []<>(\A i \in Present(queue) :
            \E j \in RowsOf(queue, queue[i].feature) :
                j <= i /\ queue[j].status = "rejected")

\* The same without the one excuse: what queueing an edit promises
\* (queue-fold.ts: an unsynced capture carries the newest values).
NothingLost ==
    \A e \in 1..made : fate[e] \in {"open", "exposed"}
                         => e \in Carried(queue, Present(queue))

\* queue-fold.ts, of enqueueEdit: at most one claimable row per feature.
OneClaimableRow ==
    \A i, j \in Present(queue) :
        /\ queue[i].feature = queue[j].feature
        /\ Claimable(queue[i], FALSE) /\ Claimable(queue[j], FALSE)
        => i = j

\* What a person removed or discarded is gone from the device for good
\* (offline-remove.ts: every trace of a deployment).
RemovedStaysGone ==
    \A e \in Carried(queue, Present(queue)) : fate[e] # "dropped"

\* A capture and its delete cancel out only when neither reached the server,
\* for no row will visit the feature again (offline-store.ts enqueueEdit).
AnnihilatedUnsent ==
    [][\A f \in Features :
          /\ made' = made + 1
          /\ RowsOf(queue, f) # {} /\ RowsOf(queue', f) = {}
          => f \notin server]_vars

\* An edit is only ever filed under the account that made it
\* (queue-replay.ts isQueueRowOwnedBy).
NothingMisfiled == misfiled = {}
=============================================================================
