------------------------------ MODULE QueueFold ------------------------------
(***************************************************************************)
(* The decision tables the offline queue shares between the field page,    *)
(* the service worker and the native client:                               *)
(*   packages/shared-types/src/queue-fold.ts     folding two edits          *)
(*   packages/shared-types/src/queue-replay.ts   which rows may be replayed *)
(*   packages/shared-types/src/sync-outcome.ts   what an HTTP status means  *)
(* They are pure, so they are operators; FoldEffect explores them against   *)
(* the server's semantics, FieldSync builds the two drains from them.       *)
(***************************************************************************)
EXTENDS Naturals

QueueOp == {"insert", "update", "delete"}

Annihilated == "annihilated"

\* (slip: an edit of an unsynced capture is queued as the update it looks like)
FoldOpAsMade(prior, next) ==
    IF prior = "insert" /\ next = "delete" THEN Annihilated ELSE next

\* One step of the fold on operations alone: what becomes of an unsynced
\* `prior` when `next` is queued for the same feature.
FoldOp(prior, next) ==
    CASE prior = "insert" /\ next = "delete" -> Annihilated
      [] prior = "insert" /\ next # "delete" -> "insert"
      [] prior # "insert" /\ next = "delete" -> "delete"
      [] prior # "insert" /\ next # "delete" -> "update"

\* (slip: only a chain that ends in its delete annihilates)
FoldedChainOpByEnds(first, last, deleted) ==
    CASE first = "insert" /\ last = "delete" -> Annihilated
      [] first = "insert" /\ last # "delete" -> "insert"
      [] first # "insert" /\ last = "delete" -> "delete"
      [] first # "insert" /\ last # "delete" -> "update"

\* foldQueuedChain on operations, in closed form: a chain is decided by its
\* first operation, its last one, and whether a delete follows the first.
\* (FoldEffect!ClosedForm compares it with the loop of the code.)
FoldedChainOp(first, last, deleted) ==
    CASE first = "insert" /\ deleted -> Annihilated
      [] first = "insert" /\ ~deleted -> "insert"
      [] first # "insert" /\ last = "delete" -> "delete"
      [] first # "insert" /\ last # "delete" -> "update"

-----------------------------------------------------------------------------
\* (slips: a claim's age is not looked at; a claim is never taken over)
ClaimableAtAnyAge(row, ignoreBackoff) ==
    \/ row.status = "syncing"
    \/ row.status \in {"pending", "failed"} /\ (ignoreBackoff \/ ~row.waiting)
ClaimableUnlessSyncing(row, ignoreBackoff) ==
    row.status \in {"pending", "failed"} /\ (ignoreBackoff \/ ~row.waiting)

\* A queued row's fields that replay policy reads: its status, whether its
\* claim is older than QUEUE_CLAIM_STALE_MS (stale), and whether its retry
\* backoff is still running (waiting).
Claimable(row, ignoreBackoff) ==
    \/ row.status = "syncing" /\ row.stale
    \/ row.status \in {"pending", "failed"} /\ (ignoreBackoff \/ ~row.waiting)

\* (slip: the drain looks at every row on the device)
OwnedByDevice(row, user) == TRUE

\* Ownership: a row is visible to the account that captured it.
OwnedBy(row, user) == row.owner = user

-----------------------------------------------------------------------------
\* The HTTP answers a replay can receive, by the class the client tells apart.
Answers == {"2xx", "404", "other4xx", "transient4xx", "5xx"}

\* (slip: a sign-in page taken for success)
ReplayOutcomeOfRedirect(answer, op) ==
    CASE answer \in {"2xx", "transient4xx"} -> "done"
      [] answer = "404" -> IF op = "delete" THEN "done" ELSE "rejected"
      [] answer = "other4xx" -> "rejected"
      [] answer = "5xx" -> "failed"

ReplayOutcome(answer, op) ==
    CASE answer = "2xx" -> "done"
      [] answer = "404" -> IF op = "delete" THEN "done" ELSE "rejected"
      [] answer = "other4xx" -> "rejected"
      [] answer \in {"transient4xx", "5xx"} -> "failed"
=============================================================================
