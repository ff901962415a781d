----------------------------- MODULE ImportJobs -----------------------------
(***************************************************************************)
(* The queue of file imports into one layer: the rows of table import_job, *)
(* the portal-worker replicas that run them, the COPY transaction each     *)
(* import is, and the people who cancel.  A step is one SQL statement (or  *)
(* one transaction of the queue), one event of the environment, or the     *)
(* commit of a COPY.  A job is named by its place in the order of creation. *)
(***************************************************************************)
EXTENDS Naturals

CONSTANTS MaxJobs,       \* bound: jobs ever enqueued
          Workers,       \* portal-worker replicas
          Batches,       \* batches in a staged file
          MaxCrashes,    \* bound: worker processes that die
          SlowImports    \* may five minutes pass between two beats of a live import?

ASSUME ImportAssumption ==
    /\ MaxJobs \in Nat
    /\ Batches \in Nat \ {0}
    /\ MaxCrashes \in Nat
    /\ SlowImports \in BOOLEAN

NoJob == 0
Jobs == 1..MaxJobs
Before == 0              \* the rows the layer held before any of the jobs
Sources == Jobs \cup {Before}
Modes == {"replace", "append"}
Statuses == {"none", "queued", "running", "succeeded", "failed", "cancelled"}

VARIABLES job,           \* table import_job
          layer,         \* how many of each source's batches the layer holds
          worker,        \* the loop of each replica and the locals of runJob
          cancelling,    \* cancel requests that have read an active row
          crashes,       \* how many processes have died
          ran, landed,   \* history: jobs ever claimed; how often each committed
          torn           \* history: jobs whose end was written with nobody left to correct it

ivars == <<job, layer, worker, cancelling, crashes, ran, landed, torn>>
history == <<ran, landed, torn>>

Idle == [pc |-> "idle", job |-> NoJob, sent |-> 0, deleted |-> {},
         cancelled |-> FALSE, committed |-> FALSE, found |-> {}]
Down == [Idle EXCEPT !.pc = "down"]

Points == {"down", "idle", "opening", "copying", "batch", "ending", "zeroing",
           "stamping", "thrown", "failed", "sweeping"}
JobRow == [status : Statuses, mode : Modes, inserted : 0..Batches, stale : BOOLEAN]
Loop == [pc : Points, job : Jobs \cup {NoJob}, sent : 0..Batches,
         deleted : SUBSET Sources, cancelled : BOOLEAN, committed : BOOLEAN,
         found : SUBSET Jobs]

TypeOK ==
    /\ job \in [Jobs -> JobRow]
    /\ layer \in [Sources -> 0..Batches]
    /\ worker \in [Workers -> Loop]
    /\ cancelling \subseteq Jobs
    /\ crashes \in 0..MaxCrashes
    /\ ran \subseteq Jobs
    /\ landed \in [Jobs -> Nat]
    /\ torn \subseteq Jobs

Init ==
    /\ job = [j \in Jobs |-> [status |-> "none", mode |-> "append",
                              inserted |-> 0, stale |-> FALSE]]
    /\ layer = [s \in Sources |-> IF s = Before THEN Batches ELSE 0]
    /\ worker = [w \in Workers |-> Idle]
    /\ cancelling = {}
    /\ crashes = 0
    /\ ran = {}
    /\ landed = [j \in Jobs |-> 0]
    /\ torn = {}

(***************************************************************************)
(* The rows.                                                               *)
(***************************************************************************)
Free == {"down", "idle", "sweeping"}     \* of a worker with no job in hand
Over(j) == job[j].status \in {"succeeded", "failed", "cancelled"}
Active(j) == job[j].status \in {"queued", "running"}
InHand(j) == \E w \in Workers : worker[w].job = j
Present == {s \in Sources : layer[s] > 0}

Enqueue(m) ==
    \E j \in Jobs :
        /\ job[j].status = "none"
        /\ \A i \in 1..(j - 1) : job[i].status # "none"
        /\ job' = [job EXCEPT ![j].status = "queued", ![j].mode = m]
        /\ UNCHANGED <<layer, worker, cancelling, crashes, history>>

\* cancel reads the row ...
ReadForCancel(j) ==
    /\ Active(j)
    /\ cancelling' = cancelling \cup {j}
    /\ UNCHANGED <<job, layer, worker, crashes, history>>

\* ... and writes it, whatever became of it meanwhile.
Cancel(j) ==
    /\ j \in cancelling
    /\ job' = [job EXCEPT ![j].status = "cancelled"]
    /\ cancelling' = cancelling \ {j}
    /\ torn' = IF Over(j) \/ (job[j].status = "running" /\ ~InHand(j))
               THEN torn \cup {j} ELSE torn
    /\ UNCHANGED <<layer, worker, crashes, ran, landed>>

(***************************************************************************)
(* The worker: claim, one import, the sweep.                               *)
(***************************************************************************)
\* Slip: an import that failed is tried again.
ClaimableRetrying == {j \in Jobs : job[j].status \in {"queued", "failed"}}

Claimable == {j \in Jobs : job[j].status = "queued"}

ClaimNext(w) ==
    /\ worker[w].pc = "idle"
    /\ \E j \in Claimable :
        /\ \A i \in Claimable : j <= i
        /\ job' = [job EXCEPT ![j].status = "running", ![j].stale = FALSE]
        /\ worker' = [worker EXCEPT ![w] = [Idle EXCEPT !.pc = "opening", !.job = j]]
        /\ ran' = ran \cup {j}
    /\ UNCHANGED <<layer, cancelling, crashes, landed, torn>>

\* The last statement of a path of runJob has been applied: its answer comes back
\* and the loop goes on, or is lost and the catch is entered.
Answered(w) == worker' \in {[worker EXCEPT ![w] = Idle], [worker EXCEPT ![w].pc = "thrown"]}

\* markFailed: no guard on the status.
MarkFailed(j) == job' = [job EXCEPT ![j].status = "failed"]

\* The staged file expired, or the item or the layer is gone.
Refuse(w) ==
    /\ worker[w].pc = "opening"
    /\ MarkFailed(worker[w].job)
    /\ Answered(w)
    /\ UNCHANGED <<layer, cancelling, crashes, history>>

\* BEGIN, the scoped delete of a replace, COPY.  Other transactions see none
\* of it; the delete reaches the rows that are committed when it runs.
Begin(w) ==
    /\ worker[w].pc = "opening"
    /\ worker' = [worker EXCEPT ![w].pc = "copying",
                                ![w].deleted = IF job[worker[w].job].mode = "replace"
                                               THEN Present ELSE {}]
    /\ UNCHANGED <<job, layer, cancelling, crashes, history>>

\* A batch boundary: is the job cancelled?
CheckCancelled(w) ==
    /\ worker[w].pc = "copying"
    /\ worker[w].sent < Batches
    /\ LET stop == job[worker[w].job].status = "cancelled"
       IN worker' = [worker EXCEPT ![w].pc = IF stop THEN "ending" ELSE "batch",
                                   ![w].cancelled = stop]
    /\ UNCHANGED <<job, layer, cancelling, crashes, history>>

\* The batch goes down the COPY stream; the progress beat is written only to
\* a row that is still running.
SendBatch(w) ==
    /\ worker[w].pc = "batch"
    /\ LET j == worker[w].job
           n == worker[w].sent + 1
       IN /\ worker' = [worker EXCEPT ![w].pc = IF n = Batches THEN "ending" ELSE "copying",
                                      ![w].sent = n]
          /\ job' = IF job[j].status = "running"
                    THEN [job EXCEPT ![j].inserted = n, ![j].stale = FALSE]
                    ELSE job
    /\ UNCHANGED <<layer, cancelling, crashes, history>>

\* The layer once the transaction of w is committed.
Committed(w) ==
    [s \in Sources |-> IF s = worker[w].job THEN worker[w].sent
                       ELSE IF s \in worker[w].deleted THEN 0 ELSE layer[s]]

Commit(w) ==
    /\ layer' = Committed(w)
    /\ landed' = [landed EXCEPT ![worker[w].job] = @ + 1]

\* Slip: the stream ended normally, so commit (the ghost rows of cancelled imports).
EndAlways(w) ==
    /\ worker[w].pc = "ending"
    /\ Commit(w)
    /\ worker' = [worker EXCEPT ![w].pc = IF worker[w].cancelled THEN "zeroing" ELSE "stamping",
                                ![w].committed = TRUE]
    /\ UNCHANGED <<job, cancelling, crashes, ran, torn>>

\* After the stream: abort a cancelled import, commit any other.
End(w) ==
    /\ worker[w].pc = "ending"
    /\ \/ /\ worker[w].cancelled
          /\ worker' = [worker EXCEPT ![w].pc = "zeroing"]
          /\ UNCHANGED <<layer, landed>>
       \/ /\ ~worker[w].cancelled
          /\ Commit(w)
          /\ worker' = [worker EXCEPT ![w].pc = "stamping", ![w].committed = TRUE]
    /\ UNCHANGED <<job, cancelling, crashes, ran, torn>>

\* The commit took place, its answer was lost: the writer throws.
EndUnanswered(w) ==
    /\ worker[w].pc = "ending"
    /\ ~worker[w].cancelled
    /\ Commit(w)
    /\ worker' = [worker EXCEPT ![w].pc = "thrown"]
    /\ UNCHANGED <<job, cancelling, crashes, ran, torn>>

\* Slip: the counter of a cancelled import is left as the beats wrote it.
ZeroInsertedForCancelledSkipped(w) ==
    /\ worker[w].pc = "zeroing"
    /\ worker' = [worker EXCEPT ![w] = Idle]
    /\ UNCHANGED <<job, layer, cancelling, crashes, history>>

ZeroInsertedForCancelled(w) ==
    /\ worker[w].pc = "zeroing"
    /\ job' = IF job[worker[w].job].status = "cancelled"
              THEN [job EXCEPT ![worker[w].job].inserted = 0] ELSE job
    /\ Answered(w)
    /\ UNCHANGED <<layer, cancelling, crashes, history>>

\* Slip: the word the analysis rows use.
MarkSucceededAsDone(w) ==
    /\ worker[w].pc = "stamping"
    /\ job' = [job EXCEPT ![worker[w].job].status = "done",
                          ![worker[w].job].inserted = worker[w].sent]
    /\ worker' = [worker EXCEPT ![w] = Idle]
    /\ UNCHANGED <<layer, cancelling, crashes, history>>

\* Source stamp, counts and extent (their errors are swallowed, the stamp's are
\* not: see Throw), then markSucceeded, which has no guard and is inside the try:
\* a success whose answer is lost goes to the catch.
MarkSucceeded(w) ==
    /\ worker[w].pc = "stamping"
    /\ job' = [job EXCEPT ![worker[w].job].status = "succeeded",
                          ![worker[w].job].inserted = worker[w].sent]
    /\ Answered(w)
    /\ UNCHANGED <<layer, cancelling, crashes, history>>

\* The import of w is left without its last writes.
Drop(w) == torn' = torn \cup {j \in Jobs : j = worker[w].job /\ Over(j)}

\* Something in runJob throws; an open transaction is rolled back.  If markFailed
\* throws as well, applied or not, the catch is left and the loop goes on.
Throw(w) ==
    /\ worker[w].pc \notin Free
    /\ \/ /\ worker[w].pc # "failed"
          /\ MarkFailed(worker[w].job)
          /\ \/ /\ worker' = [worker EXCEPT ![w].pc = "failed"]
                /\ UNCHANGED torn
             \/ /\ worker' = [worker EXCEPT ![w] = Idle]
                /\ torn' = torn \cup {j \in Jobs : j = worker[w].job}
       \/ /\ Drop(w)
          /\ worker' = [worker EXCEPT ![w] = Idle]
          /\ UNCHANGED job
    /\ UNCHANGED <<layer, cancelling, crashes, ran, landed>>

ZeroInsertedForFailed(w) ==
    /\ worker[w].pc = "failed"
    /\ job' = IF ~worker[w].committed /\ job[worker[w].job].status = "failed"
              THEN [job EXCEPT ![worker[w].job].inserted = 0] ELSE job
    /\ worker' = [worker EXCEPT ![w] = Idle]
    /\ UNCHANGED <<layer, cancelling, crashes, history>>

\* recoverStaleRunning reads the rows whose beat is old ...
StaleRunning == {j \in Jobs : job[j].status = "running" /\ job[j].stale}

FindStale(w) ==
    /\ worker[w].pc = "idle"
    /\ StaleRunning # {}
    /\ worker' = [worker EXCEPT ![w] = [Idle EXCEPT !.pc = "sweeping", !.found = StaleRunning]]
    /\ UNCHANGED <<job, layer, cancelling, crashes, history>>

\* Slip: the update trusts what the sweep read.
SweptAsRead(w) == worker[w].found

\* ... and fails those that are still running.
Swept(w) == {j \in worker[w].found : job[j].status = "running"}

FailStale(w) ==
    /\ worker[w].pc = "sweeping"
    /\ job' = [j \in Jobs |-> IF j \in Swept(w)
                              THEN [job[j] EXCEPT !.status = "failed", !.inserted = 0]
                              ELSE job[j]]
    /\ worker' = [worker EXCEPT ![w] = Idle]
    /\ UNCHANGED <<layer, cancelling, crashes, history>>

(***************************************************************************)
(* The environment: a process dies and its transaction with it, starts     *)
(* again (the boot sweep is the loop's), and five minutes pass.            *)
(***************************************************************************)
Crash(w) ==
    /\ worker[w].pc # "down"
    /\ crashes < MaxCrashes
    /\ crashes' = crashes + 1
    /\ worker' = [worker EXCEPT ![w] = Down]
    /\ Drop(w)
    /\ UNCHANGED <<job, layer, cancelling, ran, landed>>

Boot(w) ==
    /\ worker[w].pc = "down"
    /\ worker' = [worker EXCEPT ![w] = Idle]
    /\ UNCHANGED <<job, layer, cancelling, crashes, history>>

HeartbeatGoesStale(j) ==
    /\ job[j].status = "running"
    /\ ~job[j].stale
    /\ SlowImports \/ ~InHand(j)
    /\ job' = [job EXCEPT ![j].stale = TRUE]
    /\ UNCHANGED <<layer, worker, cancelling, crashes, history>>

\* Another process of the stack dies; it counts against the same bound.
DiesElsewhere ==
    /\ crashes < MaxCrashes
    /\ crashes' = crashes + 1
    /\ UNCHANGED <<job, layer, worker, cancelling, history>>

WorkerStep(w) ==
    \/ ClaimNext(w) \/ Refuse(w) \/ Begin(w) \/ CheckCancelled(w) \/ SendBatch(w)
    \/ End(w) \/ EndUnanswered(w) \/ ZeroInsertedForCancelled(w) \/ MarkSucceeded(w)
    \/ Throw(w) \/ ZeroInsertedForFailed(w) \/ FindStale(w) \/ FailStale(w)

Next ==
    \/ \E m \in Modes : Enqueue(m)
    \/ \E j \in Jobs : ReadForCancel(j) \/ Cancel(j) \/ HeartbeatGoesStale(j)
    \/ \E w \in Workers : WorkerStep(w) \/ Crash(w) \/ Boot(w)
    \/ DiesElsewhere

Spec == Init /\ [][Next]_ivars

(***************************************************************************)
(* What the properties rest on: a job is in one worker's hands at most,    *)
(* and how far that worker is says what its row and the layer can be.      *)
(***************************************************************************)
Open == {"opening", "copying", "batch", "ending", "zeroing"}   \* nothing committed

Hand(w) ==
    LET j == worker[w].job
    IN /\ j = NoJob <=> worker[w].pc \in Free
       /\ j # NoJob => /\ j \in ran
                       /\ job[j].status = "succeeded" => worker[w].pc = "thrown"
                       /\ \A v \in Workers \ {w} : worker[v].job # j
       /\ worker[w].committed => j # NoJob /\ landed[j] = 1
       /\ worker[w].pc \in Open => landed[j] = 0
       /\ worker[w].pc = "stamping" => landed[j] = 1
       /\ worker[w].pc = "opening" => job[j].inserted = 0 /\ worker[w].sent = 0
       /\ worker[w].pc \in {"opening", "copying", "batch"} => ~worker[w].cancelled
       /\ worker[w].pc = "ending" /\ ~worker[w].cancelled => worker[w].sent = Batches
       /\ worker[w].pc = "zeroing" => job[j].status = "cancelled"
       /\ worker[w].pc = "ending" /\ worker[w].cancelled => job[j].status = "cancelled"
       /\ worker[w].pc = "failed" => job[j].status = "failed" \/ j \in torn

Hands == \A w \in Workers : Hand(w)

Row(j) ==
    /\ j \in ran => job[j].status \notin {"none", "queued"}
    /\ j \notin ran => landed[j] = 0 /\ job[j].inserted = 0
    /\ landed[j] \in {0, 1}
    /\ landed[j] = 0 => layer[j] = 0
    /\ job[j].status = "succeeded" => landed[j] = 1
    /\ j \in cancelling => job[j].status # "none"

Rows == \A j \in Jobs : Row(j)

(***************************************************************************)
(* Properties.                                                             *)
(***************************************************************************)
\* The layer changes only by one whole file coming in: a replace takes the old
\* rows away in that same step, and an import that is cancelled, fails, crashes
\* or loses an answer leaves the layer as it was (worker.ts, the COPY transaction).
LandsWholeOrNot ==
    [][layer' = layer \/ \E j \in Jobs : /\ layer[j] = 0 /\ layer'[j] = Batches
                                       /\ \A s \in Sources \ {j} : layer'[s] \in {layer[s], 0}
      ]_ivars

\* A job that nobody works on any more claims inserted rows only if its rows
\* were committed, unless it was cancelled when its worker was gone or done, or
\* its worker left it after the cancel.
CountsAreHonest ==
    \A j \in Jobs : Over(j) /\ ~InHand(j) /\ j \notin torn /\ job[j].inserted > 0
                        => landed[j] > 0

\* A success that does not stand: a cancel that had read the row before it was
\* over writes it, or the worker that wrote it got no answer and its catch fails it.
TakenBack(j) ==
    \/ j \in cancelling /\ job'[j].status = "cancelled"
    \/ /\ job'[j].status = "failed"
       /\ \E w \in Workers : worker[w].job = j /\ worker[w].pc = "thrown"

\* Nothing else takes a success back, neither the sweep nor another worker
\* (recoverStaleRunning, claimNext), and the count it stated is left.
SuccessStands ==
    [][\A j \in Jobs : job[j].status = "succeeded" /\ job'[j].status # "succeeded"
                          => TakenBack(j) /\ job'[j].inserted = job[j].inserted]_ivars

\* Only a cancel takes a success back.  Not so: markSucceeded's lost answer sends
\* runJob to its catch, and markFailed does not look at the row.
SuccessIsFinal ==
    [][\A j \in Jobs : job[j].status = "succeeded" /\ job'[j].status # "succeeded"
                          => j \in cancelling]_ivars

\* A cancelled import has no rows in the layer.  Not so: a cancel after the
\* last batch's check does not stop the commit (ImportCancelled.cfg).
CancelledLandsNothing ==
    \A j \in Jobs : job[j].status = "cancelled" /\ ~InHand(j) => landed[j] = 0

\* The counter of a job that is over never counts rows that are not there.
\* Not so when the worker dies after a cancel (ImportPhantom.cfg).
NoPhantomCount ==
    \A j \in Jobs : Over(j) /\ ~InHand(j) /\ job[j].inserted > 0 => landed[j] > 0

\* The queue keeps the promises of a job row.
Phase(j) == CASE job[j].status = "none"    -> "absent"
              [] job[j].status = "queued"  -> "waiting"
              [] job[j].status = "running" -> "taken"
              [] OTHER                     -> "over"

Lifecycle == INSTANCE JobLifecycle WITH
                 phase <- [j \in Jobs |-> Phase(j)],
                 taken <- ran,
                 applied <- landed,
                 success <- {j \in Jobs : job[j].status = "succeeded"}

KeepsLifecycle == Lifecycle!Spec
=============================================================================
