-------------------------- MODULE ImportJobsProofs --------------------------
(***************************************************************************)
(* Theorems about ImportJobs, for any number of jobs, workers, batches and *)
(* crashes, whether or not imports are slow.                               *)
(***************************************************************************)
EXTENDS ImportJobs, TLAPS

\* Jobs are told from no job and from the rows that were there before.
LEMMA JobNames == NoJob \notin Jobs /\ Jobs \subseteq Sources /\ Before \notin Jobs
BY ImportAssumption DEF NoJob, Jobs, Sources, Before

\* A counter starts at a number of batches.
LEMMA NoBatch == 0 \in 0..Batches
BY ImportAssumption

\* A worker process starts, and is found dead, in a state of the loop.
LEMMA LoopStarts == Idle \in Loop /\ Down \in Loop
BY NoBatch DEF Idle, Down, Loop, Points

-----------------------------------------------------------------------------
(* Types                                                                   *)

\* The queue starts well typed.
LEMMA TypeInit == Init => TypeOK
BY ImportAssumption, NoBatch, JobNames, LoopStarts
   DEF Init, TypeOK, JobRow, Statuses, Modes, Sources

\* After the last statement of a path a worker is idle or in its catch.
LEMMA AnsweredType ==
    ASSUME TypeOK, NEW w \in Workers, Answered(w) PROVE worker' \in [Workers -> Loop]
<1>1. [worker[w] EXCEPT !.pc = "thrown"] \in Loop
  BY DEF TypeOK, Loop, Points
<1> QED BY <1>1, LoopStarts DEF Answered, TypeOK

\* Every statement of the API, the worker loop and the sweep keeps the types.
LEMMA TypeStep ==
    ASSUME TypeOK, [Next]_ivars PROVE TypeOK'
<1> USE NoBatch, JobNames, LoopStarts DEF TypeOK
<1>1. ASSUME NEW m \in Modes, Enqueue(m) PROVE TypeOK'
  <2>1. PICK j \in Jobs : job' = [job EXCEPT ![j].status = "queued", ![j].mode = m]
    BY <1>1 DEF Enqueue
  <2>2. job' \in [Jobs -> JobRow] BY <2>1 DEF JobRow, Statuses
  <2> QED BY <1>1, <2>2 DEF Enqueue, history
<1>2. ASSUME NEW j \in Jobs, ReadForCancel(j) PROVE TypeOK'
  BY <1>2 DEF ReadForCancel, history
<1>3. ASSUME NEW j \in Jobs, Cancel(j) PROVE TypeOK'
  BY <1>3 DEF Cancel, Statuses, JobRow
<1>4. ASSUME NEW j \in Jobs, HeartbeatGoesStale(j) PROVE TypeOK'
  BY <1>4 DEF HeartbeatGoesStale, history, JobRow
<1>5. ASSUME NEW w \in Workers, ClaimNext(w) PROVE TypeOK'
  <2> PICK j \in Claimable : 
        /\ job' = [job EXCEPT ![j].status = "running", ![j].stale = FALSE]
        /\ worker' = [worker EXCEPT ![w] = [Idle EXCEPT !.pc = "opening", !.job = j]]
        /\ ran' = ran \cup {j}
    BY <1>5 DEF ClaimNext
  <2>1. j \in Jobs BY DEF Claimable
  <2>2. job' \in [Jobs -> JobRow] BY <2>1 DEF JobRow, Statuses
  <2>3. [Idle EXCEPT !.pc = "opening", !.job = j] \in Loop
    BY <2>1 DEF Idle, Loop, Points
  <2>4. worker' \in [Workers -> Loop] BY <2>3
  <2> QED BY <1>5, <2>1, <2>2, <2>4 DEF ClaimNext
<1>6. ASSUME NEW w \in Workers, Refuse(w) PROVE TypeOK'
  <2>1. job' \in [Jobs -> JobRow] BY <1>6 DEF Refuse, MarkFailed, JobRow, Statuses
  <2> QED BY <1>6, <2>1, AnsweredType DEF Refuse, history
<1>7. ASSUME NEW w \in Workers, Begin(w) PROVE TypeOK'
  <2>1. PICK d \in SUBSET Sources :
           worker' = [worker EXCEPT ![w].pc = "copying", ![w].deleted = d]
    BY <1>7 DEF Begin, Present
  <2>2. worker' \in [Workers -> Loop] BY <2>1 DEF Loop, Points
  <2> QED BY <1>7, <2>2 DEF Begin, history
<1>8. ASSUME NEW w \in Workers, CheckCancelled(w) PROVE TypeOK'
  <2>1. PICK p \in Points, b \in BOOLEAN :
           worker' = [worker EXCEPT ![w].pc = p, ![w].cancelled = b]
    <3> DEFINE stop == job[worker[w].job].status = "cancelled"
    <3>1. CASE stop
      <4>1. worker' = [worker EXCEPT ![w].pc = "ending", ![w].cancelled = TRUE]
        BY <1>8, <3>1 DEF CheckCancelled
      <4> QED BY <4>1 DEF Points
    <3>2. CASE ~stop
      <4>1. worker' = [worker EXCEPT ![w].pc = "batch", ![w].cancelled = FALSE]
        BY <1>8, <3>2 DEF CheckCancelled
      <4> QED BY <4>1 DEF Points
    <3> QED BY <3>1, <3>2
  <2>2. worker' \in [Workers -> Loop] BY <2>1 DEF Loop
  <2> QED BY <1>8, <2>2 DEF CheckCancelled, history
<1>9. ASSUME NEW w \in Workers, SendBatch(w) PROVE TypeOK'
  <2> DEFINE n == worker[w].sent + 1
  <2>1. n \in 0..Batches
    <3>1. worker[w].sent \in 0..Batches /\ worker[w].sent < Batches
      BY <1>9 DEF Loop, SendBatch
    <3> QED BY <3>1, ImportAssumption
  <2> HIDE DEF n
  <2>2. worker' \in [Workers -> Loop]
    <3>1. PICK p \in Points : worker' = [worker EXCEPT ![w].pc = p, ![w].sent = n]
      BY <1>9 DEF SendBatch, n, Points
    <3> QED BY <2>1, <3>1 DEF Loop
  <2>3. job' \in [Jobs -> JobRow]
    <3>1. job' = job \/ job' = [job EXCEPT ![worker[w].job].inserted = n,
                                          ![worker[w].job].stale = FALSE]
      BY <1>9 DEF SendBatch, n
    <3> QED BY <2>1, <3>1 DEF JobRow
  <2> QED BY <1>9, <2>2, <2>3 DEF SendBatch, history
<1>10. ASSUME NEW w \in Workers, End(w) PROVE TypeOK'
  <2>1. worker' \in [Workers -> Loop] BY <1>10 DEF End, Loop, Points
  <2>2. layer' \in [Sources -> 0..Batches] BY <1>10 DEF End, Commit, Committed, Loop
  <2> QED BY <1>10, <2>1, <2>2 DEF End, Commit
<1>11. ASSUME NEW w \in Workers, EndUnanswered(w) PROVE TypeOK'
  <2>1. worker' \in [Workers -> Loop] BY <1>11 DEF EndUnanswered, Loop, Points
  <2>2. layer' \in [Sources -> 0..Batches] BY <1>11 DEF EndUnanswered, Commit, Committed, Loop
  <2>3. landed' \in [Jobs -> Nat]
    <3>1. \A i \in Jobs : landed'[i] = landed[i] + 1 \/ landed'[i] = landed[i]
      BY <1>11 DEF EndUnanswered, Commit, Loop
    <3>2. landed' = [i \in Jobs |-> landed'[i]]
      BY <1>11 DEF EndUnanswered, Commit
    <3>3. \A i \in Jobs : landed'[i] \in Nat
      BY <3>1
    <3> QED BY <3>2, <3>3
  <2> QED BY <1>11, <2>1, <2>2, <2>3 DEF EndUnanswered
<1>12. ASSUME NEW w \in Workers, ZeroInsertedForCancelled(w) PROVE TypeOK'
  <2>1. job' \in [Jobs -> JobRow] BY <1>12 DEF ZeroInsertedForCancelled, JobRow
  <2> QED BY <1>12, <2>1, AnsweredType DEF ZeroInsertedForCancelled, history
<1>13. ASSUME NEW w \in Workers, MarkSucceeded(w) PROVE TypeOK'
  <2>1. PICK n \in 0..Batches :
           job' = [job EXCEPT ![worker[w].job].status = "succeeded",
                              ![worker[w].job].inserted = n]
    BY <1>13 DEF MarkSucceeded, Loop
  <2>2. job' \in [Jobs -> JobRow] BY <2>1 DEF JobRow, Statuses
  <2> QED BY <1>13, <2>2, AnsweredType DEF MarkSucceeded, history
<1>14. ASSUME NEW w \in Workers, Throw(w) PROVE TypeOK'
  <2>1. job' \in [Jobs -> JobRow] BY <1>14 DEF Throw, MarkFailed, JobRow, Statuses
  <2>2. worker' \in [Workers -> Loop] BY <1>14 DEF Throw, Loop, Points
  <2> QED BY <1>14, <2>1, <2>2 DEF Throw, Drop
<1>15. ASSUME NEW w \in Workers, ZeroInsertedForFailed(w) PROVE TypeOK'
  <2>1. job' \in [Jobs -> JobRow] BY <1>15 DEF ZeroInsertedForFailed, JobRow
  <2> QED BY <1>15, <2>1 DEF ZeroInsertedForFailed, history
<1>16. ASSUME NEW w \in Workers, FindStale(w) PROVE TypeOK'
  <2>1. [Idle EXCEPT !.pc = "sweeping", !.found = StaleRunning] \in Loop
    BY DEF Idle, Loop, Points, StaleRunning
  <2> QED BY <1>16, <2>1 DEF FindStale, history
<1>17. ASSUME NEW w \in Workers, FailStale(w) PROVE TypeOK'
  <2>1. job' \in [Jobs -> JobRow] BY <1>17 DEF FailStale, JobRow, Statuses
  <2> QED BY <1>17, <2>1 DEF FailStale, history
<1>18. ASSUME NEW w \in Workers, Crash(w) PROVE TypeOK'
  BY <1>18, ImportAssumption DEF Crash, Drop
<1>19. ASSUME NEW w \in Workers, Boot(w) PROVE TypeOK'
  BY <1>19 DEF Boot, history
<1>20. CASE DiesElsewhere
  BY <1>20, ImportAssumption DEF DiesElsewhere, history
<1>21. CASE UNCHANGED ivars
  BY <1>21 DEF ivars
<1> QED
  BY <1>1, <1>2, <1>3, <1>4, <1>5, <1>6, <1>7, <1>8, <1>9, <1>10, <1>11, <1>12, <1>13,
     <1>14, <1>15, <1>16, <1>17, <1>18, <1>19, <1>20, <1>21 DEF Next, WorkerStep

-----------------------------------------------------------------------------
(* Who has a job in hand, and what its row says                            *)

Inv == TypeOK /\ Hands /\ Rows

\* Nobody has a job in hand at the start (import_job is empty).
LEMMA InvInit == Init => Inv
<1> SUFFICES ASSUME Init PROVE Hands /\ Rows
  BY TypeInit DEF Inv
<1>1. Hands
  BY DEF Init, Hands, Hand, Idle, Free, Open
<1>2. Rows
  BY JobNames DEF Init, Rows, Row
<1> QED
  BY <1>1, <1>2

\* A worker that does not move keeps its hand on its job, whatever the others
\* do to rows that are not theirs.
LEMMA HandAside ==
    ASSUME TypeOK, NEW v \in Workers, Hand(v), worker'[v] = worker[v],
           ran \subseteq ran', torn \subseteq torn',
           NEW j \in Jobs \cup {NoJob}, j = worker[v].job,
           j # NoJob =>
              /\ landed'[j] = landed[j]
              /\ job'[j].inserted \in {job[j].inserted, 0}
              /\ \/ job'[j].status = job[j].status
                 \/ job'[j].status = "cancelled" /\ (job[j].status = "failed" => j \in torn')
                 \/ job'[j].status = "failed" /\ job[j].status = "running"
              /\ \A u \in Workers \ {v} : worker'[u].job # j
    PROVE  Hand(v)'
<1>1. CASE j = NoJob
  BY <1>1, JobNames DEF Hand, Free, Open
<1>2. CASE j # NoJob
  BY <1>2 DEF Hand, Free, Open
<1> QED
  BY <1>1, <1>2

\* A row nobody writes goes on saying what it said.
LEMMA RowAside ==
    ASSUME NEW i \in Jobs, Row(i), job'[i] = job[i], landed'[i] = landed[i],
           layer'[i] \in {layer[i], 0}, i \in ran' <=> i \in ran,
           i \in cancelling' => i \in cancelling
    PROVE  Row(i)'
BY DEF Row

\* A worker that touches only the row it has in hand disturbs nobody else.
LEMMA OwnStep ==
    ASSUME Inv, NEW w \in Workers, NEW j \in Jobs \cup {NoJob}, j = worker[w].job,
           \A u \in Workers \ {w} : worker'[u] = worker[u],
           worker'[w].job \in {j, NoJob},
           \A i \in Jobs \ {j} : /\ job'[i] = job[i]
                                 /\ landed'[i] = landed[i]
                                 /\ layer'[i] \in {layer[i], 0},
           ran' = ran, torn \subseteq torn', cancelling' = cancelling,
           Hand(w)', j # NoJob => Row(j)'
    PROVE  Hands' /\ Rows'
<1> USE DEF Inv
<1>1. ASSUME NEW v \in Workers PROVE Hand(v)'
  <2>1. CASE v = w
    BY <2>1
  <2>2. CASE v # w
    <3> DEFINE i == worker[v].job
    <3>1. i \in Jobs \cup {NoJob}
      BY DEF TypeOK, Loop
    <3>2. Hand(v) /\ Hand(w)
      BY DEF Hands
    <3>3. worker'[v] = worker[v]
      BY <2>2
    <3>4. CASE i = NoJob
      BY <3>1, <3>2, <3>3, <3>4, HandAside
    <3>5. CASE i # NoJob
      <4>1. \A u \in Workers \ {v} : worker[u].job # i
        BY <3>2, <3>5 DEF Hand
      <4>2. i # j
        BY <4>1, <2>2
      <4>3. job'[i] = job[i] /\ landed'[i] = landed[i]
        BY <4>2, <3>1, <3>5
      <4>4. \A u \in Workers \ {v} : worker'[u].job # i
        BY <4>1, <4>2, <3>5
      <4> HIDE DEF i
      <4> QED BY <3>1, <3>2, <3>3, <3>5, <4>3, <4>4, HandAside DEF i
    <3> QED BY <3>4, <3>5
  <2> QED BY <2>1, <2>2
<1>2. ASSUME NEW i \in Jobs PROVE Row(i)'
  <2>1. CASE i = j
    BY <2>1, JobNames
  <2>2. CASE i # j
    BY <2>2, RowAside DEF Rows
  <2> QED BY <2>1, <2>2
<1> QED
  BY <1>1, <1>2 DEF Hands, Rows

\* A worker that has let go of its job has no obligations left (loop's next turn).
LEMMA LetGo ==
    ASSUME NEW w \in Workers, worker'[w] = Idle \/ worker'[w] = Down
    PROVE  Hand(w)' /\ worker'[w].job = NoJob
<1>1. worker'[w].pc \in Free /\ worker'[w].job = NoJob /\ worker'[w].committed = FALSE
  BY DEF Idle, Down, Free
<1> QED
  BY <1>1 DEF Hand, Free, Open

\* A worker whose last statement was applied has let go of its job, or is in the
\* catch with it, whatever its row says.
LEMMA AnsweredHand ==
    ASSUME Inv, NEW w \in Workers, Answered(w), NEW j \in Jobs, j = worker[w].job,
           ran' = ran, landed' = landed
    PROVE  /\ Hand(w)' /\ worker'[w].job \in {j, NoJob}
           /\ \A u \in Workers \ {w} : worker'[u] = worker[u]
<1>1. worker \in [Workers -> Loop] /\ Hand(w) /\ j # NoJob
  BY JobNames DEF Inv, TypeOK, Hands
<1>2. CASE worker' = [worker EXCEPT ![w] = Idle]
  BY <1>1, <1>2, LetGo
<1>3. CASE worker' = [worker EXCEPT ![w].pc = "thrown"]
  BY <1>1, <1>3 DEF Hand, Free, Open, Loop
<1> QED BY <1>2, <1>3 DEF Answered

\* The steps of a worker on the job it has in hand.
LEMMA WorkStep ==
    ASSUME Inv, NEW w \in Workers,
           \/ Refuse(w) \/ Begin(w) \/ CheckCancelled(w) \/ SendBatch(w) \/ End(w)
           \/ EndUnanswered(w) \/ ZeroInsertedForCancelled(w) \/ MarkSucceeded(w)
           \/ Throw(w) \/ ZeroInsertedForFailed(w)
    PROVE  Hands' /\ Rows'
<1>0. PICK j \in Jobs : j = worker[w].job
  <2>1. worker[w].pc \notin Free /\ Hand(w)
    BY DEF Inv, Hands, Refuse, Begin, CheckCancelled, SendBatch, End, EndUnanswered,
           ZeroInsertedForCancelled, MarkSucceeded, Throw, ZeroInsertedForFailed, Free
  <2>2. worker[w].job # NoJob
    BY <2>1 DEF Hand
  <2> QED BY <2>2 DEF Inv, TypeOK, Loop
<1>1. Hand(w) /\ Row(j) /\ j \in ran /\ j # NoJob
  BY <1>0, JobNames DEF Inv, Hands, Rows, Hand
<1>2. /\ worker[w] \in Loop /\ job[j] \in JobRow
      /\ job \in [Jobs -> JobRow] /\ worker \in [Workers -> Loop]
      /\ landed \in [Jobs -> Nat] /\ layer \in [Sources -> 0..Batches]
  BY <1>1 DEF Inv, TypeOK
<1> DEFINE Goal == /\ \A u \in Workers \ {w} : worker'[u] = worker[u]
                   /\ worker'[w].job \in {j, NoJob}
                   /\ \A i \in Jobs \ {j} : /\ job'[i] = job[i]
                                             /\ landed'[i] = landed[i]
                                             /\ layer'[i] \in {layer[i], 0}
                   /\ ran' = ran /\ torn \subseteq torn' /\ cancelling' = cancelling
                   /\ Hand(w)' /\ Row(j)'
<1>3. SUFFICES Goal
  <2>1. j \in Jobs \cup {NoJob} /\ worker'[w].job \in {j, NoJob} /\ (j # NoJob => Row(j)')
    OBVIOUS
  <2> QED BY <1>0, <2>1, OwnStep
<1> USE <1>0, <1>1, <1>2, JobNames
<1>4. CASE Refuse(w)
  <2>1. Answered(w) /\ ran' = ran /\ landed' = landed
    BY <1>4 DEF Refuse, history
  <2>2. /\ Hand(w)' /\ worker'[w].job \in {j, NoJob}
        /\ \A u \in Workers \ {w} : worker'[u] = worker[u]
    BY <2>1, AnsweredHand
  <2>3. Row(j)'
    BY <1>4 DEF Refuse, MarkFailed, history, Row, JobRow
  <2>4. /\ \A i \in Jobs \ {j} : /\ job'[i] = job[i] /\ landed'[i] = landed[i]
                                 /\ layer'[i] \in {layer[i], 0}
        /\ ran' = ran /\ torn \subseteq torn' /\ cancelling' = cancelling
    BY <1>4 DEF Refuse, MarkFailed, history
  <2> QED BY <2>2, <2>3, <2>4
<1>5. CASE Begin(w)
  BY <1>5 DEF Begin, history, Hand, Row, Free, Open, JobRow, Loop
<1>6. CASE CheckCancelled(w)
  BY <1>6 DEF CheckCancelled, history, Hand, Row, Free, Open, JobRow, Loop
<1>7. CASE SendBatch(w)
  BY <1>7 DEF SendBatch, history, Hand, Row, Free, Open, JobRow, Loop
<1>8. CASE End(w)
  BY <1>8 DEF End, Commit, Committed, Hand, Row, Free, Open, JobRow, Loop
<1>9. CASE EndUnanswered(w)
  BY <1>9 DEF EndUnanswered, Commit, Committed, Hand, Row, Free, Open, JobRow, Loop
<1>10. CASE ZeroInsertedForCancelled(w)
  <2>1. Answered(w) /\ ran' = ran /\ landed' = landed
    BY <1>10 DEF ZeroInsertedForCancelled, history
  <2>2. /\ Hand(w)' /\ worker'[w].job \in {j, NoJob}
        /\ \A u \in Workers \ {w} : worker'[u] = worker[u]
    BY <2>1, AnsweredHand
  <2>3. Row(j)'
    BY <1>10 DEF ZeroInsertedForCancelled, history, Row, JobRow
  <2>4. /\ \A i \in Jobs \ {j} : /\ job'[i] = job[i] /\ landed'[i] = landed[i]
                                 /\ layer'[i] \in {layer[i], 0}
        /\ ran' = ran /\ torn \subseteq torn' /\ cancelling' = cancelling
    BY <1>10 DEF ZeroInsertedForCancelled, history
  <2> QED BY <2>2, <2>3, <2>4
<1>11. CASE MarkSucceeded(w)
  <2>1. Answered(w) /\ ran' = ran /\ landed' = landed
    BY <1>11 DEF MarkSucceeded, history
  <2>2. /\ Hand(w)' /\ worker'[w].job \in {j, NoJob}
        /\ \A u \in Workers \ {w} : worker'[u] = worker[u]
    BY <2>1, AnsweredHand
  <2>3. Row(j)'
    <3>1. landed[j] = 1
      BY <1>11 DEF MarkSucceeded, Hand
    <3> QED BY <1>11, <3>1 DEF MarkSucceeded, history, Row, JobRow
  <2>4. /\ \A i \in Jobs \ {j} : /\ job'[i] = job[i] /\ landed'[i] = landed[i]
                                 /\ layer'[i] \in {layer[i], 0}
        /\ ran' = ran /\ torn \subseteq torn' /\ cancelling' = cancelling
    BY <1>11 DEF MarkSucceeded, history
  <2> QED BY <2>2, <2>3, <2>4
<1>12. CASE Throw(w)
  <2>1. /\ \A i \in Jobs \ {j} : /\ job'[i] = job[i] /\ landed'[i] = landed[i]
                                 /\ layer'[i] \in {layer[i], 0}
        /\ ran' = ran /\ torn \subseteq torn' /\ cancelling' = cancelling
    BY <1>12 DEF Throw, MarkFailed, Drop
  <2>2. Row(j)'
    BY <1>12 DEF Throw, MarkFailed, Drop, Row, JobRow
  <2>3. CASE worker' = [worker EXCEPT ![w] = Idle]
    <3>1. Hand(w)' /\ worker'[w].job = NoJob /\ \A u \in Workers \ {w} : worker'[u] = worker[u]
      BY <2>3, LetGo
    <3> QED BY <2>1, <2>2, <3>1
  <2>4. CASE MarkFailed(j) /\ worker' = [worker EXCEPT ![w].pc = "failed"]
    <3>1. worker'[w].job = j /\ \A u \in Workers \ {w} : worker'[u] = worker[u]
      BY <2>4
    <3>2. Hand(w)'
      BY <1>12, <2>4 DEF Throw, MarkFailed, Hand, Free, Open, JobRow, Loop
    <3> QED BY <2>1, <2>2, <3>1, <3>2
  <2> QED BY <1>12, <2>3, <2>4 DEF Throw
<1>13. CASE ZeroInsertedForFailed(w)
  <2>1. worker' = [worker EXCEPT ![w] = Idle]
    BY <1>13 DEF ZeroInsertedForFailed
  <2>2. Hand(w)' /\ worker'[w].job = NoJob /\ \A u \in Workers \ {w} : worker'[u] = worker[u]
    BY <2>1, LetGo
  <2>3. Row(j)'
    BY <1>13 DEF ZeroInsertedForFailed, history, Row, JobRow
  <2>4. /\ \A i \in Jobs \ {j} : /\ job'[i] = job[i] /\ landed'[i] = landed[i]
                                 /\ layer'[i] \in {layer[i], 0}
        /\ ran' = ran /\ torn \subseteq torn' /\ cancelling' = cancelling
    BY <1>13 DEF ZeroInsertedForFailed, history
  <2> QED BY <2>2, <2>3, <2>4
<1> QED
  BY <1>4, <1>5, <1>6, <1>7, <1>8, <1>9, <1>10, <1>11, <1>12, <1>13

\* Steps on rows that move no worker, or only one with nothing in hand.
OthersStill ==
    /\ \A w \in Workers :
          worker'[w] = worker[w] \/ (worker[w].job = NoJob /\ worker'[w] = Idle)
    /\ landed' = landed /\ layer' = layer /\ ran' = ran /\ torn \subseteq torn'

RowsOnly ==
    \A i \in Jobs :
        /\ job'[i].inserted \in {job[i].inserted, 0}
        /\ \/ job'[i].status = job[i].status
           \/ job[i].status = "none" /\ job'[i].status = "queued"
           \/ job'[i].status = "cancelled" /\ (job[i].status = "failed" => i \in torn')
           \/ job'[i].status = "failed" /\ job[i].status = "running"

\* Steps outside the workers (enqueue, cancel, sweep, heartbeat) leave every hand's job to it.
LEMMA RowStep ==
    ASSUME Inv, OthersStill, RowsOnly, Rows' PROVE Hands' /\ Rows'
<1> USE DEF Inv, OthersStill, RowsOnly
<1>1. ASSUME NEW v \in Workers PROVE Hand(v)'
  <2>1. CASE worker'[v] = Idle
    BY <2>1, LetGo
  <2>2. CASE worker'[v] = worker[v]
    <3>1. PICK i \in Jobs \cup {NoJob} : i = worker[v].job
      BY DEF TypeOK, Loop
    <3>2. Hand(v) /\ worker'[v] = worker[v]
      BY <2>2 DEF Hands
    <3>3. CASE i = NoJob
      BY <3>1, <3>2, <3>3, HandAside
    <3>4. CASE i # NoJob
      <4>1. \A u \in Workers \ {v} : worker[u].job # i
        BY <3>1, <3>2, <3>4 DEF Hand
      <4>2. \A u \in Workers \ {v} : worker'[u].job # i
        BY <4>1, <3>4 DEF Idle
      <4>3. job[i].status # "none"
        BY <3>1, <3>2, <3>4 DEF Hand, Rows, Row
      <4> QED BY <3>1, <3>2, <3>4, <4>2, <4>3, HandAside
    <3> QED BY <3>3, <3>4
  <2> QED BY <2>1, <2>2
<1> QED
  BY <1>1 DEF Hands, Rows

\* claimNext puts a queued job, which no worker has, in one worker's hand.
LEMMA ClaimStep ==
    ASSUME Inv, NEW w \in Workers, ClaimNext(w) PROVE Hands' /\ Rows'
<1> USE DEF Inv
<1>1. PICK j \in Jobs :
         /\ job[j].status = "queued"
         /\ job' = [job EXCEPT ![j].status = "running", ![j].stale = FALSE]
         /\ worker' = [worker EXCEPT ![w] = [Idle EXCEPT !.pc = "opening", !.job = j]]
         /\ ran' = ran \cup {j}
  BY DEF ClaimNext, Claimable
<1>2. j \notin ran /\ j # NoJob /\ landed[j] = 0 /\ job[j].inserted = 0
  BY <1>1, JobNames DEF Rows, Row
<1>3. \A v \in Workers : worker[v].job # j
  BY <1>2 DEF Hands, Hand
<1>4. UNCHANGED <<layer, cancelling, landed, torn>> /\ worker[w].job = NoJob
  BY DEF ClaimNext, Hands, Hand, Free
<1>5. /\ worker'[w].pc = "opening" /\ worker'[w].job = j /\ worker'[w].sent = 0
      /\ worker'[w].cancelled = FALSE /\ worker'[w].committed = FALSE
  BY <1>1 DEF TypeOK, Idle
<1>6. job'[j].status = "running" /\ job'[j].inserted = 0
  BY <1>1, <1>2 DEF TypeOK, JobRow
<1>7. ASSUME NEW v \in Workers PROVE Hand(v)'
  <2>1. CASE v = w
    <3>1. \A u \in Workers \ {w} : worker'[u].job # j
      BY <1>1, <1>3
    <3>2. Hand(w)'
      <4>1. j \in ran' /\ landed'[j] = 0
        BY <1>1, <1>2, <1>4
      <4> QED BY <3>1, <4>1, <1>2, <1>5, <1>6 DEF Hand, Free, Open
    <3> QED BY <2>1, <3>2
  <2>2. CASE v # w
    <3>1. PICK i \in Jobs \cup {NoJob} : i = worker[v].job
      BY DEF TypeOK, Loop
    <3>2. Hand(v) /\ worker'[v] = worker[v] /\ i # j
      BY <1>1, <1>3, <2>2, <3>1 DEF Hands
    <3>3. CASE i = NoJob
      BY <1>1, <1>4, <3>1, <3>2, <3>3, HandAside
    <3>4. CASE i # NoJob
      <4>1. \A u \in Workers \ {v} : worker'[u].job # i
        BY <1>1, <1>5, <3>1, <3>2, <3>4 DEF Hand
      <4>2. job'[i] = job[i] /\ landed' = landed
        BY <1>1, <1>4, <3>2, <3>4 DEF TypeOK
      <4> QED BY <1>1, <1>4, <3>1, <3>2, <3>4, <4>1, <4>2, HandAside
    <3> QED BY <3>3, <3>4
  <2> QED BY <2>1, <2>2
<1>8. ASSUME NEW i \in Jobs PROVE Row(i)'
  <2>1. CASE i = j
    BY <2>1, <1>1, <1>2, <1>4, <1>6 DEF Row, Rows
  <2>2. CASE i # j
    <3>1. job'[i] = job[i]
      BY <1>1, <2>2 DEF TypeOK
    <3> QED BY <1>1, <1>4, <2>2, <3>1, RowAside DEF Rows
  <2> QED BY <2>1, <2>2
<1> QED
  BY <1>7, <1>8 DEF Hands, Rows

\* Every step of the queue keeps hands and rows in agreement.
LEMMA InvStep ==
    ASSUME Inv, [Next]_ivars PROVE Inv'
<1> SUFFICES Hands' /\ Rows'
  BY TypeStep DEF Inv
<1> USE DEF Inv
<1>1. ASSUME NEW m \in Modes, Enqueue(m) PROVE Hands' /\ Rows'
  <2>1. PICK j \in Jobs : /\ job[j].status = "none"
                          /\ job' = [job EXCEPT ![j].status = "queued", ![j].mode = m]
    BY <1>1 DEF Enqueue
  <2>2. UNCHANGED <<layer, worker, cancelling, crashes, history>>
    BY <1>1 DEF Enqueue
  <2>3. \A i \in Jobs : job'[i].inserted = job[i].inserted /\ (i # j => job'[i] = job[i])
    BY <2>1 DEF TypeOK, JobRow
  <2>4. job'[j].status = "queued"
    BY <2>1 DEF TypeOK, JobRow
  <2>5. Rows'
    BY <2>1, <2>2, <2>3, <2>4 DEF Rows, Row, history
  <2>6. RowsOnly
    BY <2>1, <2>3, <2>4 DEF RowsOnly
  <2>7. OthersStill
    BY <2>2 DEF history, OthersStill
  <2> QED BY <2>5, <2>6, <2>7, RowStep
<1>2. ASSUME NEW j \in Jobs, ReadForCancel(j) PROVE Hands' /\ Rows'
  <2>1. Rows'
    BY <1>2 DEF ReadForCancel, Active, Rows, Row, history
  <2>2. RowsOnly
    BY <1>2 DEF ReadForCancel, RowsOnly
  <2>3. OthersStill
    BY <1>2 DEF ReadForCancel, history, OthersStill
  <2> QED BY <2>1, <2>2, <2>3, RowStep
<1>3. ASSUME NEW j \in Jobs, Cancel(j) PROVE Hands' /\ Rows'
  <2>1. \A i \in Jobs : job'[i].inserted = job[i].inserted /\ (i # j => job'[i] = job[i])
    BY <1>3 DEF Cancel, TypeOK, JobRow
  <2>2. job'[j].status = "cancelled" /\ (job[j].status = "failed" => j \in torn')
    BY <1>3 DEF Cancel, TypeOK, JobRow, Over
  <2>3. Rows'
    BY <1>3, <2>1, <2>2 DEF Cancel, Rows, Row
  <2>4. torn \subseteq torn'
    BY <1>3 DEF Cancel
  <2>5. RowsOnly
    BY <2>1, <2>2 DEF RowsOnly
  <2>6. OthersStill
    BY <1>3, <2>4 DEF Cancel, OthersStill
  <2> QED BY <2>3, <2>5, <2>6, RowStep
<1>4. ASSUME NEW j \in Jobs, HeartbeatGoesStale(j) PROVE Hands' /\ Rows'
  <2>1. \A i \in Jobs : job'[i].inserted = job[i].inserted /\ job'[i].status = job[i].status
    BY <1>4 DEF HeartbeatGoesStale, TypeOK, JobRow
  <2>2. Rows'
    BY <1>4, <2>1 DEF HeartbeatGoesStale, Rows, Row, history
  <2>3. RowsOnly
    BY <2>1 DEF RowsOnly
  <2>4. OthersStill
    BY <1>4 DEF HeartbeatGoesStale, history, OthersStill
  <2> QED BY <2>2, <2>3, <2>4, RowStep
<1>5. ASSUME NEW w \in Workers, FindStale(w) PROVE Hands' /\ Rows'
  <2>1. worker[w].job = NoJob
    BY <1>5 DEF FindStale, Hands, Hand, Free
  <2>2. /\ worker'[w].pc = "sweeping" /\ worker'[w].job = NoJob /\ ~worker'[w].committed
        /\ \A u \in Workers \ {w} : worker'[u] = worker[u]
    BY <1>5 DEF FindStale, Idle, TypeOK
  <2>3. Hand(w)'
    BY <2>2 DEF Hand, Free, Open
  <2> QED BY <1>5, <2>1, <2>2, <2>3, OwnStep DEF FindStale, history
<1>6. ASSUME NEW w \in Workers, FailStale(w) PROVE Hands' /\ Rows'
  <2>1. worker[w].job = NoJob /\ worker' = [worker EXCEPT ![w] = Idle]
    BY <1>6 DEF FailStale, Hands, Hand, Free
  <2>2. UNCHANGED <<layer, cancelling, crashes, history>>
    BY <1>6 DEF FailStale
  <2>3. ASSUME NEW i \in Jobs
        PROVE  \/ job'[i] = job[i]
               \/ /\ job[i].status = "running"
                  /\ job'[i].status = "failed" /\ job'[i].inserted = 0
    BY <1>6 DEF FailStale, Swept, TypeOK, JobRow
  <2>4. Rows'
    BY <2>2, <2>3 DEF Rows, Row, history
  <2>5. RowsOnly
    BY <2>3 DEF RowsOnly
  <2>6. OthersStill
    BY <2>1, <2>2 DEF TypeOK, history, OthersStill
  <2> QED BY <2>4, <2>5, <2>6, RowStep
<1>7. ASSUME NEW w \in Workers, Crash(w) \/ Boot(w) PROVE Hands' /\ Rows'
  <2>1. PICK j \in Jobs \cup {NoJob} : j = worker[w].job
    BY DEF TypeOK, Loop
  <2>2. worker' = [worker EXCEPT ![w] = Down] \/ worker' = [worker EXCEPT ![w] = Idle]
    BY <1>7 DEF Crash, Boot
  <2>3. Hand(w)' /\ worker'[w].job = NoJob /\ \A u \in Workers \ {w} : worker'[u] = worker[u]
    BY <2>2, LetGo DEF TypeOK
  <2>4. UNCHANGED <<job, layer, cancelling, ran, landed>> /\ torn \subseteq torn'
    BY <1>7 DEF Crash, Boot, Drop, history
  <2>5. j # NoJob => Row(j)'
    BY <2>4 DEF Rows, Row
  <2> QED BY <2>1, <2>3, <2>4, <2>5, OwnStep
<1>8. CASE DiesElsewhere \/ UNCHANGED ivars
  BY <1>8 DEF DiesElsewhere, ivars, history, Hands, Hand, Rows, Row
<1> QED
  BY <1>1, <1>2, <1>3, <1>4, <1>5, <1>6, <1>7, <1>8, WorkStep, ClaimStep DEF Next, WorkerStep

\* No job is in two workers' hands, and what a worker has done so far is what
\* its row and the layer say.
THEOREM OneHand == Spec => [](TypeOK /\ Hands /\ Rows)
<1>1. Inv /\ [Next]_ivars => Inv'
  BY InvStep
<1> QED
  BY InvInit, <1>1, PTL DEF Spec, Inv

-----------------------------------------------------------------------------
(* What the queue promises                                                 *)

\* A commit puts the whole file of a job in that had nothing there.
LEMMA CommitWhole ==
    ASSUME Inv, NEW w \in Workers, worker[w].pc = "ending", ~worker[w].cancelled, Commit(w)
    PROVE  LET j == worker[w].job
           IN /\ j \in Jobs /\ ~worker[w].cancelled
              /\ landed[j] = 0 /\ landed' = [landed EXCEPT ![j] = 1]
              /\ layer[j] = 0 /\ layer'[j] = Batches
              /\ \A s \in Sources \ {j} : layer'[s] \in {layer[s], 0}
<1>1. PICK j \in Jobs \cup {NoJob} : j = worker[w].job
  BY DEF Inv, TypeOK, Loop
<1>2. Hand(w) /\ worker[w].pc = "ending" /\ ~worker[w].cancelled /\ Commit(w)
  BY DEF Inv, Hands
<1>3. j \in Jobs
  BY <1>1, <1>2 DEF Hand, Free
<1>4. landed[j] = 0 /\ layer[j] = 0 /\ worker[w].sent = Batches
  BY <1>1, <1>2, <1>3 DEF Hand, Open, Inv, Rows, Row
<1>5. landed' = [landed EXCEPT ![j] = 1]
  BY <1>1, <1>2, <1>3, <1>4 DEF Commit, Inv, TypeOK
<1>6. layer'[j] = Batches
  <2>1. layer' = Committed(w) /\ j \in Sources
    BY <1>2, <1>3, JobNames DEF Commit
  <2> QED BY <1>1, <1>4, <2>1 DEF Committed
<1>7. \A s \in Sources \ {j} : layer'[s] \in {layer[s], 0}
  BY <1>1, <1>2 DEF Commit, Committed
<1> QED
  BY <1>1, <1>2, <1>3, <1>4, <1>5, <1>6, <1>7

\* Only the two commits touch the layer.
LEMMA LayerKept ==
    ASSUME [Next]_ivars, layer' # layer
    PROVE  \E w \in Workers : worker[w].pc = "ending" /\ ~worker[w].cancelled /\ Commit(w)
BY DEF Next, WorkerStep, ivars, Enqueue, ReadForCancel, Cancel, HeartbeatGoesStale, ClaimNext,
       Refuse, Begin, CheckCancelled, SendBatch, End, EndUnanswered, ZeroInsertedForCancelled,
       MarkSucceeded, Throw, ZeroInsertedForFailed, FindStale, FailStale, Crash, Boot, DiesElsewhere

\* The layer only ever changes by one whole import: every file comes in with
\* one commit, and what fails, dies or is cancelled leaves the layer alone.
THEOREM ImportsLandWhole == Spec => LandsWholeOrNot
<1> DEFINE Whole == \E j \in Jobs : /\ layer[j] = 0 /\ layer'[j] = Batches
                                  /\ \A s \in Sources \ {j} : layer'[s] \in {layer[s], 0}
<1>1. ASSUME Inv, [Next]_ivars PROVE [layer' = layer \/ Whole]_ivars
  <2>1. CASE layer' = layer
    BY <2>1
  <2>2. CASE layer' # layer
    <3>1. PICK w \in Workers : worker[w].pc = "ending" /\ ~worker[w].cancelled /\ Commit(w)
      BY <1>1, <2>2, LayerKept
    <3> QED
      BY <1>1, <2>2, <3>1, CommitWhole
  <2> QED BY <2>1, <2>2
<1>2. Inv /\ [Next]_ivars => [layer' = layer \/ Whole]_ivars
  BY <1>1
<1>3. Spec => []Inv
  BY OneHand DEF Inv
<1> QED
  BY <1>2, <1>3, PTL DEF Spec, LandsWholeOrNot

\* A success is taken back only by a cancel that read the row before it was over,
\* or by the worker that wrote it and got no answer; no other worker has the job
\* in hand, and the sweep looks at the row again.
LEMMA SuccessStep ==
    ASSUME Inv, [Next]_ivars, NEW j \in Jobs,
           job[j].status = "succeeded", job'[j].status # "succeeded"
    PROVE  TakenBack(j) /\ job'[j].inserted = job[j].inserted
<1> USE DEF Inv
<1>1. ASSUME NEW m \in Modes, Enqueue(m) PROVE FALSE
  BY <1>1 DEF Enqueue, TypeOK, JobRow
<1>2. ASSUME NEW i \in Jobs, Cancel(i) PROVE TakenBack(j) /\ job'[j].inserted = job[j].inserted
  BY <1>2 DEF Cancel, TakenBack, TypeOK, JobRow
<1>3. ASSUME NEW i \in Jobs, HeartbeatGoesStale(i) PROVE FALSE
  BY <1>3 DEF HeartbeatGoesStale, TypeOK, JobRow
<1>4. ASSUME NEW w \in Workers, ClaimNext(w) PROVE FALSE
  BY <1>4 DEF ClaimNext, Claimable, TypeOK, JobRow
<1>5. ASSUME NEW w \in Workers, FailStale(w) PROVE FALSE
  BY <1>5 DEF FailStale, Swept
<1>6. ASSUME NEW w \in Workers,
             \/ Refuse(w) \/ SendBatch(w) \/ ZeroInsertedForCancelled(w)
             \/ MarkSucceeded(w) \/ ZeroInsertedForFailed(w)
      PROVE  FALSE
  <2>1. worker[w].pc \notin Free /\ worker[w].pc # "thrown"
    BY <1>6 DEF Refuse, SendBatch, MarkSucceeded, ZeroInsertedForCancelled,
                ZeroInsertedForFailed, Free
  <2>2. worker[w].job # j
    BY <2>1, JobNames DEF Hands, Hand
  <2>3. job'[j] = job[j]
    BY <1>6, <2>2 DEF Refuse, SendBatch, MarkSucceeded, ZeroInsertedForCancelled,
                      MarkFailed, ZeroInsertedForFailed, TypeOK
  <2> QED BY <2>3
<1>7. ASSUME NEW w \in Workers, Throw(w)
      PROVE  TakenBack(j) /\ job'[j].inserted = job[j].inserted
  <2>1. MarkFailed(worker[w].job) /\ worker[w].job = j
    BY <1>7 DEF Throw, MarkFailed, TypeOK
  <2>2. worker[w].pc = "thrown"
    BY <2>1, JobNames DEF Hands, Hand
  <2>3. job'[j].status = "failed" /\ job'[j].inserted = job[j].inserted
    BY <2>1 DEF MarkFailed, TypeOK, JobRow
  <2> QED BY <2>1, <2>2, <2>3 DEF TakenBack
<1>8. ASSUME job' = job PROVE FALSE
  BY <1>8
<1> QED
  BY <1>1, <1>2, <1>3, <1>4, <1>5, <1>6, <1>7, <1>8
     DEF Next, WorkerStep, ivars, history, ReadForCancel, Begin, CheckCancelled, End, EndUnanswered,
         FindStale, Crash, Boot, DiesElsewhere

\* A succeeded import job is taken back by nobody else (recoverStaleRunning
\* re-checks the status it listed), and it goes on stating the count it stated.
THEOREM SuccessIsKept == Spec => SuccessStands
<1>1. Inv /\ [Next]_ivars =>
         [\A j \in Jobs : job[j].status = "succeeded" /\ job'[j].status # "succeeded"
                            => TakenBack(j) /\ job'[j].inserted = job[j].inserted]_ivars
  BY SuccessStep
<1>2. Spec => []Inv
  BY OneHand DEF Inv
<1> QED
  BY <1>1, <1>2, PTL DEF Spec, SuccessStands

\* A job that is over and out of everybody's hands counts rows only if its rows
\* are there, unless it was torn from its worker.
Honest(j) == Over(j) /\ ~InHand(j) /\ j \notin torn /\ job[j].inserted > 0 => landed[j] > 0

\* Every step keeps the count of a job that is over true to the layer.
LEMMA HonestStep ==
    ASSUME Inv, [Next]_ivars, NEW j \in Jobs, Honest(j) PROVE Honest(j)'
<1> USE DEF Inv
<1>0. SUFFICES ASSUME job'[j].status \in {"succeeded", "failed", "cancelled"},
                      \A w \in Workers : worker'[w].job # j, j \notin torn',
                      job'[j].inserted > 0
               PROVE  landed'[j] > 0
  BY DEF Honest, Over, InHand
<1> DEFINE Kept == job'[j] = job[j] /\ landed'[j] = landed[j]
<1>1. ASSUME NEW m \in Modes, Enqueue(m) PROVE landed'[j] > 0
  <2>1. PICK i \in Jobs : /\ job[i].status = "none"
                          /\ job' = [job EXCEPT ![i].status = "queued", ![i].mode = m]
    BY <1>1 DEF Enqueue
  <2>2. i # j
    BY <1>0, <2>1 DEF TypeOK, JobRow
  <2>3. Kept /\ worker' = worker /\ torn' = torn
    BY <1>1, <2>1, <2>2 DEF Enqueue, history, TypeOK
  <2> QED BY <1>0, <2>3 DEF Honest, Over, InHand
<1>2. ASSUME NEW i \in Jobs, Cancel(i) PROVE landed'[j] > 0
  <2>1. worker' = worker /\ landed' = landed /\ torn \subseteq torn'
        /\ job'[j].inserted = job[j].inserted /\ (i # j => job'[j] = job[j])
    BY <1>2 DEF Cancel, TypeOK, JobRow
  <2>2. CASE i # j
    BY <1>0, <2>1, <2>2 DEF Honest, Over, InHand
  <2>3. CASE i = j
    <3>1. ~InHand(j) /\ ~Over(j) /\ job[j].status # "running"
      BY <1>0, <1>2, <2>1, <2>3 DEF Cancel, InHand
    <3>2. job[j].status \in Statuses
      BY DEF TypeOK, JobRow
    <3>3. j \notin ran
      BY <3>1, <3>2 DEF Rows, Row, Over, Statuses
    <3> QED BY <1>0, <2>1, <3>3 DEF Rows, Row
  <2> QED BY <2>2, <2>3
<1>3. ASSUME NEW i \in Jobs, HeartbeatGoesStale(i) PROVE landed'[j] > 0
  BY <1>0, <1>3 DEF HeartbeatGoesStale, history, Honest, Over, InHand, TypeOK, JobRow
<1>4. ASSUME NEW w \in Workers, ClaimNext(w) PROVE landed'[j] > 0
  <2>1. PICK i \in Jobs :
           /\ job' = [job EXCEPT ![i].status = "running", ![i].stale = FALSE]
           /\ worker' = [worker EXCEPT ![w] = [Idle EXCEPT !.pc = "opening", !.job = i]]
    BY <1>4 DEF ClaimNext, Claimable
  <2>2. worker'[w].job = i
    BY <2>1 DEF TypeOK, Idle
  <2>3. i # j /\ worker[w].job # j
    BY <1>0, <1>4, <2>2, JobNames DEF ClaimNext, Hands, Hand, Free
  <2>4. Kept /\ torn' = torn /\ \A v \in Workers : worker[v].job # j
    BY <1>0, <1>4, <2>1, <2>3 DEF ClaimNext, TypeOK
  <2> QED BY <1>0, <2>4 DEF Honest, Over, InHand
<1>5. ASSUME NEW w \in Workers, FailStale(w) PROVE landed'[j] > 0
  <2>1. worker[w].job # j
    BY <1>5, JobNames DEF FailStale, Hands, Hand, Free
  <2>2. CASE j \in Swept(w)
    <3>1. job'[j] = [job[j] EXCEPT !.status = "failed", !.inserted = 0]
      BY <1>5, <2>2 DEF FailStale
    <3> QED BY <1>0, <3>1 DEF TypeOK, JobRow
  <2>3. CASE j \notin Swept(w)
    <3>1. Kept /\ torn' = torn
      <4>1. job'[j] = IF j \in Swept(w) THEN [job[j] EXCEPT !.status = "failed", !.inserted = 0]
                                       ELSE job[j]
        BY <1>5 DEF FailStale
      <4> QED BY <1>5, <2>3, <4>1 DEF FailStale, history
    <3>2. \A v \in Workers \ {w} : worker'[v] = worker[v]
      BY <1>5 DEF FailStale, TypeOK
    <3>3. ~InHand(j)
      BY <1>0, <2>1, <3>2 DEF InHand
    <3> QED BY <1>0, <3>1, <3>3 DEF Honest, Over
  <2> QED BY <2>2, <2>3
<1>6. ASSUME NEW w \in Workers, worker[w].job # j,
             \/ Refuse(w) \/ Begin(w) \/ CheckCancelled(w) \/ SendBatch(w) \/ End(w)
             \/ EndUnanswered(w) \/ ZeroInsertedForCancelled(w) \/ MarkSucceeded(w)
             \/ Throw(w) \/ ZeroInsertedForFailed(w) \/ Crash(w) \/ Boot(w) \/ FindStale(w)
      PROVE  landed'[j] > 0
  <2>1. Kept /\ torn \subseteq torn'
    BY <1>6 DEF Refuse, Begin, CheckCancelled, SendBatch, End, EndUnanswered, Commit,
           ZeroInsertedForCancelled, MarkSucceeded, MarkFailed, Throw, ZeroInsertedForFailed,
           Crash, Boot, FindStale, Drop, history, TypeOK
  <2>2. \A v \in Workers \ {w} : worker'[v] = worker[v]
    BY <1>6 DEF Refuse, Begin, CheckCancelled, SendBatch, End, EndUnanswered,
           ZeroInsertedForCancelled, MarkSucceeded, Throw, ZeroInsertedForFailed,
           Crash, Boot, FindStale, Answered, TypeOK
  <2>3. ~InHand(j)
    BY <1>0, <1>6, <2>2 DEF InHand
  <2> QED BY <1>0, <2>1, <2>3 DEF Honest, Over
<1>7. ASSUME NEW w \in Workers, worker[w].job = j,
             \/ Refuse(w) \/ Begin(w) \/ CheckCancelled(w) \/ SendBatch(w) \/ End(w)
             \/ EndUnanswered(w) \/ ZeroInsertedForCancelled(w) \/ MarkSucceeded(w)
             \/ Throw(w) \/ ZeroInsertedForFailed(w) \/ Crash(w) \/ Boot(w) \/ FindStale(w)
      PROVE  landed'[j] > 0
  <2>1. Hand(w) /\ Row(j) /\ worker[w].pc \notin Free /\ j \in ran
    BY <1>7, JobNames DEF Hands, Hand, Rows
  <2>2. worker' # worker /\ worker'[w].job # j
    BY <1>0, <1>7
  <2>3. CASE Refuse(w)
    BY <1>0, <1>7, <2>1, <2>3 DEF Refuse, MarkFailed, Hand, TypeOK, JobRow
  <2>4. CASE ZeroInsertedForCancelled(w)
    BY <1>0, <1>7, <2>1, <2>4 DEF ZeroInsertedForCancelled, Hand, TypeOK, JobRow
  <2>5. CASE MarkSucceeded(w)
    BY <1>7, <2>1, <2>5 DEF MarkSucceeded, history, Hand
  <2>6. CASE Throw(w)
    <3>1. worker' # [worker EXCEPT ![w].pc = "failed"]
      BY <1>7, <2>2 DEF TypeOK, Loop
    <3>2. Drop(w) /\ job' = job
      BY <1>0, <1>7, <2>6, <3>1 DEF Throw
    <3> QED BY <1>0, <1>7, <3>2 DEF Drop, Over
  <2>7. CASE ZeroInsertedForFailed(w)
    <3>1. job[j].status = "failed"
      BY <1>0, <1>7, <2>1, <2>7 DEF ZeroInsertedForFailed, Hand, history
    <3> QED BY <1>0, <1>7, <2>1, <2>7, <3>1 DEF ZeroInsertedForFailed, Hand, history, TypeOK, JobRow
  <2>8. CASE Crash(w)
    BY <1>0, <1>7, <2>8 DEF Crash, Drop, Over
  <2>9. CASE Boot(w) \/ FindStale(w)
    BY <2>1, <2>9 DEF Boot, FindStale, Free
  <2>10. CASE Begin(w)
    BY <1>7, <2>2, <2>10 DEF Begin, TypeOK, Loop
  <2>11. CASE CheckCancelled(w)
    BY <1>7, <2>2, <2>11 DEF CheckCancelled, TypeOK, Loop
  <2>12. CASE SendBatch(w)
    BY <1>7, <2>2, <2>12 DEF SendBatch, TypeOK, Loop
  <2>13. CASE End(w)
    BY <1>7, <2>2, <2>13 DEF End, TypeOK, Loop
  <2>14. CASE EndUnanswered(w)
    BY <1>7, <2>2, <2>14 DEF EndUnanswered, TypeOK, Loop
  <2> QED
    BY <1>7, <2>3, <2>4, <2>5, <2>6, <2>7, <2>8, <2>9, <2>10, <2>11,
       <2>12, <2>13, <2>14
<1>8. CASE \/ \E i \in Jobs : ReadForCancel(i)
           \/ DiesElsewhere
           \/ UNCHANGED ivars
  BY <1>0, <1>8 DEF ReadForCancel, DiesElsewhere, ivars, history, Honest, Over, InHand
<1> QED
  BY <1>1, <1>2, <1>3, <1>4, <1>5, <1>6, <1>7, <1>8 DEF Next, WorkerStep

\* The insertedRows of a job that is over are in the layer: the zeroing writes of
\* the cancelled, failed and swept paths miss no case but a torn one.
THEOREM CountsHonest == Spec => []CountsAreHonest
<1> DEFINE AllHonest == \A j \in Jobs : Honest(j)
<1>1. Init => AllHonest
  BY DEF Init, Honest, Over
<1>2. Inv /\ AllHonest /\ [Next]_ivars => AllHonest'
  BY HonestStep
<1>3. AllHonest <=> CountsAreHonest
  BY DEF CountsAreHonest, Honest
<1>4. Spec => []Inv
  BY OneHand DEF Inv
<1> QED
  BY <1>1, <1>2, <1>3, <1>4, PTL DEF Spec

-----------------------------------------------------------------------------
(* The queue implements the promises of a job row.                         *)

\* Steps of the queue as steps of JobLifecycle: some jobs end ...
LEMMA CloseMaps ==
    ASSUME NEW js \in SUBSET Jobs, js # {}, NEW ok \in SUBSET js,
           \A j \in js : job[j].status # "none",
           \A j \in ok : landed[j] = 1 /\ job'[j].status = "succeeded",
           \A j \in js \ ok : job'[j].status \in {"failed", "cancelled"},
           \A j \in Jobs \ js : job'[j].status = job[j].status,
           ran' = ran, landed' = landed
    PROVE  Lifecycle!Close(js, ok)
<1>1. \A j \in Jobs : Phase(j)' = IF j \in js THEN "over" ELSE Phase(j)
  BY DEF Phase
<1>2. {j \in Jobs : job'[j].status = "succeeded"}
         = ({j \in Jobs : job[j].status = "succeeded"} \ js) \cup ok
  OBVIOUS
<1>3. \A j \in js : Phase(j) # "absent"
  BY DEF Phase
<1> QED
  BY <1>1, <1>2, <1>3 DEF Lifecycle!Close

\* ... or one moves on without ending ...
LEMMA MoveMaps ==
    ASSUME NEW j \in Jobs, job[j].status \in {"none", "queued"},
           job'[j].status \in {"queued", "running"},
           \A i \in Jobs \ {j} : job'[i].status = job[i].status
    PROVE  /\ {i \in Jobs : job'[i].status = "succeeded"}
                = {i \in Jobs : job[i].status = "succeeded"}
           /\ \A i \in Jobs \ {j} : Phase(i)' = Phase(i)
<1>1. \A i \in Jobs : job'[i].status = "succeeded" <=> job[i].status = "succeeded"
  OBVIOUS
<1>2. \A i \in Jobs \ {j} : Phase(i)' = Phase(i)
  BY DEF Phase
<1> QED
  BY <1>1, <1>2

\* ... or nothing is seen of the step.
LEMMA NothingMaps ==
    ASSUME \A j \in Jobs : job'[j].status = job[j].status, ran' = ran, landed' = landed
    PROVE  UNCHANGED Lifecycle!vars
BY DEF Lifecycle!vars, Phase

\* Every step of the queue is a step of JobLifecycle, or none.
LEMMA LifecycleStep ==
    ASSUME Inv, [Next]_ivars PROVE [Lifecycle!Next]_(Lifecycle!vars)
<1> USE DEF Inv
<1>1. ASSUME NEW m \in Modes, Enqueue(m) PROVE Lifecycle!Next
  <2>1. PICK j \in Jobs : /\ job[j].status = "none"
                          /\ job' = [job EXCEPT ![j].status = "queued", ![j].mode = m]
    BY <1>1 DEF Enqueue
  <2>2. \A i \in Jobs : job'[i].status = IF i = j THEN "queued" ELSE job[i].status
    BY <2>1 DEF TypeOK, JobRow
  <2>3. Phase(j) = "absent" /\ Phase(j)' = "waiting"
    <3>1. job[j].status = "none" /\ job'[j].status = "queued"
      BY <2>1, <2>2
    <3> QED BY <3>1 DEF Phase
  <2>4. /\ {i \in Jobs : job'[i].status = "succeeded"} = {i \in Jobs : job[i].status = "succeeded"}
        /\ \A i \in Jobs \ {j} : Phase(i)' = Phase(i)
    <3>1. job'[j].status = "queued" /\ \A i \in Jobs \ {j} : job'[i].status = job[i].status
      BY <2>2
    <3>2. job[j].status = "none"
      BY <2>1
    <3> QED BY <3>1, <3>2, MoveMaps
  <2>5. Lifecycle!Submit(j)
    BY <1>1, <2>3, <2>4 DEF Enqueue, history, Lifecycle!Submit
  <2> QED BY <2>5 DEF Lifecycle!Next
<1>2. ASSUME NEW j \in Jobs, Cancel(j) PROVE Lifecycle!Next
  <2>1. \A i \in Jobs : job'[i].status = IF i = j THEN "cancelled" ELSE job[i].status
    BY <1>2 DEF Cancel, TypeOK, JobRow
  <2>2. job[j].status # "none"
    BY <1>2 DEF Cancel, Rows, Row
  <2>3. Lifecycle!Close({j}, {})
    BY <1>2, <2>1, <2>2, CloseMaps DEF Cancel
  <2> QED BY <2>3 DEF Lifecycle!Next
<1>3. ASSUME NEW w \in Workers, ClaimNext(w) PROVE Lifecycle!Next
  <2>1. PICK j \in Jobs :
           /\ job[j].status = "queued"
           /\ job' = [job EXCEPT ![j].status = "running", ![j].stale = FALSE]
           /\ ran' = ran \cup {j}
    BY <1>3 DEF ClaimNext, Claimable
  <2>2. j \notin ran
    BY <2>1 DEF Rows, Row
  <2>3. \A i \in Jobs : job'[i].status = IF i = j THEN "running" ELSE job[i].status
    BY <2>1 DEF TypeOK, JobRow
  <2>4. Phase(j) = "waiting" /\ Phase(j)' = "taken"
    <3>1. job[j].status = "queued" /\ job'[j].status = "running"
      BY <2>1, <2>3
    <3> QED BY <3>1 DEF Phase
  <2>5. /\ {i \in Jobs : job'[i].status = "succeeded"} = {i \in Jobs : job[i].status = "succeeded"}
        /\ \A i \in Jobs \ {j} : Phase(i)' = Phase(i)
    <3>1. job'[j].status = "running" /\ \A i \in Jobs \ {j} : job'[i].status = job[i].status
      BY <2>3
    <3>2. job[j].status = "queued"
      BY <2>1
    <3> QED BY <3>1, <3>2, MoveMaps
  <2>6. Lifecycle!Take(j)
    BY <1>3, <2>1, <2>2, <2>4, <2>5 DEF ClaimNext, Lifecycle!Take
  <2> QED BY <2>6 DEF Lifecycle!Next
<1>4. ASSUME NEW w \in Workers, worker[w].pc \notin Free, MarkFailed(worker[w].job),
             ran' = ran, landed' = landed
      PROVE  Lifecycle!Next
  <2>1. PICK j \in Jobs : j = worker[w].job /\ j \in ran
    BY <1>4 DEF TypeOK, Loop, Hands, Hand
  <2>2. \A i \in Jobs : job'[i].status = IF i = j THEN "failed" ELSE job[i].status
    BY <1>4, <2>1 DEF MarkFailed, TypeOK, JobRow
  <2>3. Lifecycle!Close({j}, {})
    BY <1>4, <2>1, <2>2, CloseMaps DEF Rows, Row
  <2> QED BY <2>3 DEF Lifecycle!Next
<1>5. ASSUME NEW w \in Workers, worker[w].pc = "ending", ~worker[w].cancelled, Commit(w),
             job' = job, ran' = ran
      PROVE  Lifecycle!Next
  <2>1. PICK j \in Jobs : /\ j = worker[w].job
                          /\ landed[j] = 0 /\ landed' = [landed EXCEPT ![j] = 1]
    BY <1>5, CommitWhole
  <2>2. j \in ran
    BY <2>1, <1>5 DEF Hands, Hand, Free
  <2>3. Lifecycle!Apply(j)
    BY <1>5, <2>1, <2>2 DEF Lifecycle!Apply, Phase
  <2> QED BY <2>3 DEF Lifecycle!Next
<1>6. ASSUME NEW w \in Workers, MarkSucceeded(w) PROVE Lifecycle!Next
  <2>1. PICK j \in Jobs : j = worker[w].job /\ j \in ran /\ landed[j] = 1
    BY <1>6 DEF MarkSucceeded, TypeOK, Loop, Hands, Hand, Free
  <2>2. \A i \in Jobs : job'[i].status = IF i = j THEN "succeeded" ELSE job[i].status
    BY <1>6, <2>1 DEF MarkSucceeded, TypeOK, JobRow
  <2>3. job[j].status # "none" /\ ran' = ran /\ landed' = landed
    BY <1>6, <2>1 DEF MarkSucceeded, history, Rows, Row
  <2>4. Lifecycle!Close({j}, {j})
    BY <2>1, <2>2, <2>3, CloseMaps
  <2> QED BY <2>4 DEF Lifecycle!Next
<1>7. ASSUME NEW w \in Workers, FailStale(w) PROVE [Lifecycle!Next]_(Lifecycle!vars)
  <2>1. \A i \in Jobs : job'[i].status = IF i \in Swept(w) THEN "failed" ELSE job[i].status
    BY <1>7 DEF FailStale, TypeOK, JobRow
  <2>2. ran' = ran /\ landed' = landed
    BY <1>7 DEF FailStale, history
  <2>3. Swept(w) \in SUBSET Jobs /\ \A i \in Swept(w) : job[i].status = "running"
    BY DEF Swept, TypeOK, Loop
  <2>4. CASE Swept(w) = {}
    BY <2>1, <2>2, <2>4, NothingMaps
  <2>5. CASE Swept(w) # {}
    <3>1. Lifecycle!Close(Swept(w), {})
      BY <2>1, <2>2, <2>3, <2>5, CloseMaps
    <3> QED BY <2>3, <3>1 DEF Lifecycle!Next
  <2> QED BY <2>4, <2>5
<1>8. ASSUME \A j \in Jobs : job'[j].status = job[j].status, ran' = ran, landed' = landed
      PROVE  [Lifecycle!Next]_(Lifecycle!vars)
  BY <1>8, NothingMaps
<1>9. ASSUME NEW j \in Jobs, ReadForCancel(j) \/ HeartbeatGoesStale(j)
      PROVE  [Lifecycle!Next]_(Lifecycle!vars)
  <2>1. \A i \in Jobs : job'[i].status = job[i].status
    BY <1>9 DEF ReadForCancel, HeartbeatGoesStale, TypeOK, JobRow
  <2> QED BY <1>8, <1>9, <2>1 DEF ReadForCancel, HeartbeatGoesStale, history
<1>10. ASSUME NEW w \in Workers, Refuse(w) \/ Throw(w)
       PROVE  [Lifecycle!Next]_(Lifecycle!vars)
  <2>1. worker[w].pc \notin Free /\ ran' = ran /\ landed' = landed
    BY <1>10 DEF Refuse, Throw, Free, history
  <2>2. MarkFailed(worker[w].job) \/ job' = job
    BY <1>10 DEF Refuse, Throw
  <2> QED BY <1>4, <1>8, <2>1, <2>2
<1>11. ASSUME NEW w \in Workers, End(w) \/ EndUnanswered(w)
       PROVE  [Lifecycle!Next]_(Lifecycle!vars)
  BY <1>5, <1>8, <1>11 DEF End, EndUnanswered
<1>12. ASSUME NEW w \in Workers,
              SendBatch(w) \/ ZeroInsertedForCancelled(w) \/ ZeroInsertedForFailed(w)
       PROVE  [Lifecycle!Next]_(Lifecycle!vars)
  <2>1. \A i \in Jobs : job'[i].status = job[i].status
    BY <1>12 DEF SendBatch, ZeroInsertedForCancelled, ZeroInsertedForFailed, TypeOK, JobRow
  <2>2. ran' = ran /\ landed' = landed
    BY <1>12 DEF SendBatch, ZeroInsertedForCancelled, ZeroInsertedForFailed, history
  <2> QED BY <1>8, <2>1, <2>2
<1>13. ASSUME job' = job, ran' = ran, landed' = landed
       PROVE  [Lifecycle!Next]_(Lifecycle!vars)
  BY <1>8, <1>13
<1>14. ASSUME NEW w \in Workers,
              \/ Begin(w) \/ CheckCancelled(w) \/ FindStale(w) \/ Crash(w) \/ Boot(w)
       PROVE  [Lifecycle!Next]_(Lifecycle!vars)
  BY <1>13, <1>14 DEF Begin, CheckCancelled, FindStale, Crash, Boot, history
<1>15. CASE DiesElsewhere \/ UNCHANGED ivars
  BY <1>13, <1>15 DEF DiesElsewhere, ivars, history
<1> QED
  BY <1>1, <1>2, <1>3, <1>6, <1>7, <1>9, <1>10, <1>11, <1>12, <1>14, <1>15 DEF Next, WorkerStep

\* The queue keeps the promises of a job row: taken up once, applied once and
\* only if taken up, a success only if applied.
THEOREM QueueKeepsLifecycle == Spec => KeepsLifecycle
<1>1. Init => Lifecycle!Init
  BY DEF Init, Lifecycle!Init, Phase
<1>2. Inv /\ [Next]_ivars => [Lifecycle!Next]_(Lifecycle!vars)
  BY LifecycleStep
<1>3. Spec => []Inv
  BY OneHand DEF Inv
<1> QED
  BY <1>1, <1>2, <1>3, PTL DEF Spec, KeepsLifecycle, Lifecycle!Spec
=============================================================================
