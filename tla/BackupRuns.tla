----------------------------- MODULE BackupRuns -----------------------------
(***************************************************************************)
(* Backups over several API replicas (backup.service.ts,                   *)
(* backup-cron.service.ts), with LeaderContract for the election: who has  *)
(* the schedule, how a run is admitted, written, published, cancelled,     *)
(* reclaimed when its process died, and how old archives are pruned.  A    *)
(* step is one query, one change of the archive directory or one turn of   *)
(* an event loop.                                                          *)
(***************************************************************************)
EXTENDS LeaderContract, Integers, FiniteSets, FiniteSetsExt

CONSTANTS NoOne,
          Manual,        \* replicas whose admins ask for backups
          MaxFaults,     \* bound: leaderships lost, processes stopped or killed, answers lost, blips
          MaxRuns,       \* bound: runs ever started, numbered as they start
          Earlier,       \* runs that succeeded before
          Retention,     \* retentionCount
          AdminRuns,     \* bound: runs an admin may cancel or delete
          ArchivesDeleted \* may an admin delete a run whose row names an archive?

Runs == 1..MaxRuns

ASSUME BackupAssumption ==
    /\ NoOne \notin Replicas /\ Manual \subseteq Replicas /\ MaxFaults \in Nat
    /\ MaxRuns \in Nat /\ Earlier \in 0..MaxRuns /\ Retention \in Nat \ {0}
    /\ AdminRuns \subseteq Runs /\ ArchivesDeleted \in BOOLEAN

VARIABLES faults,
          blipped,           \* history: live runs that looked dead for want of beats
          boot, cron,        \* per replica: the bootstrap hook, the registered schedule
          asking,            \* per replica: a runBackup before its row exists
          listed, flipped,   \* per replica: a reclaim's runs to fail, its run failed and not yet swept
          row,               \* backup_run
          staged, archives,  \* the directory: stage or partial of a run, published archives
          exec,              \* the runBackup that has a row
          published          \* history: runs whose archive was ever published

leaderVars == <<contractVars, faults, blipped>>
cronVars == <<boot, cron>>
reclaimVars == <<listed, flipped>>
diskVars == <<staged, archives, published>>
backupVars == <<cronVars, asking, reclaimVars, row, diskVars, exec>>
allVars == <<leaderVars, backupVars>>

NoRow == [status |-> "none", beat |-> "fresh", cancel |-> FALSE, filename |-> FALSE]
NoExec == [by |-> NoOne, trigger |-> "manual", pc |-> "none", old |-> {}]
NotAsking == [at |-> "no", trigger |-> "manual"]
Triggers == {"manual", "scheduled"}

\* A row its own process closes: nobody reads its beat or its flag again.
Ended(status, named) == [NoRow EXCEPT !.status = status, !.filename = named]

RunRow == [status : {"none", "running", "succeeded", "failed", "deleted"},
           beat : {"fresh", "stale"}, cancel : BOOLEAN, filename : BOOLEAN]
Execution == [by : Replicas \cup {NoOne}, trigger : Triggers, old : SUBSET Runs,
              pc : {"none", "retain", "prune", "dump", "rename", "record", "fail",
                    "clean", "retainAfter", "pruneAfter"}]
Request == [at : {"no", "reclaim", "create"}, trigger : Triggers]

BackupTypeOK ==
    /\ leads \subseteq ready /\ lapsed \subseteq leads /\ ready \subseteq Replicas
    /\ faults \in 0..MaxFaults /\ blipped \subseteq Runs
    /\ boot \in [Replicas -> {"no", "applying", "done"}]
    /\ cron \in [Replicas -> BOOLEAN]
    /\ asking \in [Replicas -> Request]
    /\ listed \in [Replicas -> SUBSET Runs] /\ flipped \in [Replicas -> SUBSET Runs]
    /\ row \in [Runs -> RunRow] /\ exec \in [Runs -> Execution]
    /\ staged \subseteq Runs /\ archives \subseteq published /\ published \subseteq Runs

Init ==
    /\ ContractInit /\ faults = 0 /\ blipped = {}
    /\ boot = [r \in Replicas |-> "no"] /\ cron = [r \in Replicas |-> FALSE]
    /\ asking = [r \in Replicas |-> NotAsking]
    /\ listed = [r \in Replicas |-> {}] /\ flipped = [r \in Replicas |-> {}]
    /\ row = [i \in Runs |-> IF i <= Earlier
                             THEN Ended("succeeded", TRUE) ELSE NoRow]
    /\ staged = {} /\ archives = 1..Earlier /\ published = 1..Earlier
    /\ exec = [i \in Runs |-> NoExec]

HasStatus(s) == {i \in Runs : row[i].status = s}
Exists(i) == row[i].status \in {"running", "succeeded", "failed"}

Fault == faults < MaxFaults /\ faults' = faults + 1

\* An update of i's row to this fails: there is no such row, or no answer came,
\* whether or not the update was applied.
Lost(i, updated) ==
    IF Exists(i)
    THEN /\ Fault /\ UNCHANGED <<contractVars, blipped>>
         /\ row' \in {row, [row EXCEPT ![i] = updated]}
    ELSE UNCHANGED <<leaderVars, row>>

(***************************************************************************)
(* The schedule: onApplicationBootstrap, apply, onConfigChange.            *)
(***************************************************************************)
\* The hook runs when the election has been tried; a follower is done with it.
Bootstrap(r) ==
    /\ r \in ready /\ boot[r] = "no"
    /\ boot' = [boot EXCEPT ![r] = IF r \in leads THEN "applying" ELSE "done"]
    /\ UNCHANGED <<leaderVars, cron, asking, reclaimVars, row, diskVars, exec>>

\* apply: only the leader, as of now, registers the schedule.
Apply(r) ==
    /\ r \in ready /\ boot[r] = "applying"
    /\ boot' = [boot EXCEPT ![r] = "done"]
    /\ cron' = [cron EXCEPT ![r] = r \in leads]
    /\ UNCHANGED <<leaderVars, asking, reclaimVars, row, diskVars, exec>>

\* An admin saves the settings: the replica that serves the request applies them.
SaveConfig(r) ==
    /\ r \in ready /\ boot[r] = "done" /\ r \in leads
    /\ cron' = [cron EXCEPT ![r] = TRUE]
    /\ UNCHANGED <<leaderVars, boot, asking, reclaimVars, row, diskVars, exec>>

(***************************************************************************)
(* Reclaiming the runs of dead processes.                                  *)
(***************************************************************************)
\* Slip: every running row is taken for dead.
RunningRuns == HasStatus("running")

\* deadRunningWhere.
DeadRuns == {i \in HasStatus("running") : row[i].beat = "stale"}

Idle(r) == listed[r] = {} /\ flipped[r] = {}

\* Slip: the sweep is set up with the schedule, by the leader of the boot.
SweepOfSchedule(r) ==
    /\ r \in ready /\ cron[r] /\ Idle(r)
    /\ DeadRuns # {}
    /\ listed' = [listed EXCEPT ![r] = DeadRuns]
    /\ UNCHANGED <<leaderVars, cronVars, asking, flipped, row, diskVars, exec>>

\* The periodic sweep, set up on every replica and gated at every tick.
Sweep(r) ==
    /\ r \in ready /\ boot[r] # "no" /\ r \in leads /\ Idle(r)
    /\ DeadRuns # {}
    /\ listed' = [listed EXCEPT ![r] = DeadRuns]
    /\ UNCHANGED <<leaderVars, cronVars, asking, flipped, row, diskVars, exec>>

\* reclaimDeadRun, the row: failed, whatever it has become (only a running row's
\* beat is read).  A row that is gone or an answer that is lost ends the sweep.
Reclaim(r, i) ==
    LET failed == [row[i] EXCEPT !.status = "failed", !.beat = "fresh"]
    IN /\ i \in listed[r] /\ flipped[r] = {}
       /\ \/ /\ Exists(i) /\ UNCHANGED leaderVars
             /\ row' = [row EXCEPT ![i] = failed]
             /\ listed' = [listed EXCEPT ![r] = @ \ {i}]
             /\ flipped' = [flipped EXCEPT ![r] = {i}]
          \/ /\ Lost(i, failed)
             /\ listed' = [listed EXCEPT ![r] = {}]
             /\ UNCHANGED flipped
       /\ UNCHANGED <<cronVars, asking, diskVars, exec>>

\* ... and its bytes.
SweepBytes(r) ==
    /\ flipped[r] # {}
    /\ staged' = staged \ flipped[r]
    /\ flipped' = [flipped EXCEPT ![r] = {}]
    /\ UNCHANGED <<leaderVars, cronVars, asking, listed, row, archives, published, exec>>

(***************************************************************************)
(* runBackup, up to its row.                                               *)
(***************************************************************************)
\* A tick of the schedule, which does not ask who leads, or a request: reclaim first.
RunBackup(r, trigger) ==
    /\ r \in ready /\ Idle(r) /\ asking[r].at = "no"
    /\ IF trigger = "scheduled" THEN cron[r] ELSE r \in Manual
    /\ HasStatus("none") # {}
    /\ asking' = [asking EXCEPT ![r] = [at |-> "reclaim", trigger |-> trigger]]
    /\ listed' = [listed EXCEPT ![r] = DeadRuns]
    /\ UNCHANGED <<leaderVars, cronVars, flipped, row, diskVars, exec>>

\* No live run may be running ...
CheckLive(r) ==
    /\ asking[r].at = "reclaim" /\ Idle(r)
    /\ asking' = [asking EXCEPT ![r] = IF HasStatus("running") \subseteq DeadRuns
                                       THEN [@ EXCEPT !.at = "create"] ELSE NotAsking]
    /\ UNCHANGED <<leaderVars, cronVars, reclaimVars, row, diskVars, exec>>

\* ... and the index admits one running row.  A row whose answer is lost, or whose
\* request fails before the try (getConfig), has nobody to run it.
Create(r) ==
    LET i == Min(HasStatus("none"))
    IN /\ asking[r].at = "create"
       /\ asking' = [asking EXCEPT ![r] = NotAsking]
       /\ IF HasStatus("running") = {} /\ HasStatus("none") # {}
          THEN /\ row' = [row EXCEPT ![i] = [NoRow EXCEPT !.status = "running"]]
               /\ \/ /\ exec' = [exec EXCEPT ![i] = [by |-> r, trigger |-> asking[r].trigger,
                                                     pc |-> "retain", old |-> {}]]
                     /\ UNCHANGED leaderVars
                  \/ Fault /\ UNCHANGED <<contractVars, blipped, exec>>
          ELSE UNCHANGED <<row, exec, leaderVars>>
       /\ UNCHANGED <<cronVars, reclaimVars, diskVars>>

(***************************************************************************)
(* runBackup with its row.                                                 *)
(***************************************************************************)
Go(i, pc) == exec' = [exec EXCEPT ![i].pc = pc]

\* Slip: room is made for the archive to come even where one is the limit.
CapReserving(reserve) == Retention - reserve

Cap(reserve) == IF Retention - reserve > 1 THEN Retention - reserve ELSE 1

\* All of ids but the newest n.
Beyond(ids, n) == {i \in ids : Cardinality({j \in ids : j > i}) >= n}

ReserveAt(pc) == IF pc \in {"retain", "prune"} THEN 1 ELSE 0

\* enforceRetention lists the succeeded runs beyond the cap ...
ListOld(i) ==
    /\ exec[i].pc \in {"retain", "retainAfter"}
    /\ exec' = [exec EXCEPT ![i].old = Beyond(HasStatus("succeeded"), Cap(ReserveAt(exec[i].pc))),
                            ![i].pc = IF @ = "retain" THEN "prune" ELSE "pruneAfter"]
    /\ UNCHANGED <<leaderVars, cronVars, asking, reclaimVars, row, diskVars>>

\* ... deletes them, file and row, then the files beyond the cap by name.  The
\* stage directory comes next, or the run is over.
Prune(i) ==
    LET first == exec[i].pc = "prune"
        gone  == {j \in exec[i].old : Exists(j)}
        files == archives \ {j \in gone : row[j].filename}
    IN /\ exec[i].pc \in {"prune", "pruneAfter"}
       /\ row' = [j \in Runs |-> IF j \in gone THEN [NoRow EXCEPT !.status = "deleted"] ELSE row[j]]
       /\ archives' = files \ Beyond(files, Cap(ReserveAt(exec[i].pc)))
       /\ staged' = IF first THEN staged \cup {i} ELSE staged
       /\ exec' = [exec EXCEPT ![i] = IF first THEN [@ EXCEPT !.pc = "dump", !.old = {}] ELSE NoExec]
       /\ UNCHANGED <<leaderVars, cronVars, asking, reclaimVars, published>>

\* The poll of a live run: its beat, and whether it was cancelled or deleted,
\* which stops it while it still writes.
Beat(i) ==
    /\ exec[i].pc \in {"dump", "rename", "record", "fail"}
    /\ row' = IF Exists(i) THEN [row EXCEPT ![i].beat = "fresh"] ELSE row
    /\ Go(i, IF exec[i].pc = "dump" /\ (row[i].cancel \/ ~Exists(i)) THEN "fail" ELSE exec[i].pc)
    /\ UNCHANGED <<leaderVars, cronVars, asking, reclaimVars, diskVars>>

\* Slip: the row is closed before the archive has its name.
SealRecorded(i, ok) ==
    /\ exec[i].pc = "dump"
    /\ ok => i \in staged
    /\ Go(i, IF ok THEN "record" ELSE "fail")
    /\ UNCHANGED <<leaderVars, cronVars, asking, reclaimVars, row, diskVars>>

\* The dump and the archive are written, unless the bytes were swept or anything fails.
Seal(i, ok) ==
    /\ exec[i].pc = "dump"
    /\ ok => i \in staged
    /\ Go(i, IF ok THEN "rename" ELSE "fail")
    /\ UNCHANGED <<leaderVars, cronVars, asking, reclaimVars, row, diskVars>>

Publish(i) ==
    /\ exec[i].pc = "rename"
    /\ IF i \in staged
       THEN /\ archives' = archives \cup {i} /\ published' = published \cup {i}
            /\ Go(i, "record")
       ELSE UNCHANGED <<archives, published>> /\ Go(i, "fail")
    /\ UNCHANGED <<leaderVars, cronVars, asking, reclaimVars, row, staged>>

\* Inside the try: a success whose answer is lost goes to the catch.
RecordSuccess(i) ==
    LET success == Ended("succeeded", TRUE)
    IN /\ exec[i].pc = "record"
       /\ \/ /\ Exists(i) /\ row' = [row EXCEPT ![i] = success] /\ UNCHANGED leaderVars
             /\ Go(i, "clean")
          \/ Lost(i, success) /\ Go(i, "fail")
       /\ UNCHANGED <<cronVars, asking, reclaimVars, diskVars>>

\* The catch, which looks at no status and swallows an error of its own.
RecordFailure(i) ==
    LET failure == Ended("failed", row[i].filename)
    IN /\ exec[i].pc = "fail"
       /\ \/ Exists(i) /\ row' = [row EXCEPT ![i] = failure] /\ UNCHANGED leaderVars
          \/ Lost(i, failure)
       /\ Go(i, "clean")
       /\ UNCHANGED <<cronVars, asking, reclaimVars, diskVars>>

\* The finally: the bytes; a scheduled run then prunes once more.
CleanUp(i) ==
    /\ exec[i].pc = "clean"
    /\ staged' = staged \ {i}
    /\ exec' = [exec EXCEPT ![i] = IF @.trigger = "scheduled"
                                   THEN [@ EXCEPT !.pc = "retainAfter"] ELSE NoExec]
    /\ UNCHANGED <<leaderVars, cronVars, asking, reclaimVars, row, archives, published>>

(***************************************************************************)
(* Admins, time and deaths.                                                *)
(***************************************************************************)
\* requestCancel: a flag for a live run, a reclaim of a dead one.
RequestCancel(r, i) ==
    /\ i \in AdminRuns /\ r \in ready /\ row[i].status = "running" /\ ~row[i].cancel
    /\ IF i \in DeadRuns
       THEN /\ Idle(r) /\ asking[r].at = "no"
            /\ listed' = [listed EXCEPT ![r] = {i}] /\ UNCHANGED row
       ELSE row' = [row EXCEPT ![i].cancel = TRUE] /\ UNCHANGED listed
    /\ UNCHANGED <<leaderVars, cronVars, asking, flipped, diskVars, exec>>

\* deleteRun: a dead run is closed first, a live one is refused.
DeleteRun(i) ==
    /\ i \in AdminRuns /\ ready # {} /\ Exists(i) /\ (row[i].filename => ArchivesDeleted)
    /\ row[i].status = "running" => i \in DeadRuns
    /\ row' = [row EXCEPT ![i] = [NoRow EXCEPT !.status = "deleted"]]
    /\ staged' = IF row[i].status = "running" THEN staged \ {i} ELSE staged
    /\ archives' = IF row[i].filename THEN archives \ {i} ELSE archives
    /\ UNCHANGED <<leaderVars, cronVars, asking, reclaimVars, published, exec>>

\* Five minutes without a beat: the run has no process any more ...
BeatGoesStale(i) ==
    /\ row[i].status = "running" /\ row[i].beat = "fresh" /\ exec[i].pc = "none"
    /\ row' = [row EXCEPT ![i].beat = "stale"]
    /\ UNCHANGED <<leaderVars, cronVars, asking, reclaimVars, diskVars, exec>>

\* ... or it has, and its beats fail, or do not begin, for as long.
Blip(i) ==
    /\ row[i].status = "running" /\ row[i].beat = "fresh" /\ exec[i].pc # "none"
    /\ row' = [row EXCEPT ![i].beat = "stale"]
    /\ blipped' = blipped \cup {i}
    /\ Fault
    /\ UNCHANGED <<contractVars, cronVars, asking, reclaimVars, diskVars, exec>>

\* The election moves on beside the backups ...
Election(r) ==
    /\ GetReady(r) \/ Lead(r) \/ Lapse(r) \/ Demote(r)
    /\ LET lost == r \in lapsed' \ lapsed \/ r \in (leads \ leads') \ lapsed
       IN faults' = IF lost THEN faults + 1 ELSE faults
    /\ faults' <= MaxFaults
    /\ UNCHANGED <<blipped, backupVars>>

\* ... and a replica ends with every run and sweep it was at.
Die(r) ==
    /\ GoDown(r)
    /\ Fault
    /\ boot' = [boot EXCEPT ![r] = "no"] /\ cron' = [cron EXCEPT ![r] = FALSE]
    /\ asking' = [asking EXCEPT ![r] = NotAsking]
    /\ listed' = [listed EXCEPT ![r] = {}] /\ flipped' = [flipped EXCEPT ![r] = {}]
    /\ exec' = [i \in Runs |-> IF exec[i].by = r THEN NoExec ELSE exec[i]]
    /\ UNCHANGED <<blipped, row, diskVars>>

Work(i) ==
    \/ ListOld(i) \/ Prune(i) \/ (\E ok \in BOOLEAN : Seal(i, ok))
    \/ Publish(i) \/ RecordSuccess(i) \/ RecordFailure(i) \/ CleanUp(i)
Reclaiming(r) == SweepBytes(r) \/ \E i \in Runs : Reclaim(r, i)

Next ==
    \/ \E r \in Replicas :
          \/ Election(r) \/ Die(r)
          \/ Bootstrap(r) \/ Apply(r) \/ SaveConfig(r) \/ Sweep(r) \/ Reclaiming(r)
          \/ CheckLive(r) \/ Create(r)
          \/ \E t \in Triggers : RunBackup(r, t)
          \/ \E i \in Runs : RequestCancel(r, i)
    \/ \E i \in Runs : Work(i) \/ Beat(i) \/ DeleteRun(i) \/ BeatGoesStale(i) \/ Blip(i)

Spec == Init /\ [][Next]_allVars

\* The replicas' event loops turn, the dump and its streams end, time passes,
\* and of the replicas that are up one comes to lead (CronLeader's EventuallyLed).
FairSpec ==
    /\ Spec
    /\ WF_allVars(\E r \in ready : Lead(r) /\ Election(r))
    /\ \A r \in Replicas :
        /\ WF_allVars(Election(r) /\ (GetReady(r) \/ (r \in lapsed /\ Demote(r))))
        /\ WF_allVars(Bootstrap(r) \/ Apply(r))
        /\ WF_allVars(Sweep(r) \/ Reclaiming(r))
        /\ WF_allVars(CheckLive(r) \/ Create(r))
    /\ \A i \in Runs : WF_allVars(Work(i) \/ BeatGoesStale(i))

(***************************************************************************)
(* Properties.                                                             *)
(***************************************************************************)
Writing == {"retain", "prune", "dump", "rename", "record"}

\* One backup is written at a time, whoever asked for it on whichever replica
\* (runBackup: "nothing stopped two backups from staging at once"), but for a run
\* that looked dead while it was alive: another is admitted beside it.
OneStager == Cardinality({i \in Runs \ blipped : exec[i].pc \in Writing}) <= 1

\* Pruning, however it races a run, a reclaim or another pruning, never takes the
\* newest archive there is: after the first backup there is always one to restore.
NewestKept == published # {} => Max(published) \in archives

\* A run does not stay in progress: its process ends it or, when that died, a
\* sweep closes it, whichever replica leads by then.
RunsSettle == \A i \in Runs : row[i].status = "running" ~> row[i].status # "running"

\* A run the page shows as succeeded is failed by two only: its own process, which
\* got no answer to the success and is in the catch, and a sweep that listed it
\* when its beats had failed for five minutes.  The row goes on naming its archive.
SuccessIsKept ==
    [][\A i \in Runs : row[i].status = "succeeded" =>
          \/ row'[i].status \in {"succeeded", "deleted"}
          \/ /\ row'[i].status = "failed" /\ row'[i].filename
             /\ exec[i].pc = "fail" \/ i \in blipped]_allVars

\* A success stays one ("a genuinely in-flight backup ... can never be reclaimed"):
\* violated by a lost answer and by a blip (BackupFlipped.cfg).
SuccessIsFinal ==
    [][\A i \in Runs : row[i].status = "succeeded" => row'[i].status \in {"succeeded", "deleted"}]_allVars

NewRuns == Runs \ 1..Earlier
Phase(i) ==
    CASE row[i].status = "none"    -> "absent"
      [] row[i].status = "running" -> "taken"
      [] OTHER                     -> "over"

Lifecycle == INSTANCE JobLifecycle WITH
    Jobs    <- NewRuns,
    phase   <- [i \in NewRuns |-> Phase(i)],
    taken   <- {i \in NewRuns : row[i].status # "none"},
    applied <- [i \in NewRuns |-> IF i \in published THEN 1 ELSE 0],
    success <- {i \in NewRuns : row[i].status = "succeeded"}

\* Backups keep the promises of a job row, whoever closes it meanwhile: a row is
\* begun once, its archive published at most once, also when the run was closed
\* under its process, and it is a success only if that archive was published.
KeepsLifecycle == Lifecycle!Spec

\* The bytes of a run that is over are gone, or someone is about to remove them:
\* violated when the reclaimer dies between the row and the bytes (BackupFull.cfg with this invariant added).
NothingStranded ==
    \A i \in staged : \/ row[i].status = "running" \/ exec[i].pc # "none"
                      \/ \E r \in Replicas : i \in flipped[r]

\* A pruning leaves an archive where there was one: violated when an admin deletes
\* the newest after the pruning listed the others (BackupPruned.cfg).
PruningLeavesOne == [][\A i \in Runs : Prune(i) /\ archives # {} => archives' # {}]_allVars

\* In the end some replica has the schedule: violated when the leader of the
\* boot is gone, or came to lead after its bootstrap (BackupUnscheduled.cfg).
ScheduleKept == <>[](\E r \in Replicas : cron[r])
=============================================================================
