-------------------------- MODULE BackupRunsProofs --------------------------
(***************************************************************************)
(* Theorems about BackupRuns, for any replicas, runs, retention count and  *)
(* number of faults.                                                       *)
(***************************************************************************)
EXTENDS BackupRuns, FiniteSetTheorems, TLAPS

-----------------------------------------------------------------------------
(* Helpers                                                                 *)

\* The newest of some runs is one of them, and none is newer.
LEMMA MaxOfRuns ==
    ASSUME NEW S \in SUBSET Runs, S # {}
    PROVE  Max(S) \in S /\ \A m \in S : m <= Max(S)
<1> DEFINE R == StrictSubsetOrdering(Runs)
           T == {n..MaxRuns : n \in S}
<1>1. /\ MaxRuns \in Nat /\ S \subseteq Nat /\ Runs \subseteq Nat
      /\ \A n \in S : 1 <= n /\ n <= MaxRuns /\ n..MaxRuns \subseteq Runs
  BY BackupAssumption DEF Runs
<1>2. IsFiniteSet(Runs)
  BY <1>1, FS_Interval DEF Runs
<1>3. IsWellFoundedOn(R, SUBSET Runs)
  BY <1>2, FS_StrictSubsetOrderingWellFounded, FS_FiniteSubsetsOfFinite, Zenon
<1>4. T \subseteq SUBSET Runs /\ T # {}
  BY <1>1
<1>5. \E x \in T : \A y \in T : ~ (<<y, x>> \in R)
  <2> HIDE DEF R, T
  <2> QED BY <1>3, <1>4, WFMin
<1>6. PICK n \in S : \A m \in S : ~ (<<m..MaxRuns, n..MaxRuns>> \in R)
  BY <1>5
<1>7. ASSUME NEW m \in S, ~(m <= n) PROVE FALSE
  <2>1. m..MaxRuns \subseteq n..MaxRuns /\ n \in n..MaxRuns /\ n \notin m..MaxRuns
    BY <1>1, <1>7
  <2>2. /\ m..MaxRuns \in SUBSET Runs /\ n..MaxRuns \in SUBSET Runs
        /\ m..MaxRuns # n..MaxRuns
    BY <1>1, <2>1
  <2> QED BY <1>6, <2>1, <2>2 DEF StrictSubsetOrdering
<1>8. n \in S /\ \A m \in S : n >= m
  BY <1>1, <1>7
<1>9. Max(S) \in S /\ \A m \in S : Max(S) >= m
  BY <1>8 DEF Max
<1> QED BY <1>1, <1>9

\* The run Create numbers next is one without a row, and none of those is smaller.
LEMMA MinOfRuns ==
    ASSUME NEW S \in SUBSET Runs, S # {}
    PROVE  Min(S) \in S /\ \A m \in S : Min(S) <= m
<1> DEFINE R == StrictSubsetOrdering(Runs)
           T == {1..n : n \in S}
<1>1. /\ MaxRuns \in Nat /\ S \subseteq Nat /\ Runs \subseteq Nat
      /\ \A n \in S : 1 <= n /\ n <= MaxRuns /\ 1..n \subseteq Runs
  BY BackupAssumption DEF Runs
<1>2. IsFiniteSet(Runs)
  BY <1>1, FS_Interval DEF Runs
<1>3. IsWellFoundedOn(R, SUBSET Runs)
  BY <1>2, FS_StrictSubsetOrderingWellFounded, FS_FiniteSubsetsOfFinite, Zenon
<1>4. T \subseteq SUBSET Runs /\ T # {}
  BY <1>1
<1>5. \E x \in T : \A y \in T : ~ (<<y, x>> \in R)
  <2> HIDE DEF R, T
  <2> QED BY <1>3, <1>4, WFMin
<1>6. PICK n \in S : \A m \in S : ~ (<<1..m, 1..n>> \in R)
  BY <1>5
<1>7. ASSUME NEW m \in S, ~(n <= m) PROVE FALSE
  <2>1. 1..m \subseteq 1..n /\ n \in 1..n /\ n \notin 1..m
    BY <1>1, <1>7
  <2>2. 1..m \in SUBSET Runs /\ 1..n \in SUBSET Runs /\ 1..m # 1..n
    BY <1>1, <2>1
  <2> QED BY <1>6, <2>1, <2>2 DEF StrictSubsetOrdering
<1>8. \A m \in S : n <= m
  BY <1>7
<1>9. Min(S) \in S /\ \A m \in S : Min(S) <= m
  BY <1>8 DEF Min
<1> QED BY <1>9

\* A cap leaves at least one, so what enforceRetention takes has a newer one
\* among the runs or files it was taken from.
LEMMA BeyondIsOutdone ==
    ASSUME NEW S \in SUBSET Runs, NEW reserve \in {0, 1}, NEW i \in Beyond(S, Cap(reserve))
    PROVE  i \in S /\ \E j \in S : j > i
<1>1. Cap(reserve) \in Nat /\ Cap(reserve) >= 1
  BY BackupAssumption DEF Cap
<1>2. Cardinality({j \in S : j > i}) # 0
  <2> DEFINE c == Cardinality({j \in S : j > i})
  <2>1. c >= Cap(reserve)
    BY DEF Beyond
  <2> HIDE DEF c
  <2> QED BY <1>1, <2>1 DEF c
<1>3. {j \in S : j > i} # {}
  BY <1>2, FS_EmptySet
<1> QED BY <1>3 DEF Beyond
-----------------------------------------------------------------------------
(* Type correctness                                                        *)

\* A step of the election or of the schedule, and the end of a sweep, leave the
\* rows, the archives and the processes that write them alone.
Quiet == UNCHANGED <<row, exec, listed, archives, published>>

LEMMA StepKinds ==
    ASSUME [Next]_allVars
    PROVE  \/ Quiet
           \/ \E r \in Replicas :
                 \/ Sweep(r) \/ Die(r) \/ Create(r) \/ (\E t \in Triggers : RunBackup(r, t))
                 \/ \E i \in Runs : Reclaim(r, i) \/ RequestCancel(r, i)
           \/ \E i \in Runs : Work(i) \/ Beat(i) \/ DeleteRun(i) \/ BeatGoesStale(i) \/ Blip(i)
<1>1. CASE UNCHANGED allVars
  BY <1>1 DEF allVars, backupVars, reclaimVars, diskVars, Quiet
<1>2. ASSUME NEW r \in Replicas,
             Election(r) \/ Bootstrap(r) \/ Apply(r) \/ SaveConfig(r) \/ SweepBytes(r) \/ CheckLive(r)
      PROVE  Quiet
  BY <1>2 DEF Election, Bootstrap, Apply, SaveConfig, SweepBytes, CheckLive, backupVars,
              reclaimVars, diskVars, Quiet
<1> QED BY <1>1, <1>2 DEF Next, Reclaiming

LEMMA TypeInit == Init => BackupTypeOK
<1> SUFFICES ASSUME Init PROVE BackupTypeOK
  OBVIOUS
<1>1. NotAsking \in Request
  BY DEF NotAsking, Request, Triggers
<1>2. NoRow \in RunRow /\ Ended("succeeded", TRUE) \in RunRow
  BY DEF NoRow, Ended, RunRow
<1>3. NoExec \in Execution
  BY DEF NoExec, Execution, Triggers
<1>4. archives \subseteq published /\ published \subseteq Runs /\ staged \subseteq Runs
  BY BackupAssumption DEF Init, Runs
<1>5. row \in [Runs -> RunRow] /\ exec \in [Runs -> Execution]
  BY <1>2, <1>3 DEF Init
<1>6. /\ asking \in [Replicas -> Request]
      /\ listed \in [Replicas -> SUBSET Runs] /\ flipped \in [Replicas -> SUBSET Runs]
      /\ boot \in [Replicas -> {"no", "applying", "done"}] /\ cron \in [Replicas -> BOOLEAN]
  BY <1>1 DEF Init
<1>7. /\ leads \subseteq ready /\ lapsed \subseteq leads /\ ready \subseteq Replicas
      /\ faults \in 0..MaxFaults /\ blipped \subseteq Runs
  BY BackupAssumption DEF Init, ContractInit
<1> QED BY <1>4, <1>5, <1>6, <1>7 DEF BackupTypeOK

\* The rows and the processes of a state of the right type.
LEMMA EntryTypes ==
    ASSUME BackupTypeOK, NEW i \in Runs
    PROVE  /\ row \in [Runs -> RunRow] /\ row[i] \in RunRow
           /\ exec \in [Runs -> Execution] /\ exec[i] \in Execution
           /\ NoExec \in Execution
           /\ [NoRow EXCEPT !.status = "deleted"] \in RunRow
<1>1. NoExec \in Execution
  BY DEF Execution, NoExec, Triggers
<1>2. [NoRow EXCEPT !.status = "deleted"] \in RunRow
  BY DEF NoRow, RunRow
<1> QED BY <1>1, <1>2 DEF BackupTypeOK

\* A run that goes to a next point keeps its type.
LEMMA GoType ==
    ASSUME BackupTypeOK, NEW i \in Runs,
           NEW pc \in {"dump", "rename", "record", "fail", "clean"}, Go(i, pc)
    PROVE  exec' \in [Runs -> Execution]
<1>1. exec[i] \in Execution /\ exec \in [Runs -> Execution]
  BY EntryTypes
<1>2. [exec[i] EXCEPT !.pc = pc] \in Execution
  BY <1>1 DEF Execution
<1> QED BY <1>1, <1>2 DEF Go

\* A fault is one more of those that are counted.
LEMMA FaultType == ASSUME BackupTypeOK, Fault PROVE faults' \in 0..MaxFaults
BY BackupAssumption DEF BackupTypeOK, Fault

\* Who leads, the bound on faults and the runs that looked dead.
LEMMA LeaderTypeStep ==
    ASSUME BackupTypeOK, [Next]_allVars
    PROVE  /\ leads' \subseteq ready' /\ lapsed' \subseteq leads' /\ ready' \subseteq Replicas
           /\ faults' \in 0..MaxFaults /\ blipped' \subseteq Runs
<1> USE DEF BackupTypeOK
<1> DEFINE Counted == faults' = faults \/ faults' \in 0..MaxFaults
<1>1. ASSUME NEW r \in Replicas, Election(r) \/ Die(r)
      PROVE  /\ leads' \subseteq ready' /\ lapsed' \subseteq leads' /\ ready' \subseteq Replicas
             /\ UNCHANGED blipped
  BY <1>1 DEF Election, GetReady, Lead, Lapse, Demote, Die, GoDown
<1>2. ASSUME NEW r \in Replicas, Election(r) \/ Die(r) PROVE Counted
  BY <1>2, FaultType, BackupAssumption DEF Election, Die
<1>3. ASSUME NEW i \in Runs, NEW u, Lost(i, u)
      PROVE  Counted /\ UNCHANGED <<contractVars, blipped>>
  BY <1>3, FaultType DEF Lost, leaderVars
<1>4. ASSUME NEW r \in Replicas, \E i \in Runs : Reclaim(r, i)
      PROVE  Counted /\ UNCHANGED <<contractVars, blipped>>
  BY <1>3, <1>4 DEF Reclaim, leaderVars
<1>5. ASSUME NEW r \in Replicas, Create(r)
      PROVE  Counted /\ UNCHANGED <<contractVars, blipped>>
  BY <1>5, FaultType DEF Create, leaderVars
<1>6. ASSUME NEW r \in Replicas,
             \/ Bootstrap(r) \/ Apply(r) \/ SaveConfig(r) \/ Sweep(r) \/ SweepBytes(r)
             \/ CheckLive(r) \/ (\E t \in Triggers : RunBackup(r, t))
             \/ \E i \in Runs : RequestCancel(r, i)
      PROVE  Counted /\ UNCHANGED <<contractVars, blipped>>
  BY <1>6 DEF Bootstrap, Apply, SaveConfig, Sweep, SweepBytes, CheckLive, RunBackup,
              RequestCancel, leaderVars
<1>7. ASSUME NEW i \in Runs, RecordSuccess(i) \/ RecordFailure(i)
      PROVE  Counted /\ UNCHANGED <<contractVars, blipped>>
  BY <1>3, <1>7 DEF RecordSuccess, RecordFailure, leaderVars
<1>8. ASSUME NEW i \in Runs,
             \/ ListOld(i) \/ Prune(i) \/ (\E ok \in BOOLEAN : Seal(i, ok)) \/ Publish(i)
             \/ CleanUp(i) \/ Beat(i) \/ DeleteRun(i) \/ BeatGoesStale(i)
      PROVE  Counted /\ UNCHANGED <<contractVars, blipped>>
  BY <1>8 DEF ListOld, Prune, Seal, Publish, CleanUp, Beat, DeleteRun, BeatGoesStale, leaderVars
<1>9. ASSUME NEW i \in Runs, Blip(i)
      PROVE  Counted /\ UNCHANGED contractVars /\ blipped' \subseteq Runs
  BY <1>9, FaultType DEF Blip
<1>10. ASSUME UNCHANGED allVars
       PROVE  faults' = faults /\ UNCHANGED <<contractVars, blipped>>
  BY <1>10 DEF allVars, leaderVars
<1>11. Counted /\ blipped' \subseteq Runs
  BY <1>1, <1>2, <1>4, <1>5, <1>6, <1>7, <1>8, <1>9, <1>10
     DEF Next, Reclaiming, Work, allVars, leaderVars
<1>12. leads' \subseteq ready' /\ lapsed' \subseteq leads' /\ ready' \subseteq Replicas
  BY <1>1, <1>4, <1>5, <1>6, <1>7, <1>8, <1>9, <1>10
     DEF Next, Reclaiming, Work, allVars, leaderVars, contractVars
<1> QED BY <1>11, <1>12

\* The schedule, the requests and the sweeps of each replica.
LEMMA ReplicaTypeStep ==
    ASSUME BackupTypeOK, [Next]_allVars
    PROVE  /\ boot' \in [Replicas -> {"no", "applying", "done"}]
           /\ cron' \in [Replicas -> BOOLEAN]
           /\ asking' \in [Replicas -> Request]
           /\ listed' \in [Replicas -> SUBSET Runs] /\ flipped' \in [Replicas -> SUBSET Runs]
<1> USE DEF BackupTypeOK
<1>1. NotAsking \in Request /\ DeadRuns \subseteq Runs
  BY DEF NotAsking, Request, Triggers, DeadRuns, HasStatus
<1>2. CASE UNCHANGED <<cronVars, asking, reclaimVars>>
  BY <1>2 DEF cronVars, reclaimVars
<1>3. ASSUME NEW r \in Replicas, Election(r)
      PROVE  UNCHANGED <<cronVars, asking, reclaimVars>>
  BY <1>3 DEF Election, backupVars
<1>4. ASSUME NEW r \in Replicas, Bootstrap(r) \/ Apply(r) \/ SaveConfig(r) \/ Die(r)
      PROVE  boot' \in [Replicas -> {"no", "applying", "done"}] /\ cron' \in [Replicas -> BOOLEAN]
  <2>1. (r \in leads) \in BOOLEAN
    OBVIOUS
  <2>2. boot' \in [Replicas -> {"no", "applying", "done"}]
    BY <1>4 DEF Bootstrap, Apply, SaveConfig, Die
  <2>3. CASE Apply(r)
    <3> DEFINE b == r \in leads
    <3>1. b \in BOOLEAN /\ cron' = [cron EXCEPT ![r] = b]
      BY <2>3 DEF Apply
    <3> HIDE DEF b
    <3> QED BY <2>2, <3>1
  <2>4. CASE ~Apply(r)
    BY <1>4, <2>2, <2>4 DEF Bootstrap, SaveConfig, Die
  <2> QED BY <2>3, <2>4
<1>5. ASSUME NEW r \in Replicas, Bootstrap(r) \/ Apply(r) \/ SaveConfig(r)
      PROVE  UNCHANGED <<asking, reclaimVars>>
  BY <1>5 DEF Bootstrap, Apply, SaveConfig
<1>6. ASSUME NEW r \in Replicas, Die(r)
      PROVE  /\ asking' \in [Replicas -> Request]
             /\ listed' \in [Replicas -> SUBSET Runs] /\ flipped' \in [Replicas -> SUBSET Runs]
  BY <1>1, <1>6 DEF Die
<1>7. ASSUME NEW r \in Replicas,
             Sweep(r) \/ SweepBytes(r) \/ \E i \in Runs : Reclaim(r, i) \/ RequestCancel(r, i)
      PROVE  /\ UNCHANGED <<cronVars, asking>>
             /\ listed' \in [Replicas -> SUBSET Runs] /\ flipped' \in [Replicas -> SUBSET Runs]
  <2>1. CASE Sweep(r) \/ SweepBytes(r)
    BY <1>1, <2>1 DEF Sweep, SweepBytes
  <2>2. ASSUME NEW i \in Runs, Reclaim(r, i)
        PROVE  /\ UNCHANGED <<cronVars, asking>>
               /\ listed' \in [Replicas -> SUBSET Runs] /\ flipped' \in [Replicas -> SUBSET Runs]
    <3>1. /\ UNCHANGED <<cronVars, asking>>
          /\ \E S \in SUBSET Runs : listed' = [listed EXCEPT ![r] = S]
          /\ flipped' = flipped \/ flipped' = [flipped EXCEPT ![r] = {i}]
      BY <2>2 DEF Reclaim
    <3> QED BY <3>1
  <2>3. ASSUME NEW i \in Runs, RequestCancel(r, i)
        PROVE  /\ UNCHANGED <<cronVars, asking>>
               /\ listed' \in [Replicas -> SUBSET Runs] /\ flipped' \in [Replicas -> SUBSET Runs]
    BY <2>3 DEF RequestCancel
  <2> QED BY <1>7, <2>1, <2>2, <2>3
<1>8. ASSUME NEW r \in Replicas, NEW t \in Triggers, RunBackup(r, t)
      PROVE  /\ UNCHANGED cronVars
             /\ asking' \in [Replicas -> Request]
             /\ listed' \in [Replicas -> SUBSET Runs] /\ flipped' \in [Replicas -> SUBSET Runs]
  <2>1. [at |-> "reclaim", trigger |-> t] \in Request
    BY DEF Request
  <2> QED BY <1>1, <1>8, <2>1 DEF RunBackup
<1>9. ASSUME NEW r \in Replicas, CheckLive(r)
      PROVE  UNCHANGED <<cronVars, reclaimVars>> /\ asking' \in [Replicas -> Request]
  <2>1. [asking[r] EXCEPT !.at = "create"] \in Request
    BY DEF Request
  <2> QED BY <1>1, <1>9, <2>1 DEF CheckLive
<1>10. ASSUME NEW r \in Replicas, Create(r)
       PROVE  UNCHANGED <<cronVars, reclaimVars>> /\ asking' \in [Replicas -> Request]
  BY <1>1, <1>10 DEF Create
<1>11. ASSUME NEW i \in Runs, Work(i) \/ Beat(i) \/ DeleteRun(i) \/ BeatGoesStale(i) \/ Blip(i)
       PROVE  UNCHANGED <<cronVars, asking, reclaimVars>>
  BY <1>11 DEF Work, ListOld, Prune, Seal, Publish, RecordSuccess, RecordFailure, CleanUp, Beat,
               DeleteRun, BeatGoesStale, Blip
<1>12. CASE UNCHANGED allVars
  BY <1>12, <1>2 DEF allVars, backupVars
<1> QED BY <1>2, <1>3, <1>4, <1>5, <1>6, <1>7, <1>8, <1>9, <1>10, <1>11, <1>12
        DEF Next, Reclaiming, cronVars, reclaimVars

\* What reclaiming run i does: its row is failed, or there is no trace of it.
LEMMA ReclaimEffect ==
    ASSUME BackupTypeOK, NEW r \in Replicas, NEW i \in Runs, Reclaim(r, i)
    PROVE  /\ i \in listed[r] /\ UNCHANGED <<exec, diskVars>>
           /\ \A q \in Replicas : listed'[q] \subseteq listed[q]
           /\ row' \in [Runs -> RunRow] /\ \A k \in Runs \ {i} : row'[k] = row[k]
           /\ \/ row'[i] = row[i]
              \/ /\ row[i].status # "none" /\ row'[i].status = "failed"
                 /\ row'[i].filename = row[i].filename
<1> DEFINE failed == [row[i] EXCEPT !.status = "failed", !.beat = "fresh"]
<1>1. row \in [Runs -> RunRow] /\ row[i] \in RunRow
  BY EntryTypes
<1>2. failed \in RunRow /\ failed.status = "failed" /\ failed.filename = row[i].filename
  BY <1>1 DEF RunRow
<1>3. row' = row \/ (row' = [row EXCEPT ![i] = failed] /\ row[i].status # "none")
  BY DEF Reclaim, Lost, Exists
<1>4. /\ i \in listed[r] /\ UNCHANGED <<exec, diskVars>>
      /\ \A q \in Replicas : listed'[q] \subseteq listed[q]
  BY DEF Reclaim, BackupTypeOK
<1> HIDE DEF failed
<1> QED BY <1>1, <1>2, <1>3, <1>4

\* A cancel raises a flag at most; a sweep it begins takes a dead run.
LEMMA CancelEffect ==
    ASSUME BackupTypeOK, NEW r \in Replicas, NEW i \in Runs, RequestCancel(r, i)
    PROVE  /\ UNCHANGED <<exec, diskVars>> /\ row' \in [Runs -> RunRow]
           /\ \A k \in Runs : /\ row'[k].status = row[k].status /\ row'[k].beat = row[k].beat
                              /\ row'[k].filename = row[k].filename
<1>1. row \in [Runs -> RunRow] /\ row[i] \in RunRow
  BY EntryTypes
<1>2. UNCHANGED <<exec, diskVars>> /\ (row' = row \/ row' = [row EXCEPT ![i].cancel = TRUE])
  BY DEF RequestCancel
<1>3. CASE row' = row
  BY <1>1, <1>2, <1>3
<1>4. CASE row' = [row EXCEPT ![i].cancel = TRUE]
  <2>1. [row[i] EXCEPT !.cancel = TRUE] \in RunRow
    BY <1>1 DEF RunRow
  <2>2. \A k \in Runs : row[k] \in RunRow
    BY <1>1
  <2> QED BY <1>1, <1>2, <1>4, <2>1, <2>2 DEF RunRow
<1> QED BY <1>2, <1>3, <1>4

\* The rows and the processes that write them, step by step.
LEMMA CreateTypes ==
    ASSUME BackupTypeOK, NEW r \in Replicas, Create(r)
    PROVE  row' \in [Runs -> RunRow] /\ exec' \in [Runs -> Execution] /\ UNCHANGED diskVars
<1>1. row \in [Runs -> RunRow] /\ exec \in [Runs -> Execution]
  BY DEF BackupTypeOK
<1>2. CASE HasStatus("running") = {} /\ HasStatus("none") # {}
  <2> DEFINE i == Min(HasStatus("none"))
  <2>1. i \in Runs
    BY <1>2, MinOfRuns DEF HasStatus
  <2>2. asking[r].trigger \in Triggers
    BY DEF BackupTypeOK, Request
  <2>3. [NoRow EXCEPT !.status = "running"] \in RunRow
    BY DEF NoRow, RunRow
  <2>4. [by |-> r, trigger |-> asking[r].trigger, pc |-> "retain", old |-> {}] \in Execution
    BY <2>2 DEF Execution
  <2> QED BY <1>1, <1>2, <2>1, <2>3, <2>4 DEF Create
<1>3. CASE ~(HasStatus("running") = {} /\ HasStatus("none") # {})
  BY <1>1, <1>3 DEF Create
<1> QED BY <1>2, <1>3

LEMMA RetentionTypes ==
    ASSUME BackupTypeOK, NEW i \in Runs, ListOld(i) \/ Prune(i)
    PROVE  /\ row' \in [Runs -> RunRow] /\ exec' \in [Runs -> Execution]
           /\ archives' \subseteq archives /\ published' = published
<1>1. /\ row \in [Runs -> RunRow] /\ exec \in [Runs -> Execution]
      /\ exec[i] \in Execution /\ NoExec \in Execution
      /\ [NoRow EXCEPT !.status = "deleted"] \in RunRow
  BY EntryTypes
<1>2. CASE ListOld(i)
  <2> DEFINE S == Beyond(HasStatus("succeeded"), Cap(ReserveAt(exec[i].pc)))
             pc == IF exec[i].pc = "retain" THEN "prune" ELSE "pruneAfter"
  <2>1. S \in SUBSET Runs
    BY DEF Beyond, HasStatus
  <2>2. [[exec[i] EXCEPT !.old = S] EXCEPT !.pc = pc] \in Execution
    <3> HIDE DEF S
    <3> QED BY <1>1, <2>1 DEF Execution
  <2>3. exec' = [exec EXCEPT ![i] = [[exec[i] EXCEPT !.old = S] EXCEPT !.pc = pc]]
    <3> HIDE DEF S
    <3>1. exec' = [exec EXCEPT ![i].old = S, ![i].pc = IF @ = "retain" THEN "prune" ELSE "pruneAfter"]
      BY <1>2 DEF ListOld, S
    <3> QED BY <1>1, <3>1 DEF Execution
  <2>4. UNCHANGED <<row, archives, published>>
    BY <1>2 DEF ListOld, diskVars
  <2> HIDE DEF S, pc
  <2> QED BY <1>1, <2>2, <2>3, <2>4
<1>3. CASE Prune(i)
  <2>1. row' \in [Runs -> RunRow]
    BY <1>1, <1>3 DEF Prune
  <2>2. [exec[i] EXCEPT !.pc = "dump", !.old = {}] \in Execution
    BY <1>1 DEF Execution
  <2>3. exec' \in [Runs -> Execution]
    BY <1>1, <1>3, <2>2 DEF Prune
  <2>4. archives' \subseteq archives /\ published' = published
    BY <1>3 DEF Prune
  <2> QED BY <2>1, <2>3, <2>4
<1> QED BY <1>2, <1>3

LEMMA WritingTypes ==
    ASSUME BackupTypeOK, NEW i \in Runs,
           \/ Beat(i) \/ (\E ok \in BOOLEAN : Seal(i, ok)) \/ Publish(i) \/ RecordSuccess(i)
           \/ RecordFailure(i) \/ CleanUp(i)
    PROVE  exec' \in [Runs -> Execution]
<1>1. exec \in [Runs -> Execution] /\ exec[i] \in Execution /\ NoExec \in Execution
  BY EntryTypes
<1>2. CASE CleanUp(i)
  <2>1. [exec[i] EXCEPT !.pc = "retainAfter"] \in Execution
    BY <1>1 DEF Execution
  <2> QED BY <1>1, <1>2, <2>1 DEF CleanUp
<1>3. CASE ~CleanUp(i)
  <2>1. \E pc \in {"dump", "rename", "record", "fail", "clean"} : Go(i, pc)
    BY <1>3 DEF Beat, Seal, Publish, RecordSuccess, RecordFailure
  <2> QED BY <2>1, GoType
<1> QED BY <1>2, <1>3

LEMMA RowTypes ==
    ASSUME BackupTypeOK, NEW i \in Runs,
           \/ Beat(i) \/ RecordSuccess(i) \/ RecordFailure(i) \/ DeleteRun(i)
           \/ BeatGoesStale(i) \/ Blip(i)
    PROVE  row' \in [Runs -> RunRow]
<1>1. /\ row \in [Runs -> RunRow] /\ row[i] \in RunRow
      /\ [NoRow EXCEPT !.status = "deleted"] \in RunRow
  BY EntryTypes
<1>2. /\ [row[i] EXCEPT !.beat = "fresh"] \in RunRow /\ [row[i] EXCEPT !.beat = "stale"] \in RunRow
      /\ Ended("succeeded", TRUE) \in RunRow /\ Ended("failed", row[i].filename) \in RunRow
  BY <1>1 DEF RunRow, Ended, NoRow
<1>3. CASE Beat(i)
  BY <1>1, <1>2, <1>3 DEF Beat
<1>4. CASE RecordSuccess(i)
  BY <1>1, <1>2, <1>4 DEF RecordSuccess, Lost
<1>5. CASE RecordFailure(i)
  BY <1>1, <1>2, <1>5 DEF RecordFailure, Lost
<1>6. CASE DeleteRun(i)
  BY <1>1, <1>6 DEF DeleteRun
<1>7. CASE BeatGoesStale(i) \/ Blip(i)
  BY <1>1, <1>2, <1>7 DEF BeatGoesStale, Blip
<1> QED BY <1>3, <1>4, <1>5, <1>6, <1>7

LEMMA RunTypeStep ==
    ASSUME BackupTypeOK, [Next]_allVars
    PROVE  /\ row' \in [Runs -> RunRow] /\ exec' \in [Runs -> Execution]
           /\ archives' \subseteq published' /\ published' \subseteq Runs
<1>1. /\ row \in [Runs -> RunRow] /\ exec \in [Runs -> Execution]
      /\ archives \subseteq published /\ published \subseteq Runs
      /\ NoExec \in Execution
  BY EntryTypes DEF BackupTypeOK, NoExec, Execution, Triggers
<1>2. CASE Quiet
  BY <1>1, <1>2 DEF Quiet
<1>3. ASSUME NEW r \in Replicas, Sweep(r) \/ Die(r) \/ \E t \in Triggers : RunBackup(r, t)
      PROVE  UNCHANGED <<row, archives, published>> /\ exec' \in [Runs -> Execution]
  BY <1>1, <1>3 DEF Sweep, RunBackup, Die, diskVars
<1>4. ASSUME NEW r \in Replicas,
             Create(r) \/ \E i \in Runs : Reclaim(r, i) \/ RequestCancel(r, i)
      PROVE  /\ row' \in [Runs -> RunRow] /\ exec' \in [Runs -> Execution]
             /\ UNCHANGED <<archives, published>>
  BY <1>1, <1>4, CreateTypes, ReclaimEffect, CancelEffect DEF diskVars
<1>5. ASSUME NEW i \in Runs, Work(i) \/ Beat(i) \/ DeleteRun(i) \/ BeatGoesStale(i) \/ Blip(i)
      PROVE  row' \in [Runs -> RunRow] /\ exec' \in [Runs -> Execution]
  <2>1. CASE ListOld(i) \/ Prune(i)
    BY <2>1, RetentionTypes
  <2>2. CASE \/ Beat(i) \/ RecordSuccess(i) \/ RecordFailure(i)
    BY <2>2, WritingTypes, RowTypes
  <2>3. CASE (\E ok \in BOOLEAN : Seal(i, ok)) \/ Publish(i) \/ CleanUp(i)
    <3>1. row' = row
      BY <2>3 DEF Seal, Publish, CleanUp
    <3> QED BY <1>1, <2>3, <3>1, WritingTypes
  <2>4. CASE DeleteRun(i) \/ BeatGoesStale(i) \/ Blip(i)
    <3>1. exec' = exec
      BY <2>4 DEF DeleteRun, BeatGoesStale, Blip
    <3> QED BY <1>1, <2>4, <3>1, RowTypes
  <2> QED BY <1>5, <2>1, <2>2, <2>3, <2>4 DEF Work
<1>6. ASSUME NEW i \in Runs, Work(i) \/ Beat(i) \/ DeleteRun(i) \/ BeatGoesStale(i) \/ Blip(i)
      PROVE  archives' \subseteq published' /\ published' \subseteq Runs
  <2>1. CASE Publish(i)
    BY <1>1, <2>1 DEF Publish
  <2>2. CASE ListOld(i) \/ Prune(i)
    BY <1>1, <2>2, RetentionTypes
  <2>3. CASE ~(Publish(i) \/ ListOld(i) \/ Prune(i))
    <3>1. archives' \subseteq archives /\ published' = published
      BY <1>6, <2>3 DEF Work, Seal, RecordSuccess, RecordFailure, CleanUp, Beat, DeleteRun,
                        BeatGoesStale, Blip, diskVars
    <3> QED BY <1>1, <3>1
  <2> QED BY <2>1, <2>2, <2>3
<1> QED BY StepKinds, <1>1, <1>2, <1>3, <1>4, <1>5, <1>6

LEMMA StagedStep ==
    ASSUME BackupTypeOK, [Next]_allVars
    PROVE  staged' \subseteq Runs
<1> USE DEF BackupTypeOK
<1>1. CASE UNCHANGED allVars
  BY <1>1 DEF allVars, backupVars, diskVars
<1>2. ASSUME NEW r \in Replicas, Election(r) PROVE staged' = staged
  BY <1>2 DEF Election, backupVars, diskVars
<1>3. ASSUME NEW r \in Replicas,
             \/ Die(r) \/ Bootstrap(r) \/ Apply(r) \/ SaveConfig(r) \/ Sweep(r) \/ Reclaiming(r)
             \/ CheckLive(r) \/ Create(r) \/ (\E t \in Triggers : RunBackup(r, t))
             \/ \E i \in Runs : RequestCancel(r, i)
      PROVE  staged' \subseteq staged
  BY <1>3 DEF Die, Bootstrap, Apply, SaveConfig, Sweep, Reclaiming, SweepBytes, Reclaim, CheckLive,
              Create, RunBackup, RequestCancel, diskVars
<1>4. ASSUME NEW i \in Runs, Work(i) \/ Beat(i) \/ DeleteRun(i) \/ BeatGoesStale(i) \/ Blip(i)
      PROVE  staged' \subseteq staged \cup {i}
  BY <1>4 DEF Work, ListOld, Prune, Seal, Publish, RecordSuccess, RecordFailure, CleanUp, Beat,
              DeleteRun, BeatGoesStale, Blip, diskVars
<1> QED BY <1>1, <1>2, <1>3, <1>4 DEF Next

LEMMA TypeStep == ASSUME BackupTypeOK, [Next]_allVars PROVE BackupTypeOK'
BY LeaderTypeStep, ReplicaTypeStep, RunTypeStep, StagedStep DEF BackupTypeOK

\* The variables of the backup service keep their types, whatever is asked for,
\* fails or dies (backup.service.ts, backup-cron.service.ts).
THEOREM BackupTypes == Spec => []BackupTypeOK
BY TypeInit, TypeStep, PTL DEF Spec

-----------------------------------------------------------------------------
(* Who writes a backup                                                     *)

Over == {"succeeded", "failed", "deleted"}

\* Rows are numbered as they start, and nothing starts beside a running one.
RowsInOrder ==
    \A i \in Runs : row[i].status \in {"none", "running"} =>
        \A j \in Runs : j > i => row[j].status = "none"

\* A process at work has a row; unless it looked dead, its row runs without a
\* stale beat until the process has gone to write how the run ended.
WorkIsVisible ==
    \A i \in Runs :
        /\ exec[i].pc # "none" => row[i].status # "none"
        /\ i \notin blipped =>
              /\ exec[i].pc # "none" => ~(row[i].status = "running" /\ row[i].beat = "stale")
              /\ exec[i].pc \in Writing => row[i].status = "running"

Dead(i) == exec[i].pc = "none" /\ row[i].status \in {"running", "failed", "deleted"}

\* A sweep has listed runs of dead processes, and runs that looked dead.
SweptAreDead == \A r \in Replicas : \A i \in listed[r] : i \in blipped \/ Dead(i)

\* A pruning has listed runs that are over.
PrunedAreOver == \A i \in Runs : \A j \in exec[i].old : row[j].status \in Over

\* A success names its archive, and an archive that a row names, or its process is
\* about to, was published.
RowsAndArchives ==
    \A i \in Runs : /\ row[i].status = "succeeded" => row[i].filename
                    /\ row[i].filename \/ exec[i].pc = "record" => i \in published

StagingInv ==
    BackupTypeOK /\ RowsInOrder /\ WorkIsVisible /\ SweptAreDead /\ PrunedAreOver /\ RowsAndArchives

\* A run starts: the first number without a row, while none is running.  Its
\* request may be gone before there is a process.
Starts(i) ==
    /\ row[i].status = "none"
    /\ \A j \in Runs : /\ row[j].status # "running"
                       /\ row[j].status = "none" => i <= j
                       /\ j # i => row'[j] = row[j] /\ exec'[j] = exec[j]
    /\ row'[i].status = "running" /\ row'[i].beat = "fresh" /\ row'[i].filename = FALSE
    /\ exec'[i] = exec[i] \/ (exec'[i].pc = "retain" /\ exec'[i].old = {})
    /\ UNCHANGED <<listed, archives, published>>

LEMMA CreateStarts ==
    ASSUME BackupTypeOK, NEW r \in Replicas, Create(r)
    PROVE  (\E i \in Runs : Starts(i)) \/ Quiet
<1>1. row \in [Runs -> RunRow] /\ exec \in [Runs -> Execution]
  BY DEF BackupTypeOK
<1>2. CASE HasStatus("running") = {} /\ HasStatus("none") # {}
  <2> DEFINE i == Min(HasStatus("none"))
  <2>1. i \in HasStatus("none") /\ \A j \in HasStatus("none") : i <= j
    BY <1>2, MinOfRuns DEF HasStatus
  <2>2. i \in Runs /\ row[i].status = "none"
    BY <2>1 DEF HasStatus
  <2>3. \A j \in Runs : row[j].status # "running" /\ (row[j].status = "none" => i <= j)
    BY <1>2, <2>1 DEF HasStatus
  <2>4. /\ row' = [row EXCEPT ![i] = [NoRow EXCEPT !.status = "running"]]
        /\ \/ exec' = exec
           \/ exec' = [exec EXCEPT ![i] = [by |-> r, trigger |-> asking[r].trigger,
                                           pc |-> "retain", old |-> {}]]
        /\ UNCHANGED <<listed, archives, published>>
    BY <1>2 DEF Create, reclaimVars, diskVars
  <2> HIDE DEF i
  <2>5. /\ row'[i].status = "running" /\ row'[i].beat = "fresh" /\ row'[i].filename = FALSE
        /\ exec'[i] = exec[i] \/ (exec'[i].pc = "retain" /\ exec'[i].old = {})
    BY <1>1, <2>2, <2>4 DEF NoRow
  <2>6. \A j \in Runs : j # i => row'[j] = row[j] /\ exec'[j] = exec[j]
    BY <1>1, <2>4
  <2>7. Starts(i)
    BY <2>2, <2>3, <2>4, <2>5, <2>6 DEF Starts
  <2> QED BY <2>2, <2>7
<1>3. CASE ~(HasStatus("running") = {} /\ HasStatus("none") # {})
  BY <1>3 DEF Create, reclaimVars, diskVars, Quiet
<1> QED BY <1>2, <1>3

\* A row keeps its status or comes to an end, except the one of a run that starts.
Settles == \A i \in Runs : \/ row'[i].status = row[i].status
                           \/ row[i].status # "none" /\ row'[i].status \in Over

LEMMA StatusStep ==
    ASSUME BackupTypeOK, [Next]_allVars
    PROVE  (\E i \in Runs : Starts(i)) \/ Settles
<1>1. row \in [Runs -> RunRow]
  BY DEF BackupTypeOK
<1>2. ASSUME UNCHANGED row PROVE Settles
  BY <1>2 DEF Settles
<1>3. ASSUME NEW r \in Replicas, NEW i \in Runs, Reclaim(r, i) \/ RequestCancel(r, i)
      PROVE  Settles
  BY <1>3, ReclaimEffect, CancelEffect DEF Settles, Over
<1>4. ASSUME NEW i \in Runs, Prune(i)
      PROVE  Settles
  BY <1>1, <1>4 DEF Prune, Exists, NoRow, Settles, Over
<1>5. ASSUME NEW i \in Runs, Beat(i) \/ BeatGoesStale(i) \/ Blip(i)
      PROVE  Settles
  BY <1>1, <1>5 DEF Beat, BeatGoesStale, Blip, Settles, RunRow
<1>6. ASSUME NEW i \in Runs, RecordSuccess(i) \/ RecordFailure(i)
      PROVE  Settles
  BY <1>1, <1>6 DEF RecordSuccess, RecordFailure, Lost, Ended, NoRow, Exists, Settles, Over
<1>7. ASSUME NEW i \in Runs, DeleteRun(i)
      PROVE  Settles
  BY <1>1, <1>7 DEF DeleteRun, Exists, NoRow, Settles, Over
<1>8. ASSUME NEW i \in Runs,
             ListOld(i) \/ (\E ok \in BOOLEAN : Seal(i, ok)) \/ Publish(i) \/ CleanUp(i)
      PROVE  UNCHANGED row
  BY <1>8 DEF ListOld, Seal, Publish, CleanUp
<1>9. ASSUME NEW r \in Replicas, Sweep(r) \/ Die(r) \/ \E t \in Triggers : RunBackup(r, t)
      PROVE  UNCHANGED row
  BY <1>9 DEF Sweep, Die, RunBackup
<1> QED BY StepKinds, CreateStarts, <1>2, <1>3, <1>4, <1>5, <1>6, <1>7, <1>8, <1>9 DEF Work, Quiet

LEMMA RowsInOrderStep ==
    ASSUME StagingInv, [Next]_allVars
    PROVE  RowsInOrder'
<1> USE DEF StagingInv
<1>1. Runs \subseteq Int
  BY BackupAssumption DEF Runs
<1>2. ASSUME NEW i \in Runs, Starts(i) PROVE RowsInOrder'
  <2>1. ASSUME NEW k \in Runs, row'[k].status \in {"none", "running"}, NEW j \in Runs, j > k
        PROVE  row'[j].status = "none"
    <3>1. CASE k = i
      BY <1>1, <1>2, <2>1, <3>1 DEF Starts, RowsInOrder
    <3>2. CASE k # i
      <4>1. row[k].status = "none" /\ i <= k
        BY <1>2, <2>1, <3>2 DEF Starts
      <4>2. i \in Int /\ j \in Int /\ k \in Int
        BY <1>1
      <4>3. j # i /\ j > i
        BY <2>1, <4>1, <4>2
      <4> QED BY <1>2, <2>1, <4>1, <4>3 DEF Starts, RowsInOrder
    <3> QED BY <3>1, <3>2
  <2> QED BY <2>1 DEF RowsInOrder
<1>3. CASE Settles
  BY <1>3 DEF Settles, RowsInOrder, Over
<1> QED BY StatusStep, <1>2, <1>3

\* Only a pruning that lists lengthens a list.
LEMMA OldSets ==
    ASSUME BackupTypeOK, [Next]_allVars
    PROVE  \/ \E i \in Runs : ListOld(i)
           \/ \A k \in Runs : exec'[k].old \subseteq exec[k].old
<1> DEFINE Shrink == \A k \in Runs : exec'[k].old \subseteq exec[k].old
<1>1. exec \in [Runs -> Execution]
  BY DEF BackupTypeOK
<1>2. ASSUME UNCHANGED exec PROVE Shrink
  BY <1>2
<1>3. ASSUME NEW i \in Runs, Starts(i) PROVE Shrink
  BY <1>3 DEF Starts
<1>4. ASSUME NEW i \in Runs, Prune(i) \/ CleanUp(i) PROVE Shrink
  <2>1. exec[i] \in Execution
    BY <1>1
  <2>2. CASE Prune(i)
    BY <1>1, <2>1, <2>2 DEF Prune, NoExec, Execution
  <2>3. CASE CleanUp(i)
    BY <1>1, <2>1, <2>3 DEF CleanUp, NoExec, Execution
  <2> QED BY <1>4, <2>2, <2>3
<1>5. ASSUME NEW i \in Runs,
             \/ Beat(i) \/ (\E ok \in BOOLEAN : Seal(i, ok)) \/ Publish(i) \/ RecordSuccess(i)
             \/ RecordFailure(i)
      PROVE  Shrink
  <2>1. PICK pc : Go(i, pc)
    BY <1>5 DEF Beat, Seal, Publish, RecordSuccess, RecordFailure
  <2> QED BY <1>1, <2>1 DEF Go, Execution
<1>6. ASSUME NEW r \in Replicas, Die(r) PROVE Shrink
  BY <1>1, <1>6 DEF Die, NoExec
<1>7. ASSUME NEW i \in Runs, DeleteRun(i) \/ BeatGoesStale(i) \/ Blip(i) PROVE UNCHANGED exec
  BY <1>7 DEF DeleteRun, BeatGoesStale, Blip
<1>8. ASSUME NEW r \in Replicas,
             \/ Sweep(r) \/ (\E t \in Triggers : RunBackup(r, t))
             \/ \E i \in Runs : Reclaim(r, i) \/ RequestCancel(r, i)
      PROVE  UNCHANGED exec
  BY <1>8 DEF Sweep, RunBackup, Reclaim, RequestCancel
<1> HIDE DEF Shrink
<1>9. (\E i \in Runs : ListOld(i)) \/ Shrink
  BY StepKinds, CreateStarts, <1>2, <1>3, <1>4, <1>5, <1>6, <1>7, <1>8 DEF Work, Quiet
<1> QED BY <1>9 DEF Shrink

LEMMA PrunedAreOverStep ==
    ASSUME StagingInv, [Next]_allVars
    PROVE  PrunedAreOver'
<1> USE DEF StagingInv
<1>1. /\ row \in [Runs -> RunRow] /\ exec \in [Runs -> Execution]
      /\ \A i \in Runs : exec[i] \in Execution /\ exec[i].old \in SUBSET Runs
  BY DEF BackupTypeOK, Execution
\* What was over stays over.
<1>2. ASSUME NEW j \in Runs, row[j].status \in Over PROVE row'[j].status \in Over
  BY <1>2, StatusStep DEF Starts, Settles, Over
<1>3. CASE \A i \in Runs : exec'[i].old \subseteq exec[i].old
  BY <1>1, <1>2, <1>3 DEF PrunedAreOver
<1>4. ASSUME NEW i \in Runs, ListOld(i) PROVE PrunedAreOver'
  <2>1. Beyond(HasStatus("succeeded"), Cap(ReserveAt(exec[i].pc))) \subseteq HasStatus("succeeded")
    BY DEF Beyond
  <2>2. exec'[i].old \subseteq HasStatus("succeeded")
    <3> DEFINE S == Beyond(HasStatus("succeeded"), Cap(ReserveAt(exec[i].pc)))
    <3>1. exec' = [exec EXCEPT ![i].old = S, ![i].pc = IF @ = "retain" THEN "prune" ELSE "pruneAfter"]
      BY <1>4 DEF ListOld
    <3>2. S \subseteq HasStatus("succeeded")
      BY <2>1
    <3> HIDE DEF S
    <3> QED BY <1>1, <3>1, <3>2 DEF Execution
  <2>3. \A k \in Runs : k # i => exec'[k] = exec[k]
    BY <1>1, <1>4 DEF ListOld
  <2>4. \A j \in HasStatus("succeeded") : j \in Runs /\ row[j].status \in Over
    BY DEF HasStatus, Over
  <2> QED BY <1>1, <1>2, <2>2, <2>3, <2>4 DEF PrunedAreOver
<1>5. CASE \E i \in Runs : ListOld(i)
  BY <1>4, <1>5
<1> QED BY OldSets, <1>3, <1>5

\* What recording the end of run i does: the row's new end, or no trace of it.
LEMMA RecordEffect ==
    ASSUME BackupTypeOK, NEW i \in Runs, RecordSuccess(i) \/ RecordFailure(i)
    PROVE  /\ UNCHANGED <<archives, published>>
           /\ \A k \in Runs : k # i => row'[k] = row[k] /\ exec'[k] = exec[k]
           /\ exec[i].pc \in {"record", "fail"} /\ exec'[i].pc \in {"fail", "clean"}
           /\ \/ row'[i] = row[i]
              \/ /\ exec[i].pc = "record" /\ row[i].status # "none"
                 /\ row'[i].status = "succeeded" /\ row'[i].filename
              \/ /\ exec[i].pc = "fail" /\ row[i].status # "none"
                 /\ row'[i].status = "failed" /\ row'[i].filename = row[i].filename
<1>1. row \in [Runs -> RunRow] /\ exec \in [Runs -> Execution] /\ exec[i] \in Execution
  BY EntryTypes
<1>2. \E pc \in {"fail", "clean"} : Go(i, pc)
  BY DEF RecordSuccess, RecordFailure
<1>3. exec'[i].pc \in {"fail", "clean"} /\ \A k \in Runs : k # i => exec'[k] = exec[k]
  BY <1>1, <1>2 DEF Go, Execution
<1>4. UNCHANGED <<archives, published>> /\ exec[i].pc \in {"record", "fail"}
  BY DEF RecordSuccess, RecordFailure, diskVars
<1>5. \/ row' = row
      \/ /\ exec[i].pc = "record" /\ row[i].status # "none"
         /\ row' = [row EXCEPT ![i] = Ended("succeeded", TRUE)]
      \/ /\ exec[i].pc = "fail" /\ row[i].status # "none"
         /\ row' = [row EXCEPT ![i] = Ended("failed", row[i].filename)]
  BY DEF RecordSuccess, RecordFailure, Lost, Exists
<1>6. /\ Ended("succeeded", TRUE).status = "succeeded" /\ Ended("succeeded", TRUE).filename
      /\ Ended("failed", row[i].filename).status = "failed"
      /\ Ended("failed", row[i].filename).filename = row[i].filename
  BY DEF Ended, NoRow
<1> QED BY <1>1, <1>3, <1>4, <1>5, <1>6

\* Only a blip makes a run look dead that is not, and nothing takes it back.
LEMMA BlippedStep ==
    ASSUME [Next]_allVars
    PROVE  blipped' = blipped \/ \E i \in Runs : Blip(i) /\ blipped' = blipped \cup {i}
<1>1. CASE UNCHANGED allVars
  BY <1>1 DEF allVars, leaderVars
<1>2. ASSUME NEW i \in Runs, NEW u, Lost(i, u) PROVE UNCHANGED blipped
  BY <1>2 DEF Lost, leaderVars
<1>3. ASSUME NEW r \in Replicas,
             \/ Election(r) \/ Die(r) \/ Bootstrap(r) \/ Apply(r) \/ SaveConfig(r) \/ Sweep(r)
             \/ Reclaiming(r) \/ CheckLive(r) \/ Create(r) \/ (\E t \in Triggers : RunBackup(r, t))
             \/ \E i \in Runs : RequestCancel(r, i)
      PROVE  UNCHANGED blipped
  BY <1>2, <1>3 DEF Election, Die, Bootstrap, Apply, SaveConfig, Sweep, Reclaiming, SweepBytes,
                    Reclaim, CheckLive, Create, RunBackup, RequestCancel, leaderVars
<1>4. ASSUME NEW i \in Runs, Work(i) \/ Beat(i) \/ DeleteRun(i) \/ BeatGoesStale(i)
      PROVE  UNCHANGED blipped
  BY <1>2, <1>4 DEF Work, ListOld, Prune, Seal, Publish, RecordSuccess, RecordFailure, CleanUp,
                    Beat, DeleteRun, BeatGoesStale, leaderVars
<1>5. ASSUME NEW i \in Runs, Blip(i) PROVE blipped' = blipped \cup {i}
  BY <1>5 DEF Blip
<1> QED BY <1>1, <1>3, <1>4, <1>5 DEF Next

Visible(k) ==
    /\ exec[k].pc # "none" => row[k].status # "none"
    /\ k \notin blipped =>
          /\ exec[k].pc # "none" => ~(row[k].status = "running" /\ row[k].beat = "stale")
          /\ exec[k].pc \in Writing => row[k].status = "running"

LEMMA WorkIsVisibleStep ==
    ASSUME StagingInv, [Next]_allVars
    PROVE  WorkIsVisible'
<1>1. /\ row \in [Runs -> RunRow] /\ exec \in [Runs -> Execution]
      /\ \A k \in Runs : Visible(k) /\ row[k] \in RunRow /\ exec[k] \in Execution
  BY DEF StagingInv, BackupTypeOK, WorkIsVisible, Visible
<1>0. blipped \subseteq blipped'
  BY BlippedStep
<1>2. ASSUME NEW k \in Runs, row'[k] = row[k], exec'[k] = exec[k] PROVE Visible(k)'
  BY <1>0, <1>1, <1>2 DEF Visible
<1>3. ASSUME NEW i \in Runs, Starts(i), NEW k \in Runs PROVE Visible(k)'
  <2>1. exec[i].pc = "none"
    BY <1>1, <1>3 DEF Starts, Visible
  <2> QED BY <1>0, <1>2, <1>3, <2>1 DEF Starts, Visible, Writing
<1>4. ASSUME NEW r \in Replicas, Die(r), NEW k \in Runs PROVE Visible(k)'
  BY <1>1, <1>2, <1>4 DEF Die, NoExec, Visible, Writing
<1>5. ASSUME NEW r \in Replicas, NEW i \in Runs, Reclaim(r, i), NEW k \in Runs PROVE Visible(k)'
  <2>1. /\ exec' = exec /\ i \in listed[r] /\ \A j \in Runs \ {i} : row'[j] = row[j]
        /\ row'[i] = row[i] \/ row'[i].status = "failed"
    BY <1>5, ReclaimEffect DEF StagingInv
  <2>2. i \in blipped \/ exec[i].pc = "none"
    BY <2>1 DEF StagingInv, SweptAreDead, Dead
  <2> QED BY <1>0, <1>2, <2>1, <2>2 DEF Visible, Writing
<1>6. ASSUME NEW r \in Replicas, NEW i \in Runs, RequestCancel(r, i), NEW k \in Runs PROVE Visible(k)'
  <2>1. exec' = exec /\ row'[k].status = row[k].status /\ row'[k].beat = row[k].beat
    BY <1>6, CancelEffect DEF StagingInv
  <2> QED BY <1>0, <1>1, <2>1 DEF Visible
<1>7. ASSUME NEW i \in Runs, ListOld(i), NEW k \in Runs PROVE Visible(k)'
  <2>1. row' = row
    BY <1>7 DEF ListOld
  <2>2. CASE k = i
    <3>1. exec'[i].pc = IF exec[i].pc = "retain" THEN "prune" ELSE "pruneAfter"
      BY <1>1, <1>7 DEF ListOld, Execution
    <3> QED BY <1>0, <1>1, <1>7, <2>1, <2>2, <3>1 DEF ListOld, Visible, Writing
  <2>3. CASE k # i
    BY <1>1, <1>2, <1>7, <2>1, <2>3 DEF ListOld
  <2> QED BY <2>2, <2>3
<1>8. ASSUME NEW i \in Runs, Prune(i), NEW k \in Runs PROVE Visible(k)'
  <2>1. row'[k] = row[k] \/ (k \in exec[i].old /\ row'[k].status = "deleted")
    BY <1>8 DEF Prune, NoRow
  <2>2. k \in exec[i].old /\ k \notin blipped => exec[k].pc \notin Writing
    BY <1>1 DEF StagingInv, PrunedAreOver, Visible, Over
  <2>3. CASE k # i
    <3>1. exec'[k] = exec[k]
      BY <1>1, <1>8, <2>3 DEF Prune
    <3> QED BY <1>0, <1>1, <1>2, <2>1, <2>2, <3>1 DEF Visible
  <2>4. CASE k = i /\ exec[i].pc = "prune"
    <3>1. exec'[i].pc = "dump"
      BY <1>1, <1>8, <2>4 DEF Prune, Execution
    <3>2. k \notin blipped => row'[k] = row[k]
      BY <2>1, <2>2, <2>4 DEF Writing
    <3> QED BY <1>0, <1>1, <2>1, <2>4, <3>1, <3>2 DEF Visible, Writing
  <2>5. CASE k = i /\ exec[i].pc # "prune"
    <3>1. exec'[i].pc = "none"
      BY <1>1, <1>8, <2>5 DEF Prune, NoExec
    <3> QED BY <2>5, <3>1 DEF Visible, Writing
  <2> QED BY <2>3, <2>4, <2>5
<1>9. ASSUME NEW i \in Runs, Beat(i), NEW k \in Runs PROVE Visible(k)'
  <2>1. CASE k # i
    <3>1. row'[k] = row[k] /\ exec'[k] = exec[k]
      BY <1>1, <1>9, <2>1 DEF Beat, Go
    <3> QED BY <1>2, <3>1
  <2>2. CASE k = i
    <3>1. row'[i].status = row[i].status /\ (row'[i].beat = "fresh" \/ row'[i].beat = row[i].beat)
      BY <1>1, <1>9 DEF Beat, RunRow
    <3>2. exec[i].pc # "none" /\ exec'[i].pc \in {exec[i].pc, "fail"}
      BY <1>1, <1>9 DEF Beat, Go, Execution
    <3> QED BY <1>0, <1>1, <2>2, <3>1, <3>2 DEF Visible, Writing
  <2> QED BY <2>1, <2>2
<1>10. ASSUME NEW i \in Runs, (\E ok \in BOOLEAN : Seal(i, ok)) \/ Publish(i), NEW k \in Runs
       PROVE  Visible(k)'
  <2>1. row' = row
    BY <1>10 DEF Seal, Publish
  <2>2. CASE k # i
    BY <1>1, <1>2, <1>10, <2>1, <2>2 DEF Seal, Publish, Go
  <2>3. CASE k = i
    <3>1. exec[i].pc \in Writing
      BY <1>10 DEF Seal, Publish, Writing
    <3> QED BY <1>0, <1>1, <2>1, <2>3, <3>1 DEF Visible, Writing
  <2> QED BY <2>2, <2>3
<1>11. ASSUME NEW i \in Runs, RecordSuccess(i) \/ RecordFailure(i), NEW k \in Runs
       PROVE  Visible(k)'
  <2>1. CASE k # i
    <3>1. row'[k] = row[k] /\ exec'[k] = exec[k]
      BY <1>11, <2>1, RecordEffect DEF StagingInv
    <3> QED BY <1>2, <3>1
  <2>2. CASE k = i
    <3>1. /\ exec[i].pc \in {"record", "fail"} /\ exec'[i].pc \in {"fail", "clean"}
          /\ row'[i] = row[i] \/ row'[i].status \in Over
      BY <1>11, RecordEffect DEF StagingInv, Over
    <3> QED BY <1>0, <1>1, <2>2, <3>1 DEF Visible, Writing, Over
  <2> QED BY <2>1, <2>2
<1>12. ASSUME NEW i \in Runs, CleanUp(i), NEW k \in Runs PROVE Visible(k)'
  <2>1. row' = row
    BY <1>12 DEF CleanUp
  <2>2. CASE k # i
    BY <1>1, <1>2, <1>12, <2>1, <2>2 DEF CleanUp
  <2>3. CASE k = i
    <3>1. exec[i].pc = "clean" /\ exec'[i].pc \in {"none", "retainAfter"}
      BY <1>1, <1>12 DEF CleanUp, Execution, NoExec
    <3> QED BY <1>0, <1>1, <2>1, <2>3, <3>1 DEF Visible, Writing
  <2> QED BY <2>2, <2>3
<1>13. ASSUME NEW i \in Runs, DeleteRun(i), NEW k \in Runs PROVE Visible(k)'
  <2>1. exec' = exec /\ (row[i].status = "running" => row[i].beat = "stale")
    BY <1>13 DEF DeleteRun, DeadRuns
  <2>2. CASE k # i
    BY <1>1, <1>2, <1>13, <2>1, <2>2 DEF DeleteRun
  <2>3. CASE k = i
    <3>1. row'[i].status = "deleted"
      BY <1>1, <1>13 DEF DeleteRun, NoRow
    <3> QED BY <1>0, <1>1, <2>1, <2>3, <3>1 DEF Visible, Writing
  <2> QED BY <2>2, <2>3
<1>14. ASSUME NEW i \in Runs, BeatGoesStale(i) \/ Blip(i), NEW k \in Runs PROVE Visible(k)'
  <2>1. exec' = exec /\ row'[k].status = row[k].status /\ (k # i => row'[k] = row[k])
    BY <1>1, <1>14 DEF BeatGoesStale, Blip, RunRow
  <2>2. exec[i].pc = "none" \/ i \in blipped'
    BY <1>14 DEF BeatGoesStale, Blip
  <2> QED BY <1>0, <1>1, <1>2, <2>1, <2>2 DEF Visible, Writing
<1>15. ASSUME NEW r \in Replicas, Sweep(r) \/ \E t \in Triggers : RunBackup(r, t), NEW k \in Runs
       PROVE  Visible(k)'
  BY <1>2, <1>15 DEF Sweep, RunBackup
<1>16. ASSUME Quiet, NEW k \in Runs PROVE Visible(k)'
  BY <1>2, <1>16 DEF Quiet
<1>17. ASSUME NEW k \in Runs PROVE Visible(k)'
  <2>1. ASSUME NEW i \in Runs, Work(i) \/ Beat(i) \/ DeleteRun(i) \/ BeatGoesStale(i) \/ Blip(i)
        PROVE  Visible(k)'
    BY <1>7, <1>8, <1>9, <1>10, <1>11, <1>12, <1>13, <1>14, <2>1 DEF Work
  <2>2. ASSUME NEW r \in Replicas, Create(r) PROVE Visible(k)'
    BY <1>3, <1>16, <2>2, CreateStarts DEF StagingInv
  <2> QED BY StepKinds, <1>4, <1>5, <1>6, <1>15, <1>16, <2>1, <2>2
<1> QED BY <1>17 DEF WorkIsVisible, Visible

\* A dead run has no process, and gets none; its row only fails or goes.
LEMMA DeadStaysDead ==
    ASSUME BackupTypeOK, [Next]_allVars, NEW i \in Runs, Dead(i)
    PROVE  Dead(i)'
<1> DEFINE Left == exec'[i].pc = "none" /\ row'[i].status \in {row[i].status, "failed", "deleted"}
<1>1. /\ row \in [Runs -> RunRow] /\ exec \in [Runs -> Execution]
      /\ exec[i].pc = "none" /\ row[i].status \in {"running", "failed", "deleted"}
  BY DEF BackupTypeOK, Dead
<1>2. ASSUME exec'[i] = exec[i], row'[i].status \in {row[i].status, "failed", "deleted"} PROVE Left
  BY <1>1, <1>2
<1>3. ASSUME NEW k \in Runs, Starts(k) PROVE Left
  BY <1>1, <1>2, <1>3 DEF Starts
<1>4. ASSUME NEW r \in Replicas, Die(r) PROVE Left
  BY <1>1, <1>4 DEF Die, NoExec
<1>5. ASSUME NEW r \in Replicas, NEW k \in Runs, Reclaim(r, k) \/ RequestCancel(r, k) PROVE Left
  BY <1>2, <1>5, ReclaimEffect, CancelEffect
<1>6. ASSUME NEW k \in Runs, ListOld(k) PROVE Left
  <2> DEFINE S == Beyond(HasStatus("succeeded"), Cap(ReserveAt(exec[k].pc)))
  <2>1. exec' = [exec EXCEPT ![k].old = S, ![k].pc = IF @ = "retain" THEN "prune" ELSE "pruneAfter"]
    BY <1>6 DEF ListOld
  <2>2. row' = row /\ k # i
    BY <1>1, <1>6 DEF ListOld
  <2> HIDE DEF S
  <2> QED BY <1>1, <1>2, <2>1, <2>2
<1>7. ASSUME NEW k \in Runs, Prune(k) \/ CleanUp(k) PROVE Left
  <2>1. exec[k].pc # "none" /\ (row'[i] = row[i] \/ row'[i].status = "deleted")
    BY <1>7 DEF Prune, CleanUp, NoRow
  <2>2. k # i
    BY <1>1, <2>1
  <2>3. exec'[i] = exec[i]
    BY <1>1, <1>7, <2>2 DEF Prune, CleanUp
  <2> QED BY <1>2, <2>1, <2>3
<1>8. ASSUME NEW k \in Runs, Beat(k) \/ (\E ok \in BOOLEAN : Seal(k, ok)) \/ Publish(k) PROVE Left
  <2>1. exec[k].pc # "none" /\ row'[i].status = row[i].status /\ \E pc : Go(k, pc)
    BY <1>1, <1>8 DEF Beat, Seal, Publish, RunRow
  <2>2. k # i
    BY <1>1, <2>1
  <2>3. exec'[i] = exec[i]
    BY <1>1, <2>1, <2>2 DEF Go
  <2> QED BY <1>2, <2>1, <2>3
<1>9. ASSUME NEW k \in Runs, RecordSuccess(k) \/ RecordFailure(k) PROVE Left
  <2>1. k # i
    BY <1>1, <1>9, RecordEffect
  <2> QED BY <1>2, <1>9, <2>1, RecordEffect
<1>10. ASSUME NEW k \in Runs, DeleteRun(k) \/ BeatGoesStale(k) \/ Blip(k) PROVE Left
  <2>1. exec' = exec
    BY <1>10 DEF DeleteRun, BeatGoesStale, Blip
  <2>2. row'[i].status \in {row[i].status, "deleted"}
    BY <1>1, <1>10 DEF DeleteRun, BeatGoesStale, Blip, NoRow, RunRow
  <2> QED BY <1>2, <2>1, <2>2
<1>11. ASSUME NEW r \in Replicas, Sweep(r) \/ \E t \in Triggers : RunBackup(r, t) PROVE Left
  BY <1>2, <1>11 DEF Sweep, RunBackup
<1>12. ASSUME Quiet PROVE Left
  BY <1>2, <1>12 DEF Quiet
<1> HIDE DEF Left
<1>13. Left
  <2>1. ASSUME NEW k \in Runs, Work(k) \/ Beat(k) \/ DeleteRun(k) \/ BeatGoesStale(k) \/ Blip(k)
        PROVE  Left
    BY <1>6, <1>7, <1>8, <1>9, <1>10, <2>1 DEF Work
  <2>2. ASSUME NEW r \in Replicas, Create(r) PROVE Left
    BY <1>3, <1>12, <2>2, CreateStarts
  <2> QED BY StepKinds, <1>4, <1>5, <1>11, <1>12, <2>1, <2>2
<1> QED BY <1>1, <1>13 DEF Left, Dead

LEMMA SweptAreDeadStep ==
    ASSUME StagingInv, [Next]_allVars
    PROVE  SweptAreDead'
<1> USE DEF StagingInv, BackupTypeOK
<1>1. ASSUME NEW i \in DeadRuns PROVE i \in Runs /\ (i \in blipped \/ Dead(i))
  BY <1>1 DEF DeadRuns, HasStatus, WorkIsVisible, Dead
<1>2. \A r \in Replicas : listed'[r] \subseteq listed[r] \cup DeadRuns
  <2>1. ASSUME NEW r \in Replicas, Sweep(r) \/ \E t \in Triggers : RunBackup(r, t)
        PROVE  \A q \in Replicas : listed'[q] \subseteq listed[q] \cup DeadRuns
    BY <2>1 DEF Sweep, RunBackup
  <2>2. ASSUME NEW r \in Replicas, NEW i \in Runs, Reclaim(r, i) \/ RequestCancel(r, i)
        PROVE  \A q \in Replicas : listed'[q] \subseteq listed[q] \cup DeadRuns
    BY <2>2 DEF Reclaim, RequestCancel
  <2>3. ASSUME NEW r \in Replicas, Die(r)
        PROVE  \A q \in Replicas : listed'[q] \subseteq listed[q] \cup DeadRuns
    BY <2>3 DEF Die
  <2>4. ASSUME NEW i \in Runs, Work(i) \/ Beat(i) \/ DeleteRun(i) \/ BeatGoesStale(i) \/ Blip(i)
        PROVE  listed' = listed
    BY <2>4 DEF Work, ListOld, Prune, Seal, Publish, RecordSuccess, RecordFailure, CleanUp, Beat,
                DeleteRun, BeatGoesStale, Blip, reclaimVars
  <2>5. ASSUME NEW r \in Replicas, Create(r) PROVE listed' = listed
    BY <2>5 DEF Create, reclaimVars
  <2> QED BY StepKinds, <2>1, <2>2, <2>3, <2>4, <2>5 DEF Quiet
<1>3. blipped \subseteq blipped'
  BY BlippedStep
<1>4. ASSUME NEW r \in Replicas, NEW i \in listed'[r] PROVE i \in blipped' \/ Dead(i)'
  <2>1. i \in Runs /\ (i \in blipped \/ Dead(i))
    BY <1>1, <1>2 DEF SweptAreDead
  <2> QED BY <1>3, <2>1, DeadStaysDead
<1> QED BY <1>4 DEF SweptAreDead

\* Publishing adds one archive, of the run that renames its partial.
LEMMA PublishedStep ==
    ASSUME [Next]_allVars
    PROVE  published' = published \/ \E i \in Runs : Publish(i) /\ published' = published \cup {i}
<1>1. ASSUME NEW i \in Runs, Work(i) \/ Beat(i) \/ DeleteRun(i) \/ BeatGoesStale(i) \/ Blip(i),
             ~Publish(i)
      PROVE  published' = published
  BY <1>1 DEF Work, ListOld, Prune, Seal, RecordSuccess, RecordFailure, CleanUp, Beat,
              DeleteRun, BeatGoesStale, Blip, diskVars
<1>2. ASSUME NEW i \in Runs, Publish(i)
      PROVE  published' = published \/ published' = published \cup {i}
  BY <1>2 DEF Publish
<1>3. ASSUME NEW r \in Replicas,
             \/ Sweep(r) \/ Die(r) \/ Create(r) \/ (\E t \in Triggers : RunBackup(r, t))
             \/ \E i \in Runs : Reclaim(r, i) \/ RequestCancel(r, i)
      PROVE  published' = published
  BY <1>3 DEF Sweep, Die, Create, RunBackup, Reclaim, RequestCancel, diskVars
<1> QED BY StepKinds, <1>1, <1>2, <1>3 DEF Quiet

LEMMA RowsAndArchivesStep ==
    ASSUME StagingInv, [Next]_allVars
    PROVE  RowsAndArchives'
<1> DEFINE Kept(k) == /\ row[k].status = "succeeded" => row[k].filename
                      /\ row[k].filename \/ exec[k].pc = "record" => k \in published
<1>1. /\ BackupTypeOK /\ row \in [Runs -> RunRow] /\ exec \in [Runs -> Execution]
      /\ \A k \in Runs : Kept(k) /\ row[k] \in RunRow /\ exec[k] \in Execution
  BY DEF StagingInv, BackupTypeOK, RowsAndArchives
<1>2. published \subseteq published'
  BY PublishedStep
\* A row that goes on, fails or goes, of a process not about to record.
<1>3. ASSUME NEW k \in Runs, row'[k].status \in {row[k].status, "running", "failed", "deleted"},
             \/ row'[k].filename = row[k].filename
             \/ row'[k].filename = FALSE /\ row'[k].status # "succeeded",
             exec'[k].pc = "record" => exec[k].pc = "record"
      PROVE  Kept(k)'
  BY <1>1, <1>2, <1>3
<1>4. ASSUME NEW i \in Runs, Starts(i), NEW k \in Runs PROVE Kept(k)'
  BY <1>3, <1>4 DEF Starts
<1>5. ASSUME NEW r \in Replicas, Die(r), NEW k \in Runs PROVE Kept(k)'
  BY <1>1, <1>3, <1>5 DEF Die, NoExec
<1>6. ASSUME NEW r \in Replicas, NEW i \in Runs, Reclaim(r, i) \/ RequestCancel(r, i), NEW k \in Runs
      PROVE  Kept(k)'
  BY <1>1, <1>3, <1>6, ReclaimEffect, CancelEffect
<1>7. ASSUME NEW i \in Runs, ListOld(i), NEW k \in Runs PROVE Kept(k)'
  <2>1. row' = row /\ exec'[k].pc \in {exec[k].pc, "prune", "pruneAfter"}
    BY <1>1, <1>7 DEF ListOld, Execution
  <2> QED BY <1>3, <2>1
<1>8. ASSUME NEW i \in Runs, Prune(i), NEW k \in Runs PROVE Kept(k)'
  <2>1. exec'[k].pc \in {exec[k].pc, "dump", "none"}
    BY <1>1, <1>8 DEF Prune, NoExec, Execution
  <2>2. row'[k] = row[k] \/ (row'[k].status = "deleted" /\ row'[k].filename = FALSE)
    BY <1>8 DEF Prune, NoRow
  <2> QED BY <1>3, <2>1, <2>2
<1>9. ASSUME NEW i \in Runs, Beat(i), NEW k \in Runs PROVE Kept(k)'
  <2>1. exec'[k].pc \in {exec[k].pc, "fail"}
    BY <1>1, <1>9 DEF Beat, Go, Execution
  <2>2. row'[k].status = row[k].status /\ row'[k].filename = row[k].filename
    BY <1>1, <1>9 DEF Beat, RunRow
  <2> QED BY <1>3, <2>1, <2>2
<1>10. ASSUME NEW i \in Runs, NEW ok \in BOOLEAN, Seal(i, ok), NEW k \in Runs PROVE Kept(k)'
  <2>1. row' = row /\ exec'[k].pc \in {exec[k].pc, "fail", "rename"}
    BY <1>1, <1>10 DEF Seal, Go, Execution
  <2> QED BY <1>3, <2>1
<1>11. ASSUME NEW i \in Runs, Publish(i), NEW k \in Runs PROVE Kept(k)'
  <2>1. /\ row' = row /\ exec'[k].pc \in {exec[k].pc, "fail", "record"}
        /\ exec'[k].pc = "record" /\ exec[k].pc # "record" => k = i /\ i \in published'
    BY <1>1, <1>11 DEF Publish, Go, Execution
  <2> QED BY <1>1, <1>2, <2>1
<1>12. ASSUME NEW i \in Runs, RecordSuccess(i) \/ RecordFailure(i), NEW k \in Runs PROVE Kept(k)'
  <2>1. CASE k # i
    BY <1>1, <1>3, <1>12, <2>1, RecordEffect
  <2>2. CASE k = i
    <3>1. exec'[i].pc # "record" /\ exec[i].pc \in {"record", "fail"}
      BY <1>1, <1>12, RecordEffect
    <3>2. CASE row'[i].status = "succeeded" /\ row'[i].filename /\ exec[i].pc = "record"
      BY <1>1, <1>2, <2>2, <3>1, <3>2
    <3>3. CASE ~(row'[i].status = "succeeded" /\ row'[i].filename /\ exec[i].pc = "record")
      <4>1. row'[i] = row[i] \/ (row'[i].status = "failed" /\ row'[i].filename = row[i].filename)
        BY <1>1, <1>12, <3>3, RecordEffect
      <4> QED BY <1>3, <2>2, <3>1, <4>1
    <3> QED BY <3>2, <3>3
  <2> QED BY <2>1, <2>2
<1>13. ASSUME NEW i \in Runs, CleanUp(i), NEW k \in Runs PROVE Kept(k)'
  <2>1. row' = row /\ exec'[k].pc \in {exec[k].pc, "none", "retainAfter"}
    BY <1>1, <1>13 DEF CleanUp, NoExec, Execution
  <2> QED BY <1>3, <2>1
<1>14. ASSUME NEW i \in Runs, DeleteRun(i), NEW k \in Runs PROVE Kept(k)'
  <2>1. exec' = exec
    BY <1>14 DEF DeleteRun
  <2>2. row'[k] = row[k] \/ (row'[k].status = "deleted" /\ row'[k].filename = FALSE)
    BY <1>1, <1>14 DEF DeleteRun, NoRow
  <2> QED BY <1>3, <2>1, <2>2
<1>15. ASSUME NEW i \in Runs, BeatGoesStale(i) \/ Blip(i), NEW k \in Runs PROVE Kept(k)'
  <2>1. exec' = exec /\ row'[k].status = row[k].status /\ row'[k].filename = row[k].filename
    BY <1>1, <1>15 DEF BeatGoesStale, Blip, RunRow
  <2> QED BY <1>3, <2>1
<1>16. ASSUME NEW r \in Replicas, Sweep(r) \/ \E t \in Triggers : RunBackup(r, t), NEW k \in Runs
       PROVE  Kept(k)'
  BY <1>3, <1>16 DEF Sweep, RunBackup
<1>17. ASSUME Quiet, NEW k \in Runs PROVE Kept(k)'
  BY <1>3, <1>17 DEF Quiet
<1> HIDE DEF Kept
<1>18. ASSUME NEW k \in Runs PROVE Kept(k)'
  <2>1. ASSUME NEW i \in Runs, Work(i) \/ Beat(i) \/ DeleteRun(i) \/ BeatGoesStale(i) \/ Blip(i)
        PROVE  Kept(k)'
    BY <1>7, <1>8, <1>9, <1>10, <1>11, <1>12, <1>13, <1>14, <1>15, <2>1 DEF Work
  <2>2. ASSUME NEW r \in Replicas, Create(r) PROVE Kept(k)'
    BY <1>1, <1>4, <1>17, <2>2, CreateStarts
  <2> QED BY StepKinds, <1>5, <1>6, <1>16, <1>17, <2>1, <2>2
<1> QED BY <1>18 DEF RowsAndArchives, Kept

-----------------------------------------------------------------------------
(* One stager; a success is kept                                           *)

LEMMA StagingInit == Init => StagingInv
<1> SUFFICES ASSUME Init PROVE StagingInv
  OBVIOUS
<1>1. BackupTypeOK
  BY TypeInit
<1>2. \A i \in Runs : exec[i].pc = "none" /\ exec[i].old = {}
  BY DEF Init, NoExec
<1>3. \A i \in Runs : /\ row[i].status = IF i <= Earlier THEN "succeeded" ELSE "none"
                      /\ row[i].filename <=> i <= Earlier
  BY DEF Init, Ended, NoRow
<1>4. Runs \subseteq Int /\ Earlier \in Int /\ \A i \in Runs : i \in published <=> i <= Earlier
  BY BackupAssumption DEF Init, Runs
<1>5. RowsInOrder
  BY <1>3, <1>4 DEF RowsInOrder
<1>6. WorkIsVisible /\ PrunedAreOver
  BY <1>2 DEF WorkIsVisible, PrunedAreOver, Writing
<1>7. SweptAreDead
  BY DEF Init, SweptAreDead
<1>8. RowsAndArchives
  BY <1>2, <1>3, <1>4 DEF RowsAndArchives
<1> QED BY <1>1, <1>5, <1>6, <1>7, <1>8 DEF StagingInv

LEMMA StagingStep == ASSUME StagingInv, [Next]_allVars PROVE StagingInv'
BY TypeStep, RowsInOrderStep, WorkIsVisibleStep, SweptAreDeadStep, PrunedAreOverStep,
   RowsAndArchivesStep DEF StagingInv

LEMMA StagingInvariant == Spec => []StagingInv
BY StagingInit, StagingStep, PTL DEF Spec

LEMMA OneRuns == ASSUME StagingInv PROVE OneStager
<1> DEFINE S == {i \in Runs \ blipped : exec[i].pc \in Writing}
<1>1. Runs \subseteq Int
  BY BackupAssumption DEF Runs
<1>2. \A i \in S : i \in Runs /\ row[i].status = "running"
  BY DEF StagingInv, WorkIsVisible
<1>3. ASSUME NEW i \in S, NEW j \in S PROVE i = j
  <2>1. i \in Int /\ j \in Int /\ ~(i < j) /\ ~(j < i)
    BY <1>1, <1>2 DEF StagingInv, RowsInOrder
  <2> QED BY <2>1
<1>4. S = {} \/ \E i : S = {i}
  BY <1>3
<1>5. Cardinality(S) = 0 \/ Cardinality(S) = 1
  BY <1>4, FS_EmptySet, FS_Singleton
<1> QED BY <1>5 DEF OneStager

\* One backup is written at a time, but for a run that looked dead: runBackup's
\* count of running rows and the index on them suffice, because a row is taken
\* from its process by a sweep or a deletion only when the process is gone, or
\* when its beats had failed for five minutes.
THEOREM OneBackupAtATime == Spec => []OneStager
BY StagingInvariant, OneRuns, PTL

LEMMA SuccessStep ==
    ASSUME StagingInv, [Next]_allVars
    PROVE  \A i \in Runs : row[i].status = "succeeded" =>
              \/ row'[i].status \in {"succeeded", "deleted"}
              \/ /\ row'[i].status = "failed" /\ row'[i].filename
                 /\ exec[i].pc = "fail" \/ i \in blipped
<1> SUFFICES ASSUME NEW i \in Runs, row[i].status = "succeeded"
             PROVE  \/ row'[i].status \in {"succeeded", "deleted"}
                    \/ /\ row'[i].status = "failed" /\ row'[i].filename
                       /\ exec[i].pc = "fail" \/ i \in blipped
  OBVIOUS
<1> DEFINE Kept   == row'[i].status \in {"succeeded", "deleted"}
           Failed == /\ row'[i].status = "failed" /\ row'[i].filename
                     /\ exec[i].pc = "fail" \/ i \in blipped
<1>1. BackupTypeOK /\ row \in [Runs -> RunRow] /\ row[i].filename
  BY DEF StagingInv, BackupTypeOK, RowsAndArchives
<1>2. ASSUME row'[i].status = row[i].status PROVE Kept
  BY <1>2
<1>3. ASSUME NEW k \in Runs, Starts(k) PROVE Kept
  BY <1>2, <1>3 DEF Starts
<1>4. ASSUME NEW r \in Replicas, NEW k \in Runs, Reclaim(r, k) PROVE Kept \/ Failed
  <2>1. k = i => i \in blipped
    BY <1>1, <1>4, ReclaimEffect DEF StagingInv, SweptAreDead, Dead
  <2> QED BY <1>1, <1>2, <1>4, <2>1, ReclaimEffect
<1>5. ASSUME NEW r \in Replicas, NEW k \in Runs, RequestCancel(r, k) PROVE Kept
  BY <1>1, <1>2, <1>5, CancelEffect
<1>6. ASSUME NEW k \in Runs, RecordSuccess(k) \/ RecordFailure(k) PROVE Kept \/ Failed
  BY <1>1, <1>2, <1>6, RecordEffect
<1>7. ASSUME NEW k \in Runs, Prune(k) \/ DeleteRun(k) PROVE Kept
  BY <1>1, <1>2, <1>7 DEF Prune, DeleteRun, NoRow
<1>8. ASSUME NEW k \in Runs, Beat(k) \/ BeatGoesStale(k) \/ Blip(k) PROVE Kept
  BY <1>1, <1>2, <1>8 DEF Beat, BeatGoesStale, Blip, RunRow
<1>9. ASSUME NEW k \in Runs,
             ListOld(k) \/ (\E ok \in BOOLEAN : Seal(k, ok)) \/ Publish(k) \/ CleanUp(k)
      PROVE  Kept
  BY <1>2, <1>9 DEF ListOld, Seal, Publish, CleanUp
<1>10. ASSUME NEW r \in Replicas, Sweep(r) \/ Die(r) \/ \E t \in Triggers : RunBackup(r, t)
       PROVE  Kept
  BY <1>2, <1>10 DEF Sweep, Die, RunBackup
<1>11. ASSUME Quiet PROVE Kept
  BY <1>2, <1>11 DEF Quiet
<1> HIDE DEF Kept, Failed
<1>12. Kept \/ Failed
  <2>1. ASSUME NEW k \in Runs, Work(k) \/ Beat(k) \/ DeleteRun(k) \/ BeatGoesStale(k) \/ Blip(k)
        PROVE  Kept \/ Failed
    BY <1>6, <1>7, <1>8, <1>9, <2>1 DEF Work
  <2>2. ASSUME NEW r \in Replicas, Create(r) PROVE Kept
    BY <1>1, <1>3, <1>11, <2>2, CreateStarts
  <2> QED BY StepKinds, <1>4, <1>5, <1>10, <1>11, <2>1, <2>2
<1> QED BY <1>12 DEF Kept, Failed

\* Who fails a run the page shows as succeeded: its own process, in the catch after
\* a success that got no answer, and a reclaim that listed it when its beats had
\* failed for five minutes.  reclaimDeadRun and the catch write without looking at
\* the status, and neither forgets the archive.
THEOREM SuccessesAreKept == Spec => SuccessIsKept
<1> DEFINE Stands == \A i \in Runs : row[i].status = "succeeded" =>
                        \/ row'[i].status \in {"succeeded", "deleted"}
                        \/ /\ row'[i].status = "failed" /\ row'[i].filename
                           /\ exec[i].pc = "fail" \/ i \in blipped
<1>1. StagingInv /\ [Next]_allVars => [Stands]_allVars
  BY SuccessStep
<1> QED BY StagingInvariant, <1>1, PTL DEF Spec, SuccessIsKept

-----------------------------------------------------------------------------
(* The newest archive is kept                                              *)

\* Whatever a pruning has listed, a newer archive was published.
PrunedAreOutdone == \A i \in Runs : \A j \in exec[i].old : \E k \in published : k > j

ArchiveInv == StagingInv /\ PrunedAreOutdone /\ NewestKept

LEMMA ArchiveInit == Init => ArchiveInv
<1> SUFFICES ASSUME Init PROVE ArchiveInv
  OBVIOUS
<1>1. StagingInv
  BY StagingInit
<1>2. \A i \in Runs : exec[i].old = {}
  BY DEF Init, NoExec
<1>3. PrunedAreOutdone
  BY <1>2 DEF PrunedAreOutdone
<1>4. archives = published /\ published \subseteq Runs
  BY BackupAssumption DEF Init, Runs
<1>5. NewestKept
  BY <1>4, MaxOfRuns DEF NewestKept
<1> QED BY <1>1, <1>3, <1>5 DEF ArchiveInv

LEMMA PrunedAreOutdoneStep ==
    ASSUME ArchiveInv, [Next]_allVars
    PROVE  PrunedAreOutdone'
<1>1. exec \in [Runs -> Execution] /\ \A k \in Runs : exec[k] \in Execution
  BY DEF ArchiveInv, StagingInv, BackupTypeOK
<1>2. published \subseteq published'
  BY PublishedStep
<1>3. ASSUME NEW k \in Runs, exec'[k].old \subseteq exec[k].old
      PROVE  \A j \in exec'[k].old : \E n \in published' : n > j
  BY <1>2, <1>3 DEF ArchiveInv, PrunedAreOutdone
<1>4. ASSUME NEW i \in Runs, ListOld(i)
      PROVE  \A j \in exec'[i].old : \E n \in published' : n > j
  <2> DEFINE S == Beyond(HasStatus("succeeded"), Cap(ReserveAt(exec[i].pc)))
  <2>1. exec' = [exec EXCEPT ![i].old = S, ![i].pc = IF @ = "retain" THEN "prune" ELSE "pruneAfter"]
    BY <1>4 DEF ListOld
  <2>2. \A j \in S : \E n \in published : n > j
    <3>1. HasStatus("succeeded") \in SUBSET Runs /\ HasStatus("succeeded") \subseteq published
      BY DEF HasStatus, ArchiveInv, StagingInv, RowsAndArchives
    <3>2. ReserveAt(exec[i].pc) \in {0, 1}
      BY DEF ReserveAt
    <3>3. ASSUME NEW j \in S PROVE \E n \in HasStatus("succeeded") : n > j
      <4> HIDE DEF HasStatus
      <4> QED BY <3>1, <3>2, <3>3, BeyondIsOutdone
    <3> QED BY <3>1, <3>3
  <2> HIDE DEF S
  <2>3. exec'[i].old = S
    BY <1>1, <2>1 DEF Execution
  <2> QED BY <1>2, <2>2, <2>3
<1>5. ASSUME NEW i \in Runs, ListOld(i), NEW k \in Runs, k # i PROVE exec'[k] = exec[k]
  BY <1>1, <1>5 DEF ListOld
<1>6. CASE \A k \in Runs : exec'[k].old \subseteq exec[k].old
  BY <1>3, <1>6 DEF PrunedAreOutdone
<1>7. CASE \E i \in Runs : ListOld(i)
  BY <1>3, <1>4, <1>5, <1>7 DEF PrunedAreOutdone
<1> QED BY OldSets, <1>6, <1>7 DEF ArchiveInv, StagingInv

\* What is published is the newest, or leaves the newest where it is.
LEMMA NewestKeptStep ==
    ASSUME ArchiveInv, [Next]_allVars, ~ArchivesDeleted
    PROVE  NewestKept'
<1>1. /\ archives \subseteq published /\ published \subseteq Runs /\ Runs \subseteq Int
      /\ row \in [Runs -> RunRow]
  BY BackupAssumption DEF ArchiveInv, StagingInv, BackupTypeOK, Runs
<1>2. CASE UNCHANGED <<archives, published>>
  BY <1>2 DEF ArchiveInv, NewestKept
<1>3. ASSUME NEW i \in Runs, Prune(i) PROVE NewestKept'
  <2> DEFINE gone  == {j \in exec[i].old : Exists(j)}
             files == archives \ {j \in gone : row[j].filename}
             m == Max(published)
  <2>1. archives' = files \ Beyond(files, Cap(ReserveAt(exec[i].pc))) /\ published' = published
    BY <1>3 DEF Prune
  <2>2. ASSUME published # {} PROVE m \in archives'
    <3>1. m \in published /\ \A j \in published : j <= m
      BY <1>1, <2>2, MaxOfRuns
    <3>2. m \in archives
      BY <2>2 DEF ArchiveInv, NewestKept
    <3>3. m \notin exec[i].old
      <4>1. ASSUME NEW n \in published PROVE ~(n > m)
        <5>1. n \in Int /\ m \in Int /\ n <= m
          BY <1>1, <3>1
        <5> QED BY <5>1
      <4> QED BY <4>1 DEF ArchiveInv, PrunedAreOutdone
    <3>4. m \in files
      BY <3>2, <3>3
    <3>5. m \notin Beyond(files, Cap(ReserveAt(exec[i].pc)))
      <4>1. ReserveAt(exec[i].pc) \in {0, 1} /\ files \in SUBSET Runs
        BY <1>1 DEF ReserveAt
      <4>2. ASSUME NEW n \in files PROVE ~(n > m)
        <5>1. n \in Int /\ m \in Int /\ n <= m
          BY <1>1, <3>1
        <5> QED BY <5>1
      <4> HIDE DEF files, m
      <4> QED BY <4>1, <4>2, BeyondIsOutdone
    <3> QED BY <2>1, <3>4, <3>5
  <2> QED BY <2>1, <2>2 DEF NewestKept
<1>4. ASSUME NEW i \in Runs, Publish(i) PROVE NewestKept'
  <2>1. CASE i \in staged
    <3>1. archives' = archives \cup {i} /\ published' = published \cup {i}
      BY <1>4, <2>1 DEF Publish
    <3> DEFINE m == Max(published')
    <3>2. m \in published \cup {i} /\ \A j \in published \cup {i} : j <= m
      BY <1>1, <3>1, MaxOfRuns
    <3>3. CASE m = i
      BY <3>1, <3>3 DEF NewestKept
    <3>4. CASE m # i
      <4>1. m \in published /\ Max(published) \in published /\ m <= Max(published)
        BY <1>1, <3>2, <3>4, MaxOfRuns
      <4>2. m = Max(published)
        <5>1. m \in Int /\ Max(published) \in Int /\ Max(published) <= m
          BY <1>1, <3>2, <4>1
        <5> HIDE DEF m
        <5> QED BY <4>1, <5>1
      <4>3. m \in archives
        BY <4>1, <4>2 DEF ArchiveInv, NewestKept
      <4> QED BY <3>1, <4>3 DEF NewestKept
    <3> QED BY <3>3, <3>4
  <2>2. CASE i \notin staged
    BY <1>2, <1>4, <2>2 DEF Publish
  <2> QED BY <2>1, <2>2
<1>5. ASSUME NEW i \in Runs, DeleteRun(i) PROVE UNCHANGED <<archives, published>>
  BY <1>5 DEF DeleteRun
<1>6. ASSUME NEW i \in Runs, Work(i) \/ Beat(i) \/ BeatGoesStale(i) \/ Blip(i), ~Prune(i), ~Publish(i)
      PROVE  UNCHANGED <<archives, published>>
  BY <1>6 DEF Work, ListOld, Seal, RecordSuccess, RecordFailure, CleanUp, Beat, BeatGoesStale, Blip,
              diskVars
<1>7. ASSUME NEW r \in Replicas,
             \/ Sweep(r) \/ Die(r) \/ Create(r) \/ (\E t \in Triggers : RunBackup(r, t))
             \/ \E i \in Runs : Reclaim(r, i) \/ RequestCancel(r, i)
      PROVE  UNCHANGED <<archives, published>>
  BY <1>7 DEF Sweep, Die, Create, RunBackup, Reclaim, RequestCancel, diskVars
<1> QED BY StepKinds, <1>2, <1>3, <1>4, <1>5, <1>6, <1>7 DEF Quiet

LEMMA ArchiveStep ==
    ASSUME ArchiveInv, [Next]_allVars, ~ArchivesDeleted
    PROVE  ArchiveInv'
BY StagingStep, PrunedAreOutdoneStep, NewestKeptStep DEF ArchiveInv

\* Pruning never takes the newest archive that was ever published, however it
\* races a run, a reclaim or another pruning (enforceRetention, and the same cap
\* again over the files): what it has listed was outdone when it was listed, and
\* publishing only moves the newest on.  As long as no admin deletes a run whose
\* row names an archive.
THEOREM NewestArchiveIsKept == ~ArchivesDeleted => (Spec => []NewestKept)
<1> SUFFICES ASSUME ~ArchivesDeleted PROVE Spec => []NewestKept
  OBVIOUS
<1>1. ArchiveInv => NewestKept
  BY DEF ArchiveInv
<1> QED BY ArchiveInit, ArchiveStep, <1>1, PTL DEF Spec

-----------------------------------------------------------------------------
(* Runs as jobs: the refinement of JobLifecycle                            *)

Early == {"retain", "prune", "dump", "rename"}

\* An archive is published by its own run, between the rename and the record of
\* it: not before, and not of a run that has no row.
PublishedInTime ==
    \A i \in Runs :
        /\ row[i].status = "none" => exec[i].pc = "none" /\ i \notin published
        /\ exec[i].pc \in Early => i \notin published
        /\ exec[i].pc = "record" => i \in published

LifeInv == BackupTypeOK /\ PublishedInTime

\* A process that writes goes on, or is on its way out.
Advances(k) ==
    /\ exec[k].pc = "none" => exec'[k].pc = "none"
    /\ \/ exec'[k].pc \in {exec[k].pc, "none", "fail", "clean", "retainAfter", "pruneAfter"}
       \/ exec[k].pc \in Early /\ exec'[k].pc \in Early

\* A run starts, an archive is published, or each process goes on.
LEMMA ExecStep ==
    ASSUME BackupTypeOK, [Next]_allVars
    PROVE  \/ \E i \in Runs : Starts(i)
           \/ \E i \in Runs : Publish(i) /\ i \in staged
           \/ published' = published /\ \A k \in Runs : Advances(k)
<1> DEFINE On == published' = published /\ \A k \in Runs : Advances(k)
<1>1. exec \in [Runs -> Execution] /\ \A i \in Runs : exec[i] \in Execution
  BY DEF BackupTypeOK
<1>2. ASSUME UNCHANGED <<exec, published>> PROVE On
  BY <1>2 DEF Advances
<1>3. ASSUME NEW i \in Runs, published' = published,
             \A k \in Runs \ {i} : exec'[k] = exec[k], Advances(i)
      PROVE  On
  BY <1>3 DEF Advances
<1>4. ASSUME NEW i \in Runs, NEW pc, Go(i, pc)
      PROVE  exec'[i].pc = pc /\ \A k \in Runs \ {i} : exec'[k] = exec[k]
  BY <1>1, <1>4 DEF Go, Execution
<1>5. NoExec.pc = "none"
  BY DEF NoExec
<1>6. ASSUME NEW i \in Runs, ListOld(i) PROVE On
  <2> DEFINE S == Beyond(HasStatus("succeeded"), Cap(ReserveAt(exec[i].pc)))
  <2>1. exec' = [exec EXCEPT ![i].old = S, ![i].pc = IF @ = "retain" THEN "prune" ELSE "pruneAfter"]
    BY <1>6 DEF ListOld
  <2> HIDE DEF S
  <2>2. /\ exec'[i].pc = IF exec[i].pc = "retain" THEN "prune" ELSE "pruneAfter"
        /\ \A k \in Runs \ {i} : exec'[k] = exec[k]
    BY <1>1, <2>1 DEF Execution
  <2>3. exec[i].pc \in {"retain", "retainAfter"} /\ published' = published
    BY <1>6 DEF ListOld, diskVars
  <2>4. Advances(i)
    BY <2>2, <2>3 DEF Advances, Early
  <2> QED BY <1>3, <2>2, <2>3, <2>4
<1>7. ASSUME NEW i \in Runs, Prune(i) PROVE On
  <2>1. /\ exec[i].pc \in {"prune", "pruneAfter"} /\ published' = published
        /\ exec' = [exec EXCEPT ![i] = IF exec[i].pc = "prune"
                                       THEN [@ EXCEPT !.pc = "dump", !.old = {}] ELSE NoExec]
    BY <1>7 DEF Prune
  <2>2. /\ exec'[i].pc = IF exec[i].pc = "prune" THEN "dump" ELSE "none"
        /\ \A k \in Runs \ {i} : exec'[k] = exec[k]
    BY <1>1, <1>5, <2>1 DEF Execution
  <2>3. Advances(i)
    BY <2>1, <2>2 DEF Advances, Early
  <2> QED BY <1>3, <2>1, <2>2, <2>3
<1>8. ASSUME NEW i \in Runs, CleanUp(i) PROVE On
  <2>1. /\ exec[i].pc = "clean" /\ published' = published
        /\ exec' = [exec EXCEPT ![i] = IF exec[i].trigger = "scheduled"
                                       THEN [@ EXCEPT !.pc = "retainAfter"] ELSE NoExec]
    BY <1>8 DEF CleanUp
  <2>2. /\ exec'[i].pc \in {"retainAfter", "none"}
        /\ \A k \in Runs \ {i} : exec'[k] = exec[k]
    BY <1>1, <1>5, <2>1 DEF Execution
  <2>3. Advances(i)
    BY <2>1, <2>2 DEF Advances
  <2> QED BY <1>3, <2>1, <2>2, <2>3
<1>9. ASSUME NEW i \in Runs, Beat(i) \/ (\E ok \in BOOLEAN : Seal(i, ok)) PROVE On
  <2>1. PICK pc : /\ Go(i, pc) /\ published' = published
                  /\ exec[i].pc # "none"
                  /\ pc \in {exec[i].pc, "fail"} \/ (exec[i].pc = "dump" /\ pc = "rename")
    BY <1>9 DEF Beat, Seal, diskVars
  <2>2. exec'[i].pc = pc /\ \A k \in Runs \ {i} : exec'[k] = exec[k]
    BY <1>4, <2>1
  <2>3. Advances(i)
    BY <2>1, <2>2 DEF Advances, Early
  <2> QED BY <1>3, <2>1, <2>2, <2>3
<1>10. ASSUME NEW i \in Runs, (Publish(i) /\ i \notin staged) \/ RecordSuccess(i) \/ RecordFailure(i)
       PROVE  On
  <2>1. PICK pc : /\ Go(i, pc) /\ published' = published
                  /\ exec[i].pc # "none" /\ pc \in {"fail", "clean"}
    BY <1>10 DEF Publish, RecordSuccess, RecordFailure, diskVars
  <2>2. exec'[i].pc = pc /\ \A k \in Runs \ {i} : exec'[k] = exec[k]
    BY <1>4, <2>1
  <2>3. Advances(i)
    BY <2>1, <2>2 DEF Advances
  <2> QED BY <1>3, <2>1, <2>2, <2>3
<1>11. ASSUME NEW r \in Replicas, Die(r) PROVE On
  <2>1. published' = published /\ \A k \in Runs : exec'[k] = NoExec \/ exec'[k] = exec[k]
    BY <1>11 DEF Die, diskVars
  <2> QED BY <1>5, <2>1 DEF Advances
<1>12. ASSUME NEW i \in Runs, DeleteRun(i) \/ BeatGoesStale(i) \/ Blip(i)
       PROVE  UNCHANGED <<exec, published>>
  BY <1>12 DEF DeleteRun, BeatGoesStale, Blip, diskVars
<1>13. ASSUME NEW r \in Replicas,
              \/ Sweep(r) \/ (\E t \in Triggers : RunBackup(r, t))
              \/ \E i \in Runs : Reclaim(r, i) \/ RequestCancel(r, i)
       PROVE  UNCHANGED <<exec, published>>
  BY <1>13 DEF Sweep, RunBackup, Reclaim, RequestCancel, diskVars
<1> HIDE DEF On
<1>14. \/ \E i \in Runs : Starts(i)
       \/ \E i \in Runs : Publish(i) /\ i \in staged
       \/ On
  BY StepKinds, CreateStarts, <1>2, <1>6, <1>7, <1>8, <1>9, <1>10, <1>11, <1>12, <1>13
     DEF Work, Quiet
<1> QED BY <1>14 DEF On

LEMMA LifeInit == Init => LifeInv
<1> SUFFICES ASSUME Init PROVE LifeInv
  OBVIOUS
<1>1. \A i \in Runs : /\ exec[i].pc = "none"
                      /\ row[i].status = "none" => ~(i <= Earlier)
                      /\ i \in published => i <= Earlier
  BY BackupAssumption DEF Init, NoExec, Ended, NoRow, Runs
<1> QED BY <1>1, TypeInit DEF LifeInv, PublishedInTime, Early

LEMMA PublishEffect ==
    ASSUME BackupTypeOK, NEW i \in Runs, Publish(i), i \in staged
    PROVE  /\ row' = row /\ published' = published \cup {i}
           /\ exec[i].pc = "rename" /\ exec'[i].pc = "record"
           /\ \A k \in Runs \ {i} : exec'[k] = exec[k]
<1>1. exec \in [Runs -> Execution] /\ Go(i, "record")
  BY DEF BackupTypeOK, Publish
<1> QED BY <1>1 DEF Publish, Go, Execution

LEMMA LifeStep == LifeInv /\ [Next]_allVars => LifeInv'
<1> SUFFICES ASSUME LifeInv, [Next]_allVars PROVE LifeInv'
  OBVIOUS
<1>1. BackupTypeOK /\ BackupTypeOK'
  BY TypeStep DEF LifeInv
<1>2. ASSUME NEW i \in Runs, Starts(i) PROVE PublishedInTime'
  BY <1>2 DEF LifeInv, PublishedInTime, Starts, Early
<1>3. ASSUME NEW i \in Runs, Publish(i), i \in staged PROVE PublishedInTime'
  <2>1. /\ row' = row /\ published' = published \cup {i}
        /\ exec[i].pc = "rename" /\ exec'[i].pc = "record"
        /\ \A k \in Runs \ {i} : exec'[k] = exec[k]
    BY <1>1, <1>3, PublishEffect
  <2> QED BY <2>1 DEF LifeInv, PublishedInTime, Early
<1>4. ASSUME published' = published, \A k \in Runs : Advances(k), Settles PROVE PublishedInTime'
  <2>1. \A k \in Runs : row'[k].status = "none" <=> row[k].status = "none"
    BY <1>4 DEF Settles, Over
  <2> QED BY <1>4, <2>1 DEF LifeInv, PublishedInTime, Advances, Early
<1> QED BY <1>1, <1>2, <1>3, <1>4, ExecStep, StatusStep DEF LifeInv

\* Some runs end, or nothing that a job promises changes.
LEMMA CloseMaps ==
    ASSUME Settles, published' = published,
           \A i \in Runs : row'[i].status = "succeeded" /\ row[i].status # "succeeded"
              => i \in published
    PROVE  [Lifecycle!Next]_(Lifecycle!vars)
<1>0. \E js \in SUBSET NewRuns, ok \in SUBSET NewRuns :
         /\ js = {i \in NewRuns : row'[i].status # row[i].status}
         /\ ok = {i \in js : row'[i].status = "succeeded"}
  OBVIOUS
<1> PICK js \in SUBSET NewRuns, ok \in SUBSET NewRuns :
         /\ js = {i \in NewRuns : row'[i].status # row[i].status}
         /\ ok = {i \in js : row'[i].status = "succeeded"}
  BY <1>0
<1>1. /\ NewRuns \subseteq Runs
      /\ \A i \in NewRuns : i \in js => row[i].status # "none" /\ row'[i].status \in Over
      /\ \A i \in NewRuns : i \notin js => row'[i].status = row[i].status
      /\ ok \in SUBSET js /\ js \in SUBSET NewRuns
  BY DEF NewRuns, Settles
<1>2. \A i \in ok : i \in published /\ i \in NewRuns
  BY <1>1
<1>3. [i \in NewRuns |-> IF i \in published THEN 1 ELSE 0]'
         = [i \in NewRuns |-> IF i \in published THEN 1 ELSE 0]
  OBVIOUS
<1>4. {i \in NewRuns : row[i].status # "none"}' = {i \in NewRuns : row[i].status # "none"}
  BY <1>1 DEF Over
<1>5. {i \in NewRuns : row[i].status = "succeeded"}'
         = ({i \in NewRuns : row[i].status = "succeeded"} \ js) \cup ok
  BY <1>1
<1>6. \A i \in NewRuns : /\ Phase(i)' = IF i \in js THEN "over" ELSE Phase(i)
                         /\ i \in js => Phase(i) # "absent"
  BY <1>1 DEF Phase, Over
<1>7. CASE js = {}
  <2>1. ok = {}
    BY <1>1, <1>7
  <2>2. [i \in NewRuns |-> Phase(i)]' = [i \in NewRuns |-> Phase(i)]
    BY <1>6, <1>7
  <2>3. {i \in NewRuns : row[i].status = "succeeded"}'
           = {i \in NewRuns : row[i].status = "succeeded"}
    BY <1>5, <1>7, <2>1
  <2> QED BY <1>3, <1>4, <2>2, <2>3 DEF Lifecycle!vars
<1>8. CASE js # {}
  <2>1. /\ \A i \in js : [j \in NewRuns |-> Phase(j)][i] # "absent"
        /\ \A i \in ok : [j \in NewRuns |-> IF j \in published THEN 1 ELSE 0][i] = 1
    BY <1>1, <1>2, <1>6
  <2>2. [i \in NewRuns |-> Phase(i)]' =
           [i \in NewRuns |-> IF i \in js THEN "over" ELSE [j \in NewRuns |-> Phase(j)][i]]
    BY <1>6
  <2>3. Lifecycle!Close(js, ok)
    BY <1>3, <1>4, <1>5, <1>8, <2>1, <2>2 DEF Lifecycle!Close
  <2> QED BY <1>1, <2>3 DEF Lifecycle!Next
<1> QED BY <1>7, <1>8

\* A row is born running.
LEMMA StartMaps ==
    ASSUME NEW i \in Runs, Starts(i)
    PROVE  [Lifecycle!Next]_(Lifecycle!vars)
<1>1. /\ row[i].status = "none" /\ row'[i].status = "running" /\ published' = published
      /\ \A j \in Runs \ {i} : row'[j] = row[j]
      /\ NewRuns \subseteq Runs
  BY DEF Starts, NewRuns
<1>2. \A j \in NewRuns \ {i} : Phase(j)' = Phase(j)
  BY <1>1 DEF Phase
<1>3. {j \in NewRuns : row[j].status = "succeeded"}' = {j \in NewRuns : row[j].status = "succeeded"}
  BY <1>1
<1>4. [j \in NewRuns |-> IF j \in published THEN 1 ELSE 0]'
         = [j \in NewRuns |-> IF j \in published THEN 1 ELSE 0]
  BY <1>1
<1>5. CASE i \notin NewRuns
  <2>1. /\ {j \in NewRuns : row[j].status # "none"}' = {j \in NewRuns : row[j].status # "none"}
        /\ [j \in NewRuns |-> Phase(j)]' = [j \in NewRuns |-> Phase(j)]
    BY <1>1, <1>2, <1>5
  <2> QED BY <1>3, <1>4, <2>1 DEF Lifecycle!vars
<1>6. CASE i \in NewRuns
  <2>1. Phase(i) = "absent" /\ Phase(i)' = "taken"
    BY <1>1 DEF Phase
  <2>2. [j \in NewRuns |-> Phase(j)]' = [[j \in NewRuns |-> Phase(j)] EXCEPT ![i] = "taken"]
    BY <1>2, <1>6, <2>1
  <2>3. /\ i \notin {j \in NewRuns : row[j].status # "none"}
        /\ {j \in NewRuns : row[j].status # "none"}'
              = {j \in NewRuns : row[j].status # "none"} \cup {i}
    BY <1>1, <1>6
  <2>4. [j \in NewRuns |-> Phase(j)][i] = "absent"
    BY <1>6, <2>1
  <2>5. Lifecycle!Start(i)
    BY <1>3, <1>4, <2>2, <2>3, <2>4 DEF Lifecycle!Start
  <2> QED BY <1>6, <2>5 DEF Lifecycle!Next
<1> QED BY <1>5, <1>6

\* A run's archive is published, once.
LEMMA PublishMaps ==
    ASSUME LifeInv, NEW i \in Runs, Publish(i), i \in staged
    PROVE  [Lifecycle!Next]_(Lifecycle!vars)
<1>1. /\ row' = row /\ published' = published \cup {i}
      /\ exec[i].pc = "rename"
  BY PublishEffect DEF LifeInv
<1>2. i \notin published /\ row[i].status # "none"
  BY <1>1 DEF LifeInv, PublishedInTime, Early
<1> DEFINE applied == [j \in NewRuns |-> IF j \in published THEN 1 ELSE 0]
<1>3. \A j \in NewRuns : Phase(j)' = Phase(j)
  BY <1>1 DEF Phase
<1>4. /\ [j \in NewRuns |-> Phase(j)]' = [j \in NewRuns |-> Phase(j)]
      /\ {j \in NewRuns : row[j].status # "none"}' = {j \in NewRuns : row[j].status # "none"}
      /\ {j \in NewRuns : row[j].status = "succeeded"}' = {j \in NewRuns : row[j].status = "succeeded"}
  BY <1>1, <1>3
<1>5. CASE i \notin NewRuns
  <2>1. applied' = applied
    BY <1>1, <1>5
  <2> QED BY <1>4, <2>1 DEF Lifecycle!vars
<1>6. CASE i \in NewRuns
  <2>1. applied' = [applied EXCEPT ![i] = 1] /\ applied[i] = 0
    BY <1>1, <1>2, <1>6
  <2>2. i \in {j \in NewRuns : row[j].status # "none"}
    BY <1>2, <1>6
  <2>3. Lifecycle!Apply(i)
    BY <1>4, <2>1, <2>2 DEF Lifecycle!Apply
  <2> QED BY <1>6, <2>3 DEF Lifecycle!Next
<1> QED BY <1>5, <1>6

\* A row turns into a success only when its process records what it published.
LEMMA SuccessIsPublished ==
    ASSUME LifeInv, [Next]_allVars, Settles, NEW i \in Runs,
           row'[i].status = "succeeded", row[i].status # "succeeded"
    PROVE  i \in published
<1>1. /\ row \in [Runs -> RunRow] /\ \A k \in Runs : row[k] \in RunRow
      /\ BackupTypeOK
  BY DEF LifeInv, BackupTypeOK
<1>2. row' # row
  OBVIOUS
<1>3. ASSUME NEW r \in Replicas, NEW k \in Runs, Reclaim(r, k) \/ RequestCancel(r, k) PROVE FALSE
  BY <1>1, <1>3, ReclaimEffect, CancelEffect
<1>4. ASSUME NEW k \in Runs, Prune(k) \/ DeleteRun(k) PROVE FALSE
  BY <1>1, <1>4 DEF Prune, DeleteRun, NoRow
<1>5. ASSUME NEW k \in Runs, Beat(k) \/ BeatGoesStale(k) \/ Blip(k) PROVE FALSE
  BY <1>1, <1>5 DEF Beat, BeatGoesStale, Blip, RunRow
<1>6. ASSUME NEW k \in Runs,
             ListOld(k) \/ (\E ok \in BOOLEAN : Seal(k, ok)) \/ Publish(k) \/ CleanUp(k)
      PROVE  FALSE
  BY <1>2, <1>6 DEF ListOld, Seal, Publish, CleanUp
<1>7. ASSUME NEW r \in Replicas, Sweep(r) \/ Die(r) \/ \E t \in Triggers : RunBackup(r, t)
      PROVE  FALSE
  BY <1>2, <1>7 DEF Sweep, Die, RunBackup
<1>8. ASSUME NEW r \in Replicas, Create(r) PROVE FALSE
  <2>1. ~Quiet
    BY <1>2 DEF Quiet
  <2>2. ASSUME NEW k \in Runs, Starts(k) PROVE FALSE
    BY <2>2 DEF Starts, Settles, Over
  <2> QED BY <1>1, <1>8, <2>1, <2>2, CreateStarts
<1>9. ASSUME NEW k \in Runs, RecordSuccess(k) \/ RecordFailure(k) PROVE i \in published
  <2>1. /\ k # i => row'[i] = row[i]
        /\ \/ row'[k] = row[k]
           \/ exec[k].pc = "record"
           \/ row'[k].status = "failed"
    BY <1>1, <1>9, RecordEffect
  <2>2. k = i /\ exec[i].pc = "record"
    BY <1>2, <2>1
  <2> QED BY <2>2 DEF LifeInv, PublishedInTime
<1> QED BY StepKinds, <1>2, <1>3, <1>4, <1>5, <1>6, <1>7, <1>8, <1>9 DEF Work, Quiet

\* Backups keep the promises of a job row: begun once, published at most once
\* and by the run itself, a success only if published, whatever sweeps, deletions,
\* prunings and deaths come between (backup.service.ts runBackup).
THEOREM BackupsKeepLifecycle == Spec => KeepsLifecycle
<1>1. Init => Lifecycle!Init
  <2> SUFFICES ASSUME Init PROVE Lifecycle!Init
    OBVIOUS
  <2>1. \A i \in NewRuns : i \in Runs /\ row[i].status = "none" /\ i \notin published
    <3>1. \A i \in NewRuns : i \in Runs /\ ~(i <= Earlier) /\ i \notin 1..Earlier
      BY BackupAssumption DEF NewRuns, Runs
    <3> QED BY <3>1 DEF Init, NoRow
  <2>2. \A i \in NewRuns : Phase(i) = "absent"
    BY <2>1 DEF Phase
  <2>3. /\ {i \in NewRuns : row[i].status # "none"} = {}
        /\ {i \in NewRuns : row[i].status = "succeeded"} = {}
        /\ [i \in NewRuns |-> Phase(i)] = [i \in NewRuns |-> "absent"]
        /\ [i \in NewRuns |-> IF i \in published THEN 1 ELSE 0] = [i \in NewRuns |-> 0]
    BY <2>1, <2>2
  <2> QED BY <2>3 DEF Lifecycle!Init
<1>2. LifeInv /\ [Next]_allVars => [Lifecycle!Next]_(Lifecycle!vars)
  <2> SUFFICES ASSUME LifeInv, [Next]_allVars PROVE [Lifecycle!Next]_(Lifecycle!vars)
    OBVIOUS
  <2>1. ASSUME published' = published, Settles PROVE [Lifecycle!Next]_(Lifecycle!vars)
    BY <2>1, SuccessIsPublished, CloseMaps
  <2> QED BY <2>1, ExecStep, StatusStep, StartMaps, PublishMaps DEF LifeInv
<1>3. Init => LifeInv
  BY LifeInit
<1>4. LifeInv /\ [Next]_allVars => LifeInv'
  BY LifeStep
<1> QED BY <1>1, <1>2, <1>3, <1>4, PTL DEF Spec, KeepsLifecycle, Lifecycle!Spec
=============================================================================
