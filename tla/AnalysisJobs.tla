---------------------------- MODULE AnalysisJobs ----------------------------
(***************************************************************************)
(* Analyses over the import queue: the rows of table analysis_job, the     *)
(* python workers that compute them, and the bridge in each portal-worker  *)
(* that turns a finished vector result into an import job and mirrors its  *)
(* end back.  A raster result is published by the python worker itself.    *)
(***************************************************************************)
EXTENDS ImportJobs, FiniteSets

CONSTANTS Analyses,      \* analyses that may be asked for
          Kinds,         \* subset of AllKinds
          Runners,       \* python workers
          Bridges        \* portal-worker replicas, as bridges

NoAnalysis == "no analysis"
AllKinds == {"vector", "raster"}

ASSUME AnalysisAssumption ==
    Kinds \subseteq AllKinds /\ NoAnalysis \notin Analyses

VARIABLES analysis,      \* table analysis_job
          runner,        \* the main loop of each python worker
          bridge,        \* the tick of each bridge
          asked,         \* history: analyses whose cancel was accepted while running
          imports        \* history: the import jobs enqueued for each analysis

avars == <<analysis, runner, bridge, asked, imports>>
allvars == <<avars, ivars>>

Resting == [pc |-> "idle", of |-> NoAnalysis, imp |-> NoJob]

States == {"none", "queued", "running", "cancel_requested", "ingest", "importing",
           "done", "failed", "cancelled"}
AnalysisRow == [state : States, kind : AllKinds,
                importJobId : Jobs \cup {NoJob}, stale : BOOLEAN]
RunnerLoop == [pc : {"idle", "working", "unwinding"},
               of : Analyses \cup {NoAnalysis}, imp : {NoJob}]
BridgeTick == [pc : {"idle", "claiming", "staging", "linking"},
               of : Analyses \cup {NoAnalysis}, imp : Jobs \cup {NoJob}]

AnalysisTypeOK ==
    /\ TypeOK
    /\ analysis \in [Analyses -> AnalysisRow]
    /\ runner \in [Runners -> RunnerLoop]
    /\ bridge \in [Bridges -> BridgeTick]
    /\ asked \subseteq Analyses
    /\ imports \in [Analyses -> SUBSET Jobs]

AnalysisInit ==
    /\ Init
    /\ analysis = [a \in Analyses |-> [state |-> "none", kind |-> "vector",
                                       importJobId |-> NoJob, stale |-> FALSE]]
    /\ runner = [r \in Runners |-> Resting]
    /\ bridge = [b \in Bridges |-> Resting]
    /\ asked = {}
    /\ imports = [a \in Analyses |-> {}]

State(a) == analysis[a].state
Ended(a) == State(a) \in {"done", "failed", "cancelled"}
SetState(a, s) == analysis' = [analysis EXCEPT ![a].state = s]

(***************************************************************************)
(* The API: an analysis is asked for and cancelled.                        *)
(***************************************************************************)
CreateAnalysis(a, k) ==
    /\ State(a) = "none"
    /\ analysis' = [analysis EXCEPT ![a].state = "queued", ![a].kind = k]
    /\ UNCHANGED <<runner, bridge, asked, imports, ivars>>

\* cancelJob: two conditional updates, of which at most one matches.
CancelJob(a) ==
    /\ \/ /\ State(a) = "queued"
          /\ SetState(a, "cancelled")
          /\ UNCHANGED asked
       \/ /\ State(a) = "running"
          /\ SetState(a, "cancel_requested")
          /\ asked' = asked \cup {a}
    /\ UNCHANGED <<runner, bridge, imports, ivars>>

(***************************************************************************)
(* A python worker.                                                        *)
(***************************************************************************)
ClaimJob(r, a) ==
    /\ runner[r].pc = "idle"
    /\ State(a) = "queued"
    /\ analysis' = [analysis EXCEPT ![a].state = "running", ![a].stale = FALSE]
    /\ runner' = [runner EXCEPT ![r].pc = "working", ![r].of = a]
    /\ UNCHANGED <<bridge, asked, imports, ivars>>

\* set_progress: a beat, whatever the state, and the cancel check.
SetProgress(r) ==
    /\ runner[r].pc = "working"
    /\ LET a == runner[r].of
       IN /\ analysis' = [analysis EXCEPT ![a].stale = FALSE]
          /\ runner' = [runner EXCEPT ![r].pc = IF State(a) = "cancel_requested"
                                                THEN "unwinding" ELSE "working"]
    /\ UNCHANGED <<bridge, asked, imports, ivars>>

\* Slip: the artifact is handed over whatever was asked meanwhile.
HandOffUnguarded(r) ==
    /\ runner[r].pc = "working"
    /\ analysis[runner[r].of].kind = "vector"
    /\ SetState(runner[r].of, "ingest")
    /\ runner' = [runner EXCEPT ![r] = Resting]
    /\ UNCHANGED <<bridge, asked, imports, ivars>>

\* The end of do_contours and do_zonal_stats: the flip to 'ingest' happens to
\* a running row only, any other unwinds as a cancel.
HandOff(r) ==
    /\ runner[r].pc = "working"
    /\ analysis[runner[r].of].kind = "vector"
    /\ \/ /\ State(runner[r].of) = "running"
          /\ SetState(runner[r].of, "ingest")
          /\ runner' = [runner EXCEPT ![r] = Resting]
       \/ /\ State(runner[r].of) # "running"
          /\ runner' = [runner EXCEPT ![r].pc = "unwinding"]
          /\ UNCHANGED analysis
    /\ UNCHANGED <<bridge, asked, imports, ivars>>

\* finish_job writes the end it knows, whatever the row says: an error of any
\* kind of analysis, or the result of a raster.
FinishJob(r) ==
    /\ runner[r].pc = "working"
    /\ \/ SetState(runner[r].of, "failed")
       \/ analysis[runner[r].of].kind = "raster" /\ SetState(runner[r].of, "done")
    /\ runner' = [runner EXCEPT ![r] = Resting]
    /\ UNCHANGED <<bridge, asked, imports, ivars>>

MarkCancelled(r) ==
    /\ runner[r].pc = "unwinding"
    /\ IF State(runner[r].of) \in {"running", "cancel_requested"}
       THEN SetState(runner[r].of, "cancelled") ELSE UNCHANGED analysis
    /\ runner' = [runner EXCEPT ![r] = Resting]
    /\ UNCHANGED <<bridge, asked, imports, ivars>>

\* The process is killed, or loses the database, and starts over.
RunnerDies(r) ==
    /\ runner[r].pc # "idle"
    /\ DiesElsewhere
    /\ runner' = [runner EXCEPT ![r] = Resting]
    /\ UNCHANGED <<analysis, bridge, asked, imports>>

(***************************************************************************)
(* A bridge: the sweep, the claim of a result, the mirror of an import.    *)
(***************************************************************************)
\* Slip: rows stranded between the claim and the import's id are not swept.
SweptStateRunning(a) ==
    CASE State(a) = "running"          -> "failed"
      [] State(a) = "cancel_requested" -> "cancelled"
      [] OTHER                         -> State(a)

\* What the two updates of reclaimStaleJobs make of a row with an old beat.
SweptState(a) ==
    CASE State(a) = "running"          -> "failed"
      [] State(a) = "cancel_requested" -> "cancelled"
      [] State(a) = "importing" /\ analysis[a].importJobId = NoJob -> "failed"
      [] OTHER                         -> State(a)

ReclaimStaleJobs(b) ==
    /\ bridge[b].pc = "idle"
    /\ \E a \in Analyses : analysis[a].stale /\ SweptState(a) # State(a)
    /\ analysis' = [a \in Analyses |-> IF analysis[a].stale
                                       THEN [analysis[a] EXCEPT !.state = SweptState(a)]
                                       ELSE analysis[a]]
    /\ UNCHANGED <<runner, bridge, asked, imports, ivars>>

ListIngest(b, a) ==
    /\ bridge[b].pc = "idle"
    /\ State(a) = "ingest"
    /\ bridge' = [bridge EXCEPT ![b].pc = "claiming", ![b].of = a]
    /\ UNCHANGED <<analysis, runner, asked, imports, ivars>>

\* Slip: the row is claimed because it was listed.
ClaimIngestListed(b) ==
    /\ bridge[b].pc = "claiming"
    /\ SetState(bridge[b].of, "importing")
    /\ bridge' = [bridge EXCEPT ![b].pc = "staging"]
    /\ UNCHANGED <<runner, asked, imports, ivars>>

ClaimIngest(b) ==
    /\ bridge[b].pc = "claiming"
    /\ \/ /\ State(bridge[b].of) = "ingest"
          /\ SetState(bridge[b].of, "importing")
          /\ bridge' = [bridge EXCEPT ![b].pc = "staging"]
       \/ /\ State(bridge[b].of) # "ingest"
          /\ bridge' = [bridge EXCEPT ![b] = Resting]
          /\ UNCHANGED analysis
    /\ UNCHANGED <<runner, asked, imports, ivars>>

\* The artifact is staged and an import that replaces the target's rows enqueued ...
StageAndEnqueue(b) ==
    /\ bridge[b].pc = "staging"
    /\ Enqueue("replace")
    /\ LET j == CHOOSE i \in Jobs : job[i].status = "none" /\ job'[i].status = "queued"
       IN /\ bridge' = [bridge EXCEPT ![b].pc = "linking", ![b].imp = j]
          /\ imports' = [imports EXCEPT ![bridge[b].of] = @ \cup {j}]
    /\ UNCHANGED <<analysis, runner, asked>>

\* ... and only then its id written to the analysis.
LinkImport(b) ==
    /\ bridge[b].pc = "linking"
    /\ analysis' = [analysis EXCEPT ![bridge[b].of].importJobId = bridge[b].imp]
    /\ bridge' = [bridge EXCEPT ![b] = Resting]
    /\ UNCHANGED <<runner, asked, imports, ivars>>

\* The catch of claimIngestJobs.
BridgeFails(b) ==
    /\ bridge[b].pc \in {"staging", "linking"}
    /\ SetState(bridge[b].of, "failed")
    /\ bridge' = [bridge EXCEPT ![b] = Resting]
    /\ UNCHANGED <<runner, asked, imports, ivars>>

BridgeDies(b) ==
    /\ bridge[b].pc # "idle"
    /\ DiesElsewhere
    /\ bridge' = [bridge EXCEPT ![b] = Resting]
    /\ UNCHANGED <<analysis, runner, asked, imports>>

\* Slip: an import that is over has put its rows there.
MirrorOfEnd(a) ==
    LET s == job[analysis[a].importJobId].status
    IN IF s \in {"succeeded", "failed", "cancelled"} THEN "done" ELSE State(a)

\* The state an importing row takes from its import.
Mirror(a) ==
    LET s == job[analysis[a].importJobId].status
    IN CASE s = "succeeded"             -> "done"
         [] s \in {"failed", "cancelled"} -> "failed"
         [] OTHER                         -> State(a)

SettleImporting(b, a) ==
    /\ bridge[b].pc = "idle"
    /\ State(a) = "importing"
    /\ analysis[a].importJobId # NoJob
    /\ Mirror(a) # State(a)
    /\ SetState(a, Mirror(a))
    /\ UNCHANGED <<runner, bridge, asked, imports, ivars>>

\* Ten minutes without a beat.  Nobody beats a row handed over to the bridge.
BeatGoesStale(a) ==
    /\ State(a) \in {"running", "cancel_requested", "ingest", "importing"}
    /\ ~analysis[a].stale
    /\ SlowImports \/ ~\E r \in Runners : runner[r].of = a
    /\ analysis' = [analysis EXCEPT ![a].stale = TRUE]
    /\ UNCHANGED <<runner, bridge, asked, imports, ivars>>

RunnerStep(r) ==
    \/ \E a \in Analyses : ClaimJob(r, a)
    \/ SetProgress(r) \/ HandOff(r) \/ FinishJob(r) \/ MarkCancelled(r)

BridgeStep(b) ==
    \/ ReclaimStaleJobs(b) \/ ClaimIngest(b) \/ StageAndEnqueue(b) \/ LinkImport(b)
    \/ BridgeFails(b)
    \/ \E a \in Analyses : ListIngest(b, a) \/ SettleImporting(b, a)

AnalysisNext ==
    \/ \E a \in Analyses : (\E k \in Kinds : CreateAnalysis(a, k)) \/ CancelJob(a) \/ BeatGoesStale(a)
    \/ \E r \in Runners : RunnerStep(r) \/ RunnerDies(r)
    \/ \E b \in Bridges : BridgeStep(b) \/ BridgeDies(b)
    \/ Next /\ UNCHANGED avars

\* Every process keeps taking steps; a worker at work ends its job sooner or
\* later, so a beat alone does not count as one; and time passes.
AnalysisFairness ==
    /\ \A r \in Runners : /\ WF_allvars(RunnerStep(r))
                          /\ WF_allvars(HandOff(r) \/ FinishJob(r))
    /\ \A b \in Bridges : WF_allvars(BridgeStep(b))
    /\ \A a \in Analyses : WF_allvars(BeatGoesStale(a))
    /\ \A w \in Workers : /\ WF_allvars(WorkerStep(w) /\ UNCHANGED avars)
                          /\ WF_allvars(Boot(w) /\ UNCHANGED avars)
    /\ \A j \in Jobs : WF_allvars(HeartbeatGoesStale(j) /\ UNCHANGED avars)

AnalysisSpec == AnalysisInit /\ [][AnalysisNext]_allvars
AnalysisFairSpec == AnalysisSpec /\ AnalysisFairness

(***************************************************************************)
(* What the properties rest on: who may still act on an analysis, and what *)
(* that says of its row and of the imports it was given.                   *)
(***************************************************************************)
Staging(b) == bridge[b].pc \in {"staging", "linking"}

\* A python worker has its analysis to itself until it lets go of it.
RunnerHand(r) ==
    LET a == runner[r].of
    IN /\ a = NoAnalysis <=> runner[r].pc = "idle"
       /\ a # NoAnalysis =>
            /\ State(a) \in {"running", "cancel_requested", "failed", "cancelled"}
            /\ imports[a] = {}
            /\ \A q \in Runners \ {r} : runner[q].of # a
            /\ \A b \in Bridges : bridge[b].of # a

\* A bridge acts on what was handed over, and never on what was cancelled first.
BridgeHand(b) ==
    LET a == bridge[b].of
    IN /\ a = NoAnalysis <=> bridge[b].pc = "idle"
       /\ a # NoAnalysis => a \notin asked /\ State(a) \in {"ingest", "importing", "failed", "done"}
       /\ Staging(b) => State(a) # "ingest" /\ \A c \in Bridges \ {b} : Staging(c) => bridge[c].of # a
       /\ bridge[b].pc = "staging" => imports[a] = {}
       /\ bridge[b].pc = "linking" => bridge[b].imp \in imports[a]

AnalysisLine(a) ==
    /\ \A i, j \in imports[a] : i = j
    /\ analysis[a].importJobId # NoJob => analysis[a].importJobId \in imports[a]
    /\ a \in asked => /\ State(a) \in {"cancel_requested", "cancelled", "failed", "done"}
                     /\ imports[a] = {}
    /\ State(a) \in {"none", "queued", "running", "cancel_requested", "ingest"} => imports[a] = {}
    /\ State(a) = "done" /\ analysis[a].kind = "vector" => \E j \in imports[a] : landed[j] > 0

AnalysisHands ==
    /\ \A r \in Runners : RunnerHand(r)
    /\ \A b \in Bridges : BridgeHand(b)
    /\ \A a \in Analyses : AnalysisLine(a)

(***************************************************************************)
(* Properties.                                                             *)
(***************************************************************************)
\* A vector analysis is reported done only when the import that carries its
\* result has put its rows in the target layer.
DoneHasRows ==
    \A a \in Analyses : State(a) = "done" /\ analysis[a].kind = "vector"
        => \E j \in imports[a] : landed[j] > 0

\* An analysis is staged and imported once, however many bridges poll.
ImportedOnce ==
    \A a \in Analyses :
        Cardinality(imports[a])
            + Cardinality({b \in Bridges : bridge[b].of = a /\ bridge[b].pc = "staging"}) <= 1

\* A cancel accepted while the python worker computes is kept: the result is
\* never handed to the import queue (the guard of the hand-off).
CancelWins == \A a \in asked : imports[a] = {}

\* A vector analysis that failed has put nothing in its target.  Not so: the
\* bridge dies between the import and its id (AnalysisOrphan.cfg).
FailedHasNoRows ==
    \A a \in Analyses : State(a) = "failed" => \A j \in imports[a] : landed[j] = 0

\* Every analysis ends, whichever process dies with it in hand.
AnalysisSettles == \A a \in Analyses : (State(a) = "queued") ~> Ended(a)
=============================================================================
