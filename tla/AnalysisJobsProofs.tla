------------------------ MODULE AnalysisJobsProofs ------------------------
(***************************************************************************)
(* Theorems about AnalysisJobs, for any number of analyses, python workers *)
(* and bridges.  The theorems of ImportJobsProofs carry over: whatever the *)
(* analyses do, the import queue beneath them takes steps of its own       *)
(* specification only.                                                     *)
(***************************************************************************)
EXTENDS AnalysisJobs, ImportJobsProofs, FiniteSetTheorems

\* The composition uses the import queue as anybody else does.
LEMMA QueueStep ==
    ASSUME [AnalysisNext]_allvars PROVE [Next]_ivars
<1>1. CASE UNCHANGED ivars
  BY <1>1
<1>2. ASSUME NEW b \in Bridges, StageAndEnqueue(b) PROVE [Next]_ivars
  BY <1>2 DEF StageAndEnqueue, Next, Modes
<1>3. CASE DiesElsewhere \/ Next
  BY <1>3 DEF Next
<1> QED
  BY <1>1, <1>2, <1>3
     DEF AnalysisNext, allvars, CreateAnalysis, CancelJob, BeatGoesStale, RunnerStep, ClaimJob,
         SetProgress, HandOff, FinishJob, MarkCancelled, RunnerDies, BridgeStep, ReclaimStaleJobs,
         ListIngest, ClaimIngest, LinkImport, BridgeFails, BridgeDies, SettleImporting

\* Analyses and bridges do to the import queue only what its own specification
\* allows: the bridge enqueues through ImportJobsService like an upload does.
THEOREM AnalysesKeepTheQueue == AnalysisSpec => Spec
<1>1. AnalysisInit => Init
  BY DEF AnalysisInit
<1>2. [AnalysisNext]_allvars => [Next]_ivars
  BY QueueStep
<1> QED
  BY <1>1, <1>2, PTL DEF AnalysisSpec, Spec

-----------------------------------------------------------------------------
(* Types                                                                   *)

\* A python worker and a bridge at rest are well typed.
LEMMA RestingTyped == Resting \in RunnerLoop /\ Resting \in BridgeTick
BY DEF Resting, RunnerLoop, BridgeTick

\* The job a bridge enqueues is one of the queue's.
LEMMA Enqueued ==
    ASSUME TypeOK, NEW b \in Bridges, StageAndEnqueue(b)
    PROVE  \E j \in Jobs : /\ bridge' = [bridge EXCEPT ![b].pc = "linking", ![b].imp = j]
                           /\ imports' = [imports EXCEPT ![bridge[b].of] = @ \cup {j}]
<1> DEFINE New(i) == job[i].status = "none" /\ job'[i].status = "queued"
<1>1. PICK i \in Jobs : /\ job[i].status = "none"
                        /\ job' = [job EXCEPT ![i].status = "queued", ![i].mode = "replace"]
  BY DEF StageAndEnqueue, Enqueue
<1>2. New(i)
  BY <1>1 DEF TypeOK, JobRow
<1>3. (CHOOSE j \in Jobs : New(j)) \in Jobs
  BY <1>2
<1> QED
  BY <1>3 DEF StageAndEnqueue

\* Every step of the API, the python workers and the bridges keeps the types.
LEMMA AnalysisTypeStep ==
    ASSUME AnalysisTypeOK, [AnalysisNext]_allvars PROVE AnalysisTypeOK'
<1>0. TypeOK'
  BY QueueStep, TypeStep DEF AnalysisTypeOK
<1> DEFINE Typed == /\ analysis' \in [Analyses -> AnalysisRow]
                    /\ runner' \in [Runners -> RunnerLoop]
                    /\ bridge' \in [Bridges -> BridgeTick]
                    /\ asked' \subseteq Analyses
                    /\ imports' \in [Analyses -> SUBSET Jobs]
<1> SUFFICES Typed
  BY <1>0 DEF AnalysisTypeOK
<1> USE RestingTyped, AnalysisAssumption DEF AnalysisTypeOK
<1>1. ASSUME NEW a \in Analyses, NEW k \in Kinds, CreateAnalysis(a, k) PROVE Typed
  <2>1. analysis' \in [Analyses -> AnalysisRow]
    <3>1. k \in AllKinds
      BY AnalysisAssumption
    <3> QED BY <1>1, <3>1 DEF CreateAnalysis, AnalysisRow, States
  <2> QED BY <1>1, <2>1 DEF CreateAnalysis
<1>2. ASSUME NEW a \in Analyses, CancelJob(a) PROVE Typed
  <2>1. analysis' \in [Analyses -> AnalysisRow]
    BY <1>2 DEF CancelJob, SetState, AnalysisRow, States
  <2> QED BY <1>2, <2>1 DEF CancelJob
<1>3. ASSUME NEW a \in Analyses, BeatGoesStale(a) PROVE Typed
  BY <1>3 DEF BeatGoesStale, AnalysisRow
<1>4. ASSUME NEW r \in Runners, NEW a \in Analyses, ClaimJob(r, a) PROVE Typed
  <2>1. analysis' \in [Analyses -> AnalysisRow]
    BY <1>4 DEF ClaimJob, AnalysisRow, States
  <2>2. runner' \in [Runners -> RunnerLoop]
    BY <1>4 DEF ClaimJob, RunnerLoop
  <2> QED BY <1>4, <2>1, <2>2 DEF ClaimJob
<1>5. ASSUME NEW r \in Runners, SetProgress(r) PROVE Typed
  <2>1. analysis' \in [Analyses -> AnalysisRow]
    BY <1>5 DEF SetProgress, AnalysisRow
  <2>2. PICK p \in {"working", "unwinding"} : runner' = [runner EXCEPT ![r].pc = p]
    BY <1>5 DEF SetProgress
  <2>3. runner' \in [Runners -> RunnerLoop]
    BY <2>2 DEF RunnerLoop
  <2> QED BY <1>5, <2>1, <2>3 DEF SetProgress
<1>6. ASSUME NEW r \in Runners, HandOff(r) PROVE Typed
  <2>1. analysis' \in [Analyses -> AnalysisRow]
    BY <1>6 DEF HandOff, SetState, AnalysisRow, States
  <2>2. runner' \in [Runners -> RunnerLoop]
    BY <1>6 DEF HandOff, RunnerLoop
  <2> QED BY <1>6, <2>1, <2>2 DEF HandOff
<1>7. ASSUME NEW r \in Runners, FinishJob(r) PROVE Typed
  <2>1. analysis' \in [Analyses -> AnalysisRow]
    BY <1>7 DEF FinishJob, SetState, AnalysisRow, States
  <2> QED BY <1>7, <2>1 DEF FinishJob
<1>8. ASSUME NEW r \in Runners, MarkCancelled(r) PROVE Typed
  <2>1. analysis' \in [Analyses -> AnalysisRow]
    BY <1>8 DEF MarkCancelled, SetState, AnalysisRow, States
  <2> QED BY <1>8, <2>1 DEF MarkCancelled
<1>9. ASSUME NEW r \in Runners, RunnerDies(r) PROVE Typed
  BY <1>9 DEF RunnerDies
<1>10. ASSUME NEW b \in Bridges, ReclaimStaleJobs(b) PROVE Typed
  <2>1. \A a \in Analyses : SweptState(a) \in States
    BY DEF SweptState, State, AnalysisRow, States
  <2>2. analysis' \in [Analyses -> AnalysisRow]
    BY <1>10, <2>1 DEF ReclaimStaleJobs, AnalysisRow
  <2> QED BY <1>10, <2>2 DEF ReclaimStaleJobs
<1>11. ASSUME NEW b \in Bridges, NEW a \in Analyses, ListIngest(b, a) PROVE Typed
  BY <1>11 DEF ListIngest, BridgeTick
<1>12. ASSUME NEW b \in Bridges, ClaimIngest(b) PROVE Typed
  <2>1. analysis' \in [Analyses -> AnalysisRow]
    BY <1>12 DEF ClaimIngest, SetState, AnalysisRow, States
  <2>2. bridge' \in [Bridges -> BridgeTick]
    BY <1>12 DEF ClaimIngest, BridgeTick
  <2> QED BY <1>12, <2>1, <2>2 DEF ClaimIngest
<1>13. ASSUME NEW b \in Bridges, StageAndEnqueue(b) PROVE Typed
  <2>1. PICK j \in Jobs : /\ bridge' = [bridge EXCEPT ![b].pc = "linking", ![b].imp = j]
                          /\ imports' = [imports EXCEPT ![bridge[b].of] = @ \cup {j}]
    BY <1>13, Enqueued
  <2>2. bridge' \in [Bridges -> BridgeTick]
    BY <2>1 DEF BridgeTick
  <2>3. imports' \in [Analyses -> SUBSET Jobs]
    BY <2>1
  <2> QED BY <1>13, <2>2, <2>3 DEF StageAndEnqueue
<1>14. ASSUME NEW b \in Bridges, LinkImport(b) PROVE Typed
  <2>1. PICK j \in Jobs \cup {NoJob} :
           analysis' = [analysis EXCEPT ![bridge[b].of].importJobId = j]
    BY <1>14 DEF LinkImport, BridgeTick
  <2>2. analysis' \in [Analyses -> AnalysisRow]
    BY <2>1 DEF AnalysisRow
  <2> QED BY <1>14, <2>2 DEF LinkImport
<1>15. ASSUME NEW b \in Bridges, BridgeFails(b) PROVE Typed
  <2>1. analysis' \in [Analyses -> AnalysisRow]
    BY <1>15 DEF BridgeFails, SetState, AnalysisRow, States
  <2> QED BY <1>15, <2>1 DEF BridgeFails
<1>16. ASSUME NEW b \in Bridges, BridgeDies(b) PROVE Typed
  BY <1>16 DEF BridgeDies
<1>17. ASSUME NEW b \in Bridges, NEW a \in Analyses, SettleImporting(b, a) PROVE Typed
  <2>1. Mirror(a) \in States
    BY DEF Mirror, State, AnalysisRow, States
  <2>2. analysis' \in [Analyses -> AnalysisRow]
    BY <1>17, <2>1 DEF SettleImporting, SetState, AnalysisRow
  <2> QED BY <1>17, <2>2 DEF SettleImporting
<1>18. CASE UNCHANGED avars
  BY <1>18 DEF avars
<1> QED
  BY <1>1, <1>2, <1>3, <1>4, <1>5, <1>6, <1>7, <1>8, <1>9, <1>10, <1>11, <1>12, <1>13, <1>14,
     <1>15, <1>16, <1>17, <1>18 DEF AnalysisNext, RunnerStep, BridgeStep, allvars

-----------------------------------------------------------------------------
(* Who may still act on an analysis                                        *)

\* No analysis is in anybody's hands at the start.
LEMMA AnalysisHandsInit == AnalysisInit => AnalysisHands
BY AnalysisAssumption
   DEF AnalysisInit, AnalysisHands, RunnerHand, BridgeHand, AnalysisLine, Staging, Resting, State

\* Rows once committed are not taken back.
LEMMA LandedGrows ==
    ASSUME TypeOK, [Next]_ivars, NEW j \in Jobs, landed[j] > 0 PROVE landed'[j] > 0
<1>1. CASE landed' = landed
  BY <1>1
<1>2. ASSUME NEW w \in Workers, Commit(w) PROVE landed'[j] > 0
  BY <1>2 DEF Commit, TypeOK
<1> QED
  BY <1>1, <1>2
     DEF Next, WorkerStep, ivars, history, Enqueue, ReadForCancel, Cancel, HeartbeatGoesStale,
         ClaimNext, Refuse, Begin, CheckCancelled, SendBatch, End, EndUnanswered,
         ZeroInsertedForCancelled, MarkSucceeded, Throw, ZeroInsertedForFailed, FindStale,
         FailStale, Crash, Boot, DiesElsewhere

Runs == \A r \in Runners : RunnerHand(r)
Ticks == \A b \in Bridges : BridgeHand(b)
Lines == \A a \in Analyses : AnalysisLine(a)

\* Every step keeps one keeper to an analysis: the python worker until it hands
\* over, then the bridge that claimed it.
LEMMA AnalysisHandsStep ==
    ASSUME Inv, AnalysisTypeOK, AnalysisHands, [AnalysisNext]_allvars PROVE AnalysisHands'
<1> SUFFICES Runs' /\ Ticks' /\ Lines'
  BY DEF AnalysisHands, Runs, Ticks, Lines
<1>0. /\ Runs /\ Ticks /\ Lines
      /\ \A j \in Jobs : landed[j] > 0 => landed'[j] > 0
  BY QueueStep, LandedGrows DEF AnalysisHands, Runs, Ticks, Lines, AnalysisTypeOK
<1> USE <1>0, AnalysisAssumption DEF Runs, Ticks, Lines, State, SetState
<1>t. /\ analysis \in [Analyses -> AnalysisRow]
      /\ runner \in [Runners -> RunnerLoop]
      /\ bridge \in [Bridges -> BridgeTick]
      /\ asked \subseteq Analyses
      /\ imports \in [Analyses -> SUBSET Jobs]
  BY DEF AnalysisTypeOK
<1>1. ASSUME NEW a \in Analyses, NEW k \in Kinds, CreateAnalysis(a, k) PROVE Runs' /\ Ticks' /\ Lines'
  <2>1. /\ State(a) = "none" /\ State(a)' = "queued"
        /\ \A x \in Analyses \ {a} : analysis'[x] = analysis[x]
        /\ analysis'[a].importJobId = analysis[a].importJobId
        /\ UNCHANGED <<runner, bridge, asked, imports, landed>>
    BY <1>1, <1>t DEF CreateAnalysis, AnalysisRow, ivars
  <2>2. Runs'
    BY <2>1, <1>t DEF RunnerHand, RunnerLoop
  <2>3. Ticks'
    BY <2>1, <1>t DEF BridgeHand, Staging, BridgeTick
  <2>4. Lines'
    BY <2>1, <1>t DEF AnalysisLine
  <2> QED BY <2>2, <2>3, <2>4
<1>2. ASSUME NEW a \in Analyses, CancelJob(a) PROVE Runs' /\ Ticks' /\ Lines'
  <2>1. /\ \/ State(a) = "queued" /\ State(a)' = "cancelled" /\ asked' = asked
           \/ State(a) = "running" /\ State(a)' = "cancel_requested" /\ asked' = asked \cup {a}
        /\ \A x \in Analyses \ {a} : analysis'[x] = analysis[x]
        /\ analysis'[a].importJobId = analysis[a].importJobId
        /\ UNCHANGED <<runner, bridge, imports, landed>>
    BY <1>2, <1>t DEF CancelJob, AnalysisRow, ivars
  <2>2. Runs'
    BY <2>1, <1>t DEF RunnerHand, RunnerLoop
  <2>3. Ticks'
    BY <2>1, <1>t DEF BridgeHand, Staging, BridgeTick
  <2>4. Lines'
    BY <2>1, <1>t DEF AnalysisLine
  <2> QED BY <2>2, <2>3, <2>4
<1>3. ASSUME NEW a \in Analyses, BeatGoesStale(a)
     PROVE  Runs' /\ Ticks' /\ Lines'
  <2>1. /\ \A x \in Analyses : State(x)' = State(x)
        /\ \A x \in Analyses : analysis'[x].importJobId = analysis[x].importJobId /\ analysis'[x].kind = analysis[x].kind
        /\ UNCHANGED <<runner, bridge, asked, imports, landed>>
    BY <1>3, <1>t DEF BeatGoesStale, AnalysisRow, ivars, history
  <2>2. Runs'
    BY <2>1, <1>t DEF RunnerHand, RunnerLoop
  <2>3. Ticks'
    BY <2>1, <1>t DEF BridgeHand, Staging, BridgeTick
  <2>4. Lines'
    BY <2>1, <1>t DEF AnalysisLine
  <2> QED BY <2>2, <2>3, <2>4
<1>4. ASSUME NEW r \in Runners, NEW a \in Analyses, ClaimJob(r, a)
     PROVE  Runs' /\ Ticks' /\ Lines'
  <2>1. /\ State(a) = "queued" /\ State(a)' = "running"
        /\ \A x \in Analyses \ {a} : analysis'[x] = analysis[x]
        /\ analysis'[a].importJobId = analysis[a].importJobId /\ analysis'[a].kind = analysis[a].kind
        /\ runner'[r].of = a /\ runner'[r].pc = "working" /\ runner[r].pc = "idle"
        /\ \A q \in Runners \ {r} : runner'[q] = runner[q]
        /\ UNCHANGED <<bridge, asked, imports, landed>>
    BY <1>4, <1>t DEF ClaimJob, AnalysisRow, RunnerLoop, ivars, history
  <2>2. ASSUME NEW q \in Runners PROVE RunnerHand(q)'
    <3>1. /\ imports[a] = {}
          /\ \A p \in Runners : runner[p].of # a
          /\ \A b \in Bridges : bridge[b].of # a
      BY <2>1 DEF RunnerHand, BridgeHand, AnalysisLine
    <3>2. CASE q = r
      BY <2>1, <3>1, <3>2 DEF RunnerHand
    <3>3. CASE q # r
      <4>1. RunnerHand(q) /\ runner'[q] = runner[q] /\ runner[q].of # a
        BY <2>1, <3>1, <3>3
      <4> QED BY <2>1, <4>1, <1>t DEF RunnerHand, RunnerLoop
    <3> QED BY <3>2, <3>3
  <2>3. Ticks'
    BY <2>1, <1>t DEF BridgeHand, Staging, BridgeTick
  <2>4. Lines'
    BY <2>1, <1>t DEF AnalysisLine
  <2> QED BY <2>2, <2>3, <2>4
<1>5. ASSUME NEW r \in Runners, SetProgress(r)
     PROVE  Runs' /\ Ticks' /\ Lines'
  <2>1. /\ \A x \in Analyses : State(x)' = State(x)
        /\ \A x \in Analyses : analysis'[x].importJobId = analysis[x].importJobId /\ analysis'[x].kind = analysis[x].kind
        /\ runner'[r].of = runner[r].of /\ runner'[r].pc # "idle" /\ runner[r].pc # "idle"
        /\ \A q \in Runners \ {r} : runner'[q] = runner[q]
        /\ UNCHANGED <<bridge, asked, imports, landed>>
    BY <1>5, <1>t DEF SetProgress, AnalysisRow, RunnerLoop, ivars, history
  <2>2. ASSUME NEW q \in Runners PROVE RunnerHand(q)'
    <3>1. runner'[q].of = runner[q].of /\ (runner'[q].pc = "idle" <=> runner[q].pc = "idle")
      BY <2>1
    <3>2. \A p \in Runners : runner'[p].of = runner[p].of
      BY <2>1
    <3>3. RunnerHand(q)
      OBVIOUS
    <3> QED BY <2>1, <3>1, <3>2, <3>3, <1>t DEF RunnerHand, RunnerLoop
  <2>3. Ticks'
    BY <2>1, <1>t DEF BridgeHand, Staging, BridgeTick
  <2>4. Lines'
    BY <2>1, <1>t DEF AnalysisLine
  <2> QED BY <2>2, <2>3, <2>4
<1>6. ASSUME NEW r \in Runners, HandOff(r)
     PROVE  Runs' /\ Ticks' /\ Lines'
  <2>1. PICK a \in Analyses : a = runner[r].of
    BY <1>6, <1>t DEF HandOff, RunnerHand, RunnerLoop
  <2>2. /\ \/ State(a) = "running" /\ State(a)' = "ingest" /\ runner'[r].of = NoAnalysis /\ runner'[r].pc = "idle"
           \/ State(a)' = State(a) /\ runner'[r].of = a /\ runner'[r].pc = "unwinding"
        /\ runner[r].of = a
        /\ \A x \in Analyses \ {a} : analysis'[x] = analysis[x]
        /\ analysis'[a].importJobId = analysis[a].importJobId /\ analysis'[a].kind = analysis[a].kind
        /\ \A q \in Runners \ {r} : runner'[q] = runner[q]
        /\ UNCHANGED <<bridge, asked, imports, landed>>
    BY <2>1, <1>6, <1>t DEF HandOff, Resting, AnalysisRow, RunnerLoop, ivars, history
  <2>3. ASSUME NEW q \in Runners PROVE RunnerHand(q)'
    <3>1. /\ RunnerHand(q) /\ RunnerHand(r) /\ a # NoAnalysis
          /\ \A p \in Runners \ {r} : runner[p].of # a
      BY <2>2 DEF RunnerHand
    <3>2. CASE q = r
      BY <2>2, <3>1, <3>2 DEF RunnerHand
    <3>3. CASE q # r
      <4>1. runner'[q] = runner[q] /\ runner[q].of # a
        BY <2>2, <3>1, <3>3
      <4>2. runner[q].of # NoAnalysis => analysis'[runner[q].of] = analysis[runner[q].of]
        BY <2>2, <4>1, <1>t DEF RunnerLoop
      <4>3. \A p \in Runners \ {q} : runner[p].of # runner[q].of /\ runner[q].of # NoAnalysis
                                       => runner'[p].of # runner[q].of
        BY <2>2, <4>1
      <4> QED BY <2>2, <3>1, <4>1, <4>2, <4>3 DEF RunnerHand
    <3> QED BY <3>2, <3>3
  <2>4. Ticks'
    BY <2>2, <1>t DEF BridgeHand, Staging, BridgeTick
  <2>5. Lines'
    BY <2>2, <1>t DEF AnalysisLine
  <2> QED BY <2>3, <2>4, <2>5
<1>7. ASSUME NEW r \in Runners, FinishJob(r)
     PROVE  Runs' /\ Ticks' /\ Lines'
  <2>1. PICK a \in Analyses : a = runner[r].of
    BY <1>7, <1>t DEF FinishJob, RunnerHand, RunnerLoop
  <2>2. /\ State(a)' = "failed" \/ (analysis[a].kind = "raster" /\ State(a)' = "done")
        /\ runner[r].of = a /\ runner'[r].of = NoAnalysis /\ runner'[r].pc = "idle"
        /\ \A x \in Analyses \ {a} : analysis'[x] = analysis[x]
        /\ analysis'[a].importJobId = analysis[a].importJobId /\ analysis'[a].kind = analysis[a].kind
        /\ \A q \in Runners \ {r} : runner'[q] = runner[q]
        /\ UNCHANGED <<bridge, asked, imports, landed>>
    BY <2>1, <1>7, <1>t DEF FinishJob, Resting, AnalysisRow, RunnerLoop, ivars, history
  <2>3. ASSUME NEW q \in Runners PROVE RunnerHand(q)'
    <3>1. /\ RunnerHand(q) /\ RunnerHand(r) /\ a # NoAnalysis
          /\ \A p \in Runners \ {r} : runner[p].of # a
      BY <2>2 DEF RunnerHand
    <3>2. CASE q = r
      BY <2>2, <3>1, <3>2 DEF RunnerHand
    <3>3. CASE q # r
      <4>1. runner'[q] = runner[q] /\ runner[q].of # a
        BY <2>2, <3>1, <3>3
      <4>2. runner[q].of # NoAnalysis => analysis'[runner[q].of] = analysis[runner[q].of]
        BY <2>2, <4>1, <1>t DEF RunnerLoop
      <4>3. \A p \in Runners \ {q} : runner[p].of # runner[q].of /\ runner[q].of # NoAnalysis
                                       => runner'[p].of # runner[q].of
        BY <2>2, <4>1
      <4> QED BY <2>2, <3>1, <4>1, <4>2, <4>3 DEF RunnerHand
    <3> QED BY <3>2, <3>3
  <2>4. Ticks'
    BY <2>2, <1>t DEF BridgeHand, Staging, BridgeTick
  <2>5. Lines'
    BY <2>2, <1>t DEF AnalysisLine
  <2> QED BY <2>3, <2>4, <2>5
<1>8. ASSUME NEW r \in Runners, MarkCancelled(r)
     PROVE  Runs' /\ Ticks' /\ Lines'
  <2>1. PICK a \in Analyses : a = runner[r].of
    BY <1>8, <1>t DEF MarkCancelled, RunnerHand, RunnerLoop
  <2>2. /\ State(a)' \in {State(a), "cancelled"}
        /\ runner[r].of = a /\ runner'[r].of = NoAnalysis /\ runner'[r].pc = "idle"
        /\ \A x \in Analyses \ {a} : analysis'[x] = analysis[x]
        /\ analysis'[a].importJobId = analysis[a].importJobId /\ analysis'[a].kind = analysis[a].kind
        /\ \A q \in Runners \ {r} : runner'[q] = runner[q]
        /\ UNCHANGED <<bridge, asked, imports, landed>>
    BY <2>1, <1>8, <1>t DEF MarkCancelled, Resting, AnalysisRow, RunnerLoop, ivars, history
  <2>3. ASSUME NEW q \in Runners PROVE RunnerHand(q)'
    <3>1. /\ RunnerHand(q) /\ RunnerHand(r) /\ a # NoAnalysis
          /\ \A p \in Runners \ {r} : runner[p].of # a
      BY <2>2 DEF RunnerHand
    <3>2. CASE q = r
      BY <2>2, <3>1, <3>2 DEF RunnerHand
    <3>3. CASE q # r
      <4>1. runner'[q] = runner[q] /\ runner[q].of # a
        BY <2>2, <3>1, <3>3
      <4>2. runner[q].of # NoAnalysis => analysis'[runner[q].of] = analysis[runner[q].of]
        BY <2>2, <4>1, <1>t DEF RunnerLoop
      <4>3. \A p \in Runners \ {q} : runner[p].of # runner[q].of /\ runner[q].of # NoAnalysis
                                       => runner'[p].of # runner[q].of
        BY <2>2, <4>1
      <4> QED BY <2>2, <3>1, <4>1, <4>2, <4>3 DEF RunnerHand
    <3> QED BY <3>2, <3>3
  <2>4. Ticks'
    <3>1. \A b \in Bridges : bridge[b].of # a
      BY <2>2, AnalysisAssumption DEF RunnerHand
    <3> QED BY <2>2, <3>1, <1>t DEF BridgeHand, Staging, BridgeTick
  <2>5. Lines'
    BY <2>2, <1>t DEF AnalysisLine
  <2> QED BY <2>3, <2>4, <2>5
<1>9. ASSUME NEW r \in Runners, RunnerDies(r)
     PROVE  Runs' /\ Ticks' /\ Lines'
  <2>1. /\ runner'[r].of = NoAnalysis /\ runner'[r].pc = "idle"
        /\ \A q \in Runners \ {r} : runner'[q] = runner[q]
        /\ UNCHANGED <<analysis, bridge, asked, imports, landed>>
    BY <1>9, <1>t DEF RunnerDies, DiesElsewhere, Resting, RunnerLoop, history
  <2>2. Runs'
    BY <2>1, <1>t DEF RunnerHand, RunnerLoop
  <2>3. Ticks'
    BY <2>1, <1>t DEF BridgeHand, Staging, BridgeTick
  <2>4. Lines'
    BY <2>1, <1>t DEF AnalysisLine
  <2> QED BY <2>2, <2>3, <2>4
<1>10. ASSUME NEW b \in Bridges, ReclaimStaleJobs(b)
      PROVE  Runs' /\ Ticks' /\ Lines'
  <2>1. /\ \A x \in Analyses : \/ State(x)' = State(x)
                               \/ State(x) \in {"running", "importing"} /\ State(x)' = "failed"
                               \/ State(x) = "cancel_requested" /\ State(x)' = "cancelled"
        /\ \A x \in Analyses : analysis'[x].importJobId = analysis[x].importJobId /\ analysis'[x].kind = analysis[x].kind
        /\ UNCHANGED <<runner, bridge, asked, imports, landed>>
    BY <1>10, <1>t DEF ReclaimStaleJobs, SweptState, AnalysisRow, ivars, history
  <2>2. Runs'
    BY <2>1, <1>t DEF RunnerHand, RunnerLoop
  <2>3. Ticks'
    BY <2>1, <1>t DEF BridgeHand, Staging, BridgeTick
  <2>4. Lines'
    BY <2>1, <1>t DEF AnalysisLine
  <2> QED BY <2>2, <2>3, <2>4
<1>11. ASSUME NEW b \in Bridges, NEW a \in Analyses, ListIngest(b, a)
      PROVE  Runs' /\ Ticks' /\ Lines'
  <2>1. /\ State(a) = "ingest" /\ bridge'[b].of = a /\ bridge'[b].pc = "claiming"
        /\ \A c \in Bridges \ {b} : bridge'[c] = bridge[c]
        /\ UNCHANGED <<analysis, runner, asked, imports, landed>>
    BY <1>11, <1>t DEF ListIngest, BridgeTick, ivars, history
  <2>2. Runs'
    BY <2>1, <1>t DEF RunnerHand, RunnerLoop
  <2>3. ASSUME NEW c \in Bridges PROVE BridgeHand(c)'
    <3>1. CASE c = b
      BY <2>1, <3>1 DEF BridgeHand, AnalysisLine, Staging
    <3>2. CASE c # b
      <4>1. BridgeHand(c) /\ bridge'[c] = bridge[c]
        BY <2>1, <3>2
      <4> QED BY <2>1, <4>1 DEF BridgeHand, Staging
    <3> QED BY <3>1, <3>2
  <2>4. Lines'
    BY <2>1, <1>t DEF AnalysisLine
  <2> QED BY <2>2, <2>3, <2>4
<1>12. ASSUME NEW b \in Bridges, ClaimIngest(b)
      PROVE  Runs' /\ Ticks' /\ Lines'
  <2>1. PICK a \in Analyses : a = bridge[b].of
    BY <1>12, <1>t DEF ClaimIngest, BridgeHand, BridgeTick
  <2>2. /\ \/ State(a) = "ingest" /\ State(a)' = "importing" /\ bridge'[b].of = a /\ bridge'[b].pc = "staging"
           \/ State(a)' = State(a) /\ bridge'[b].of = NoAnalysis /\ bridge'[b].pc = "idle"
        /\ bridge[b].of = a
        /\ \A x \in Analyses \ {a} : analysis'[x] = analysis[x]
        /\ analysis'[a].importJobId = analysis[a].importJobId /\ analysis'[a].kind = analysis[a].kind
        /\ \A c \in Bridges \ {b} : bridge'[c] = bridge[c]
        /\ UNCHANGED <<runner, asked, imports, landed>>
    BY <2>1, <1>12, <1>t DEF ClaimIngest, Resting, AnalysisRow, BridgeTick, ivars, history
  <2>3. Runs'
    BY <2>2, <1>t DEF RunnerHand, RunnerLoop
  <2>4. ASSUME NEW c \in Bridges PROVE BridgeHand(c)'
    <3>1. BridgeHand(c) /\ BridgeHand(b) /\ a # NoAnalysis /\ AnalysisLine(a)
      OBVIOUS
    <3>2. CASE State(a) = "ingest" /\ State(a)' = "importing"
      <4>1. \A d \in Bridges : Staging(d) => bridge[d].of # a
        BY <2>2, <3>2 DEF BridgeHand
      <4>2. imports[a] = {}
        BY <3>1, <3>2 DEF AnalysisLine
      <4>3. bridge'[b].of = a /\ bridge'[b].pc = "staging"
        BY <2>2, <3>2
      <4>4. CASE c = b
        BY <2>2, <3>1, <3>2, <4>1, <4>2, <4>3, <4>4 DEF BridgeHand, Staging
      <4>5. CASE c # b
        <5>1. bridge'[c] = bridge[c] /\ (Staging(c) => bridge[c].of # a)
          BY <2>2, <4>1, <4>5
        <5> QED BY <2>2, <3>1, <3>2, <4>3, <4>5, <5>1, <1>t DEF BridgeHand, Staging, BridgeTick
      <4> QED BY <4>4, <4>5
    <3>3. CASE State(a)' = State(a) /\ bridge'[b].of = NoAnalysis /\ bridge'[b].pc = "idle"
      BY <2>2, <3>1, <3>3, <1>t DEF BridgeHand, Staging, BridgeTick
    <3> QED BY <2>2, <3>2, <3>3
  <2>5. Lines'
    BY <2>2, <1>t DEF AnalysisLine
  <2> QED BY <2>3, <2>4, <2>5
<1>13. ASSUME NEW b \in Bridges, StageAndEnqueue(b)
      PROVE  Runs' /\ Ticks' /\ Lines'
  <2>1. PICK a \in Analyses : a = bridge[b].of
    BY <1>13, <1>t DEF StageAndEnqueue, BridgeHand, BridgeTick
  <2>2. PICK j \in Jobs : /\ bridge' = [bridge EXCEPT ![b].pc = "linking", ![b].imp = j]
                          /\ imports' = [imports EXCEPT ![bridge[b].of] = @ \cup {j}]
    BY <1>13, Enqueued DEF Inv
  <2>3. /\ bridge'[b].of = a /\ bridge'[b].pc = "linking" /\ bridge'[b].imp = j /\ bridge[b].pc = "staging"
        /\ imports'[a] = imports[a] \cup {j} /\ \A x \in Analyses \ {a} : imports'[x] = imports[x]
        /\ \A c \in Bridges \ {b} : bridge'[c] = bridge[c]
        /\ UNCHANGED <<analysis, runner, asked, landed>>
    BY <2>1, <2>2, <1>13, <1>t DEF StageAndEnqueue, Enqueue, BridgeTick, history
  <2>4. Runs'
    BY <2>1, <2>2, <2>3, <1>t DEF RunnerHand, RunnerLoop
  <2>5. Ticks'
    BY <2>1, <2>2, <2>3, <1>t DEF BridgeHand, Staging, BridgeTick
  <2>6. ASSUME NEW x \in Analyses PROVE AnalysisLine(x)'
    <3>1. a \notin asked /\ State(a) \in {"importing", "failed", "done"} /\ imports[a] = {}
      BY <2>1, <2>3 DEF BridgeHand, Staging
    <3>2. AnalysisLine(x) /\ imports[x] \subseteq imports'[x] /\ (x # a => imports'[x] = imports[x])
      BY <2>3, <1>t
    <3>3. CASE x = a
      <4>1. imports'[a] = {j}
        BY <2>3, <3>1
      <4> QED BY <2>3, <3>1, <3>2, <3>3, <4>1, <1>t DEF AnalysisLine
    <3>4. CASE x # a
      BY <2>3, <3>2, <3>4, <1>t DEF AnalysisLine
    <3> QED BY <3>3, <3>4
  <2> QED BY <2>4, <2>5, <2>6
<1>14. ASSUME NEW b \in Bridges, LinkImport(b)
      PROVE  Runs' /\ Ticks' /\ Lines'
  <2>1. PICK a \in Analyses : a = bridge[b].of
    BY <1>14, <1>t DEF LinkImport, BridgeHand, BridgeTick
  <2>2. /\ State(a)' = State(a) /\ analysis'[a].kind = analysis[a].kind
        /\ analysis'[a].importJobId = bridge[b].imp /\ bridge[b].imp \in imports[a]
        /\ \A x \in Analyses \ {a} : analysis'[x] = analysis[x]
        /\ bridge'[b].of = NoAnalysis /\ bridge'[b].pc = "idle"
        /\ bridge[b].of = a
        /\ \A c \in Bridges \ {b} : bridge'[c] = bridge[c]
        /\ UNCHANGED <<runner, asked, imports, landed>>
    BY <2>1, <1>14, <1>t DEF LinkImport, BridgeHand, Resting, AnalysisRow, BridgeTick, ivars, history
  <2>3. Runs'
    BY <2>2, <1>t DEF RunnerHand, RunnerLoop
  <2>4. Ticks'
    <3>1. BridgeHand(b)'
      BY <2>2, <1>t DEF BridgeHand, Staging
    <3>2. ASSUME NEW c \in Bridges \ {b} PROVE BridgeHand(c)'
      <4>1. BridgeHand(c) /\ bridge[c].of \in Analyses \cup {NoAnalysis} /\ bridge'[c] = bridge[c]
        BY <2>2, <1>t DEF BridgeTick
      <4>2. ASSUME NEW d \in Bridges \ {c}, Staging(d)' PROVE Staging(d) /\ bridge'[d].of = bridge[d].of
        BY <2>2, <4>2 DEF Staging
      <4>3. CASE bridge[c].of = a
        BY <2>2, <4>1, <4>2, <4>3 DEF BridgeHand, Staging
      <4>4. CASE bridge[c].of # a
        BY <2>2, <4>1, <4>2, <4>4 DEF BridgeHand, Staging
      <4> QED
        BY <4>3, <4>4
    <3> QED
      BY <3>1, <3>2
  <2>5. Lines'
    BY <2>2, <1>t DEF AnalysisLine
  <2> QED BY <2>3, <2>4, <2>5
<1>15. ASSUME NEW b \in Bridges, BridgeFails(b)
      PROVE  Runs' /\ Ticks' /\ Lines'
  <2>1. PICK a \in Analyses : a = bridge[b].of
    BY <1>15, <1>t DEF BridgeFails, BridgeHand, BridgeTick
  <2>2. /\ State(a)' = "failed"
        /\ analysis'[a].importJobId = analysis[a].importJobId /\ analysis'[a].kind = analysis[a].kind
        /\ \A x \in Analyses \ {a} : analysis'[x] = analysis[x]
        /\ bridge'[b].of = NoAnalysis /\ bridge'[b].pc = "idle"
        /\ bridge[b].of = a /\ Staging(b)
        /\ \A c \in Bridges \ {b} : bridge'[c] = bridge[c]
        /\ UNCHANGED <<runner, asked, imports, landed>>
    BY <2>1, <1>15, <1>t DEF BridgeFails, Staging, Resting, AnalysisRow, BridgeTick, ivars, history
  <2>3. Runs'
    BY <2>2, <1>t DEF RunnerHand, RunnerLoop
  <2>4. Ticks'
    <3>1. BridgeHand(b)'
      BY <2>2, <1>t DEF BridgeHand, Staging
    <3>2. ASSUME NEW c \in Bridges \ {b} PROVE BridgeHand(c)'
      <4>1. BridgeHand(c) /\ bridge[c].of \in Analyses \cup {NoAnalysis} /\ bridge'[c] = bridge[c]
        BY <2>2, <1>t DEF BridgeTick
      <4>2. ASSUME NEW d \in Bridges \ {c}, Staging(d)' PROVE Staging(d) /\ bridge'[d].of = bridge[d].of
        BY <2>2, <4>2 DEF Staging
      <4>3. CASE bridge[c].of = a
        BY <2>2, <4>1, <4>2, <4>3 DEF BridgeHand, Staging
      <4>4. CASE bridge[c].of # a
        BY <2>2, <4>1, <4>2, <4>4 DEF BridgeHand, Staging
      <4> QED
        BY <4>3, <4>4
    <3> QED
      BY <3>1, <3>2
  <2>5. Lines'
    BY <2>2, <1>t DEF AnalysisLine
  <2> QED BY <2>3, <2>4, <2>5
<1>16. ASSUME NEW b \in Bridges, BridgeDies(b)
      PROVE  Runs' /\ Ticks' /\ Lines'
  <2>1. /\ bridge'[b].of = NoAnalysis /\ bridge'[b].pc = "idle"
        /\ \A c \in Bridges \ {b} : bridge'[c] = bridge[c]
        /\ UNCHANGED <<analysis, runner, asked, imports, landed>>
    BY <1>16, <1>t DEF BridgeDies, DiesElsewhere, Resting, BridgeTick, history
  <2>2. Runs'
    BY <2>1, <1>t DEF RunnerHand, RunnerLoop
  <2>3. Ticks'
    <3>1. BridgeHand(b)'
      BY <2>1, <1>t DEF BridgeHand, Staging
    <3>2. ASSUME NEW c \in Bridges \ {b} PROVE BridgeHand(c)'
      <4>1. BridgeHand(c)
        BY <1>t
      <4>2. ASSUME NEW d \in Bridges \ {c}, Staging(d)' PROVE Staging(d) /\ bridge'[d].of = bridge[d].of
        BY <2>1, <4>2 DEF Staging
      <4> QED
        BY <2>1, <4>1, <4>2 DEF BridgeHand, Staging
    <3> QED
      BY <3>1, <3>2
  <2>4. Lines'
    BY <2>1, <1>t DEF AnalysisLine
  <2> QED BY <2>2, <2>3, <2>4
<1>17. ASSUME NEW b \in Bridges, NEW a \in Analyses, SettleImporting(b, a)
      PROVE  Runs' /\ Ticks' /\ Lines'
  <2>1. PICK j \in Jobs : j = analysis[a].importJobId
    BY <1>17, <1>t DEF SettleImporting, AnalysisRow
  <2>2. landed[j] = 1 \/ job[j].status # "succeeded"
    BY <2>1 DEF Inv, Rows, Row
  <2>3. /\ State(a) = "importing"
        /\ State(a)' = "failed" \/ (State(a)' = "done" /\ landed[j] = 1 /\ j \in imports[a])
        /\ analysis'[a].importJobId = analysis[a].importJobId /\ analysis'[a].kind = analysis[a].kind
        /\ \A x \in Analyses \ {a} : analysis'[x] = analysis[x]
        /\ UNCHANGED <<runner, bridge, asked, imports, landed>>
    BY <2>1, <2>2, <1>17, <1>t DEF SettleImporting, Mirror, AnalysisLine, AnalysisRow, ivars, history
  <2>4. Runs'
    BY <2>3, <1>t DEF RunnerHand, RunnerLoop
  <2>5. Ticks'
    BY <2>3, <1>t DEF BridgeHand, Staging, BridgeTick
  <2>6. Lines'
    BY <2>3, <1>t DEF AnalysisLine
  <2> QED BY <2>4, <2>5, <2>6
<1>18. CASE UNCHANGED avars
  <2>1. UNCHANGED <<analysis, runner, bridge, asked, imports>>
    BY <1>18 DEF avars
  <2>2. Runs'
    BY <2>1 DEF RunnerHand
  <2>3. Ticks'
    BY <2>1 DEF BridgeHand, Staging
  <2>4. Lines'
    BY <2>1, <1>t DEF AnalysisLine
  <2> QED BY <2>2, <2>3, <2>4
<1> QED
  BY <1>1, <1>2, <1>3, <1>4, <1>5, <1>6, <1>7, <1>8, <1>9, <1>10, <1>11, <1>12, <1>13, <1>14,
     <1>15, <1>16, <1>17, <1>18 DEF AnalysisNext, RunnerStep, BridgeStep, allvars

-----------------------------------------------------------------------------
(* What the composition promises                                           *)

AnalysisInv == Inv /\ AnalysisTypeOK /\ AnalysisHands

\* An analysis is in one keeper's hands at a time, and its imports follow from who
\* that was (claim_job, the hand-off and claimIngestJobs are conditional updates).
THEOREM OneKeeper == AnalysisSpec => [](AnalysisTypeOK /\ AnalysisHands)
<1>1. AnalysisInit => AnalysisTypeOK /\ AnalysisHands
  <2>1. AnalysisInit => TypeOK
    BY TypeInit DEF AnalysisInit
  <2>2. AnalysisInit => analysis \in [Analyses -> AnalysisRow]
    BY DEF AnalysisInit, AnalysisRow, States, AllKinds
  <2>3. AnalysisInit => /\ runner \in [Runners -> RunnerLoop] /\ bridge \in [Bridges -> BridgeTick]
                        /\ asked \subseteq Analyses /\ imports \in [Analyses -> SUBSET Jobs]
    BY RestingTyped DEF AnalysisInit
  <2> QED
    BY <2>1, <2>2, <2>3, AnalysisHandsInit DEF AnalysisTypeOK
<1>2. AnalysisSpec => []Inv
  BY AnalysesKeepTheQueue, OneHand, PTL DEF Inv
<1>3. Inv /\ AnalysisTypeOK /\ AnalysisHands /\ [AnalysisNext]_allvars
         => AnalysisTypeOK' /\ AnalysisHands'
  BY AnalysisTypeStep, AnalysisHandsStep
<1> QED
  BY <1>1, <1>2, <1>3, PTL DEF AnalysisSpec

\* Every reachable state of the composed queues is well typed.
THEOREM AnalysisTypeCorrect == AnalysisSpec => []AnalysisTypeOK
BY OneKeeper, PTL

\* A vector analysis that says done has its rows in the layer.
THEOREM DoneIsThere == AnalysisSpec => []DoneHasRows
<1>1. AnalysisHands => DoneHasRows
  BY DEF AnalysisHands, AnalysisLine, DoneHasRows
<1> QED
  BY <1>1, OneKeeper, PTL

\* A cancel that was accepted while a python worker computes is never followed
\* by an import of the result.
THEOREM CancelIsKept == AnalysisSpec => []CancelWins
<1>1. AnalysisTypeOK /\ AnalysisHands => CancelWins
  BY DEF AnalysisTypeOK, AnalysisHands, AnalysisLine, CancelWins
<1> QED
  BY <1>1, OneKeeper, PTL

\* However many bridges poll, a result is staged and imported once.
THEOREM ImportIsOnce == AnalysisSpec => []ImportedOnce
<1>1. ASSUME AnalysisTypeOK, AnalysisHands, NEW a \in Analyses
      PROVE  Cardinality(imports[a])
               + Cardinality({b \in Bridges : bridge[b].of = a /\ bridge[b].pc = "staging"}) <= 1
  <2> DEFINE stagers == {b \in Bridges : bridge[b].of = a /\ bridge[b].pc = "staging"}
  <2>1. imports[a] = {} \/ \E j \in Jobs : imports[a] = {j}
    <3>1. \A i, j \in imports[a] : i = j
      BY <1>1 DEF AnalysisHands, AnalysisLine
    <3>2. imports[a] \subseteq Jobs
      BY <1>1 DEF AnalysisTypeOK
    <3> QED BY <3>1, <3>2
  <2>2. stagers = {} \/ \E b \in Bridges : stagers = {b}
    <3>1. \A b, c \in stagers : b = c
      BY <1>1 DEF AnalysisHands, BridgeHand, Staging
    <3> QED BY <3>1
  <2>3. stagers # {} => imports[a] = {}
    BY <1>1 DEF AnalysisHands, BridgeHand
  <2> HIDE DEF stagers
  <2>4. Cardinality({}) = 0 /\ \A x : Cardinality({x}) = 1
    BY FS_EmptySet, FS_Singleton
  <2>5. Cardinality(imports[a]) + Cardinality(stagers) <= 1
    <3>1. CASE stagers = {}
      <4>1. Cardinality(stagers) = 0 /\ Cardinality(imports[a]) \in {0, 1}
        BY <2>1, <2>4, <3>1
      <4> QED BY <4>1
    <3>2. CASE stagers # {}
      <4>1. Cardinality(stagers) = 1 /\ Cardinality(imports[a]) = 0
        BY <2>2, <2>3, <2>4, <3>2
      <4> QED BY <4>1
    <3> QED BY <3>1, <3>2
  <2> QED BY <2>5 DEF stagers
<1>2. AnalysisTypeOK /\ AnalysisHands => ImportedOnce
  BY <1>1 DEF ImportedOnce
<1> QED
  BY <1>2, OneKeeper, PTL

\* The promises of the import queue hold with the analyses at work upon it: a
\* job's counts are true, a file lands whole or not at all, a success stands,
\* and a job is taken up and applied once.
THEOREM QueuePromises ==
    AnalysisSpec => []CountsAreHonest /\ LandsWholeOrNot /\ SuccessStands /\ KeepsLifecycle
BY AnalysesKeepTheQueue, CountsHonest, ImportsLandWhole, SuccessIsKept, QueueKeepsLifecycle
=============================================================================
