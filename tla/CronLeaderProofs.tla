-------------------------- MODULE CronLeaderProofs --------------------------
(***************************************************************************)
(* The election keeps its contract, for any replicas and any bounds.       *)
(***************************************************************************)
EXTENDS CronLeader, TLAPS

ElectionInv == LeaderTypeOK /\ LeaderHolds /\ Sessions

\* No replica leads or has a session when all are down.
LEMMA ElectionInit == LeaderInit => ElectionInv
BY LeaderAssumption DEF LeaderInit, ElectionInv, LeaderTypeOK, LeaderHolds, Sessions

\* Every step of the election keeps the types.
LEMMA TypeStep ==
    ASSUME LeaderTypeOK, [LeaderStep]_leaderVars PROVE LeaderTypeOK'
<1> USE LeaderAssumption DEF LeaderTypeOK
<1>1. ASSUME NEW r \in Replicas, Boot(r) PROVE LeaderTypeOK'
  BY <1>1 DEF Boot
<1>2. ASSUME NEW r \in Replicas, Connected(r) PROVE LeaderTypeOK'
  BY <1>2 DEF Connected, Ask, Kinds
<1>3. ASSUME NEW r \in Replicas, ConnectFails(r) PROVE LeaderTypeOK'
  BY <1>3 DEF ConnectFails
<1>4. ASSUME NEW r \in Replicas, Reconcile(r) PROVE LeaderTypeOK'
  BY <1>4 DEF Reconcile, Ask, Kinds
<1>5. ASSUME NEW r \in Replicas, ClientLost(r) PROVE LeaderTypeOK'
  BY <1>5 DEF ClientLost, OnClientDropped
<1>6. ASSUME NEW r \in Replicas, Sever(r) PROVE LeaderTypeOK'
  BY <1>6 DEF Sever
<1>7. ASSUME NEW r \in Replicas, NEW q \in queries[r], Serve(r, q) PROVE LeaderTypeOK'
  BY <1>7 DEF Serve
<1>8. ASSUME NEW r \in Replicas, NEW q \in queries[r], Answer(r, q) PROVE LeaderTypeOK'
  BY <1>8 DEF Answer
<1>9. ASSUME NEW r \in Replicas, NEW k \in BOOLEAN, Exit(r, k) PROVE LeaderTypeOK'
  BY <1>9 DEF Exit
<1>10. ASSUME GhostEnds PROVE LeaderTypeOK'
  BY <1>10 DEF GhostEnds
<1>11. ASSUME UNCHANGED leaderVars PROVE LeaderTypeOK'
  BY <1>11 DEF leaderVars
<1> QED
  BY <1>1, <1>2, <1>3, <1>4, <1>5, <1>6, <1>7, <1>8, <1>9, <1>10, <1>11 DEF LeaderStep, LeaderNext

\* Each step keeps the sessions' bookkeeping, given that it keeps the types.
LEMMA SessionStep ==
    ASSUME ElectionInv, LeaderTypeOK', [LeaderStep]_leaderVars PROVE LeaderHolds' /\ Sessions'
<1> USE LeaderAssumption DEF ElectionInv, LeaderTypeOK, LeaderHolds, Sessions
<1>1. ASSUME NEW r \in Replicas, Boot(r) PROVE LeaderHolds' /\ Sessions'
  BY <1>1 DEF Boot
<1>2. ASSUME NEW r \in Replicas, Connected(r) PROVE LeaderHolds' /\ Sessions'
  BY <1>2 DEF Connected, Ask
<1>3. ASSUME NEW r \in Replicas, ConnectFails(r) PROVE LeaderHolds' /\ Sessions'
  BY <1>3 DEF ConnectFails
<1>4. ASSUME NEW r \in Replicas, Reconcile(r) PROVE LeaderHolds' /\ Sessions'
  BY <1>4 DEF Reconcile, Ask, Connecting
<1>5. ASSUME NEW r \in Replicas, ClientLost(r) PROVE LeaderHolds' /\ Sessions'
  BY <1>5 DEF ClientLost, OnClientDropped
<1>6. ASSUME NEW r \in Replicas, Sever(r) PROVE LeaderHolds' /\ Sessions'
  BY <1>6 DEF Sever
<1>7. ASSUME NEW r \in Replicas, NEW q \in queries[r], Serve(r, q) PROVE LeaderHolds' /\ Sessions'
  <2>1. \A x \in Replicas : lock = x => lock' = x
    BY <1>7 DEF Serve
  <2>2. \A x \in Replicas : lock' = x => client[x] = "open"
    BY <1>7 DEF Serve
  <2>3. \A x \in Replicas : \A p \in queries'[x] :
            \/ p \in queries[x]
            \/ x = r /\ p.what = q.what /\ (p.what # "check" /\ p.reply = "yes" => lock' = r)
    BY <1>7 DEF Serve
  <2>4. UNCHANGED <<phase, client, leader>> /\ \A x \in Replicas : queries[x] = {} => queries'[x] = {}
    BY <1>7 DEF Serve
  <2> QED BY <1>7, <2>1, <2>2, <2>3, <2>4
<1>8. ASSUME NEW r \in Replicas, NEW q \in queries[r], Answer(r, q) PROVE LeaderHolds' /\ Sessions'
  BY <1>8 DEF Answer, Kinds
<1>9. ASSUME NEW r \in Replicas, NEW k \in BOOLEAN, Exit(r, k) PROVE LeaderHolds' /\ Sessions'
  BY <1>9 DEF Exit
<1>10. ASSUME GhostEnds PROVE LeaderHolds' /\ Sessions'
  BY <1>10 DEF GhostEnds
<1>11. ASSUME UNCHANGED leaderVars PROVE LeaderHolds' /\ Sessions'
  BY <1>11 DEF leaderVars
<1> QED
  BY <1>1, <1>2, <1>3, <1>4, <1>5, <1>6, <1>7, <1>8, <1>9, <1>10, <1>11 DEF LeaderStep, LeaderNext

\* A replica leads on a session that holds the lock, or is about to learn that
\* it no longer does (leader-election.service.ts, onClientDropped).
THEOREM LeadsOnALiveSession == LeaderSpec => []ElectionInv
<1>1. ASSUME ElectionInv, [LeaderStep]_leaderVars PROVE ElectionInv'
  BY <1>1, TypeStep, SessionStep DEF ElectionInv
<1> QED
  BY <1>1, ElectionInit, PTL DEF LeaderSpec

\* Every step of the election is a step of LeaderContract, or none.
LEMMA ContractStep ==
    ASSUME ElectionInv, ElectionInv', [LeaderStep]_leaderVars
    PROVE  [Contract!ContractNext]_(Contract!contractVars)
<1> DEFINE ready == {r \in Replicas : phase[r] = "polling"}
           lapsed == {r \in Leads : lock # r}
           Same == ready' = ready /\ Leads' = Leads /\ lapsed' = lapsed
<1> USE LeaderAssumption DEF ElectionInv, LeaderTypeOK, LeaderHolds, Sessions, Leads
<1>a. ASSUME Same PROVE [Contract!ContractNext]_(Contract!contractVars)
  BY <1>a DEF Contract!contractVars
<1>b. ASSUME NEW r \in Replicas, Leads' = Leads, lapsed' = lapsed, ready' = ready \cup {r}
      PROVE  [Contract!ContractNext]_(Contract!contractVars)
  BY <1>b DEF Contract!contractVars, Contract!ContractNext, Contract!GetReady
<1>1. ASSUME NEW r \in Replicas, Boot(r) PROVE Same
  BY <1>1 DEF Boot
<1>2. ASSUME NEW r \in Replicas, Connected(r) PROVE Same
  BY <1>2 DEF Connected
<1>3. ASSUME NEW r \in Replicas, ConnectFails(r) PROVE [Contract!ContractNext]_(Contract!contractVars)
  BY <1>3, <1>b DEF ConnectFails
<1>4. ASSUME NEW r \in Replicas, Reconcile(r) PROVE Same
  BY <1>4 DEF Reconcile
<1>5. ASSUME NEW r \in Replicas, ClientLost(r) PROVE [Contract!ContractNext]_(Contract!contractVars)
  <2>1. /\ ready' = ready \cup {r} /\ Leads' = Leads \ {r} /\ lapsed' = lapsed \ {r}
    BY <1>5 DEF ClientLost, OnClientDropped
  <2>2. CASE r \in Leads
    BY <2>1, <2>2 DEF Contract!ContractNext, Contract!Demote
  <2>3. CASE r \notin Leads
    BY <2>1, <2>3, <1>b
  <2> QED BY <2>2, <2>3
<1>6. ASSUME NEW r \in Replicas, Sever(r) PROVE [Contract!ContractNext]_(Contract!contractVars)
  <2>1. ready' = ready /\ Leads' = Leads
    BY <1>6 DEF Sever
  <2>2. CASE leader[r] /\ lock = r
    <3>1. lapsed' = lapsed \cup {r} /\ r \in Leads \ lapsed
      BY <1>6, <2>2 DEF Sever
    <3> QED BY <2>1, <3>1 DEF Contract!ContractNext, Contract!Lapse
  <2>3. CASE ~(leader[r] /\ lock = r)
    BY <1>6, <2>1, <2>3, <1>a DEF Sever
  <2> QED BY <2>2, <2>3
<1>7. ASSUME NEW r \in Replicas, NEW q \in queries[r], Serve(r, q) PROVE Same
  BY <1>7 DEF Serve
<1>8. ASSUME NEW r \in Replicas, NEW q \in queries[r], Answer(r, q)
      PROVE  [Contract!ContractNext]_(Contract!contractVars)
  <2>1. lock' = lock /\ ready' \in {ready, ready \cup {r}}
    BY <1>8 DEF Answer
  <2>2. CASE q.what = "check"
    BY <1>8, <2>2, <1>a DEF Answer
  <2>3. CASE q.what # "check" /\ q.reply = "no"
    <3>1. Leads' = Leads \ {r} /\ lapsed' = lapsed \ {r}
      BY <1>8, <2>3 DEF Answer
    <3>2. CASE r \in Leads
      BY <2>1, <3>1, <3>2 DEF Contract!ContractNext, Contract!Demote
    <3>3. CASE r \notin Leads
      BY <2>1, <3>1, <3>3, <1>a, <1>b
    <3> QED BY <3>2, <3>3
  <2>4. CASE q.what # "check" /\ q.reply = "yes"
    <3>1. /\ Leads' = Leads \cup {r}
          /\ lapsed' = IF lock = r THEN lapsed ELSE lapsed \cup {r}
          /\ ready' = ready \cup {r}
      <4>0. leader' = [leader EXCEPT ![r] = TRUE]
        <5>1. leader' = [leader EXCEPT ![r] = q.reply = "yes"]
          BY <1>8, <2>4 DEF Answer
        <5>2. (q.reply = "yes") = TRUE
          BY <2>4
        <5> QED BY <5>1, <5>2, Zenon
      <4>1. leader'[r] /\ \A x \in Replicas \ {r} : leader'[x] = leader[x]
        BY <4>0
      <4>2. Leads' = Leads \cup {r}
        BY <4>1
      <4>3. ready' = ready \cup {r}
        BY <1>8, <2>4 DEF Answer, Kinds
      <4> QED BY <2>1, <4>2, <4>3
    <3>2. CASE r \in Leads
      BY <2>1, <3>1, <3>2, <1>a
    <3>3. CASE r \notin Leads
      <4>1. lock = r => Leads \subseteq lapsed
        BY <3>3
      <4> QED BY <3>1, <3>3, <4>1 DEF Contract!ContractNext, Contract!Lead
    <3> QED BY <3>2, <3>3
  <2> QED BY <1>8, <2>2, <2>3, <2>4 DEF Answer
<1>9. ASSUME NEW r \in Replicas, NEW k \in BOOLEAN, Exit(r, k)
      PROVE  [Contract!ContractNext]_(Contract!contractVars)
  <2>1. ready' = ready \ {r} /\ Leads' = Leads \ {r} /\ lapsed' = lapsed \ {r}
    BY <1>9 DEF Exit
  <2>2. CASE r \in ready
    BY <2>1, <2>2 DEF Contract!ContractNext, Contract!GoDown
  <2>3. CASE r \notin ready
    BY <2>1, <2>3, <1>a
  <2> QED BY <2>2, <2>3
<1>10. ASSUME GhostEnds PROVE Same
  BY <1>10 DEF GhostEnds
<1>11. ASSUME UNCHANGED leaderVars PROVE Same
  BY <1>11 DEF leaderVars
<1> QED
  BY <1>a, <1>1, <1>2, <1>3, <1>4, <1>5, <1>6, <1>7, <1>8, <1>9, <1>10, <1>11 DEF LeaderStep, LeaderNext

\* LeaderElectionService implements its contract: two replicas whose sessions are
\* alive never both lead, and none leads before it has tried for the lock.
THEOREM ElectionKeepsContract == LeaderSpec => KeepsContract
<1>1. LeaderInit => Contract!ContractInit
  BY DEF LeaderInit, Leads, Contract!ContractInit
<1> QED
  BY <1>1, LeadsOnALiveSession, ContractStep, PTL
     DEF LeaderSpec, KeepsContract, Contract!ContractSpec
=============================================================================
