--------------------------- MODULE LeaderContract ---------------------------
(***************************************************************************)
(* What the cron services may rely on of LeaderElectionService: which      *)
(* replicas' shouldRun() says yes.  Two say so at once only while one of   *)
(* them has lost its session and not been told.                            *)
(***************************************************************************)
CONSTANT Replicas

VARIABLES ready,    \* replicas that are up and have tried for the lock
          leads,    \* replicas whose shouldRun() is true
          lapsed    \* those of them whose session no longer holds the lock

contractVars == <<ready, leads, lapsed>>

ContractInit == ready = {} /\ leads = {} /\ lapsed = {}

GetReady(r) ==
    /\ r \notin ready
    /\ ready' = ready \cup {r}
    /\ UNCHANGED <<leads, lapsed>>

\* The answer to an attempt, by a replica that gets ready with it or long was:
\* it leads alone, or it leads on a session already gone.
Lead(r) ==
    /\ r \notin leads
    /\ ready' = ready \cup {r}
    /\ leads' = leads \cup {r}
    /\ \/ leads \subseteq lapsed /\ lapsed' = lapsed
       \/ lapsed' = lapsed \cup {r}

\* A session that held the lock is gone.
Lapse(r) ==
    /\ r \in leads \ lapsed
    /\ lapsed' = lapsed \cup {r}
    /\ UNCHANGED <<ready, leads>>

Demote(r) ==
    /\ r \in leads
    /\ leads' = leads \ {r}
    /\ lapsed' = lapsed \ {r}
    /\ UNCHANGED ready

GoDown(r) ==
    /\ r \in ready
    /\ ready' = ready \ {r}
    /\ leads' = leads \ {r}
    /\ lapsed' = lapsed \ {r}

ContractNext ==
    \E r \in Replicas : GetReady(r) \/ Lead(r) \/ Lapse(r) \/ Demote(r) \/ GoDown(r)

ContractSpec == ContractInit /\ [][ContractNext]_contractVars
=============================================================================
