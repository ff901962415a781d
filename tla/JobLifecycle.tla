---------------------------- MODULE JobLifecycle ----------------------------
(***************************************************************************)
(* What a job row promises whoever submitted it, whatever table it is in:  *)
(* a job is taken up at most once, it changes the outside world at most    *)
(* once and only if it was taken up, it is reported a success only if it   *)
(* did, and once it is over it is never taken up again.  The verdict on a  *)
(* job that is over may still change (a late finish, a late cancel): the   *)
(* rows of this system do not promise that it will not.                    *)
(***************************************************************************)
EXTENDS Naturals

CONSTANT Jobs

VARIABLES phase,     \* where each job is in its life
          taken,     \* the jobs that were ever taken up
          applied,   \* how often each job changed the outside world
          success    \* the jobs reported as succeeded

vars == <<phase, taken, applied, success>>

TypeOK ==
    /\ phase \in [Jobs -> {"absent", "waiting", "taken", "over"}]
    /\ taken \subseteq Jobs
    /\ applied \in [Jobs -> {0, 1}]
    /\ success \subseteq Jobs

Init ==
    /\ phase = [j \in Jobs |-> "absent"]
    /\ taken = {}
    /\ applied = [j \in Jobs |-> 0]
    /\ success = {}

Submit(j) ==
    /\ phase[j] = "absent"
    /\ phase' = [phase EXCEPT ![j] = "waiting"]
    /\ UNCHANGED <<taken, applied, success>>

Take(j) ==
    /\ phase[j] = "waiting"
    /\ j \notin taken
    /\ phase' = [phase EXCEPT ![j] = "taken"]
    /\ taken' = taken \cup {j}
    /\ UNCHANGED <<applied, success>>

\* Where there is no queue, whoever makes the row has taken the job up.
Start(j) ==
    /\ phase[j] = "absent"
    /\ j \notin taken
    /\ phase' = [phase EXCEPT ![j] = "taken"]
    /\ taken' = taken \cup {j}
    /\ UNCHANGED <<applied, success>>

\* The effect may come when the job is already over: closing a job does not
\* stop whoever took it up.
Apply(j) ==
    /\ j \in taken
    /\ applied[j] = 0
    /\ applied' = [applied EXCEPT ![j] = 1]
    /\ UNCHANGED <<phase, taken, success>>

\* Some jobs end, and the verdict on jobs that are over may be revised.
Close(js, ok) ==
    /\ js # {}
    /\ \A j \in js : phase[j] # "absent"
    /\ \A j \in ok : applied[j] = 1
    /\ phase' = [j \in Jobs |-> IF j \in js THEN "over" ELSE phase[j]]
    /\ success' = (success \ js) \cup ok
    /\ UNCHANGED <<taken, applied>>

Next ==
    \/ \E j \in Jobs : Submit(j) \/ Take(j) \/ Start(j) \/ Apply(j)
    \/ \E js \in SUBSET Jobs : \E ok \in SUBSET js : Close(js, ok)

Spec == Init /\ [][Next]_vars
=============================================================================
