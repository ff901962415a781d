---------------------------- MODULE LayerContract ----------------------------
(***************************************************************************)
(* What a client that sends the observation it has read may rely on of a    *)
(* layer's writes, whatever statements they are made of: each feature has a *)
(* latest observation, and a request that is not given up lands whole, at   *)
(* one moment, on the observations it was made against.  A create lands on  *)
(* features that are not there, and when it is stamped before what it finds *)
(* of them, it is not seen.                                                 *)
(***************************************************************************)
EXTENDS Naturals

CONSTANTS Features, Clients,
          Stamps       \* times of observations, 0 for none

VARIABLES latest,      \* the latest observation of each feature, by its time
          live,        \* the features whose latest observation is no tombstone
          pending      \* what each client has asked for and has no answer to

layerVars == <<latest, live, pending>>

Kind == {"create", "update", "delete"}
Request == [feature : Features, kind : Kind, seen : Stamps]

LayerInit ==
    /\ latest \in [Features -> Stamps]
    /\ live \subseteq Features
    /\ pending = [c \in Clients |-> {}]

\* A client reads the features it is to write, and asks.
Ask(c, kind, fs) ==
    /\ pending[c] = {}
    /\ fs # {}
    /\ kind = "create" \/ fs \subseteq live
    /\ pending' = [pending EXCEPT ![c] =
          {[feature |-> f, kind |-> kind, seen |-> latest[f]] : f \in fs}]
    /\ UNCHANGED <<latest, live>>

\* Some of a request, or all of it, is refused or given up.
Drop(c, kept) ==
    /\ pending' = [pending EXCEPT ![c] = kept]
    /\ UNCHANGED <<latest, live>>

Fits(p, t) ==
    IF p.kind = "create" THEN p.feature \notin live
    ELSE /\ p.feature \in live
         /\ latest[p.feature] = p.seen
         /\ p.seen < t

Named(c) == {p.feature : p \in pending[c]}

\* Those of them whose new observation is the latest, and no tombstone.
Shown(c, t) ==
    {p.feature : p \in {q \in pending[c] : q.kind # "delete" /\ latest[q.feature] <= t}}

Land(c, t) ==
    /\ pending[c] # {}
    /\ pending' = [pending EXCEPT ![c] = {}]
    /\ \A p \in pending[c] : Fits(p, t)
    /\ latest' = [f \in Features |->
          IF f \in Named(c) /\ latest[f] <= t THEN t ELSE latest[f]]
    /\ live' = (live \ Named(c)) \cup Shown(c, t)

\* Features that were never there come with an import.
ComeIn(fs, t) ==
    /\ UNCHANGED pending
    /\ \A f \in fs : latest[f] = 0 /\ f \notin live
    /\ 0 < t
    /\ live' = live \cup fs
    /\ latest' = [f \in Features |-> IF f \in fs THEN t ELSE latest[f]]

LayerNext ==
    \/ \E c \in Clients :
          \/ \E kind \in Kind, fs \in SUBSET Features : Ask(c, kind, fs)
          \/ \E kept \in SUBSET pending[c] : Drop(c, kept)
          \/ \E t \in Stamps : Land(c, t)
    \/ \E fs \in SUBSET Features, t \in Stamps : ComeIn(fs, t)

LayerSpec == LayerInit /\ [][LayerNext]_layerVars
=============================================================================
