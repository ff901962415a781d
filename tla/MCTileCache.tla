---------------------------- MODULE MCTileCache ----------------------------
(* Instances of TileCache: a layer (child) and the layer it is related to  *)
(* (parent), answers about the first, and among them the ones that go by   *)
(* way of the second's keys.                                               *)
EXTENDS TileCache

CONSTANTS child, parent, keys, Via

MCScopeOf == [k \in Keys |-> IF k = keys THEN parent ELSE child]
MCDependsOn == [k \in Keys |-> IF k \in Via THEN {parent} ELSE {}]
MCInner == [k \in Keys |-> IF k \in Via THEN keys ELSE NoKey]

Requests == Permutations(Callers)

\* The sequence numbers matter only by which computes they make stale: once
\* stale a compute stays stale, and no other step reads them.
MCView == <<dbVars, store, listenVars, lane, tiles,
            [k \in Keys |-> <<flight[k].pc, flight[k].seen, flight[k].waiting,
                              flight[k].pc # "none" /\ InvalidatedSince(k)>>]>>
=============================================================================
