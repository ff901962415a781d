----------------------------- MODULE FoldEffect ------------------------------
(***************************************************************************)
(* One feature, edited any number of times on a device with no signal.     *)
(* `row` is the single queue row the edits fold into, `online` is what the *)
(* server would hold had every edit been sent as it was made.  Replaying    *)
(* the row once, in one request, must leave the server in that same state.  *)
(***************************************************************************)
EXTENDS QueueFold, SequencesExt

CONSTANTS Keys,        \* the layer's field names
          Values,      \* answers to a field
          Geometries,  \* positions
          Null,        \* an absent property or geometry
          MaxOps       \* operations remembered to compare the chain fold

ASSUME FoldAssumption ==
    /\ Null \notin Values \cup Geometries
    /\ MaxOps \in Nat

VARIABLES base,    \* the server's feature when the first edit was queued
          online,  \* the server's feature had every edit been sent online
          row,     \* the folded queue row, NoRow, or Annihilated
          ops,     \* the operations made so far, at most MaxOps of them
          sane     \* whether a person could have made these edits

vars == <<base, online, row, ops, sane>>

Absent == [live |-> FALSE]
Props == [Keys -> Values \cup {Null}]
Feature == {Absent} \cup
    [live : {TRUE}, geometry : Geometries \cup {Null}, props : Props]

NoRow == [op |-> "none"]
Gone == [op |-> Annihilated]
Write == [op : {"insert", "update"}, geometry : Geometries \cup {Null},
          props : Props]
Delete == [op |-> "delete", geometry |-> Null,
           props |-> [k \in Keys |-> Null]]
Edit == Write \cup {Delete}

TypeOK ==
    /\ base \in Feature
    /\ online \in Feature
    /\ row \in Edit \cup {NoRow, Gone}
    /\ ops \in Seq(QueueOp) /\ Len(ops) <= MaxOps
    /\ sane \in BOOLEAN

\* { ...prior, ...next } and next ?? prior.
Merge(prior, next) == [k \in Keys |-> IF next[k] = Null THEN prior[k] ELSE next[k]]
Coalesce(next, prior) == IF next = Null THEN prior ELSE next

\* (slips: the newer edit's geometry, sent or not; an annihilated pair kept as
\*  a delete row)
FoldQueuedEditsBare(prior, next) ==
    LET op == FoldOp(prior.op, next.op) IN
    CASE op = Annihilated -> Gone
      [] op = "delete" -> Delete
      [] op \in {"insert", "update"} ->
            [op |-> op, geometry |-> next.geometry,
             props |-> Merge(prior.props, next.props)]
FoldQueuedEditsKept(prior, next) ==
    LET op == FoldOp(prior.op, next.op) IN
    IF op \in {"delete", Annihilated} THEN [Delete EXCEPT !.op = op]
    ELSE [op |-> op, geometry |-> Coalesce(next.geometry, prior.geometry),
          props |-> Merge(prior.props, next.props)]

FoldQueuedEdits(prior, next) ==
    LET op == FoldOp(prior.op, next.op) IN
    CASE op = Annihilated -> Gone
      [] op = "delete" -> Delete
      [] op \in {"insert", "update"} ->
            [op |-> op,
             geometry |-> Coalesce(next.geometry, prior.geometry),
             props |-> Merge(prior.props, next.props)]

\* The loop of foldQueuedChain, an annihilation ending it.
FoldQueuedChain(chain) ==
    FoldLeft(LAMBDA acc, next :
                IF acc = Annihilated THEN Annihilated ELSE FoldOp(acc, next),
             Head(chain), Tail(chain))

-----------------------------------------------------------------------------
\* How the server treats one request: a create lands once, an update merges
\* and keeps the geometry it is not sent, a delete leaves nothing.
Apply(feature, edit) ==
    CASE edit.op = "insert" ->
            IF feature.live THEN feature
            ELSE [live |-> TRUE, geometry |-> edit.geometry, props |-> edit.props]
      [] edit.op = "update" ->
            IF ~feature.live THEN feature
            ELSE [live |-> TRUE,
                  geometry |-> Coalesce(edit.geometry, feature.geometry),
                  props |-> Merge(feature.props, edit.props)]
      [] edit.op = "delete" -> Absent
      [] edit.op \in {"none", Annihilated} -> feature

Init ==
    /\ base \in Feature
    /\ online = base
    /\ row = NoRow
    /\ ops = <<>>
    /\ sane = TRUE

\* An edit a person can make: capture a feature that does not exist, edit or
\* delete one that does.
CanMake(edit) == (edit.op = "insert") = ~online.live

\* A queue written by an older build may hold any chain, so every edit is
\* explored; `sane` remembers whether a person could have made them all and
\* none wrote over a feature the same chain had deleted.
QueueEdit(edit) ==
    /\ Len(ops) < MaxOps
    /\ ops' = Append(ops, edit.op)
    /\ row' = CASE row = NoRow -> edit
                [] row = Gone  -> Gone
                [] OTHER       -> FoldQueuedEdits(row, edit)
    /\ online' = Apply(online, edit)
    /\ sane' = /\ sane
               /\ CanMake(edit)
               /\ edit.op = "insert" => ops = <<>>
    /\ UNCHANGED base

Next == \E edit \in Edit : QueueEdit(edit)

Spec == Init /\ [][Next]_vars

-----------------------------------------------------------------------------
\* Replaying the one folded row has the effect of replaying every edit in the
\* order it was made; an annihilated row stands for a feature the server is
\* never to hear of. (queue-fold.ts: N edits of an unsynced capture stay one
\* insert carrying the newest values; an attribute-only edit must not erase
\* the position the capture was made at.)
FoldPreservesEffect == sane => Apply(base, row) = online

\* A feature the server has never seen is replayed as an insert, never as an
\* update or delete it would refuse with a 404; one it holds is never re-created.
\* (queue-fold.ts: the insert-then-edit data loss the fold was written to end.)
FoldedOpFits == sane /\ row.op \in QueueOp => (row.op = "insert") = ~base.live

\* The loop over a chain of rows and the one-at-a-time fold agree, and both are
\* the closed form FieldSync uses.
ClosedForm ==
    ops # <<>> =>
        /\ row.op = FoldQueuedChain(ops)
        /\ Len(ops) > 1 =>
              row.op = FoldedChainOp(Head(ops), Last(ops),
                                     \E i \in 2..Len(ops) : ops[i] = "delete")
=============================================================================
