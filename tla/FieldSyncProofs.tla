--------------------------- MODULE FieldSyncProofs ---------------------------
(***************************************************************************)
(* Theorems about FieldSync, for any features, accounts, pages and bound.   *)
(***************************************************************************)
EXTENDS FieldSync, FiniteSetTheorems, TLAPS

-----------------------------------------------------------------------------
(* Helpers                                                                 *)

\* The oldest of a non-empty set of rows is one of them, and none is older
\* (the sort by queuedAt in enqueueEdit and queueChainHeads).
LEMMA MinOfIds ==
    ASSUME NEW S \in SUBSET EditId, S # {}
    PROVE  Min0(S) \in S /\ \A m \in S : Min0(S) <= m
<1> DEFINE R == StrictSubsetOrdering(EditId)
           T == {1..n : n \in S}
<1>1. /\ S \subseteq Nat /\ EditId \subseteq Nat
      /\ \A n \in S : n >= 1 /\ 1..n \subseteq EditId
  BY FieldSyncAssumption DEF EditId
<1>2. IsFiniteSet(EditId)
  BY FieldSyncAssumption, FS_Interval DEF EditId
<1>3. IsWellFoundedOn(R, SUBSET EditId)
  BY <1>2, FS_StrictSubsetOrderingWellFounded, FS_FiniteSubsetsOfFinite, Zenon
<1>4. T \subseteq SUBSET EditId /\ T # {}
  BY <1>1
<1>5. \E x \in T : \A y \in T : ~ (<<y, x>> \in R)
  <2> HIDE DEF R, T
  <2> QED BY <1>3, <1>4, WFMin
<1>6. PICK n \in S : \A m \in S : ~ (<<1..m, 1..n>> \in R)
  BY <1>5
<1>7. ASSUME NEW m \in S, ~(n <= m) PROVE FALSE
  <2>1. 1..m \subseteq 1..n /\ n \in 1..n /\ n \notin 1..m
    BY <1>1, <1>7
  <2>2. 1..m \in SUBSET EditId /\ 1..n \in SUBSET EditId /\ 1..m # 1..n
    BY <1>1, <2>1
  <2> QED BY <1>6, <2>1, <2>2 DEF StrictSubsetOrdering
<1> QED BY <1>7 DEF Min0

\* A table entry that is there is a row.
LEMMA PresentIsRow ==
    ASSUME NEW rows \in RowTable, NEW i \in EditId, rows[i].status # "none"
    PROVE  rows[i] \in Row
BY DEF RowTable, NoRow

LEMMA RemoveType ==
    ASSUME NEW rows \in RowTable, NEW S
    PROVE  /\ Remove(rows, S) \in RowTable
           /\ \A i \in EditId : Remove(rows, S)[i] \in {rows[i], NoRow}
           /\ \A i \in EditId \ S : Remove(rows, S)[i] = rows[i]
           /\ \A i \in EditId \cap S : Remove(rows, S)[i] = NoRow
BY DEF Remove, RowTable

LEMMA MarkType ==
    ASSUME NEW before \in [EditId -> Fate], NEW S, NEW end \in Fate
    PROVE  Mark(before, S, end) \in [EditId -> Fate]
BY DEF Mark

LEMMA FateNames == {"open", "exposed", "landed", "dropped"} = Fate
BY DEF Fate, FateRank

LEMMA IdleType == NoRows \in RowTable /\ Idle \in DrainState /\ Present(NoRows) = {}
BY DEF NoRows, NoRow, RowTable, Idle, DrainState, Present

-----------------------------------------------------------------------------
(* Type correctness                                                        *)

\* A drain between rows has one to take, a drain with a row in hand listed it,
\* the worker re-read it, and an answered replay ended some way.
DrainShape ==
    \A d \in Drains :
        /\ drain[d].pc = "picking" => Present(drain[d].todo) # {}
        /\ Holding(d) =>
              /\ drain[d].row \in Present(drain[d].todo)
              /\ d = Worker => drain[d].claimed \in Row
        /\ drain[d].pc = "answered" => drain[d].got # "none"

\* Rows are named by edits that were made.
IdsMade ==
    \A i \in EditId : i > made =>
        /\ queue[i] = NoRow
        /\ \A d \in Drains : drain[d].todo[i] = NoRow

TypeInv == TypeOK /\ DrainShape /\ IdsMade

LEMMA TypeInit == Init => TypeInv
<1> SUFFICES ASSUME Init PROVE TypeInv
  OBVIOUS
<1> USE FieldSyncAssumption, IdleType DEF Init
<1>1. TypeOK
  <2>1. queue \in RowTable /\ drain \in [Drains -> DrainState]
    BY Zenon
  <2>2. made \in 0..MaxEdits
    OBVIOUS
  <2>3. fate \in [EditId -> Fate]
    BY FateNames
  <2> QED BY <2>1, <2>2, <2>3 DEF TypeOK
<1>2. DrainShape
  BY DEF DrainShape, Holding, Idle
<1>3. IdsMade
  BY DEF IdsMade, Idle, NoRows
<1> QED BY <1>1, <1>2, <1>3 DEF TypeInv

\* After a row is settled the drain goes on with the rest of its list, or ends.
LEMMA SettledType ==
    ASSUME TypeInv, NEW d \in Drains, NEW i \in EditId,
           drain' = [drain EXCEPT ![d] = Settled(d, Remove(drain[d].todo, {i}))]
    PROVE  /\ drain' \in [Drains -> DrainState]
           /\ drain'[d].pc \in {"idle", "picking"}
           /\ drain'[d].pc = "picking" => Present(drain'[d].todo) # {}
           /\ drain'[d].todo \in {Remove(drain[d].todo, {i}), NoRows}
           /\ \A e \in Drains \ {d} : drain'[e] = drain[e]
<1> DEFINE todo == Remove(drain[d].todo, {i})
<1>1. drain \in [Drains -> DrainState] /\ drain[d] \in DrainState
  BY DEF TypeInv, TypeOK
<1>2. todo \in RowTable
  <2>1. drain[d].todo \in RowTable
    BY <1>1 DEF DrainState
  <2> QED BY <2>1, RemoveType
<1> HIDE DEF todo
<1> DEFINE next == [drain[d] EXCEPT !.pc = "picking", !.todo = todo, !.row = 0,
                                    !.claimed = NoRow, !.got = "none"]
<1>3. next \in DrainState /\ next.pc = "picking" /\ next.todo = todo
  BY <1>1, <1>2 DEF DrainState
<1>4. Idle.pc = "idle" /\ Idle.todo = NoRows
  BY DEF Idle
<1>5. Settled(d, todo) = IF Present(todo) = {} THEN Idle ELSE next
  BY DEF Settled
<1>6. drain' = [drain EXCEPT ![d] = Settled(d, todo)]
  BY DEF todo
<1> HIDE DEF next
<1>7. Settled(d, todo) \in DrainState
  BY <1>3, <1>5, IdleType
<1>8. /\ drain' \in [Drains -> DrainState]
      /\ drain'[d] = Settled(d, todo)
      /\ \A e \in Drains \ {d} : drain'[e] = drain[e]
  BY <1>1, <1>6, <1>7
<1> QED BY <1>3, <1>4, <1>5, <1>8 DEF todo

\* Queueing an edit touches its own row and rows nobody holds or parked.
LEMMA EnqueueStep ==
    ASSUME TypeInv, NEW u \in Users, NEW f \in Features, NEW op \in QueueOp,
           made < MaxEdits, NEW before \in [EditId -> Fate],
           Enqueue(u, f, op, made + 1, before)
    PROVE  /\ queue' \in RowTable
           /\ fate' \in [EditId -> Fate]
           /\ \A i \in EditId :
                 \/ queue'[i] \in {queue[i], NoRow}
                 \/ i = made + 1 /\ queue'[i].status = "pending"
                 \/ queue[i].status \in {"pending", "failed"}
           /\ \A i \in EditId : i > made + 1 => queue'[i] = NoRow
<1> DEFINE S == Foldable(u, f)
           e == made + 1
<1>1. /\ queue \in RowTable /\ made \in 0..MaxEdits /\ e \in EditId
      /\ MaxEdits \in Nat
  BY FieldSyncAssumption DEF TypeInv, TypeOK, EditId
<1>2. S \subseteq EditId /\ \A i \in S : queue[i].status \in {"pending", "failed"}
  BY DEF Foldable, RowsOf, Present
<1>3. \A i \in EditId : i > made => queue[i] = NoRow
  BY DEF TypeInv, IdsMade
<1>4. \A o \in QueueOp : FreshRow(u, f, o, e) \in Row
                         /\ FreshRow(u, f, o, e).status = "pending"
  BY <1>1 DEF FreshRow, Row, Status
<1>5. Carried(queue, S) \subseteq EditId
  <2>1. \A i \in S : queue[i] \in Row
    BY <1>1, <1>2, PresentIsRow
  <2> QED BY <2>1 DEF Carried, Row
<1>6. \A T, end : end \in Fate => Mark(before, T, end) \in [EditId -> Fate]
  BY MarkType
<1>7. CASE S = {}
  <2>1. queue' = [queue EXCEPT ![e] = FreshRow(u, f, op, e)] /\ fate' = before
    BY <1>7 DEF Enqueue
  <2>2. queue' \in RowTable
    BY <1>1, <1>4, <2>1 DEF RowTable
  <2> QED BY <1>1, <1>3, <1>4, <2>1, <2>2 DEF RowTable, EditId
<1>8. CASE S # {} /\ FoldResult(S, op) = Annihilated
  <2>1. /\ queue' = Remove(queue, S)
        /\ fate' = Mark(before, Carried(queue, S) \cup {e}, "dropped")
    BY <1>8 DEF Enqueue
  <2>2. fate' \in [EditId -> Fate]
    BY <1>6, <2>1, FateNames
  <2>3. /\ Remove(queue, S) \in RowTable
        /\ \A i \in EditId : Remove(queue, S)[i] \in {queue[i], NoRow}
    BY <1>1, RemoveType
  <2>4. \A i \in EditId : i > e => i > made
    BY <1>1 DEF EditId
  <2> HIDE DEF S, e
  <2> QED BY <1>3, <2>1, <2>2, <2>3, <2>4 DEF e
<1>9. CASE S # {} /\ FoldResult(S, op) # Annihilated
  <2> DEFINE row == FoldedRow(S, u, f, op, e)
  <2>1. Min0(S) \in S
    BY <1>2, <1>9, MinOfIds
  <2>2. FoldResult(S, op) \in QueueOp
    <3>1. queue[Min0(S)] \in Row
      BY <1>1, <1>2, <2>1, PresentIsRow
    <3>2. queue[Min0(S)].op \in QueueOp
      BY <3>1 DEF Row
    <3> QED BY <1>9, <3>2 DEF FoldResult, FoldedChainOp, QueueOp
  <2>3. row \in Row
    BY <1>1, <1>5, <2>2 DEF FoldedRow, FreshRow, Row, Status
  <2>4. queue' = [Remove(queue, S) EXCEPT ![Min0(S)] = row]
    BY <1>9 DEF Enqueue
  <2>5. fate' \in [EditId -> Fate]
    <3>1. fate' \in {before,
              Mark(before, Carried(queue, S \ {Min0(S)}) \cup {e}, "exposed")}
      BY <1>9 DEF Enqueue
    <3> QED BY <1>6, <3>1, FateNames
  <2> HIDE DEF row, S
  <2>6. Remove(queue, S) \in RowTable
        /\ \A i \in EditId : Remove(queue, S)[i] \in {queue[i], NoRow}
    BY <1>1, RemoveType
  <2>7. queue' \in RowTable
    BY <2>3, <2>4, <2>6 DEF RowTable
  <2>8. \A i \in EditId \ {Min0(S)} : queue'[i] \in {queue[i], NoRow}
    BY <2>4, <2>6 DEF RowTable
  <2>9. Min0(S) \in EditId /\ queue[Min0(S)].status \in {"pending", "failed"}
    BY <1>2, <2>1
  <2>10. \A i \in EditId : i > made => i # Min0(S)
    BY <1>3, <2>9 DEF NoRow
  <2>11. \A i \in EditId : i > e => queue'[i] = NoRow
    <3>1. \A i \in EditId : i > e => i > made
      BY <1>1 DEF EditId
    <3> QED BY <1>3, <2>8, <2>10, <3>1
  <2> QED BY <2>5, <2>7, <2>8, <2>9, <2>11
<1> QED BY <1>7, <1>8, <1>9

\* A step that leaves the drains and the count of edits alone keeps the shape.
LEMMA QueueOnly ==
    ASSUME TypeInv, UNCHANGED <<drain, made>>,
           \A i \in EditId : i > made => queue'[i] = NoRow
    PROVE  DrainShape' /\ IdsMade'
BY DEF TypeInv, DrainShape, IdsMade, Holding, Present

\* Making an edit, online or offline.
LEMMA EditStep ==
    ASSUME TypeInv, NEW u \in Users, NEW f \in Features, NEW op \in QueueOp,
           made < MaxEdits, made' = made + 1, UNCHANGED drain,
           NEW before \in [EditId -> Fate],
           \/ Enqueue(u, f, op, made + 1, before)
           \/ UNCHANGED queue /\ fate' = before
    PROVE  /\ queue' \in RowTable /\ fate' \in [EditId -> Fate]
           /\ made' \in 0..MaxEdits
           /\ DrainShape' /\ IdsMade'
<1>1. made \in 0..MaxEdits /\ queue \in RowTable /\ MaxEdits \in Nat
  BY FieldSyncAssumption DEF TypeInv, TypeOK
<1>2. /\ queue' \in RowTable /\ fate' \in [EditId -> Fate]
      /\ \A i \in EditId : i > made + 1 => queue'[i] = NoRow
  <2>1. CASE Enqueue(u, f, op, made + 1, before)
    BY <2>1, EnqueueStep
  <2>2. CASE UNCHANGED queue /\ fate' = before
    <3>1. \A i \in EditId : i > made + 1 => i > made
      BY <1>1 DEF EditId
    <3> QED BY <1>1, <2>2, <3>1 DEF TypeInv, IdsMade
  <2> QED BY <2>1, <2>2
<1>3. DrainShape'
  BY DEF TypeInv, DrainShape, Holding, Present
<1>4. IdsMade'
  <2>1. \A i \in EditId : i > made + 1 => i > made
    BY <1>1 DEF EditId
  <2> QED BY <1>2, <2>1 DEF TypeInv, IdsMade
<1> QED BY <1>1, <1>2, <1>3, <1>4

\* One drain moves to a well-formed record, the others stay.
LEMMA DrainMoves ==
    ASSUME TypeInv, NEW d \in Drains, NEW next \in DrainState,
           drain' = [drain EXCEPT ![d] = next], UNCHANGED made,
           next.pc = "picking" => Present(next.todo) # {},
           next.pc \in {"replaying", "answered"} =>
              /\ next.row \in Present(next.todo)
              /\ d = Worker => next.claimed \in Row,
           next.pc = "answered" => next.got # "none",
           \A i \in EditId : i > made => next.todo[i] = NoRow /\ queue'[i] = NoRow
    PROVE  drain' \in [Drains -> DrainState] /\ DrainShape' /\ IdsMade'
<1>1. drain \in [Drains -> DrainState]
  BY DEF TypeInv, TypeOK
<1>2. /\ drain' \in [Drains -> DrainState] /\ drain'[d] = next
      /\ \A e \in Drains \ {d} : drain'[e] = drain[e]
  BY <1>1
<1>3. DrainShape'
  BY <1>2 DEF TypeInv, DrainShape, Holding, Present
<1>4. IdsMade'
  BY <1>2 DEF TypeInv, IdsMade
<1> QED BY <1>2, <1>3, <1>4

\* A drain in hand of a row holds it as listed, and its fields are typed.
LEMMA SentType ==
    ASSUME TypeInv, NEW d \in Drains, Holding(d)
    PROVE  /\ Sent(d) \in Row
           /\ drain[d] \in DrainState
           /\ drain[d].row \in EditId /\ drain[d].row <= made
           /\ d = Worker => drain[d].claimed \in Row
<1>1. drain[d] \in DrainState /\ made \in Nat /\ MaxEdits \in Nat
  BY FieldSyncAssumption DEF TypeInv, TypeOK
<1>2. drain[d].todo \in RowTable
  BY <1>1 DEF DrainState
<1>3. drain[d].row \in Present(drain[d].todo) /\ (d = Worker => drain[d].claimed \in Row)
  BY DEF TypeInv, DrainShape
<1>4. drain[d].row \in EditId /\ drain[d].todo[drain[d].row].status # "none"
  BY <1>3 DEF Present
<1>5. ~(drain[d].row > made)
  BY <1>4 DEF TypeInv, IdsMade, NoRow
<1> QED BY <1>1, <1>2, <1>3, <1>4, <1>5, PresentIsRow DEF Sent, EditId

LEMMA StartStep ==
    ASSUME TypeInv, NEW d \in Drains, NEW u \in Users, NEW ignoreBackoff \in BOOLEAN,
           NEW heads \in SUBSET EditId,
           \A i \in heads : queue[i].status # "none",
           Start(d, u, ignoreBackoff, heads)
    PROVE  TypeInv'
<1> DEFINE todo == [i \in EditId |-> IF i \in heads THEN queue[i] ELSE NoRow]
           next == [Idle EXCEPT !.pc = "picking", !.as = u,
                                !.manual = ignoreBackoff, !.todo = todo]
<1>1. queue \in RowTable
  BY DEF TypeInv, TypeOK
<1>2. todo \in RowTable /\ Present(todo) = heads
  BY <1>1 DEF RowTable, Present, NoRow
<1>3. next \in DrainState /\ next.pc = "picking" /\ next.todo = todo
  <2> HIDE DEF todo
  <2> QED BY <1>2, IdleType DEF Idle, DrainState
<1>4. /\ heads # {} /\ drain' = [drain EXCEPT ![d] = next]
      /\ UNCHANGED <<queue, made, server, capture, idVars, history>>
  BY DEF Start
<1>5. \A i \in EditId : i > made => todo[i] = NoRow /\ queue'[i] = NoRow
  BY <1>4 DEF TypeInv, IdsMade
<1> HIDE DEF todo, next
<1>6. drain' \in [Drains -> DrainState] /\ DrainShape' /\ IdsMade'
  BY <1>2, <1>3, <1>4, <1>5, DrainMoves
<1> QED BY <1>4, <1>6 DEF TypeInv, TypeOK, idVars, history

LEMMA ClaimStep ==
    ASSUME TypeInv, NEW d \in Drains, Claim(d)
    PROVE  /\ TypeInv'
           /\ \/ /\ ~Holding(d) /\ drain'[d].pc = "replaying"
                 /\ \A e \in Drains \ {d} : drain'[e] = drain[e]
                 /\ drain'[d].row \in EditId
                 /\ Claimable(queue[drain'[d].row], drain[d].manual)
                 /\ queue[drain'[d].row].status # "none"
                 /\ queue'[drain'[d].row].status = "syncing"
                 /\ ~queue'[drain'[d].row].stale
                 /\ \A i \in EditId \ {drain'[d].row} : queue'[i] = queue[i]
              \/ /\ UNCHANGED queue /\ drain'[d].pc \in {"idle", "picking"}
                 /\ \A e \in Drains \ {d} : drain'[e] = drain[e]
<1> DEFINE i == NextRow(d)
           free == StillFree(d, i)
           claimed == [queue[i] EXCEPT !.status = "syncing", !.stale = FALSE]
           next == [drain[d] EXCEPT !.pc = "replaying", !.row = i,
                                    !.claimed = IF d = Worker THEN claimed ELSE NoRow]
<1>1. drain[d] \in DrainState /\ queue \in RowTable /\ drain[d].pc = "picking"
  BY DEF TypeInv, TypeOK, Claim
<1>2. i \in Present(drain[d].todo) /\ i \in EditId
  <2>1. Present(drain[d].todo) # {} /\ Present(drain[d].todo) \subseteq EditId
    BY <1>1 DEF TypeInv, DrainShape, Present
  <2> QED BY <2>1, MinOfIds DEF NextRow
<1>3. UNCHANGED <<made, server, capture, idVars, history>>
  BY DEF Claim
<1>4. \A j \in EditId : j > made => drain[d].todo[j] = NoRow /\ queue[j] = NoRow
  BY DEF TypeInv, IdsMade
<1>5. i \in EditId /\ ~(i > made)
  BY <1>2, <1>4 DEF Present, NoRow
<1>6. CASE free
  <2>1. queue[i] \in Row
    BY <1>1, <1>2, <1>6, PresentIsRow DEF StillFree
  <2>2. claimed \in Row /\ claimed.status = "syncing" /\ ~claimed.stale
    BY <2>1 DEF Row, Status
  <2>3. queue' = [queue EXCEPT ![i] = claimed]
    BY <1>6, Zenon DEF Claim
  <2>4. drain' = [drain EXCEPT ![d] = next]
    BY <1>6 DEF Claim, TypeInv, TypeOK
  <2>5. next \in DrainState /\ next.pc = "replaying" /\ next.row = i
        /\ next.todo = drain[d].todo /\ (d = Worker => next.claimed \in Row)
    <3> HIDE DEF claimed, i
    <3> QED BY <1>1, <1>2, <2>2 DEF DrainState
  <2> HIDE DEF i, claimed, next
  <2>6. queue' \in RowTable /\ queue'[i] = claimed
        /\ \A j \in EditId \ {i} : queue'[j] = queue[j]
    BY <1>1, <1>5, <2>2, <2>3 DEF RowTable
  <2>7. drain' \in [Drains -> DrainState] /\ DrainShape' /\ IdsMade'
    <3>1. \A j \in EditId : j > made => next.todo[j] = NoRow /\ queue'[j] = NoRow
      BY <1>4, <1>5, <2>5, <2>6
    <3> QED BY <1>2, <1>3, <2>4, <2>5, <3>1, DrainMoves
  <2>8. TypeInv'
    BY <1>3, <2>6, <2>7 DEF TypeInv, TypeOK, idVars, history
  <2>9. drain'[d] = next /\ \A e \in Drains \ {d} : drain'[e] = drain[e]
    BY <2>4 DEF TypeInv, TypeOK
  <2> QED BY <1>1, <1>2, <1>6, <2>2, <2>5, <2>6, <2>8, <2>9 DEF Holding, StillFree
<1>7. CASE ~free
  <2>1. UNCHANGED queue
        /\ drain' = [drain EXCEPT ![d] = Settled(d, Remove(drain[d].todo, {i}))]
    BY <1>7 DEF Claim
  <2>2. /\ drain' \in [Drains -> DrainState]
        /\ drain'[d].pc \in {"idle", "picking"}
        /\ drain'[d].pc = "picking" => Present(drain'[d].todo) # {}
        /\ drain'[d].todo \in {Remove(drain[d].todo, {i}), NoRows}
        /\ \A e \in Drains \ {d} : drain'[e] = drain[e]
    BY <1>2, <2>1, SettledType
  <2>3. DrainShape'
    BY <2>2 DEF TypeInv, DrainShape, Holding, Present
  <2>4. IdsMade'
    <3>1. \A j \in EditId : j > made => drain'[d].todo[j] = NoRow
      BY <1>4, <2>2 DEF Remove, NoRows
    <3> QED BY <1>3, <1>4, <2>1, <2>2, <3>1 DEF TypeInv, IdsMade
  <2> QED BY <1>3, <2>1, <2>2, <2>3, <2>4 DEF TypeInv, TypeOK, idVars, history
<1> QED BY <1>6, <1>7

\* An answer changes the drain that waited for it, and no other.
LEMMA AnsweredStep ==
    ASSUME TypeInv, NEW d \in Drains, drain[d].pc = "replaying",
           NEW outcome \in {"done", "unreachable", "failed", "rejected"},
           Answered(d, outcome), UNCHANGED <<queue, made>>
    PROVE  /\ drain' \in [Drains -> DrainState] /\ DrainShape' /\ IdsMade'
           /\ \A e \in Drains : Holding(e)' <=> Holding(e)
           /\ \A e \in Drains : drain'[e].row = drain[e].row
<1> DEFINE next == [drain[d] EXCEPT !.pc = "answered", !.got = outcome]
<1>1. drain[d] \in DrainState /\ drain \in [Drains -> DrainState]
  BY DEF TypeInv, TypeOK
<1>2. drain' = [drain EXCEPT ![d] = next]
  BY DEF Answered, TypeInv, TypeOK
<1>3. /\ next \in DrainState /\ next.pc = "answered" /\ next.got # "none"
      /\ next.row = drain[d].row /\ next.todo = drain[d].todo
      /\ next.claimed = drain[d].claimed
  BY <1>1 DEF DrainState
<1> HIDE DEF next
<1>4. /\ next.row \in Present(next.todo)
      /\ d = Worker => next.claimed \in Row
  BY <1>3 DEF TypeInv, DrainShape, Holding
<1>5. \A i \in EditId : i > made => next.todo[i] = NoRow /\ queue'[i] = NoRow
  BY <1>3 DEF TypeInv, IdsMade
<1>6. drain' \in [Drains -> DrainState] /\ DrainShape' /\ IdsMade'
  BY <1>2, <1>3, <1>4, <1>5, DrainMoves
<1>7. drain'[d] = next /\ \A e \in Drains \ {d} : drain'[e] = drain[e]
  BY <1>1, <1>2
<1> QED BY <1>3, <1>6, <1>7 DEF Holding

LEMMA SettleStep ==
    ASSUME TypeInv, NEW d \in Drains, Settle(d)
    PROVE  /\ TypeInv'
           /\ Holding(d) /\ drain'[d].pc \in {"idle", "picking"}
           /\ \A e \in Drains \ {d} : drain'[e] = drain[e]
           /\ \A i \in EditId \ {drain[d].row} : queue'[i] = queue[i]
<1> DEFINE i == drain[d].row
           got == drain[d].got
           restored == [Sent(d) EXCEPT !.stale = FALSE,
               !.status = IF @ = "failed" THEN "failed" ELSE "pending"]
           parked == [(IF d = Worker THEN drain[d].claimed ELSE Sent(d))
                         EXCEPT !.status = got, !.waiting = TRUE, !.stale = FALSE]
           written == CASE got = "done" -> NoRow
                        [] got = "unreachable" -> restored
                        [] got \in {"failed", "rejected"} -> parked
<1>1. /\ drain[d].pc = "answered" /\ Holding(d)
      /\ queue' = [queue EXCEPT ![i] = written]
      /\ drain' = [drain EXCEPT ![d] = Settled(d, Remove(drain[d].todo, {i}))]
      /\ UNCHANGED <<made, server, capture, idVars, history>>
  BY DEF Settle, Holding
<1>2. /\ Sent(d) \in Row /\ drain[d] \in DrainState /\ i \in EditId /\ i <= made
      /\ d = Worker => drain[d].claimed \in Row
  BY <1>1, SentType
<1>3. got \in {"done", "unreachable", "failed", "rejected"}
  BY <1>1, <1>2 DEF DrainState, TypeInv, DrainShape
<1>4. queue \in RowTable /\ made \in Nat
  BY FieldSyncAssumption DEF TypeInv, TypeOK
<1>5. written \in Row \cup {NoRow}
  <2>1. restored \in Row
    BY <1>2 DEF Row, Status
  <2>2. got \in {"failed", "rejected"} => parked \in Row
    <3> DEFINE base == IF d = Worker THEN drain[d].claimed ELSE Sent(d)
    <3>1. base \in Row
      BY <1>2
    <3> HIDE DEF base, got
    <3>2. got \in {"failed", "rejected"} =>
            [base EXCEPT !.status = got, !.waiting = TRUE, !.stale = FALSE] \in Row
      BY <3>1 DEF Row, Status
    <3> QED BY <3>2 DEF base
  <2> HIDE DEF restored, parked, got
  <2> QED BY <1>3, <2>1, <2>2
<1> HIDE DEF written, i
<1>6. /\ drain' \in [Drains -> DrainState]
      /\ drain'[d].pc \in {"idle", "picking"}
      /\ drain'[d].pc = "picking" => Present(drain'[d].todo) # {}
      /\ drain'[d].todo \in {Remove(drain[d].todo, {i}), NoRows}
      /\ \A e \in Drains \ {d} : drain'[e] = drain[e]
  BY <1>1, <1>2, SettledType
<1>7. queue' \in RowTable /\ \A j \in EditId \ {i} : queue'[j] = queue[j]
  BY <1>1, <1>4, <1>5 DEF RowTable
<1>8. DrainShape'
  BY <1>6 DEF TypeInv, DrainShape, Holding, Present
<1>9. IdsMade'
  <2>1. \A j \in EditId : j > made => j # i
    BY <1>2, <1>4 DEF EditId
  <2>2. \A j \in EditId : j > made => queue[j] = NoRow /\ drain[d].todo[j] = NoRow
    BY DEF TypeInv, IdsMade
  <2>3. \A j \in EditId : j > made => drain'[d].todo[j] = NoRow
    BY <1>6, <2>2 DEF Remove, NoRows
  <2> QED BY <1>1, <1>6, <1>7, <2>1, <2>2, <2>3 DEF TypeInv, IdsMade
<1>10. TypeInv'
  BY <1>1, <1>6, <1>7, <1>8, <1>9 DEF TypeInv, TypeOK, idVars, history
<1> QED BY <1>1, <1>6, <1>7, <1>10 DEF i

\* Drains that end leave the others as they were.
LEMMA DrainsEnd ==
    ASSUME TypeInv, NEW D \in SUBSET Drains, UNCHANGED <<queue, made>>,
           drain' = [d \in Drains |-> IF d \in D THEN Idle ELSE drain[d]]
    PROVE  drain' \in [Drains -> DrainState] /\ DrainShape' /\ IdsMade'
<1>1. drain \in [Drains -> DrainState]
  BY DEF TypeInv, TypeOK
<1>2. Idle.pc = "idle" /\ Idle.todo = NoRows /\ Idle \in DrainState
  BY IdleType DEF Idle
<1>3. drain' \in [Drains -> DrainState]
  BY <1>1, <1>2
<1>4. DrainShape'
  BY <1>2 DEF TypeInv, DrainShape, Holding, Present
<1>5. IdsMade'
  BY <1>2 DEF TypeInv, IdsMade, NoRows
<1> QED BY <1>3, <1>4, <1>5

\* A person's decisions and the clock rewrite rows in place or remove them.
LEMMA RowsChange ==
    ASSUME TypeInv, queue' \in RowTable, fate' \in [EditId -> Fate],
           capture' \in [Features -> {"no", "shown", "purged"}],
           UNCHANGED <<drain, made, server, idVars, misfiled>>,
           \A i \in EditId : queue[i] = NoRow => queue'[i] = NoRow
    PROVE  TypeInv'
<1>1. \A i \in EditId : i > made => queue'[i] = NoRow
  BY DEF TypeInv, IdsMade
<1>2. DrainShape' /\ IdsMade'
  BY <1>1, QueueOnly
<1> QED BY <1>2 DEF TypeInv, TypeOK, idVars

LEMMA DropStep ==
    ASSUME TypeInv, NEW S \in SUBSET EditId,
           NEW cached \in {capture, Purged}, Drop(S, cached)
    PROVE  /\ TypeInv' /\ UNCHANGED drain
           /\ \A i \in EditId : queue'[i] \in {queue[i], NoRow}
<1>1. queue \in RowTable /\ fate \in [EditId -> Fate]
  BY DEF TypeInv, TypeOK
<1>2. /\ queue' \in RowTable
      /\ \A i \in EditId : queue'[i] \in {queue[i], NoRow}
  BY <1>1, RemoveType DEF Drop
<1>3. fate' \in [EditId -> Fate]
  BY <1>1, MarkType, FateNames DEF Drop
<1>4. capture' \in [Features -> {"no", "shown", "purged"}]
  BY DEF Drop, Purged, TypeInv, TypeOK
<1> QED BY <1>2, <1>3, <1>4, RowsChange DEF Drop

\* The row a person or the clock touches keeps its other fields.
LEMMA RewriteStep ==
    ASSUME TypeInv, NEW i \in EditId, NEW row \in Row, queue[i].status # "none",
           queue' = [queue EXCEPT ![i] = row],
           UNCHANGED <<drain, made, server, capture, idVars, history>>
    PROVE  TypeInv' /\ queue'[i] = row /\ \A j \in EditId \ {i} : queue'[j] = queue[j]
<1>1. queue \in RowTable /\ fate \in [EditId -> Fate]
  BY DEF TypeInv, TypeOK
<1>2. /\ queue' \in RowTable /\ queue'[i] = row
      /\ \A j \in EditId \ {i} : queue'[j] = queue[j]
  BY <1>1 DEF RowTable
<1>3. \A j \in EditId : queue[j] = NoRow => queue'[j] = NoRow
  BY <1>2 DEF NoRow
<1> QED BY <1>1, <1>2, <1>3, RowsChange DEF history, TypeInv, TypeOK

LEMMA TypeStep == TypeInv /\ [Next]_vars => TypeInv'
<1> SUFFICES ASSUME TypeInv, [Next]_vars PROVE TypeInv'
  OBVIOUS
<1>0. /\ queue \in RowTable /\ drain \in [Drains -> DrainState]
      /\ made \in 0..MaxEdits /\ MaxEdits \in Nat /\ server \in SUBSET Features
      /\ session \in Users \cup {NoOne} /\ identity \in Users \cup {NoOne}
      /\ viewer \in [Pages -> Users \cup {NoOne}] /\ guardDue \in SUBSET Pages
      /\ capture \in [Features -> {"no", "shown", "purged"}]
      /\ fate \in [EditId -> Fate] /\ misfiled \in SUBSET EditId
      /\ EditOps \subseteq QueueOp
  BY FieldSyncAssumption DEF TypeInv, TypeOK
<1>1. ASSUME NEW p \in Pages, NEW f \in Features, NEW op \in EditOps,
             SaveOffline(p, f, op)
      PROVE  TypeInv'
  <2>1. /\ viewer[p] \in Users /\ made < MaxEdits /\ made' = made + 1
        /\ Enqueue(viewer[p], f, op, made + 1, fate) /\ Shown(f, op)
        /\ UNCHANGED <<drain, server, idVars, misfiled>>
    BY <1>0, <1>1 DEF SaveOffline
  <2>2. /\ queue' \in RowTable /\ fate' \in [EditId -> Fate]
        /\ made' \in 0..MaxEdits /\ DrainShape' /\ IdsMade'
    BY <1>0, <2>1, EditStep
  <2>3. capture' \in [Features -> {"no", "shown", "purged"}]
    BY <1>0, <2>1 DEF Shown
  <2> QED BY <2>1, <2>2, <2>3 DEF TypeInv, TypeOK, idVars
<1>2. ASSUME NEW p \in Pages, NEW f \in Features, NEW op \in EditOps,
             NEW answered \in BOOLEAN, SaveOnline(p, f, op, answered)
      PROVE  TypeInv'
  <2> DEFINE landed == Mark(fate, {made + 1}, "landed")
  <2>1. /\ viewer[p] \in Users /\ made < MaxEdits /\ made' = made + 1
        /\ \/ UNCHANGED queue /\ fate' = landed
           \/ Enqueue(viewer[p], f, op, made + 1, landed)
        /\ Shown(f, op) /\ server' = server \cup {f}
        /\ UNCHANGED <<drain, idVars, misfiled>>
    BY <1>0, <1>2 DEF SaveOnline
  <2>2. landed \in [EditId -> Fate]
    BY <1>0, MarkType, FateNames
  <2> HIDE DEF landed
  <2>3. /\ queue' \in RowTable /\ fate' \in [EditId -> Fate]
        /\ made' \in 0..MaxEdits /\ DrainShape' /\ IdsMade'
    BY <1>0, <2>1, <2>2, EditStep
  <2>4. capture' \in [Features -> {"no", "shown", "purged"}]
    BY <1>0, <2>1 DEF Shown
  <2> QED BY <1>0, <2>1, <2>3, <2>4 DEF TypeInv, TypeOK, idVars
<1>3. ASSUME NEW p \in Drains \cap Pages, NEW manual \in BOOLEAN,
             StartPageDrain(p, manual)
      PROVE  TypeInv'
  <2>1. viewer[p] \in Users /\ Start(p, viewer[p], manual,
                                    ChainHeads(Mine(viewer[p]), manual))
    BY <1>0, <1>3 DEF StartPageDrain
  <2>2. /\ ChainHeads(Mine(viewer[p]), manual) \in SUBSET EditId
        /\ \A i \in ChainHeads(Mine(viewer[p]), manual) : queue[i].status # "none"
    BY DEF ChainHeads, Mine, Present
  <2> QED BY <2>1, <2>2, StartStep
<1>4. ASSUME NEW owing \in SUBSET Features, Worker \in Drains, StartWorkerDrain(owing)
      PROVE  TypeInv'
  <2> DEFINE heads == {i \in ChainHeads(Mine(identity), FALSE) :
                          queue[i].feature \notin owing}
  <2>1. identity \in Users /\ Start(Worker, identity, FALSE, heads)
    BY <1>0, <1>4 DEF StartWorkerDrain
  <2>2. heads \in SUBSET EditId /\ \A i \in heads : queue[i].status # "none"
    BY DEF ChainHeads, Mine, Present
  <2> HIDE DEF heads
  <2> QED BY <1>4, <2>1, <2>2, StartStep
<1>5. ASSUME NEW d \in Drains, Claim(d) PROVE TypeInv'
  BY <1>5, ClaimStep
<1>6. ASSUME NEW d \in Drains, ServerHandles(d) PROVE TypeInv'
  <2>1. drain[d].pc = "replaying" /\ UNCHANGED <<queue, made, capture, idVars>>
    BY <1>6 DEF ServerHandles
  <2>2. Sent(d) \in Row
    BY <2>1, SentType DEF Holding
  <2>3. PICK outcome \in {"done", "unreachable", "failed", "rejected"} :
            Answered(d, outcome)
    <3>1. \A answer \in {"404", "2xx"} :
             Outcomes(d, answer) \subseteq {"done", "unreachable", "failed", "rejected"}
      BY DEF Outcomes, ReplayOutcome
    <3> QED BY <1>6, <3>1 DEF ServerHandles
  <2>4. drain' \in [Drains -> DrainState] /\ DrainShape' /\ IdsMade'
    BY <2>1, <2>3, AnsweredStep
  <2>5. /\ server' \in SUBSET Features
        /\ fate' \in [EditId -> Fate]
        /\ misfiled' \in SUBSET EditId
    <3>1. Sent(d).feature \in Features /\ Sent(d).edits \in SUBSET EditId
      BY <2>2 DEF Row
    <3>2. fate' \in {fate, Mark(fate, Sent(d).edits, "landed")}
          /\ misfiled' \in {misfiled, misfiled \cup Sent(d).edits}
          /\ server' \in {server, server \cup {Sent(d).feature},
                          server \ {Sent(d).feature}}
      BY <1>6 DEF ServerHandles
    <3> QED BY <1>0, <3>1, <3>2, MarkType, FateNames
  <2> QED BY <2>1, <2>4, <2>5 DEF TypeInv, TypeOK, idVars
<1>7. ASSUME NEW d \in Drains, NEW answer \in Answers, ServerRefuses(d, answer)
      PROVE  TypeInv'
  <2>1. /\ drain[d].pc = "replaying"
        /\ Answered(d, ReplayOutcome(answer, Sent(d).op))
        /\ ReplayOutcome(answer, Sent(d).op) \in {"done", "unreachable", "failed", "rejected"}
        /\ UNCHANGED <<queue, made, server, capture, idVars, history>>
    BY <1>7 DEF ServerRefuses, ReplayOutcome
  <2>2. drain' \in [Drains -> DrainState] /\ DrainShape' /\ IdsMade'
    BY <2>1, AnsweredStep
  <2> QED BY <2>1, <2>2 DEF TypeInv, TypeOK, idVars, history
<1>8. ASSUME NEW d \in Drains, RequestLost(d) PROVE TypeInv'
  <2>1. /\ drain[d].pc = "replaying" /\ Answered(d, "unreachable")
        /\ UNCHANGED <<queue, made, server, capture, idVars, history>>
    BY <1>8 DEF RequestLost
  <2>2. drain' \in [Drains -> DrainState] /\ DrainShape' /\ IdsMade'
    BY <2>1, AnsweredStep
  <2> QED BY <2>1, <2>2 DEF TypeInv, TypeOK, idVars, history
<1>9. ASSUME NEW d \in Drains, Settle(d) PROVE TypeInv'
  BY <1>9, SettleStep
<1>10. ASSUME NEW d \in Drains, Die(d) PROVE TypeInv'
  <2>1. /\ drain' = [e \in Drains |-> IF e \in {d} THEN Idle ELSE drain[e]]
        /\ UNCHANGED <<queue, made, server, capture, idVars, history>>
    BY <1>0, <1>10 DEF Die
  <2>2. drain' \in [Drains -> DrainState] /\ DrainShape' /\ IdsMade'
    BY <2>1, DrainsEnd
  <2> QED BY <2>1, <2>2 DEF TypeInv, TypeOK, idVars, history
<1>11. ASSUME NEW i \in EditId, ClaimGoesStale(i) \/ BackoffElapses(i)
       PROVE  TypeInv'
  <2>1. queue[i] \in Row
    BY <1>0, <1>11, PresentIsRow DEF ClaimGoesStale, BackoffElapses
  <2>2. PICK row \in Row : queue' = [queue EXCEPT ![i] = row]
    <3>1. [queue[i] EXCEPT !.stale = TRUE] \in Row
          /\ [queue[i] EXCEPT !.waiting = FALSE] \in Row
      BY <2>1 DEF Row
    <3> QED BY <1>11, <3>1 DEF ClaimGoesStale, BackoffElapses
  <2> QED BY <1>11, <2>2, RewriteStep DEF ClaimGoesStale, BackoffElapses
<1>12. ASSUME NEW p \in Pages, NEW i \in EditId, RetryRejected(p, i) PROVE TypeInv'
  <2>1. queue[i] \in Row
    BY <1>0, <1>12, PresentIsRow DEF RetryRejected
  <2>2. [queue[i] EXCEPT !.status = "pending"] \in Row
    BY <2>1 DEF Row, Status
  <2> QED BY <1>12, <2>2, RewriteStep DEF RetryRejected
<1>13. ASSUME NEW p \in Pages, NEW i \in EditId, DiscardRejected(p, i) PROVE TypeInv'
  BY <1>13, DropStep DEF DiscardRejected
<1>14. ASSUME NEW p \in Pages, RemoveDeployment(p) \/ RemoveForeign(p) PROVE TypeInv'
  <2>1. PICK S \in SUBSET EditId, cached \in {capture, Purged} : Drop(S, cached)
    BY <1>14 DEF RemoveDeployment, RemoveForeign, Present
  <2> QED BY <2>1, DropStep
<1>15. ASSUME NEW p \in Pages, SignOut(p) \/ LoadPage(p) PROVE TypeInv'
  <2>1. /\ drain' = [d \in Drains |-> IF d \in ({p} \cap Drains) THEN Idle ELSE drain[d]]
        /\ UNCHANGED <<queue, made, server, history>>
    BY <1>15 DEF SignOut, LoadPage
  <2>2. drain' \in [Drains -> DrainState] /\ DrainShape' /\ IdsMade'
    BY <2>1, DrainsEnd
  <2>3. /\ session' \in Users \cup {NoOne} /\ identity' \in Users \cup {NoOne}
        /\ viewer' \in [Pages -> Users \cup {NoOne}] /\ guardDue' \in SUBSET Pages
        /\ capture' \in [Features -> {"no", "shown", "purged"}]
    BY <1>0, <1>15 DEF SignOut, LoadPage, Purged
  <2> QED BY <2>1, <2>2, <2>3 DEF TypeInv, TypeOK, history
<1>16. ASSUME NEW p \in Pages, RunIdentityGuard(p) PROVE TypeInv'
  <2>1. UNCHANGED <<queue, drain, made, server, session, viewer, history>>
    BY <1>16 DEF RunIdentityGuard
  <2>2. DrainShape' /\ IdsMade'
    BY <2>1, QueueOnly DEF TypeInv, IdsMade
  <2>3. /\ identity' \in Users \cup {NoOne} /\ guardDue' \in SUBSET Pages
        /\ capture' \in [Features -> {"no", "shown", "purged"}]
    BY <1>0, <1>16 DEF RunIdentityGuard, Purged
  <2> QED BY <2>1, <2>2, <2>3 DEF TypeInv, TypeOK, history
<1>17. ASSUME NEW u \in Users, SignIn(u) PROVE TypeInv'
  <2>1. DrainShape' /\ IdsMade'
    BY <1>17, QueueOnly DEF SignIn, TypeInv, IdsMade
  <2> QED BY <1>17, <2>1 DEF SignIn, TypeInv, TypeOK, history
<1>18. ASSUME SessionExpires PROVE TypeInv'
  <2>1. DrainShape' /\ IdsMade'
    BY <1>18, QueueOnly DEF SessionExpires, TypeInv, IdsMade
  <2> QED BY <1>18, <2>1 DEF SessionExpires, TypeInv, TypeOK, history
<1>19. ASSUME UNCHANGED vars PROVE TypeInv'
  <2>1. DrainShape' /\ IdsMade'
    BY <1>19, QueueOnly DEF vars, TypeInv, IdsMade
  <2> QED BY <1>19, <2>1 DEF vars, idVars, history, TypeInv, TypeOK
<1> QED
  BY <1>1, <1>2, <1>3, <1>4, <1>5, <1>6, <1>7, <1>8, <1>9, <1>10, <1>11, <1>12,
     <1>13, <1>14, <1>15, <1>16, <1>17, <1>18, <1>19
  DEF Next, Edits, Starts, Draining, Decisions, Hands

\* Every variable keeps its type, for any features, accounts, pages and bound:
\* no interleaving of drains, edits, decisions and hand-overs writes back a
\* malformed row (offline-store.ts QueueRecord).
THEOREM TypeCorrect == Spec => []TypeOK
<1>1. Init => TypeInv
  BY TypeInit
<1>2. TypeInv /\ [Next]_vars => TypeInv'
  BY TypeStep
<1>3. TypeInv => TypeOK
  BY DEF TypeInv
<1> QED BY <1>1, <1>2, <1>3, PTL DEF Spec

-----------------------------------------------------------------------------
(* No row is replayed twice at once                                        *)

\* A row a drain has in hand is fresh in 'syncing', or has been removed under
\* it.  This is what makes ClaimExclusive inductive: nothing but the drain
\* itself, a stale claim or a removal changes such a row.
HeldRows ==
    \A d \in Drains : Holding(d) =>
        \/ queue[drain[d].row].status = "none"
        \/ queue[drain[d].row].status = "syncing" /\ ~queue[drain[d].row].stale

ClaimInv == TypeInv /\ HeldRows /\ ClaimExclusive

LEMMA ClaimInvInit == Init => ClaimInv
<1> SUFFICES ASSUME Init PROVE ClaimInv
  OBVIOUS
<1>1. \A d \in Drains : ~Holding(d)
  BY DEF Init, Holding, Idle
<1> QED BY <1>1, TypeInit DEF ClaimInv, HeldRows, ClaimExclusive

\* Steps after which the holders hold what they held, and no held row changed
\* except by being removed.
LEMMA HoldersKept ==
    ASSUME ClaimInv,
           \A d \in Drains : Holding(d)' => Holding(d) /\ drain'[d].row = drain[d].row,
           \A d \in Drains : Holding(d) =>
              queue'[drain[d].row] \in {queue[drain[d].row], NoRow}
    PROVE  HeldRows' /\ ClaimExclusive'
<1>1. ClaimExclusive'
  BY DEF ClaimInv, ClaimExclusive
<1>2. HeldRows'
  <2> SUFFICES ASSUME NEW d \in Drains, Holding(d)'
               PROVE  \/ queue'[drain'[d].row].status = "none"
                      \/ queue'[drain'[d].row].status = "syncing"
                         /\ ~queue'[drain'[d].row].stale
    BY DEF HeldRows
  <2>1. Holding(d) /\ drain'[d].row = drain[d].row
    OBVIOUS
  <2> QED BY <2>1 DEF ClaimInv, HeldRows, NoRow
<1> QED BY <1>1, <1>2

\* Queueing an edit never rewrites a row in hand.
LEMMA EditKeepsHolders ==
    ASSUME ClaimInv, NEW u \in Users, NEW f \in Features, NEW op \in QueueOp,
           made < MaxEdits, UNCHANGED drain,
           NEW before \in [EditId -> Fate],
           \/ Enqueue(u, f, op, made + 1, before)
           \/ UNCHANGED queue
    PROVE  HeldRows' /\ ClaimExclusive'
<1>1. \A d \in Drains : Holding(d) => drain[d].row \in EditId /\ drain[d].row <= made
  BY SentType DEF ClaimInv
<1>2. made \in Nat
  BY FieldSyncAssumption DEF ClaimInv, TypeInv, TypeOK
<1>3. ASSUME NEW d \in Drains, Holding(d)
      PROVE  queue'[drain[d].row] \in {queue[drain[d].row], NoRow}
  <2>1. queue[drain[d].row].status \notin {"pending", "failed"}
    BY <1>3 DEF ClaimInv, HeldRows
  <2>2. drain[d].row # made + 1
    BY <1>1, <1>2, <1>3 DEF EditId
  <2>3. CASE Enqueue(u, f, op, made + 1, before)
    <3>1. \A i \in EditId :
             \/ queue'[i] \in {queue[i], NoRow}
             \/ i = made + 1 /\ queue'[i].status = "pending"
             \/ queue[i].status \in {"pending", "failed"}
      BY <2>3, EnqueueStep DEF ClaimInv
    <3> QED BY <1>1, <1>3, <2>1, <2>2, <3>1
  <2> QED BY <2>3
<1> QED BY <1>3, HoldersKept DEF Holding

LEMMA ClaimInvStep == ~SlowReplays /\ ClaimInv /\ [Next]_vars => ClaimInv'
<1> SUFFICES ASSUME ~SlowReplays, ClaimInv, [Next]_vars
             PROVE  HeldRows' /\ ClaimExclusive'
  BY TypeStep DEF ClaimInv
<1>0. /\ TypeInv /\ fate \in [EditId -> Fate] /\ EditOps \subseteq QueueOp
      /\ viewer \in [Pages -> Users \cup {NoOne}]
      /\ queue \in RowTable /\ drain \in [Drains -> DrainState]
      /\ \A d \in Drains : Holding(d) => drain[d].row \in EditId
  BY FieldSyncAssumption, SentType DEF ClaimInv, TypeInv, TypeOK
<1>1. ASSUME NEW p \in Pages, NEW f \in Features, NEW op \in EditOps,
             \/ SaveOffline(p, f, op)
             \/ \E answered \in BOOLEAN : SaveOnline(p, f, op, answered)
      PROVE  HeldRows' /\ ClaimExclusive'
  <2> DEFINE landed == Mark(fate, {made + 1}, "landed")
  <2>1. landed \in [EditId -> Fate]
    BY <1>0, MarkType, FateNames
  <2>2. PICK before \in [EditId -> Fate] :
            /\ viewer[p] \in Users /\ made < MaxEdits /\ UNCHANGED drain
            /\ \/ Enqueue(viewer[p], f, op, made + 1, before)
               \/ UNCHANGED queue
    BY <1>0, <1>1, <2>1 DEF SaveOffline, SaveOnline
  <2> QED BY <1>0, <2>2, EditKeepsHolders
<1>2. ASSUME NEW d \in Drains, NEW u \in Users \cup {NoOne},
             NEW ignoreBackoff \in BOOLEAN, NEW heads,
             Start(d, u, ignoreBackoff, heads)
      PROVE  HeldRows' /\ ClaimExclusive'
  <2>1. /\ drain'[d].pc = "picking" /\ UNCHANGED queue
        /\ \A e \in Drains \ {d} : drain'[e] = drain[e]
    BY <1>0, <1>2 DEF Start, Idle
  <2> QED BY <2>1, HoldersKept DEF Holding
<1>3. ASSUME NEW d \in Drains, Claim(d) PROVE HeldRows' /\ ClaimExclusive'
  <2>1. CASE /\ ~Holding(d) /\ drain'[d].pc = "replaying"
             /\ \A e \in Drains \ {d} : drain'[e] = drain[e]
             /\ drain'[d].row \in EditId
             /\ Claimable(queue[drain'[d].row], drain[d].manual)
             /\ queue[drain'[d].row].status # "none"
             /\ queue'[drain'[d].row].status = "syncing"
             /\ ~queue'[drain'[d].row].stale
             /\ \A i \in EditId \ {drain'[d].row} : queue'[i] = queue[i]
    <3>1. ASSUME NEW e \in Drains, Holding(e) PROVE drain[e].row # drain'[d].row
      BY <2>1, <3>1 DEF ClaimInv, HeldRows, Claimable
    <3>2. \A e \in Drains \ {d} : Holding(e)' => Holding(e) /\ drain'[e].row = drain[e].row
      BY <2>1 DEF Holding
    <3>3. ClaimExclusive'
      BY <2>1, <3>1, <3>2 DEF ClaimInv, ClaimExclusive
    <3>4. ASSUME NEW e \in Drains \ {d}, Holding(e)'
          PROVE  \/ queue'[drain'[e].row].status = "none"
                 \/ queue'[drain'[e].row].status = "syncing"
                    /\ ~queue'[drain'[e].row].stale
      <4>1. queue'[drain'[e].row] = queue[drain[e].row]
        BY <1>0, <2>1, <3>1, <3>2, <3>4
      <4> QED BY <3>2, <3>4, <4>1 DEF ClaimInv, HeldRows
    <3>5. HeldRows'
      BY <2>1, <3>4 DEF HeldRows
    <3> QED BY <3>3, <3>5
  <2>2. CASE /\ UNCHANGED queue /\ drain'[d].pc \in {"idle", "picking"}
             /\ \A e \in Drains \ {d} : drain'[e] = drain[e]
    BY <2>2, HoldersKept DEF Holding
  <2> QED BY <1>0, <1>3, <2>1, <2>2, ClaimStep
<1>4. ASSUME NEW d \in Drains, drain[d].pc = "replaying",
             NEW outcome \in {"done", "unreachable", "failed", "rejected"},
             Answered(d, outcome), UNCHANGED <<queue, made>>
      PROVE  HeldRows' /\ ClaimExclusive'
  <2>1. \A e \in Drains : (Holding(e)' <=> Holding(e)) /\ drain'[e].row = drain[e].row
    BY <1>0, <1>4, AnsweredStep
  <2> QED BY <1>4, <2>1, HoldersKept
<1>5. ASSUME NEW d \in Drains, Settle(d) PROVE HeldRows' /\ ClaimExclusive'
  <2>1. /\ Holding(d) /\ drain'[d].pc \in {"idle", "picking"}
        /\ \A e \in Drains \ {d} : drain'[e] = drain[e]
        /\ \A i \in EditId \ {drain[d].row} : queue'[i] = queue[i]
    BY <1>0, <1>5, SettleStep
  <2>2. \A e \in Drains : Holding(e)' => e # d /\ Holding(e) /\ drain'[e].row = drain[e].row
    BY <2>1 DEF Holding
  <2>3. \A e \in Drains \ {d} : Holding(e) => queue'[drain[e].row] = queue[drain[e].row]
    BY <1>0, <2>1 DEF ClaimInv, ClaimExclusive
  <2>4. ClaimExclusive'
    BY <2>2 DEF ClaimInv, ClaimExclusive
  <2>5. HeldRows'
    BY <2>2, <2>3 DEF ClaimInv, HeldRows
  <2> QED BY <2>4, <2>5
<1>6. ASSUME NEW D \in SUBSET Drains, UNCHANGED queue,
             drain' = [d \in Drains |-> IF d \in D THEN Idle ELSE drain[d]]
      PROVE  HeldRows' /\ ClaimExclusive'
  <2>1. \A d \in Drains : Holding(d)' => Holding(d) /\ drain'[d].row = drain[d].row
    BY <1>6 DEF Holding, Idle
  <2> QED BY <1>6, <2>1, HoldersKept
<1>7. ASSUME NEW i \in EditId, NEW row, UNCHANGED drain,
             queue' = [queue EXCEPT ![i] = row],
             ~\E d \in Drains : Holding(d) /\ drain[d].row = i
      PROVE  HeldRows' /\ ClaimExclusive'
  <2>1. \A d \in Drains : Holding(d) => queue'[drain[d].row] = queue[drain[d].row]
    BY <1>0, <1>7 DEF RowTable
  <2> QED BY <1>7, <2>1, HoldersKept DEF Holding
<1>8. ASSUME NEW S \in SUBSET EditId, NEW cached \in {capture, Purged},
             Drop(S, cached)
      PROVE  HeldRows' /\ ClaimExclusive'
  <2>1. UNCHANGED drain /\ \A i \in EditId : queue'[i] \in {queue[i], NoRow}
    BY <1>0, <1>8, DropStep
  <2> QED BY <1>0, <2>1, HoldersKept DEF Holding
<1>9. ASSUME UNCHANGED <<queue, drain>> PROVE HeldRows' /\ ClaimExclusive'
  BY <1>9, HoldersKept DEF Holding
<1>10. ASSUME Edits \/ Starts PROVE HeldRows' /\ ClaimExclusive'
  BY <1>0, <1>1, <1>2, <1>10
  DEF Edits, Starts, StartPageDrain, StartWorkerDrain, TypeInv, TypeOK
<1>11. ASSUME NEW d \in Drains, Draining(d) \/ Die(d)
       PROVE  HeldRows' /\ ClaimExclusive'
  <2>1. ASSUME ServerHandles(d) PROVE HeldRows' /\ ClaimExclusive'
    <3>1. PICK outcome \in {"done", "unreachable", "failed", "rejected"} :
             Answered(d, outcome)
      <4>1. \A answer \in {"404", "2xx"} :
               Outcomes(d, answer) \subseteq {"done", "unreachable", "failed", "rejected"}
        BY DEF Outcomes, ReplayOutcome
      <4> QED BY <2>1, <4>1 DEF ServerHandles
    <3> QED BY <1>4, <2>1, <3>1 DEF ServerHandles
  <2>2. ASSUME NEW answer \in Answers, ServerRefuses(d, answer)
        PROVE  HeldRows' /\ ClaimExclusive'
    BY <1>4, <2>2 DEF ServerRefuses, ReplayOutcome
  <2>3. ASSUME RequestLost(d) PROVE HeldRows' /\ ClaimExclusive'
    BY <1>4, <2>3 DEF RequestLost
  <2>4. ASSUME Die(d) PROVE HeldRows' /\ ClaimExclusive'
    <3>1. drain' = [e \in Drains |-> IF e \in {d} THEN Idle ELSE drain[e]]
      BY <1>0, <2>4 DEF Die
    <3> QED BY <1>6, <2>4, <3>1 DEF Die
  <2> QED BY <1>3, <1>5, <1>11, <2>1, <2>2, <2>3, <2>4 DEF Draining
<1>12. ASSUME NEW i \in EditId, ClaimGoesStale(i) \/ BackoffElapses(i)
       PROVE  HeldRows' /\ ClaimExclusive'
  <2>1. ~\E d \in Drains : Holding(d) /\ drain[d].row = i
    BY <1>12 DEF ClaimGoesStale, BackoffElapses, ClaimInv, HeldRows
  <2>2. UNCHANGED drain
        /\ \E row : queue' = [queue EXCEPT ![i] = row]
    BY <1>12 DEF ClaimGoesStale, BackoffElapses
  <2> QED BY <1>7, <2>1, <2>2
<1>13. ASSUME Decisions PROVE HeldRows' /\ ClaimExclusive'
  <2>1. ASSUME NEW p \in Pages, NEW i \in EditId, RetryRejected(p, i)
        PROVE  HeldRows' /\ ClaimExclusive'
    <3>1. ~\E d \in Drains : Holding(d) /\ drain[d].row = i
      BY <2>1 DEF RetryRejected, ClaimInv, HeldRows
    <3> QED BY <1>7, <2>1, <3>1 DEF RetryRejected
  <2>2. ASSUME ~\E p \in Pages, i \in EditId : RetryRejected(p, i)
        PROVE  \E S \in SUBSET EditId, cached \in {capture, Purged} : Drop(S, cached)
    <3>1. PICK p \in Pages : \/ \E i \in EditId : DiscardRejected(p, i)
                             \/ RemoveDeployment(p) \/ RemoveForeign(p)
      BY <1>13, <2>2 DEF Decisions
    <3> QED BY <3>1 DEF DiscardRejected, RemoveDeployment, RemoveForeign, Present
  <2> QED BY <1>8, <2>1, <2>2
<1>14. ASSUME Hands PROVE HeldRows' /\ ClaimExclusive'
  <2>1. ASSUME NEW p \in Pages, SignOut(p) \/ LoadPage(p)
        PROVE  HeldRows' /\ ClaimExclusive'
    <3>1. /\ drain' = [d \in Drains |-> IF d \in ({p} \cap Drains) THEN Idle ELSE drain[d]]
          /\ UNCHANGED queue
      BY <2>1 DEF SignOut, LoadPage
    <3> QED BY <1>6, <3>1
  <2> QED BY <1>9, <1>14, <2>1 DEF Hands, SessionExpires, SignIn, RunIdentityGuard
<1>15. ASSUME UNCHANGED vars PROVE HeldRows' /\ ClaimExclusive'
  BY <1>9, <1>15 DEF vars
<1> QED BY <1>10, <1>11, <1>12, <1>13, <1>14, <1>15 DEF Next

\* As long as every replay ends before its claim goes stale, no row is ever
\* replayed by two drains at once, however many tabs are open next to the
\* worker (offline-store.ts claimQueueRow, public/sw.js claimRow).
THEOREM ClaimsAreExclusive == ~SlowReplays => (Spec => []ClaimExclusive)
<1>1. Init => ClaimInv
  BY ClaimInvInit
<1>2. ~SlowReplays /\ ClaimInv /\ [Next]_vars => ClaimInv'
  BY ClaimInvStep
<1>3. ClaimInv => ClaimExclusive
  BY DEF ClaimInv
<1> SUFFICES ASSUME ~SlowReplays PROVE Spec => []ClaimExclusive
  OBVIOUS
<1>4. ClaimInv /\ [Next]_vars => ClaimInv'
  BY <1>2
<1> QED BY <1>1, <1>3, <1>4, PTL DEF Spec

-----------------------------------------------------------------------------
(* What queueing an edit does to the rows                                  *)

LEMMA FoldableRows ==
    ASSUME TypeInv, NEW u \in Users, NEW f \in Features
    PROVE  /\ Foldable(u, f) \in SUBSET EditId
           /\ \A i \in Foldable(u, f) : /\ queue[i] \in Row
                                        /\ queue[i].status \in {"pending", "failed"}
                                        /\ queue[i].feature = f /\ queue[i].owner = u
<1>1. queue \in RowTable
  BY DEF TypeInv, TypeOK
<1>2. \A i \in Foldable(u, f) : /\ i \in EditId /\ queue[i].status # "none"
                                /\ queue[i].status \in {"pending", "failed"}
                                /\ queue[i].feature = f /\ queue[i].owner = u
  BY DEF Foldable, RowsOf, Present, OwnedBy
<1> QED BY <1>1, <1>2, PresentIsRow

\* The row that comes first is the one the others are folded into.
LEMMA FoldInto ==
    ASSUME TypeInv, NEW u \in Users, NEW f \in Features, NEW op \in QueueOp,
           made < MaxEdits, Foldable(u, f) # {},
           FoldResult(Foldable(u, f), op) # Annihilated
    PROVE  LET S == Foldable(u, f)
               row == FoldedRow(S, u, f, op, made + 1) IN
           /\ Min0(S) \in S
           /\ row \in Row /\ row.feature = f /\ row.owner = u /\ row.status = "pending"
           /\ row.edits = Carried(queue, S) \cup {made + 1}
           /\ row.op = "insert" => queue[Min0(S)].op = "insert"
<1> DEFINE S == Foldable(u, f)
           row == FoldedRow(S, u, f, op, made + 1)
<1>1. S \in SUBSET EditId /\ \A i \in S : queue[i] \in Row
  BY FoldableRows
<1>2. Min0(S) \in S
  BY <1>1, MinOfIds
<1>3. made + 1 \in EditId
  BY FieldSyncAssumption DEF TypeInv, TypeOK, EditId
<1>4. Carried(queue, S) \cup {made + 1} \in SUBSET EditId
  BY <1>1, <1>3 DEF Carried, Row
<1>5. /\ FoldResult(S, op) \in QueueOp
      /\ FoldResult(S, op) = "insert" => queue[Min0(S)].op = "insert"
  <2>1. queue[Min0(S)].op \in QueueOp
    BY <1>1, <1>2 DEF Row
  <2> QED BY <2>1 DEF FoldResult, FoldedChainOp, QueueOp
<1> HIDE DEF S
<1>6. /\ row \in Row /\ row.feature = f /\ row.owner = u /\ row.status = "pending"
      /\ row.edits = Carried(queue, S) \cup {made + 1} /\ row.op = FoldResult(S, op)
  BY <1>4, <1>5 DEF FoldedRow, FreshRow, Row, Status
<1> QED BY <1>2, <1>5, <1>6 DEF S

LEMMA EnqueueRows ==
    ASSUME TypeInv, NEW u \in Users, NEW f \in Features, NEW op \in QueueOp,
           made < MaxEdits, NEW before \in [EditId -> Fate],
           Enqueue(u, f, op, made + 1, before)
    PROVE  LET S == Foldable(u, f)
               e == made + 1 IN
           \/ /\ S = {} /\ fate' = before
              /\ queue'[e] = FreshRow(u, f, op, e)
              /\ \A i \in EditId \ {e} : queue'[i] = queue[i]
           \/ /\ S # {} /\ FoldResult(S, op) = Annihilated
              /\ fate' = Mark(before, Carried(queue, S) \cup {e}, "dropped")
              /\ \A i \in S : queue'[i] = NoRow
              /\ \A i \in EditId \ S : queue'[i] = queue[i]
           \/ /\ S # {} /\ FoldResult(S, op) # Annihilated
              /\ fate' = IF Exposes(Min0(S))
                    THEN Mark(before, Carried(queue, S \ {Min0(S)}) \cup {e}, "exposed")
                    ELSE before
              /\ queue'[Min0(S)] = FoldedRow(S, u, f, op, e)
              /\ \A i \in S \ {Min0(S)} : queue'[i] = NoRow
              /\ \A i \in EditId \ S : queue'[i] = queue[i]
<1> DEFINE S == Foldable(u, f)
           e == made + 1
           fresh == FreshRow(u, f, op, e)
           row == FoldedRow(S, u, f, op, e)
<1>1. S \in SUBSET EditId /\ queue \in RowTable /\ e \in EditId
  BY FoldableRows, FieldSyncAssumption DEF TypeInv, TypeOK, EditId
<1>2. /\ Remove(queue, S) \in RowTable
      /\ \A i \in EditId \ S : Remove(queue, S)[i] = queue[i]
      /\ \A i \in EditId \cap S : Remove(queue, S)[i] = NoRow
  BY <1>1, RemoveType
<1>3. CASE S = {}
  <2>1. queue' = [queue EXCEPT ![e] = fresh] /\ fate' = before
    BY <1>3 DEF Enqueue
  <2> HIDE DEF fresh, e, S
  <2> QED BY <1>1, <1>3, <2>1 DEF RowTable, fresh, e, S
<1>4. CASE S # {} /\ FoldResult(S, op) = Annihilated
  <2>1. /\ queue' = Remove(queue, S)
        /\ fate' = Mark(before, Carried(queue, S) \cup {e}, "dropped")
    BY <1>4 DEF Enqueue
  <2> HIDE DEF e, S
  <2> QED BY <1>1, <1>2, <1>4, <2>1 DEF e, S
<1>5. CASE S # {} /\ FoldResult(S, op) # Annihilated
  <2>1. queue' = [Remove(queue, S) EXCEPT ![Min0(S)] = row]
    BY <1>5 DEF Enqueue
  <2>2. fate' = IF Exposes(Min0(S))
           THEN Mark(before, Carried(queue, S \ {Min0(S)}) \cup {e}, "exposed") ELSE before
    BY <1>5 DEF Enqueue
  <2>3. Min0(S) \in S
    BY <1>1, <1>5, MinOfIds
  <2> HIDE DEF row, e, S
  <2>4. /\ queue'[Min0(S)] = row
        /\ \A i \in EditId \ {Min0(S)} : queue'[i] = Remove(queue, S)[i]
    BY <1>1, <1>2, <2>1, <2>3 DEF RowTable
  <2>5. /\ \A i \in S \ {Min0(S)} : queue'[i] = NoRow
        /\ \A i \in EditId \ S : queue'[i] = queue[i]
    BY <1>1, <1>2, <2>3, <2>4
  <2> QED BY <1>5, <2>2, <2>4, <2>5 DEF row, e, S
<1> QED BY <1>3, <1>4, <1>5

\* An edit is queued, or was answered at once.
LEMMA EditQueues ==
    ASSUME TypeInv, NEW p \in Pages, NEW f \in Features, NEW op \in EditOps,
           \/ SaveOffline(p, f, op)
           \/ \E answered \in BOOLEAN : SaveOnline(p, f, op, answered)
    PROVE  /\ viewer[p] \in Users /\ op \in QueueOp /\ made < MaxEdits
           /\ made' = made + 1 /\ UNCHANGED <<drain, idVars, misfiled>>
           /\ CanEdit(f, op) /\ Shown(f, op)
           /\ server' \in {server, server \cup {f}}
           /\ f \in server' \ server => op = "insert"
           /\ \E before \in [EditId -> Fate] :
                 /\ \A i \in EditId \ {made + 1} : before[i] = fate[i]
                 /\ f \in server' \ server => before[made + 1] # "open"
                 /\ before[made + 1] = fate[made + 1] \/ before[made + 1] = "landed"
                 /\ \/ Enqueue(viewer[p], f, op, made + 1, before)
                    \/ UNCHANGED queue /\ fate' = before /\ before[made + 1] # "open"
<1> DEFINE landed == Mark(fate, {made + 1}, "landed")
<1>1. viewer \in [Pages -> Users \cup {NoOne}] /\ fate \in [EditId -> Fate]
      /\ EditOps \subseteq QueueOp /\ made \in 0..MaxEdits /\ MaxEdits \in Nat
  BY FieldSyncAssumption DEF TypeInv, TypeOK
<1>2. ASSUME made < MaxEdits
      PROVE  /\ landed \in [EditId -> Fate]
             /\ \A i \in EditId \ {made + 1} : landed[i] = fate[i]
             /\ landed[made + 1] # "open"
             /\ landed[made + 1] = fate[made + 1] \/ landed[made + 1] = "landed"
  <2>1. made + 1 \in EditId
    BY <1>1, <1>2 DEF EditId
  <2>2. landed \in [EditId -> Fate]
    BY <1>1, MarkType, FateNames
  <2>3. fate[made + 1] \in Fate
    BY <1>1, <2>1
  <2>4. landed[made + 1] # "open"
        /\ (landed[made + 1] = fate[made + 1] \/ landed[made + 1] = "landed")
    BY <2>1, <2>3, FateNames DEF Mark, FateRank
  <2> QED BY <2>2, <2>4 DEF Mark
<1>3. CASE SaveOffline(p, f, op)
  BY <1>1, <1>3 DEF SaveOffline
<1>4. ASSUME NEW answered \in BOOLEAN, SaveOnline(p, f, op, answered)
      PROVE  /\ viewer[p] \in Users /\ op \in QueueOp /\ made < MaxEdits
             /\ made' = made + 1 /\ UNCHANGED <<drain, idVars, misfiled>>
             /\ CanEdit(f, op) /\ Shown(f, op)
             /\ server' = server \cup {f}
             /\ f \in server' \ server => op = "insert"
             /\ \/ Enqueue(viewer[p], f, op, made + 1, landed)
                \/ UNCHANGED queue /\ fate' = landed
  BY <1>1, <1>4 DEF SaveOnline
<1> HIDE DEF landed
<1> QED BY <1>2, <1>3, <1>4

-----------------------------------------------------------------------------
(* A parked row waits for a person                                         *)

LEMMA ParkedRow ==
    ASSUME ~SlowReplays, ClaimInv, [Next]_vars, NEW i \in EditId,
           queue[i].status = "rejected", queue'[i] # queue[i]
    PROVE  Decisions
<1>0. TypeInv /\ queue \in RowTable
  BY DEF ClaimInv, TypeInv, TypeOK
<1>1. ASSUME NEW p \in Pages, NEW f \in Features, NEW op \in EditOps,
             \/ SaveOffline(p, f, op)
             \/ \E answered \in BOOLEAN : SaveOnline(p, f, op, answered)
      PROVE  FALSE
  <2>1. /\ viewer[p] \in Users /\ op \in QueueOp /\ made < MaxEdits
        /\ \E before \in [EditId -> Fate] : Enqueue(viewer[p], f, op, made + 1, before)
    BY <1>0, <1>1, EditQueues
  <2>2. i \notin Foldable(viewer[p], f) /\ i # made + 1
    <3>1. made \in Nat /\ \A j \in EditId : j > made => queue[j] = NoRow
      BY FieldSyncAssumption, <1>0 DEF TypeInv, TypeOK, IdsMade
    <3> QED BY <1>0, <2>1, <3>1, FoldableRows DEF NoRow
  <2>3. Foldable(viewer[p], f) # {} => Min0(Foldable(viewer[p], f)) \in Foldable(viewer[p], f)
    BY <1>0, <2>1, FoldableRows, MinOfIds
  <2> QED BY <1>0, <2>1, <2>2, <2>3, EnqueueRows
<1>2. ASSUME NEW d \in Drains, Claim(d) PROVE FALSE
  BY <1>0, <1>2, ClaimStep DEF Claimable
<1>3. ASSUME NEW d \in Drains, Settle(d) PROVE FALSE
  BY <1>0, <1>3, SettleStep DEF ClaimInv, HeldRows
<1>4. ASSUME NEW d \in Drains, Draining(d) \/ Die(d) PROVE FALSE
  BY <1>2, <1>3, <1>4 DEF Draining, Die, ServerHandles, ServerRefuses, RequestLost
<1>5. ASSUME NEW j \in EditId, ClaimGoesStale(j) \/ BackoffElapses(j) PROVE FALSE
  BY <1>0, <1>5 DEF ClaimGoesStale, BackoffElapses, RowTable
<1>6. ASSUME Starts \/ Hands PROVE FALSE
  BY <1>6 DEF Starts, StartPageDrain, StartWorkerDrain, Start, Hands, SignOut, LoadPage,
              RunIdentityGuard, SignIn, SessionExpires
<1>7. ASSUME UNCHANGED vars PROVE FALSE
  BY <1>7 DEF vars
<1> QED BY <1>1, <1>4, <1>5, <1>6, <1>7 DEF Next, Edits

\* As long as every replay ends before its claim goes stale, a parked row leaves
\* 'rejected' by a person's decision only, however many drains run
\* (sync-outcome.ts: a terminal state the drain leaves alone).
THEOREM RejectedIsTerminal == ~SlowReplays => (Spec => RejectedStaysParked)
<1> SUFFICES ASSUME ~SlowReplays PROVE Spec => RejectedStaysParked
  OBVIOUS
<1>1. ClaimInv /\ [Next]_vars =>
         [\A i \in EditId : queue[i].status = "rejected" /\ queue'[i] # queue[i]
             => Decisions]_vars
  BY ParkedRow
<1>2. ClaimInv /\ [Next]_vars => ClaimInv'
  BY ClaimInvStep
<1> QED BY <1>1, <1>2, ClaimInvInit, PTL DEF Spec, RejectedStaysParked

-----------------------------------------------------------------------------
(* What a step does to a drain                                             *)

\* A drain starts, as an account the device knows, on rows of that account.
Begins(d) ==
    \E u \in Users, manual \in BOOLEAN, heads \in SUBSET EditId :
        /\ UNCHANGED <<queue, made, fate>>
        /\ u = identity \/ \E p \in Pages : u = viewer[p]
        /\ heads \subseteq ChainHeads(Mine(u), manual)
        /\ drain'[d].pc = "picking" /\ drain'[d].as = u
        /\ drain'[d].row = 0 /\ drain'[d].claimed = NoRow
        /\ \A j \in heads : drain'[d].todo[j] = queue[j]
        /\ \A j \in EditId \ heads : drain'[d].todo[j] = NoRow

\* A drain goes on with what it listed, or with some of it.
GoesOn(d) ==
    /\ \A j \in EditId : drain'[d].todo[j] \in {drain[d].todo[j], NoRow}
    /\ drain'[d].pc # "idle" => drain[d].pc # "idle" /\ drain'[d].as = drain[d].as

\* What the worker has re-read of the row in hand.
Rereads(d) ==
    \/ drain'[d].claimed = NoRow
    \/ /\ Holding(d)' => Holding(d)
       /\ drain'[d].row = drain[d].row /\ drain'[d].claimed = drain[d].claimed
    \/ /\ drain'[d].row \in EditId /\ queue[drain'[d].row] \in Row
       /\ drain'[d].claimed = [queue[drain'[d].row] EXCEPT !.status = "syncing",
                                                          !.stale = FALSE]

LEMMA SettledFields ==
    ASSUME TypeInv, NEW d \in Drains, NEW i \in EditId,
           drain' = [drain EXCEPT ![d] = Settled(d, Remove(drain[d].todo, {i}))],
           drain[d].pc # "idle"
    PROVE  GoesOn(d) /\ Rereads(d)
<1> DEFINE todo == Remove(drain[d].todo, {i})
           next == [drain[d] EXCEPT !.pc = "picking", !.todo = todo, !.row = 0,
                                    !.claimed = NoRow, !.got = "none"]
<1>1. drain \in [Drains -> DrainState] /\ drain[d] \in DrainState
  BY DEF TypeInv, TypeOK
<1>2. todo \in RowTable /\ \A j \in EditId : todo[j] \in {drain[d].todo[j], NoRow}
  <2>1. drain[d].todo \in RowTable
    BY <1>1 DEF DrainState
  <2> QED BY <2>1, RemoveType
<1>3. drain'[d] = IF Present(todo) = {} THEN Idle ELSE next
  BY <1>1 DEF Settled
<1> HIDE DEF todo
<1>4. next.todo = todo /\ next.as = drain[d].as /\ next.claimed = NoRow
  BY <1>1 DEF DrainState
<1>5. /\ Idle.pc = "idle" /\ Idle.claimed = NoRow
      /\ \A j \in EditId : Idle.todo[j] = NoRow
  BY DEF Idle, NoRows
<1> HIDE DEF next
<1> QED BY <1>2, <1>3, <1>4, <1>5 DEF GoesOn, Rereads

LEMMA DrainStays ==
    ASSUME NEW d \in Drains, drain'[d] = drain[d]
    PROVE  GoesOn(d) /\ Rereads(d)
BY DEF GoesOn, Rereads, Holding

LEMMA DrainEnds ==
    ASSUME NEW d \in Drains, drain'[d] = Idle
    PROVE  GoesOn(d) /\ Rereads(d)
<1>1. /\ Idle.pc = "idle" /\ Idle.claimed = NoRow
      /\ \A j \in EditId : Idle.todo[j] = NoRow
  BY DEF Idle, NoRows
<1> QED BY <1>1 DEF GoesOn, Rereads

LEMMA StartFields ==
    ASSUME TypeInv, NEW d \in Drains, NEW u \in Users, NEW manual \in BOOLEAN,
           NEW heads \in SUBSET EditId, Start(d, u, manual, heads),
           u = identity \/ \E p \in Pages : u = viewer[p],
           heads \subseteq ChainHeads(Mine(u), manual)
    PROVE  Begins(d) /\ \A x \in Drains \ {d} : drain'[x] = drain[x]
<1> DEFINE todo == [i \in EditId |-> IF i \in heads THEN queue[i] ELSE NoRow]
           next == [Idle EXCEPT !.pc = "picking", !.as = u,
                                !.manual = manual, !.todo = todo]
<1>1. /\ \A j \in heads : todo[j] = queue[j]
      /\ \A j \in EditId \ heads : todo[j] = NoRow
  OBVIOUS
<1> HIDE DEF todo
<1>2. /\ next.pc = "picking" /\ next.as = u /\ next.todo = todo
      /\ next.row = 0 /\ next.claimed = NoRow
  BY DEF Idle
<1>3. drain' = [drain EXCEPT ![d] = next] /\ drain \in [Drains -> DrainState]
  BY DEF Start, todo, TypeInv, TypeOK
<1> HIDE DEF next
<1>4. drain'[d] = next /\ \A x \in Drains \ {d} : drain'[x] = drain[x]
  BY <1>3
<1>5. UNCHANGED <<queue, made, fate>>
  BY DEF Start, history
<1> QED BY <1>1, <1>2, <1>4, <1>5 DEF Begins

LEMMA ClaimFields ==
    ASSUME TypeInv, NEW d \in Drains, Claim(d)
    PROVE  GoesOn(d) /\ Rereads(d) /\ \A x \in Drains \ {d} : drain'[x] = drain[x]
<1> DEFINE i == NextRow(d)
           claimed == [queue[i] EXCEPT !.status = "syncing", !.stale = FALSE]
           next == [drain[d] EXCEPT !.pc = "replaying", !.row = i,
                                    !.claimed = IF d = Worker THEN claimed ELSE NoRow]
<1>1. /\ drain[d] \in DrainState /\ queue \in RowTable /\ drain[d].pc = "picking"
      /\ drain \in [Drains -> DrainState]
  BY DEF TypeInv, TypeOK, Claim
<1>2. i \in EditId
  <2>1. Present(drain[d].todo) # {} /\ Present(drain[d].todo) \subseteq EditId
    BY <1>1 DEF TypeInv, DrainShape, Present
  <2> QED BY <2>1, MinOfIds DEF NextRow
<1>3. CASE StillFree(d, i)
  <2>1. queue[i] \in Row
    BY <1>1, <1>2, <1>3, PresentIsRow DEF StillFree
  <2>2. drain' = [drain EXCEPT ![d] = next]
    BY <1>3 DEF Claim, TypeInv, TypeOK
  <2> HIDE DEF i
  <2>3. /\ next.row = i /\ next.todo = drain[d].todo /\ next.as = drain[d].as
        /\ next.claimed \in {claimed, NoRow}
    <3> HIDE DEF claimed
    <3> QED BY <1>1, <1>2 DEF DrainState
  <2>4. drain'[d] = next /\ \A x \in Drains \ {d} : drain'[x] = drain[x]
    BY <1>1, <2>2
  <2> HIDE DEF next
  <2>5. GoesOn(d)
    BY <1>1, <2>3, <2>4 DEF GoesOn
  <2>6. Rereads(d)
    BY <1>2, <2>1, <2>3, <2>4 DEF Rereads
  <2> QED BY <2>4, <2>5, <2>6
<1>4. CASE ~StillFree(d, i)
  <2>1. drain' = [drain EXCEPT ![d] = Settled(d, Remove(drain[d].todo, {i}))]
    BY <1>4 DEF Claim
  <2>2. GoesOn(d) /\ Rereads(d)
    BY <1>1, <1>2, <2>1, SettledFields
  <2> QED BY <1>1, <2>1, <2>2
<1> QED BY <1>3, <1>4

LEMMA AnsweredFields ==
    ASSUME TypeInv, NEW d \in Drains, NEW outcome, Answered(d, outcome),
           drain[d].pc = "replaying"
    PROVE  /\ drain'[d].pc = "answered" /\ drain'[d].got = outcome
           /\ drain'[d].row = drain[d].row /\ drain'[d].todo = drain[d].todo
           /\ drain'[d].claimed = drain[d].claimed /\ drain'[d].as = drain[d].as
           /\ \A x \in Drains \ {d} : drain'[x] = drain[x]
           /\ GoesOn(d) /\ Rereads(d)
<1> DEFINE next == [drain[d] EXCEPT !.pc = "answered", !.got = outcome]
<1>1. drain[d] \in DrainState /\ drain \in [Drains -> DrainState]
  BY DEF TypeInv, TypeOK
<1>2. drain' = [drain EXCEPT ![d] = next]
  BY DEF Answered, TypeInv, TypeOK
<1>3. /\ next.pc = "answered" /\ next.got = outcome
      /\ next.row = drain[d].row /\ next.todo = drain[d].todo
      /\ next.claimed = drain[d].claimed /\ next.as = drain[d].as
  BY <1>1 DEF DrainState
<1>4. drain'[d] = next /\ \A x \in Drains \ {d} : drain'[x] = drain[x]
  BY <1>1, <1>2
<1> HIDE DEF next
<1> QED BY <1>3, <1>4 DEF GoesOn, Rereads, Holding

\* A drain starts, or goes on with what it has.
LEMMA DrainEffect ==
    ASSUME TypeInv, [Next]_vars, NEW d \in Drains
    PROVE  Begins(d) \/ (GoesOn(d) /\ Rereads(d))
<1>0. /\ drain \in [Drains -> DrainState] /\ identity \in Users \cup {NoOne}
      /\ viewer \in [Pages -> Users \cup {NoOne}] /\ Pages \cap {Worker} = {}
  BY FieldSyncAssumption DEF TypeInv, TypeOK
<1>1. CASE UNCHANGED drain
  BY <1>1, DrainStays
<1>2. ASSUME NEW p \in Drains \cap Pages, NEW manual \in BOOLEAN,
             StartPageDrain(p, manual)
      PROVE  Begins(d) \/ (GoesOn(d) /\ Rereads(d))
  <2> DEFINE heads == ChainHeads(Mine(viewer[p]), manual)
  <2>1. viewer[p] \in Users /\ Start(p, viewer[p], manual, heads)
    BY <1>0, <1>2 DEF StartPageDrain
  <2>2. heads \in SUBSET EditId
    BY DEF ChainHeads, Mine, Present
  <2>3. Begins(p) /\ \A x \in Drains \ {p} : drain'[x] = drain[x]
    BY <2>1, <2>2, StartFields
  <2> QED BY <2>3, DrainStays
<1>3. ASSUME NEW owing \in SUBSET Features, Worker \in Drains, StartWorkerDrain(owing)
      PROVE  Begins(d) \/ (GoesOn(d) /\ Rereads(d))
  <2> DEFINE heads == {i \in ChainHeads(Mine(identity), FALSE) :
                          queue[i].feature \notin owing}
  <2>1. identity \in Users /\ Start(Worker, identity, FALSE, heads)
    BY <1>0, <1>3 DEF StartWorkerDrain
  <2>2. heads \in SUBSET EditId /\ heads \subseteq ChainHeads(Mine(identity), FALSE)
    BY DEF ChainHeads, Mine, Present
  <2> HIDE DEF heads
  <2>3. Begins(Worker) /\ \A x \in Drains \ {Worker} : drain'[x] = drain[x]
    BY <1>3, <2>1, <2>2, StartFields
  <2> QED BY <1>3, <2>3, DrainStays
<1>4. ASSUME NEW x \in Drains, Draining(x)
      PROVE  GoesOn(d) /\ Rereads(d)
  <2>1. CASE Claim(x)
    BY <2>1, ClaimFields, DrainStays
  <2>2. CASE Settle(x)
    <3>1. /\ drain[x].pc # "idle" /\ drain[x].row \in EditId
          /\ drain' = [drain EXCEPT ![x] =
                Settled(x, Remove(drain[x].todo, {drain[x].row}))]
      BY <2>2, SentType DEF Settle, Holding
    <3>2. \A y \in Drains \ {x} : drain'[y] = drain[y]
      BY <1>0, <3>1
    <3> QED BY <3>1, <3>2, SettledFields, DrainStays
  <2>3. ASSUME NEW outcome, Answered(x, outcome), drain[x].pc = "replaying"
        PROVE  GoesOn(d) /\ Rereads(d)
    BY <2>3, AnsweredFields, DrainStays
  <2> QED BY <1>4, <2>1, <2>2, <2>3
      DEF Draining, ServerHandles, ServerRefuses, RequestLost
<1>5. ASSUME NEW x \in Drains, Die(x) PROVE GoesOn(d) /\ Rereads(d)
  <2>1. drain'[x] = Idle /\ \A y \in Drains \ {x} : drain'[y] = drain[y]
    BY <1>0, <1>5 DEF Die
  <2> QED BY <2>1, DrainStays, DrainEnds
<1>6. ASSUME NEW p \in Pages, SignOut(p) \/ LoadPage(p)
      PROVE  GoesOn(d) /\ Rereads(d)
  <2>1. drain'[d] \in {Idle, drain[d]}
    BY <1>6 DEF SignOut, LoadPage
  <2> QED BY <2>1, DrainStays, DrainEnds
<1>7. ASSUME Edits \/ Decisions \/ \E i \in EditId : ClaimGoesStale(i) \/ BackoffElapses(i)
      PROVE  UNCHANGED drain
  BY <1>7 DEF Edits, Decisions, SaveOffline, SaveOnline, ClaimGoesStale, BackoffElapses,
              RetryRejected, DiscardRejected, RemoveDeployment, RemoveForeign, Drop
<1>8. ASSUME Hands, ~\E p \in Pages : SignOut(p) \/ LoadPage(p)
      PROVE  UNCHANGED drain
  BY <1>8 DEF Hands, RunIdentityGuard, SignIn, SessionExpires
<1> QED BY <1>1, <1>2, <1>3, <1>4, <1>5, <1>6, <1>7, <1>8 DEF Next, Starts, vars

-----------------------------------------------------------------------------
(* One account at a time                                                   *)

\* A drain lists rows of the account it runs as.
ListedOwn ==
    \A d \in Drains, j \in EditId :
        drain[d].pc # "idle" /\ drain[d].todo[j] # NoRow =>
            drain[d].todo[j].owner = drain[d].as

\* A drain that runs, runs as an account the device still knows.
DrainsKnown ==
    \A d \in Drains : drain[d].pc # "idle" =>
        /\ drain[d].as # NoOne
        /\ drain[d].as = identity \/ \E p \in Pages : drain[d].as = viewer[p]

\* The session, the device's identity and the pages are of one account, those
\* that are of any, and the identity is that of some page.
OneAccount ==
    /\ \A p, q \in Pages : viewer[p] # NoOne /\ viewer[q] # NoOne => viewer[p] = viewer[q]
    /\ \A p \in Pages : viewer[p] # NoOne => identity \in {viewer[p], NoOne}
    /\ \A p \in Pages : viewer[p] # NoOne => session \in {viewer[p], NoOne}
    /\ session # NoOne => identity \in {session, NoOne}
    /\ identity # NoOne => Pages = {} \/ \E p \in Pages : viewer[p] = identity

AccountInv == TypeInv /\ ListedOwn /\ DrainsKnown /\ OneAccount /\ NothingMisfiled

LEMMA ListedOwnStep ==
    ASSUME TypeInv, ListedOwn, [Next]_vars
    PROVE  ListedOwn'
<1> SUFFICES ASSUME NEW d \in Drains, NEW j \in EditId, drain'[d].pc # "idle",
                    drain'[d].todo[j] # NoRow
             PROVE  drain'[d].todo[j].owner = drain'[d].as
  BY DEF ListedOwn
<1>1. CASE Begins(d)
  BY <1>1 DEF Begins, ChainHeads, Mine, OwnedBy
<1>2. CASE GoesOn(d)
  BY <1>2 DEF GoesOn, ListedOwn
<1> QED BY <1>1, <1>2, DrainEffect

\* The accounts stay where they are unless the device changes hands.
LEMMA AccountsStay ==
    ASSUME TypeInv, [Next]_vars, ~Hands
    PROVE  UNCHANGED idVars
BY DEF Next, Edits, SaveOffline, SaveOnline, Starts, StartPageDrain, StartWorkerDrain, Start,
       Draining, Claim, ServerHandles, ServerRefuses, RequestLost, Settle, Die,
       ClaimGoesStale, BackoffElapses, Decisions, RetryRejected, DiscardRejected,
       RemoveDeployment, RemoveForeign, Drop, vars

\* While nothing but drains move, a drain runs as an account that is still known.
LEMMA DrainsKnownStep ==
    ASSUME TypeInv, DrainsKnown, [Next]_vars, ~Hands
    PROVE  DrainsKnown'
<1> SUFFICES ASSUME NEW d \in Drains, drain'[d].pc # "idle"
             PROVE  /\ drain'[d].as # NoOne
                    /\ drain'[d].as = identity' \/ \E p \in Pages : drain'[d].as = viewer'[p]
  BY DEF DrainsKnown
<1>1. identity' = identity /\ viewer' = viewer
  BY AccountsStay DEF idVars
<1>2. CASE Begins(d)
  BY <1>1, <1>2, FieldSyncAssumption DEF Begins
<1>3. CASE GoesOn(d)
  BY <1>1, <1>3 DEF GoesOn, DrainsKnown
<1> QED BY <1>2, <1>3, DrainEffect

LEMMA HandsStep ==
    ASSUME TypeInv, DrainsKnown, OneAccount, Hands, Handover # "anytime"
    PROVE  DrainsKnown' /\ OneAccount' /\ misfiled' = misfiled
<1>0. /\ viewer \in [Pages -> Users \cup {NoOne}] /\ session \in Users \cup {NoOne}
      /\ identity \in Users \cup {NoOne} /\ NoOne \notin Users
      /\ drain \in [Drains -> DrainState]
  BY FieldSyncAssumption DEF TypeInv, TypeOK
<1>1. ASSUME NEW p \in Pages, SignOut(p)
      PROVE  DrainsKnown' /\ OneAccount' /\ misfiled' = misfiled
  <2>1. /\ Quiet /\ session' = NoOne /\ identity' = NoOne
        /\ viewer' = [q \in Pages |-> NoOne] /\ misfiled' = misfiled
        /\ drain' = [d \in Drains |-> IF d = p THEN Idle ELSE drain[d]]
    BY <1>1, FieldSyncAssumption DEF SignOut, history
  <2>2. Idle.pc = "idle"
    BY DEF Idle
  <2>3. \A d \in Drains : drain'[d].pc = "idle"
    BY <2>1, <2>2 DEF Quiet
  <2> QED BY <2>1, <2>3 DEF DrainsKnown, OneAccount
<1>2. ASSUME NEW p \in Pages, LoadPage(p)
      PROVE  DrainsKnown' /\ OneAccount' /\ misfiled' = misfiled
  <2>1. /\ session # NoOne /\ viewer'[p] = session
        /\ \A q \in Pages \ {p} : viewer'[q] = viewer[q]
        /\ session' = session /\ identity' = identity /\ misfiled' = misfiled
        /\ \A d \in Drains : drain'[d] \in {Idle, drain[d]}
    BY <1>0, <1>2 DEF LoadPage, history
  <2>2. \A q \in Pages : viewer[q] # NoOne => viewer'[q] = viewer[q]
    BY <2>1 DEF OneAccount
  <2>3. DrainsKnown'
    <3>1. Idle.pc = "idle"
      BY DEF Idle
    <3> QED BY <2>1, <2>2, <3>1 DEF DrainsKnown
  <2>4. OneAccount'
    BY <2>1, <2>2 DEF OneAccount
  <2> QED BY <2>1, <2>3, <2>4
<1>3. ASSUME NEW p \in Pages, RunIdentityGuard(p)
      PROVE  DrainsKnown' /\ OneAccount' /\ misfiled' = misfiled
  <2>1. /\ identity' = viewer[p]
        /\ UNCHANGED <<drain, session, viewer, misfiled>>
    BY <1>3 DEF RunIdentityGuard, history
  <2>2. DrainsKnown'
    BY <2>1 DEF DrainsKnown, OneAccount
  <2>3. OneAccount'
    BY <2>1 DEF OneAccount
  <2> QED BY <2>1, <2>2, <2>3
<1>4. ASSUME NEW u \in Users, SignIn(u)
      PROVE  DrainsKnown' /\ OneAccount' /\ misfiled' = misfiled
  <2>1. /\ identity \in {u, NoOne} /\ \A p \in Pages : viewer[p] \in {u, NoOne}
        /\ session' = u /\ UNCHANGED <<drain, identity, viewer, misfiled>>
    BY <1>4, FieldSyncAssumption DEF SignIn, history
  <2> QED BY <2>1 DEF DrainsKnown, OneAccount
<1>5. ASSUME SessionExpires PROVE DrainsKnown' /\ OneAccount' /\ misfiled' = misfiled
  <2>1. session' = NoOne /\ UNCHANGED <<drain, identity, viewer, misfiled>>
    BY <1>5 DEF SessionExpires, history
  <2> QED BY <2>1 DEF DrainsKnown, OneAccount
<1> QED BY <1>1, <1>2, <1>3, <1>4, <1>5 DEF Hands

\* A replay is handled under the account that made the edits.
LEMMA HandledAsMade ==
    ASSUME AccountInv, NEW d \in Drains, ServerHandles(d)
    PROVE  misfiled' = misfiled
<1>1. drain[d].pc = "replaying" /\ session # NoOne
  BY DEF ServerHandles
<1>2. /\ drain[d].row \in EditId /\ Sent(d) \in Row
  BY <1>1, SentType DEF AccountInv, Holding
<1>3. Sent(d) # NoRow
  BY <1>2 DEF Row, NoRow, Status
<1>4. Sent(d).owner = drain[d].as
  BY <1>1, <1>2, <1>3 DEF Sent, AccountInv, ListedOwn
<1>5. drain[d].as = session
  BY <1>1 DEF AccountInv, DrainsKnown, OneAccount
<1> QED BY <1>4, <1>5 DEF ServerHandles

LEMMA AccountStep == Handover # "anytime" /\ AccountInv /\ [Next]_vars => AccountInv'
<1> SUFFICES ASSUME Handover # "anytime", AccountInv, [Next]_vars PROVE AccountInv'
  OBVIOUS
<1>1. TypeInv'
  BY TypeStep DEF AccountInv
<1>2. ListedOwn'
  BY ListedOwnStep DEF AccountInv
<1>3. DrainsKnown'
  BY DrainsKnownStep, HandsStep DEF AccountInv
<1>4. OneAccount'
  <2>1. CASE ~Hands
    BY <2>1, AccountsStay DEF AccountInv, OneAccount, idVars
  <2> QED BY <2>1, HandsStep DEF AccountInv
<1>5. misfiled' = misfiled
  <2>1. CASE Hands
    BY <2>1, HandsStep DEF AccountInv
  <2>2. CASE \E d \in Drains : ServerHandles(d)
    BY <2>2, HandledAsMade
  <2>3. CASE ~Hands /\ ~\E d \in Drains : ServerHandles(d)
    BY <2>3
    DEF Next, Edits, SaveOffline, SaveOnline, Starts, StartPageDrain, StartWorkerDrain,
        Start, Draining, Claim, ServerRefuses, RequestLost, Settle, Die, ClaimGoesStale,
        BackoffElapses, Decisions, RetryRejected, DiscardRejected, RemoveDeployment,
        RemoveForeign, Drop, vars, history
  <2> QED BY <2>1, <2>2, <2>3
<1> QED BY <1>1, <1>2, <1>3, <1>4, <1>5 DEF AccountInv, NothingMisfiled

\* Where a device changes hands by a sign-out with no drain running and every
\* tab closed, or not at all, no edit is filed under another account: the
\* cookies a replay is sent with are those of the row's owner
\* (queue-replay.ts isQueueRowOwnedBy, field-runtime.tsx, public/sw.js).
THEOREM EditsAreFiledRight == Handover # "anytime" => (Spec => []NothingMisfiled)
<1> SUFFICES ASSUME Handover # "anytime" PROVE Spec => []NothingMisfiled
  OBVIOUS
<1>1. Init => AccountInv
  <2> SUFFICES ASSUME Init PROVE AccountInv
    OBVIOUS
  <2>1. \A d \in Drains : drain[d].pc = "idle"
    BY DEF Init, Idle
  <2>2. identity = session /\ \A p \in Pages : viewer[p] = session
    BY DEF Init
  <2> QED BY <2>1, <2>2, TypeInit
      DEF AccountInv, ListedOwn, DrainsKnown, OneAccount, NothingMisfiled, Init
<1>2. AccountInv /\ [Next]_vars => AccountInv'
  BY AccountStep
<1>3. AccountInv => NothingMisfiled
  BY DEF AccountInv
<1> QED BY <1>1, <1>2, <1>3, PTL DEF Spec

-----------------------------------------------------------------------------
(* The copies of a row                                                     *)

\* A row may be in the queue, in the lists of drains, and in the worker's hand;
\* each of them may be written to the queue in the end.
Copies(i) ==
    ({queue[i]} \cup {drain[d].todo[i] : d \in Drains}
        \cup {drain[d].claimed : d \in {x \in Drains : Holding(x) /\ drain[x].row = i}})
    \ {NoRow}

SameBody(r, s) ==
    r.feature = s.feature /\ r.op = s.op /\ r.edits = s.edits /\ r.owner = s.owner

LEMMA CopyCases ==
    ASSUME TypeInv, NEW i \in EditId
    PROVE  \A r : r \in Copies(i) <=>
              /\ r \in Row
              /\ \/ r = queue[i]
                 \/ \E d \in Drains : r = drain[d].todo[i]
                 \/ \E d \in Drains : Holding(d) /\ drain[d].row = i /\ r = drain[d].claimed
<1>1. queue[i] \in Row \cup {NoRow}
  BY DEF TypeInv, TypeOK, RowTable
<1>2. \A d \in Drains : drain[d].todo[i] \in Row \cup {NoRow}
                        /\ drain[d].claimed \in Row \cup {NoRow}
  <2> TAKE d \in Drains
  <2>1. drain[d] \in DrainState
    BY DEF TypeInv, TypeOK
  <2>2. drain[d].todo \in RowTable /\ drain[d].claimed \in Row \cup {NoRow}
    BY <2>1 DEF DrainState
  <2> QED BY <2>2 DEF RowTable
<1>3. NoRow \notin Row
  BY DEF NoRow, Row, Status
<1> HIDE DEF NoRow
<1> QED BY <1>1, <1>2, <1>3 DEF Copies

LEMMA CopyCasesNext ==
    ASSUME TypeInv', NEW i \in EditId
    PROVE  \A r : r \in Copies(i)' <=>
              /\ r \in Row
              /\ \/ r = queue'[i]
                 \/ \E d \in Drains : r = drain'[d].todo[i]
                 \/ \E d \in Drains : Holding(d)' /\ drain'[d].row = i
                                       /\ r = drain'[d].claimed
<1>1. queue'[i] \in Row \cup {NoRow}
  BY DEF TypeInv, TypeOK, RowTable
<1>2. \A d \in Drains : drain'[d].todo[i] \in Row \cup {NoRow}
                        /\ drain'[d].claimed \in Row \cup {NoRow}
  <2> TAKE d \in Drains
  <2>1. drain'[d] \in DrainState
    BY DEF TypeInv, TypeOK
  <2>2. drain'[d].todo \in RowTable /\ drain'[d].claimed \in Row \cup {NoRow}
    BY <2>1 DEF DrainState
  <2> QED BY <2>2 DEF RowTable
<1>3. NoRow \notin Row
  BY DEF NoRow, Row, Status
<1> HIDE DEF NoRow
<1> QED BY <1>1, <1>2, <1>3 DEF Copies

\* No step but a new edit makes a row say something new.
KeptCopies ==
    \A i \in EditId : \A r \in Copies(i)' : \E s \in Copies(i) : SameBody(r, s)

\* What a claim and a settlement write.
LEMMA ClaimRows ==
    ASSUME TypeInv, NEW d \in Drains, Claim(d), NEW i \in EditId, queue'[i] # NoRow
    PROVE  \E s \in Copies(i) : SameBody(queue'[i], s)
<1> DEFINE k == NextRow(d)
           claimed == [queue[k] EXCEPT !.status = "syncing", !.stale = FALSE]
<1>1. queue \in RowTable
  BY DEF TypeInv, TypeOK
<1>2. CASE queue'[i] = queue[i]
  BY <1>2 DEF Copies, SameBody
<1>3. CASE queue'[i] # queue[i]
  <2>1. /\ queue' = [queue EXCEPT ![k] = claimed] /\ StillFree(d, k)
    BY <1>3 DEF Claim
  <2>2. k = i /\ queue'[i] = claimed
    <3> HIDE DEF claimed, k
    <3> QED BY <1>1, <1>3, <2>1 DEF RowTable
  <2>3. queue[i] \in Row
    BY <1>1, <2>1, <2>2, PresentIsRow DEF StillFree
  <2>4. SameBody(queue'[i], queue[i])
    BY <2>2, <2>3 DEF SameBody, Row
  <2> QED BY <2>3, <2>4, CopyCases
<1> QED BY <1>2, <1>3

LEMMA SettleRows ==
    ASSUME TypeInv, NEW d \in Drains, Settle(d)
    PROVE  LET i == drain[d].row IN
           \/ drain[d].got = "done" /\ queue'[i] = NoRow
           \/ /\ queue'[i] \in Row
              /\ SameBody(queue'[i], Sent(d))
                 \/ (d = Worker /\ SameBody(queue'[i], drain[d].claimed))
<1> DEFINE i == drain[d].row
           got == drain[d].got
           base == IF d = Worker THEN drain[d].claimed ELSE Sent(d)
           restored == [Sent(d) EXCEPT !.stale = FALSE,
               !.status = IF @ = "failed" THEN "failed" ELSE "pending"]
           parked == [base EXCEPT !.status = got, !.waiting = TRUE, !.stale = FALSE]
           written == CASE got = "done" -> NoRow
                        [] got = "unreachable" -> restored
                        [] got \in {"failed", "rejected"} -> parked
<1>1. /\ drain[d].pc = "answered" /\ Holding(d)
      /\ queue' = [queue EXCEPT ![i] = written]
  BY DEF Settle, Holding
<1>2. /\ Sent(d) \in Row /\ drain[d] \in DrainState /\ i \in EditId
      /\ d = Worker => drain[d].claimed \in Row
  BY <1>1, SentType
<1>3. got \in {"done", "unreachable", "failed", "rejected"}
  BY <1>1, <1>2 DEF DrainState, TypeInv, DrainShape
<1>4. restored \in Row /\ SameBody(restored, Sent(d))
  BY <1>2 DEF Row, Status, SameBody
<1>5. got \in {"failed", "rejected"} => parked \in Row /\ SameBody(parked, base)
  <2>1. base \in Row
    BY <1>2
  <2> HIDE DEF base, got
  <2> QED BY <2>1 DEF Row, Status, SameBody
<1> HIDE DEF restored, parked, got, i
<1>6. \/ got = "done" /\ written = NoRow
      \/ /\ written \in Row
         /\ SameBody(written, Sent(d))
            \/ (d = Worker /\ SameBody(written, drain[d].claimed))
  BY <1>3, <1>4, <1>5
<1> HIDE DEF written
<1>7. queue'[i] = written
  BY <1>1, <1>2 DEF TypeInv, TypeOK, RowTable
<1> QED BY <1>6, <1>7 DEF i, got

LEMMA RowsKept ==
    ASSUME TypeInv, [Next]_vars, ~Edits, NEW i \in EditId, queue'[i] # NoRow
    PROVE  \E s \in Copies(i) : SameBody(queue'[i], s)
<1>0. queue \in RowTable
  BY DEF TypeInv, TypeOK
<1>1. CASE queue'[i] = queue[i]
  BY <1>1 DEF Copies, SameBody
<1>2. ASSUME NEW d \in Drains, Settle(d) PROVE \E s \in Copies(i) : SameBody(queue'[i], s)
  <2>1. CASE i = drain[d].row
    <3>1. Holding(d) /\ Sent(d) \in Row /\ Sent(d) = drain[d].todo[i]
          /\ (d = Worker => drain[d].claimed \in Row)
      BY <1>2, <2>1, SettleStep, SentType DEF Sent
    <3>2. Sent(d) \in Copies(i) /\ (d = Worker => drain[d].claimed \in Copies(i))
      BY <2>1, <3>1, CopyCases
    <3> QED BY <1>2, <2>1, <3>2, SettleRows
  <2>2. CASE i # drain[d].row
    BY <1>1, <1>2, <2>2, SettleStep
  <2> QED BY <2>1, <2>2
<1>3. ASSUME NEW d \in Drains, Draining(d) \/ Die(d)
      PROVE  \E s \in Copies(i) : SameBody(queue'[i], s)
  BY <1>1, <1>2, <1>3, ClaimRows
  DEF Draining, Die, ServerHandles, ServerRefuses, RequestLost
<1>4. ASSUME NEW j \in EditId,
             \/ ClaimGoesStale(j) \/ BackoffElapses(j)
             \/ \E p \in Pages : RetryRejected(p, j)
      PROVE  \E s \in Copies(i) : SameBody(queue'[i], s)
  <2>1. queue[j] \in Row
    BY <1>0, <1>4, PresentIsRow DEF ClaimGoesStale, BackoffElapses, RetryRejected
  <2>2. PICK row : queue' = [queue EXCEPT ![j] = row] /\ SameBody(row, queue[j])
    <3>1. /\ SameBody([queue[j] EXCEPT !.stale = TRUE], queue[j])
          /\ SameBody([queue[j] EXCEPT !.waiting = FALSE], queue[j])
          /\ SameBody([queue[j] EXCEPT !.status = "pending"], queue[j])
      BY <2>1 DEF Row, SameBody
    <3> QED BY <1>4, <3>1 DEF ClaimGoesStale, BackoffElapses, RetryRejected
  <2>3. CASE j = i
    <3>1. queue'[i] = row /\ queue[i] \in Copies(i)
      BY <1>0, <2>1, <2>2, <2>3, CopyCases DEF RowTable
    <3> QED BY <2>2, <2>3, <3>1
  <2>4. CASE j # i
    BY <1>0, <1>1, <2>2, <2>4 DEF RowTable
  <2> QED BY <2>3, <2>4
<1>5. ASSUME NEW S \in SUBSET EditId, NEW cached \in {capture, Purged}, Drop(S, cached)
      PROVE  \E s \in Copies(i) : SameBody(queue'[i], s)
  BY <1>1, <1>5, DropStep
<1>6. ASSUME Decisions PROVE \E s \in Copies(i) : SameBody(queue'[i], s)
  BY <1>4, <1>5, <1>6
  DEF Decisions, DiscardRejected, RemoveDeployment, RemoveForeign, Present
<1>7. ASSUME Starts \/ Hands \/ UNCHANGED vars PROVE queue' = queue
  BY <1>7 DEF Starts, StartPageDrain, StartWorkerDrain, Start, Hands, SignOut, LoadPage,
              RunIdentityGuard, SignIn, SessionExpires, vars
<1> QED BY <1>1, <1>3, <1>4, <1>6, <1>7 DEF Next

\* What the drains hold are copies of what there was.
LEMMA ListsKept ==
    ASSUME TypeInv, TypeInv', [Next]_vars, NEW i \in EditId, NEW d \in Drains, NEW r \in Row,
           r = drain'[d].todo[i] \/ (Holding(d)' /\ drain'[d].row = i /\ r = drain'[d].claimed)
    PROVE  \E s \in Copies(i) : SameBody(r, s)
<1>0. NoRow \notin Row
  BY DEF NoRow, Row, Status
<1>1. CASE Begins(d)
  <2>1. drain'[d].claimed = NoRow /\ drain'[d].todo[i] \in {queue[i], NoRow}
    BY <1>1 DEF Begins
  <2>2. r = queue[i]
    BY <1>0, <2>1
  <2> QED BY <2>2, CopyCases DEF SameBody
<1>2. CASE GoesOn(d) /\ Rereads(d)
  <2>1. CASE r = drain'[d].todo[i]
    <3>1. r = drain[d].todo[i]
      BY <1>0, <1>2, <2>1 DEF GoesOn
    <3> QED BY <3>1, CopyCases DEF SameBody
  <2>2. CASE Holding(d)' /\ drain'[d].row = i /\ r = drain'[d].claimed
    <3>1. CASE Holding(d) /\ drain[d].row = i /\ r = drain[d].claimed
      BY <3>1, CopyCases DEF SameBody
    <3>2. CASE /\ queue[i] \in Row
               /\ r = [queue[i] EXCEPT !.status = "syncing", !.stale = FALSE]
      <4>1. SameBody(r, queue[i])
        BY <3>2 DEF Row, SameBody
      <4> QED BY <3>2, <4>1, CopyCases
    <3> QED BY <1>0, <1>2, <2>2, <3>1, <3>2 DEF Rereads
  <2> QED BY <2>1, <2>2
<1> QED BY <1>1, <1>2, DrainEffect

LEMMA CopiesKept ==
    ASSUME TypeInv, TypeInv', [Next]_vars, ~Edits
    PROVE  KeptCopies
<1> SUFFICES ASSUME NEW i \in EditId, NEW r \in Copies(i)'
             PROVE  \E s \in Copies(i) : SameBody(r, s)
  BY DEF KeptCopies
<1>1. /\ r \in Row
      /\ \/ r = queue'[i]
         \/ \E d \in Drains : r = drain'[d].todo[i]
         \/ \E d \in Drains : Holding(d)' /\ drain'[d].row = i /\ r = drain'[d].claimed
  BY CopyCasesNext
<1>2. NoRow \notin Row
  BY DEF NoRow, Row, Status
<1> QED BY <1>1, <1>2, RowsKept, ListsKept

-----------------------------------------------------------------------------
(* Every edit is accounted for                                             *)

\* A row carries the edit it is named by, and edits that were made.
Named ==
    \A i \in EditId : \A r \in Copies(i) : i \in r.edits /\ \A e \in r.edits : e <= made

\* The copies of a row are of one feature and one account, and none of them
\* lacks an open edit that another carries.
Alike ==
    \A i \in EditId : \A r, s \in Copies(i) :
        /\ r.feature = s.feature /\ r.owner = s.owner
        /\ \A e \in r.edits : fate[e] = "open" => e \in s.edits

\* A feature that was not there at the start was captured on the device before
\* the server or any row knows of it.
Minted ==
    /\ \A f \in server : f \in OnServer \/ capture[f] # "no"
    /\ \A i \in EditId : \A r \in Copies(i) :
          /\ r.feature \in OnServer \/ capture[r.feature] # "no"
          /\ r.op = "insert" => r.feature \notin OnServer

\* One row inserts a feature.
OneInsert ==
    \A i, j \in EditId : \A r \in Copies(i), s \in Copies(j) :
        r.op = "insert" /\ s.op = "insert" /\ r.feature = s.feature => i = j

\* An insert of a feature the server has carries no open edit.
Applied ==
    \A i \in EditId : \A r \in Copies(i) :
        r.op = "insert" /\ r.feature \in server => \A e \in r.edits : fate[e] # "open"

CopyInv == Named /\ Alike /\ Minted /\ OneInsert /\ Applied

\* An edit that is not open stays so.
NoneReopens == \A e \in EditId : fate[e] # "open" => fate'[e] # "open"

LEMMA MarkNeverOpens ==
    ASSUME NEW before \in [EditId -> Fate], NEW S, NEW end \in {"exposed", "landed", "dropped"}
    PROVE  /\ \A e \in EditId : before[e] # "open" => Mark(before, S, end)[e] # "open"
           /\ \A e \in EditId : e \in S => Mark(before, S, end)[e] # "open"
<1>1. \A e \in EditId : before[e] \in {"open", "exposed", "landed", "dropped"}
  BY FateNames
<1> QED BY <1>1 DEF Mark, FateRank

\* When rows only say what they said, the invariant can only be hurt by a
\* feature that appears on the server.
LEMMA CopyInvKept ==
    ASSUME TypeInv, CopyInv, KeptCopies, NoneReopens, made <= made', made \in Nat, made' \in Nat,
           \A f \in Features : capture[f] # "no" => capture'[f] # "no",
           \A f \in server' \ server :
              /\ f \in OnServer \/ capture'[f] # "no"
              /\ \A i \in EditId : \A r \in Copies(i) :
                    r.op = "insert" /\ r.feature = f => \A e \in r.edits : fate'[e] # "open"
    PROVE  CopyInv'
<1>0. \A i \in EditId : \A r \in Copies(i) : r \in Row
  BY CopyCases
<1>1. \A i \in EditId : \A r \in Copies(i)' :
         \E s \in Copies(i) : s \in Row /\ SameBody(r, s)
  BY <1>0 DEF KeptCopies
<1>2. \A r \in Row : r.feature \in Features /\ r.edits \subseteq EditId
  BY DEF Row
<1>3. Named'
  <2> SUFFICES ASSUME NEW i \in EditId, NEW r \in Copies(i)'
               PROVE  i \in r.edits /\ \A e \in r.edits : e <= made'
    BY DEF Named
  <2>1. PICK s \in Copies(i) : s \in Row /\ SameBody(r, s)
    BY <1>1
  <2>2. i \in s.edits /\ \A e \in s.edits : e <= made /\ e \in Nat
    BY <1>2, <2>1 DEF CopyInv, Named, EditId
  <2> QED BY <2>1, <2>2 DEF SameBody
<1>4. Alike'
  <2> SUFFICES ASSUME NEW i \in EditId, NEW r \in Copies(i)', NEW s \in Copies(i)'
               PROVE  /\ r.feature = s.feature /\ r.owner = s.owner
                      /\ \A e \in r.edits : fate'[e] = "open" => e \in s.edits
    BY DEF Alike
  <2>1. PICK a \in Copies(i) : a \in Row /\ SameBody(r, a)
    BY <1>1
  <2>2. PICK b \in Copies(i) : b \in Row /\ SameBody(s, b)
    BY <1>1
  <2>3. /\ a.feature = b.feature /\ a.owner = b.owner
        /\ \A e \in a.edits : fate[e] = "open" => e \in b.edits
    BY DEF CopyInv, Alike
  <2>4. \A e \in a.edits : fate'[e] = "open" => fate[e] = "open"
    BY <1>2, <2>1 DEF NoneReopens
  <2> QED BY <2>1, <2>2, <2>3, <2>4 DEF SameBody
<1>5. Minted'
  <2>1. \A f \in server' : f \in OnServer \/ capture'[f] # "no"
    <3>1. server \subseteq Features
      BY DEF TypeInv, TypeOK
    <3> QED BY <3>1 DEF CopyInv, Minted
  <2>2. ASSUME NEW i \in EditId, NEW r \in Copies(i)'
        PROVE  /\ r.feature \in OnServer \/ capture'[r.feature] # "no"
               /\ r.op = "insert" => r.feature \notin OnServer
    <3>1. PICK s \in Copies(i) : s \in Row /\ SameBody(r, s)
      BY <1>1
    <3> QED BY <1>2, <3>1 DEF SameBody, CopyInv, Minted
  <2> QED BY <2>1, <2>2 DEF Minted
<1>6. OneInsert'
  BY <1>1 DEF CopyInv, OneInsert, SameBody
<1>7. Applied'
  <2> SUFFICES ASSUME NEW i \in EditId, NEW r \in Copies(i)', r.op = "insert",
                      r.feature \in server', NEW e \in r.edits
               PROVE  fate'[e] # "open"
    BY DEF Applied
  <2>1. PICK s \in Copies(i) : s \in Row /\ SameBody(r, s)
    BY <1>1
  <2>2. s.op = "insert" /\ s.feature \in server' /\ e \in s.edits /\ e \in EditId
    BY <1>2, <2>1 DEF SameBody
  <2>3. CASE s.feature \in server
    BY <2>2, <2>3 DEF CopyInv, Applied, NoneReopens
  <2>4. CASE s.feature \notin server
    BY <2>2, <2>4
  <2> QED BY <2>3, <2>4
<1> QED BY <1>3, <1>4, <1>5, <1>6, <1>7 DEF CopyInv

\* The server applies an insert: every copy that is an insert of the feature is
\* one of the row sent, and has no open edit that was not sent.
LEMMA CopyInvHandled ==
    ASSUME TypeInv, TypeInv', CopyInv, NEW d \in Drains, ServerHandles(d), [Next]_vars, ~Edits
    PROVE  CopyInv'
<1> DEFINE r == Sent(d)
           i == drain[d].row
<1>1. /\ drain[d].pc = "replaying" /\ UNCHANGED <<made, capture>>
      /\ fate' \in {fate, Mark(fate, r.edits, "landed")}
  BY DEF ServerHandles
<1>2. r \in Row /\ i \in EditId /\ r \in Copies(i)
  <2>1. Holding(d)
    BY <1>1 DEF Holding
  <2>2. r \in Row /\ i \in EditId /\ r = drain[d].todo[i]
    BY <2>1, SentType DEF Sent
  <2> QED BY <2>2, CopyCases
<1>3. fate \in [EditId -> Fate] /\ made \in Nat
  BY FieldSyncAssumption DEF TypeInv, TypeOK
<1>4. NoneReopens
  <2>1. \A e \in EditId : fate[e] # "open" => Mark(fate, r.edits, "landed")[e] # "open"
    BY <1>3, MarkNeverOpens
  <2> QED BY <1>1, <2>1 DEF NoneReopens
<1>5. ASSUME NEW f \in server' \ server
      PROVE  /\ f = r.feature /\ r.op = "insert"
             /\ fate' = Mark(fate, r.edits, "landed")
  BY <1>5 DEF ServerHandles
<1>6. ASSUME NEW f \in server' \ server
      PROVE  /\ f \in OnServer \/ capture'[f] # "no"
             /\ \A j \in EditId : \A s \in Copies(j) :
                    s.op = "insert" /\ s.feature = f => \A e \in s.edits : fate'[e] # "open"
  <2>1. f = r.feature /\ r.op = "insert" /\ fate' = Mark(fate, r.edits, "landed")
    BY <1>5, <1>6
  <2>2. f \in OnServer \/ capture'[f] # "no"
    BY <1>1, <1>2, <2>1 DEF CopyInv, Minted
  <2>3. ASSUME NEW j \in EditId, NEW s \in Copies(j), s.op = "insert", s.feature = f,
               NEW e \in s.edits
        PROVE  fate'[e] # "open"
    <3>1. j = i
      BY <1>2, <2>1, <2>3 DEF CopyInv, OneInsert
    <3>2. fate[e] = "open" => e \in r.edits
      BY <1>2, <2>3, <3>1 DEF CopyInv, Alike
    <3>3. e \in EditId
      BY <2>3, CopyCases DEF Row
    <3>4. e \in r.edits => Mark(fate, r.edits, "landed")[e] # "open"
      BY <1>3, <3>3, MarkNeverOpens
    <3> QED BY <1>4, <2>1, <3>2, <3>3, <3>4 DEF NoneReopens
  <2> QED BY <2>2, <2>3
<1> HIDE DEF r, i
<1>7. KeptCopies
  BY CopiesKept
<1>8. /\ made <= made' /\ made' \in Nat
      /\ \A f \in Features : capture[f] # "no" => capture'[f] # "no"
  BY <1>1, <1>3
<1> QED BY <1>3, <1>4, <1>6, <1>7, <1>8, CopyInvKept

\* Nothing is known of a feature about to be captured, nor of the next edit.
LEMMA NothingYet ==
    ASSUME TypeInv, CopyInv, NEW f \in Features
    PROVE  /\ CanEdit(f, "insert") =>
                 f \notin server /\ \A i \in EditId : \A r \in Copies(i) : r.feature # f
           /\ \A op \in {"update", "delete"} :
                 CanEdit(f, op) => f \in OnServer \/ capture[f] # "no"
           /\ \A i \in EditId : \A r \in Copies(i) :
                 i # made + 1 /\ made + 1 \notin r.edits
<1>1. made \in Nat
  BY FieldSyncAssumption DEF TypeInv, TypeOK
<1>2. CanEdit(f, "insert") =>
         f \notin server /\ \A i \in EditId : \A r \in Copies(i) : r.feature # f
  BY DEF CanEdit, CopyInv, Minted
<1>3. \A op \in {"update", "delete"} :
         CanEdit(f, op) => f \in OnServer \/ capture[f] # "no"
  BY DEF CanEdit, CopyInv, Minted
<1>4. \A i \in EditId : \A r \in Copies(i) : i # made + 1 /\ made + 1 \notin r.edits
  BY <1>1 DEF CopyInv, Named, EditId
<1> QED BY <1>2, <1>3, <1>4

\* An edit gets a row of its own.
LEMMA CopyInvFresh ==
    ASSUME TypeInv, TypeInv', CopyInv, UNCHANGED drain, made < MaxEdits, made' = made + 1,
           NEW u \in Users, NEW f \in Features, NEW op \in QueueOp,
           CanEdit(f, op), Shown(f, op),
           server' \in {server, server \cup {f}}, f \in server' \ server => op = "insert",
           \A e \in EditId \ {made + 1} : fate'[e] = fate[e],
           f \in server' \ server => fate'[made + 1] # "open",
           queue'[made + 1] = FreshRow(u, f, op, made + 1),
           \A i \in EditId \ {made + 1} : queue'[i] = queue[i]
    PROVE  CopyInv'
<1> DEFINE e == made + 1
           fresh == FreshRow(u, f, op, made + 1)
<1>1. made \in Nat /\ e \in EditId /\ MaxEdits \in Nat
      /\ capture \in [Features -> {"no", "shown", "purged"}] /\ server \subseteq Features
  BY FieldSyncAssumption DEF TypeInv, TypeOK, EditId
<1>2. /\ fresh.feature = f /\ fresh.op = op /\ fresh.edits = {e} /\ fresh.owner = u
      /\ fresh \in Row
  BY <1>1 DEF FreshRow, Row, Status
<1>3. /\ op = "insert" => f \notin server /\ \A i \in EditId : \A r \in Copies(i) : r.feature # f
      /\ op # "insert" => f \in OnServer \/ capture[f] # "no"
      /\ \A i \in EditId : \A r \in Copies(i) : i # e /\ e \notin r.edits
  <2>1. op # "insert" => op \in {"update", "delete"}
    BY DEF QueueOp
  <2> QED BY <2>1, NothingYet
<1> HIDE DEF fresh, e
<1>4. \A x \in EditId : x # e => fate'[x] = fate[x]
  BY DEF e
<1>5. \A i \in EditId : \A r \in Copies(i)' :
         \/ i # e /\ r \in Copies(i) /\ r \in Row
         \/ i = e /\ r = fresh
  <2> TAKE i \in EditId
  <2>1. \A d \in Drains : Holding(d)' = Holding(d) /\ drain'[d] = drain[d]
    BY DEF Holding
  <2>2. ASSUME NEW r \in Copies(i)', ~(i = e /\ r = queue'[i]) PROVE r \in Copies(i) /\ r \in Row
    BY <2>1, <2>2, CopyCases, CopyCasesNext DEF e
  <2>3. queue'[e] = fresh
    BY DEF e, fresh
  <2> QED BY <1>3, <2>2, <2>3
<1>6. /\ capture'[f] # "no" \/ f \in OnServer
      /\ op = "insert" => f \notin OnServer
      /\ \A g \in Features : capture[g] # "no" => capture'[g] # "no"
  BY <1>1, <1>3 DEF Shown, CanEdit
<1>7. \A r \in Row : r.feature \in Features /\ r.edits \subseteq EditId
  BY DEF Row
<1>8. Named'
  <2>1. \A x \in EditId : x <= made => x <= made'
    BY <1>1 DEF EditId
  <2>2. made' = e
    BY DEF e
  <2>3. e <= e
    BY <1>1 DEF e
  <2> QED BY <1>2, <1>5, <1>7, <2>1, <2>2, <2>3 DEF CopyInv, Named
<1>9. Alike'
  <2> SUFFICES ASSUME NEW i \in EditId, NEW r \in Copies(i)', NEW s \in Copies(i)'
               PROVE  /\ r.feature = s.feature /\ r.owner = s.owner
                      /\ \A x \in r.edits : fate'[x] = "open" => x \in s.edits
    BY DEF Alike
  <2>1. CASE i = e
    BY <1>5, <2>1
  <2>2. CASE i # e
    <3>1. r \in Copies(i) /\ s \in Copies(i) /\ r \in Row
      BY <1>5, <2>2
    <3>2. \A x \in r.edits : fate'[x] = fate[x]
      BY <1>3, <1>4, <1>7, <3>1
    <3> QED BY <3>1, <3>2 DEF CopyInv, Alike
  <2> QED BY <2>1, <2>2
<1>10. Minted'
  <2>1. \A g \in server' : g \in OnServer \/ capture'[g] # "no"
    BY <1>1, <1>6 DEF CopyInv, Minted
  <2>2. ASSUME NEW i \in EditId, NEW r \in Copies(i)'
        PROVE  /\ r.feature \in OnServer \/ capture'[r.feature] # "no"
               /\ r.op = "insert" => r.feature \notin OnServer
    BY <1>2, <1>5, <1>6, <1>7 DEF CopyInv, Minted
  <2> QED BY <2>1, <2>2 DEF Minted
<1>11. OneInsert'
  BY <1>2, <1>3, <1>5 DEF CopyInv, OneInsert
<1>12. Applied'
  <2> SUFFICES ASSUME NEW i \in EditId, NEW r \in Copies(i)', r.op = "insert",
                      r.feature \in server', NEW x \in r.edits
               PROVE  fate'[x] # "open"
    BY DEF Applied
  <2>1. CASE i = e /\ r = fresh
    <3>1. x = e /\ f \in server' \ server
      BY <1>2, <1>3, <2>1
    <3> QED BY <3>1 DEF e
  <2>2. CASE i # e /\ r \in Copies(i) /\ r \in Row
    <3>1. r.feature \in server
      <4>1. r.feature = f => op # "insert"
        BY <1>3, <2>2
      <4> QED BY <4>1
    <3>2. x # e /\ x \in EditId
      BY <1>3, <1>7, <2>2
    <3> QED BY <1>4, <2>2, <3>1, <3>2 DEF CopyInv, Applied
  <2> QED BY <1>5, <2>1, <2>2
<1> QED BY <1>8, <1>9, <1>10, <1>11, <1>12 DEF CopyInv

\* An edit is folded into the first of its feature's rows: where that row has
\* other copies, or is an insert the server has, what it gains is exposed.
LEMMA CopyInvFolded ==
    ASSUME TypeInv, TypeInv', CopyInv, UNCHANGED <<drain, server>>, made < MaxEdits,
           made' = made + 1, NEW u \in Users, NEW f \in Features, NEW op \in QueueOp,
           Shown(f, op), NEW before \in [EditId -> Fate],
           \A x \in EditId : fate[x] # "open" => before[x] # "open",
           Foldable(u, f) # {}, FoldResult(Foldable(u, f), op) # Annihilated,
           fate' = IF Exposes(Min0(Foldable(u, f)))
              THEN Mark(before, Carried(queue, Foldable(u, f) \ {Min0(Foldable(u, f))})
                                   \cup {made + 1}, "exposed")
              ELSE before,
           queue'[Min0(Foldable(u, f))] = FoldedRow(Foldable(u, f), u, f, op, made + 1),
           \A i \in EditId \ {Min0(Foldable(u, f))} : queue'[i] \in {queue[i], NoRow}
    PROVE  CopyInv' /\ NoneReopens
<1> DEFINE S == Foldable(u, f)
           m == Min0(Foldable(u, f))
           e == made + 1
           row == FoldedRow(Foldable(u, f), u, f, op, made + 1)
<1>1. /\ made \in Nat /\ e \in EditId /\ made' = e /\ made' \in Nat /\ made <= made'
      /\ capture \in [Features -> {"no", "shown", "purged"}]
  BY FieldSyncAssumption DEF TypeInv, TypeOK, EditId
<1>2. /\ m \in S /\ m \in EditId
      /\ \A i \in S : /\ queue[i] \in Row /\ queue[i] \in Copies(i)
                      /\ queue[i].feature = f /\ queue[i].owner = u
      /\ S \subseteq EditId
  BY FoldInto, FoldableRows, CopyCases
<1>3. /\ row \in Row /\ row.feature = f /\ row.owner = u
      /\ row.edits = Carried(queue, S) \cup {e}
      /\ row.op = "insert" => queue[m].op = "insert"
  BY FoldInto
<1>4. Carried(queue, S) = queue[m].edits \cup Carried(queue, S \ {m})
  BY <1>2 DEF Carried
<1>5. NoneReopens
  <2>1. \A T : \A x \in EditId : before[x] # "open" => Mark(before, T, "exposed")[x] # "open"
    BY MarkNeverOpens
  <2> QED BY <2>1 DEF NoneReopens
<1>6. Exposes(m) =>
         \A x \in EditId : x \in Carried(queue, S \ {m}) \cup {e} => fate'[x] # "open"
  <2>1. Exposes(m) =>
           fate' = Mark(before, Carried(queue, S \ {m}) \cup {e}, "exposed")
    OBVIOUS
  <2>2. \A x \in EditId : x \in Carried(queue, S \ {m}) \cup {e} =>
           Mark(before, Carried(queue, S \ {m}) \cup {e}, "exposed")[x] # "open"
    BY MarkNeverOpens
  <2> QED BY <2>1, <2>2
<1>7. \A g \in Features : capture[g] # "no" => capture'[g] # "no"
  BY <1>1 DEF Shown
<1> HIDE DEF S, m, e, row
<1>8. \A d \in Drains : Holding(d)' = Holding(d) /\ drain'[d] = drain[d]
  BY DEF Holding
<1>9. \A i \in EditId : \A r \in Copies(i)' :
         \/ r \in Copies(i) /\ r \in Row /\ (i = m => Exposes(m))
         \/ i = m /\ r = row
  <2> SUFFICES ASSUME NEW i \in EditId, NEW r \in Copies(i)', ~(i = m /\ r = row)
               PROVE  r \in Copies(i) /\ r \in Row /\ (i = m => Exposes(m))
    OBVIOUS
  <2>1. NoRow \notin Row
    BY DEF NoRow, Row, Status
  <2>2. queue'[m] = row /\ (i # m => queue'[i] \in {queue[i], NoRow})
    BY DEF m, row
  <2>3. /\ r \in Row
        /\ \/ r = queue'[i]
           \/ \E d \in Drains : r = drain[d].todo[i]
           \/ \E d \in Drains : Holding(d) /\ drain[d].row = i /\ r = drain[d].claimed
    BY <1>8, CopyCasesNext
  <2>4. r \in Copies(i)
    BY <2>1, <2>2, <2>3, CopyCases
  <2>5. ASSUME i = m PROVE Exposes(m)
    <3>1. PICK d \in Drains : r = drain[d].todo[m] \/ (Holding(d) /\ drain[d].row = m)
      BY <2>2, <2>3, <2>5
    <3>2. m \in Present(drain[d].todo)
      <4>1. CASE r = drain[d].todo[m]
        BY <1>2, <2>3, <4>1 DEF Present, Row, Status
      <4>2. CASE Holding(d) /\ drain[d].row = m
        BY <4>2 DEF TypeInv, DrainShape
      <4> QED BY <3>1, <4>1, <4>2
    <3> QED BY <3>2 DEF Exposes
  <2> QED BY <2>3, <2>4, <2>5
<1>10. \A r \in Row : r.feature \in Features /\ r.edits \subseteq EditId
  BY DEF Row
<1>11. Named'
  <2>1. \A i \in EditId : i <= made => i <= e
    BY <1>1 DEF EditId, e
  <2>2. m \in row.edits /\ \A x \in row.edits : x <= e
    <3>1. m \in queue[m].edits
      BY <1>2 DEF CopyInv, Named
    <3>2. \A x \in Carried(queue, S) : x <= e
      BY <1>2, <1>10, <2>1 DEF CopyInv, Named, Carried
    <3>3. e <= e
      BY <1>1 DEF e
    <3> QED BY <1>3, <1>4, <3>1, <3>2, <3>3
  <2> QED BY <1>1, <1>9, <1>10, <2>1, <2>2 DEF CopyInv, Named
<1>12. ASSUME Exposes(m), NEW x \in row.edits, fate'[x] = "open"
       PROVE  x \in queue[m].edits /\ fate[x] = "open"
  <2>1. x \in EditId
    BY <1>3, <1>10, <1>12
  <2> QED BY <1>3, <1>4, <1>5, <1>6, <1>12, <2>1 DEF NoneReopens
<1>13. Alike'
  <2> SUFFICES ASSUME NEW i \in EditId, NEW r \in Copies(i)', NEW s \in Copies(i)'
               PROVE  /\ r.feature = s.feature /\ r.owner = s.owner
                      /\ \A x \in r.edits : fate'[x] = "open" => x \in s.edits
    BY DEF Alike
  <2>1. CASE r \in Copies(i) /\ r \in Row /\ s \in Copies(i)
    BY <1>5, <1>10, <2>1 DEF CopyInv, Alike, NoneReopens
  <2>2. CASE i = m /\ r = row /\ s = row
    BY <2>2
  <2>3. CASE i = m /\ r = row /\ s \in Copies(m) /\ Exposes(m)
    <3>1. /\ queue[m].feature = s.feature /\ queue[m].owner = s.owner
          /\ \A x \in queue[m].edits : fate[x] = "open" => x \in s.edits
      BY <1>2, <2>3 DEF CopyInv, Alike
    <3>2. \A x \in row.edits : fate'[x] = "open" => x \in queue[m].edits /\ fate[x] = "open"
      BY <1>12, <2>3
    <3> QED BY <1>2, <1>3, <2>3, <3>1, <3>2
  <2>4. CASE i = m /\ s = row /\ r \in Copies(m) /\ r \in Row
    BY <1>2, <1>3, <1>4, <1>5, <1>10, <2>4 DEF CopyInv, Alike, NoneReopens
  <2> QED BY <1>9, <2>1, <2>2, <2>3, <2>4
<1>14. Minted'
  <2>1. \A g \in server' : g \in OnServer \/ capture'[g] # "no"
    BY <1>7 DEF CopyInv, Minted, TypeInv, TypeOK
  <2>2. ASSUME NEW i \in EditId, NEW r \in Copies(i)'
        PROVE  /\ r.feature \in OnServer \/ capture'[r.feature] # "no"
               /\ r.op = "insert" => r.feature \notin OnServer
    <3>1. PICK s \in Copies(i) : /\ s \in Row /\ s.feature = r.feature
                                 /\ r.op = "insert" => s.op = "insert"
      BY <1>2, <1>3, <1>9
    <3> QED BY <1>7, <1>10, <3>1 DEF CopyInv, Minted
  <2> QED BY <2>1, <2>2 DEF Minted
<1>15. OneInsert'
  <2>1. ASSUME NEW i \in EditId, NEW r \in Copies(i)', r.op = "insert"
        PROVE  \E s \in Copies(i) : s.feature = r.feature /\ s.op = "insert"
    BY <1>2, <1>3, <1>9, <2>1
  <2> QED BY <2>1 DEF CopyInv, OneInsert
<1>16. Applied'
  <2> SUFFICES ASSUME NEW i \in EditId, NEW r \in Copies(i)', r.op = "insert",
                      r.feature \in server, NEW x \in r.edits
               PROVE  fate'[x] # "open"
    BY DEF Applied
  <2>1. CASE r \in Copies(i) /\ r \in Row
    BY <1>5, <1>10, <2>1 DEF CopyInv, Applied, NoneReopens
  <2>2. CASE i = m /\ r = row
    <3>1. queue[m].op = "insert" /\ queue[m].feature \in server /\ Exposes(m)
      BY <1>2, <1>3, <2>2 DEF Exposes
    <3>2. \A y \in queue[m].edits : fate[y] # "open"
      BY <1>2, <3>1 DEF CopyInv, Applied
    <3> QED BY <1>12, <2>2, <3>1, <3>2
  <2> QED BY <1>9, <2>1, <2>2
<1> QED BY <1>5, <1>11, <1>13, <1>14, <1>15, <1>16 DEF CopyInv

LEMMA CopyInvEdit ==
    ASSUME TypeInv, TypeInv', CopyInv, Edits
    PROVE  CopyInv' /\ NoneReopens /\ UNCHANGED drain
<1>1. PICK p \in Pages, f \in Features, op \in EditOps :
         \/ SaveOffline(p, f, op)
         \/ \E answered \in BOOLEAN : SaveOnline(p, f, op, answered)
  BY DEF Edits
<1> DEFINE u == viewer[p]
           S == Foldable(u, f)
           e == made + 1
<1>2. /\ u \in Users /\ op \in QueueOp /\ made < MaxEdits
      /\ made' = made + 1 /\ UNCHANGED drain
      /\ CanEdit(f, op) /\ Shown(f, op)
      /\ server' \in {server, server \cup {f}}
      /\ f \in server' \ server => op = "insert"
  BY <1>1, EditQueues
<1>3. PICK before \in [EditId -> Fate] :
         /\ \A i \in EditId \ {e} : before[i] = fate[i]
         /\ f \in server' \ server => before[e] # "open"
         /\ before[e] = fate[e] \/ before[e] = "landed"
         /\ \/ Enqueue(u, f, op, e, before)
            \/ UNCHANGED queue /\ fate' = before /\ before[e] # "open"
  BY <1>1, EditQueues
<1>4. \A x \in EditId : fate[x] # "open" => before[x] # "open"
  BY <1>3
<1>5. /\ made \in Nat /\ made' \in Nat /\ made <= made' /\ e \in EditId
      /\ capture \in [Features -> {"no", "shown", "purged"}]
  BY <1>2, FieldSyncAssumption DEF TypeInv, TypeOK, EditId
<1>6. \A g \in Features : capture[g] # "no" => capture'[g] # "no"
  BY <1>2, <1>5 DEF Shown
<1>7. ASSUME f \in server' \ server
      PROVE  /\ \A i \in EditId : \A r \in Copies(i) : r.feature # f
             /\ S = {} /\ capture'[f] # "no"
  <2>1. op = "insert" /\ \A i \in EditId : \A r \in Copies(i) : r.feature # f
    BY <1>2, <1>7, NothingYet
  <2>2. \A i \in S : queue[i] \in Copies(i) /\ i \in EditId /\ queue[i].feature = f
    BY <1>2, FoldableRows, CopyCases
  <2> QED BY <1>2, <1>5, <2>1, <2>2 DEF Shown
<1>8. ASSUME KeptCopies, NoneReopens PROVE CopyInv'
  <2>1. \A g \in server' \ server :
           /\ g \in OnServer \/ capture'[g] # "no"
           /\ \A i \in EditId : \A r \in Copies(i) :
                 r.op = "insert" /\ r.feature = g => \A x \in r.edits : fate'[x] # "open"
    BY <1>2, <1>7
  <2> QED BY <1>5, <1>6, <1>8, <2>1, CopyInvKept
<1>9. ASSUME \A i \in EditId : queue'[i] \in {queue[i], NoRow} PROVE KeptCopies
  <2>1. NoRow \notin Row
    BY DEF NoRow, Row, Status
  <2>2. \A d \in Drains : Holding(d)' = Holding(d) /\ drain'[d] = drain[d]
    BY <1>2 DEF Holding
  <2>3. \A i \in EditId : \A r \in Copies(i)' : r \in Copies(i)
    BY <1>9, <2>1, <2>2, CopyCases, CopyCasesNext
  <2> QED BY <2>3 DEF KeptCopies, SameBody
<1>10. CASE UNCHANGED queue /\ fate' = before
  BY <1>2, <1>4, <1>8, <1>9, <1>10 DEF NoneReopens
<1> HIDE DEF u
<1>11. CASE S = {} /\ Enqueue(u, f, op, e, before)
  <2>1. /\ fate' = before /\ queue'[e] = FreshRow(u, f, op, e)
        /\ \A i \in EditId \ {e} : queue'[i] = queue[i]
    BY <1>2, <1>11, EnqueueRows
  <2>2. NoneReopens
    BY <1>4, <2>1 DEF NoneReopens
  <2> QED BY <1>2, <1>3, <2>1, <2>2, CopyInvFresh
<1>12. CASE S # {} /\ FoldResult(S, op) = Annihilated /\ Enqueue(u, f, op, e, before)
  <2>1. /\ fate' = Mark(before, Carried(queue, S) \cup {e}, "dropped")
        /\ \A i \in S : queue'[i] = NoRow
        /\ \A i \in EditId \ S : queue'[i] = queue[i]
    BY <1>2, <1>12, EnqueueRows
  <2>2. \A x \in EditId : before[x] # "open" =>
           Mark(before, Carried(queue, S) \cup {e}, "dropped")[x] # "open"
    BY MarkNeverOpens
  <2>3. NoneReopens
    BY <1>4, <2>1, <2>2 DEF NoneReopens
  <2>4. \A i \in EditId : queue'[i] \in {queue[i], NoRow}
    BY <2>1
  <2> QED BY <1>2, <1>8, <1>9, <2>3, <2>4
<1>13. CASE S # {} /\ FoldResult(S, op) # Annihilated /\ Enqueue(u, f, op, e, before)
  <2>1. /\ fate' = IF Exposes(Min0(S))
              THEN Mark(before, Carried(queue, S \ {Min0(S)}) \cup {e}, "exposed")
              ELSE before
        /\ queue'[Min0(S)] = FoldedRow(S, u, f, op, e)
        /\ \A i \in S \ {Min0(S)} : queue'[i] = NoRow
        /\ \A i \in EditId \ S : queue'[i] = queue[i]
    BY <1>2, <1>13, EnqueueRows
  <2>2. \A i \in EditId \ {Min0(S)} : queue'[i] \in {queue[i], NoRow}
    BY <2>1
  <2>3. UNCHANGED server
    BY <1>2, <1>7, <1>13
  <2> QED BY <1>2, <1>4, <1>13, <2>1, <2>2, <2>3, CopyInvFolded
<1> QED BY <1>3, <1>10, <1>11, <1>12, <1>13

\* A step that neither makes an edit nor reaches the server changes what is
\* known of an edit only by dropping rows.
LEMMA OtherSteps ==
    ASSUME [Next]_vars, ~Edits, ~\E d \in Drains : ServerHandles(d)
    PROVE  /\ UNCHANGED <<made, server>> /\ capture' \in {capture, Purged}
           /\ \/ fate' = fate
              \/ \E S \in SUBSET Present(queue) :
                    /\ queue' = Remove(queue, S) /\ UNCHANGED drain
                    /\ fate' = Mark(fate, Carried(queue, S), "dropped")
<1>1. CASE Decisions
  <2>1. \/ \E S \in SUBSET Present(queue), cached \in {capture, Purged} : Drop(S, cached)
        \/ \E p \in Pages, i \in EditId : RetryRejected(p, i)
    BY <1>1 DEF Decisions, DiscardRejected, RemoveDeployment, RemoveForeign, Present
  <2> QED BY <2>1 DEF Drop, RetryRejected, history
<1>2. CASE Hands
  BY <1>2 DEF Hands, SignOut, SignIn, LoadPage, RunIdentityGuard, SessionExpires, history
<1>3. CASE ~Decisions /\ ~Hands
  BY <1>3
  DEF Next, Starts, StartPageDrain, StartWorkerDrain, Start, Draining, Claim, ServerRefuses,
      RequestLost, Settle, Die, ClaimGoesStale, BackoffElapses, vars, history
<1> QED BY <1>1, <1>2, <1>3

LEMMA FatesHold ==
    ASSUME TypeInv, [Next]_vars, ~Edits
    PROVE  NoneReopens
<1>1. fate \in [EditId -> Fate]
  BY DEF TypeInv, TypeOK
<1>2. \A S : \A e \in EditId : fate[e] # "open" =>
         Mark(fate, S, "landed")[e] # "open" /\ Mark(fate, S, "dropped")[e] # "open"
  BY <1>1, MarkNeverOpens
<1>3. CASE \E d \in Drains : ServerHandles(d)
  BY <1>2, <1>3 DEF ServerHandles, NoneReopens
<1>4. CASE ~\E d \in Drains : ServerHandles(d)
  BY <1>2, <1>4, OtherSteps DEF NoneReopens
<1> QED BY <1>3, <1>4

LEMMA CopyInvStep == TypeInv /\ CopyInv /\ [Next]_vars => CopyInv' /\ NoneReopens
<1> SUFFICES ASSUME TypeInv, CopyInv, [Next]_vars PROVE CopyInv' /\ NoneReopens
  OBVIOUS
<1>1. TypeInv'
  BY TypeStep
<1>2. CASE Edits
  BY <1>1, <1>2, CopyInvEdit
<1>3. CASE ~Edits /\ \E d \in Drains : ServerHandles(d)
  BY <1>1, <1>3, CopyInvHandled, FatesHold
<1>4. CASE ~Edits /\ ~\E d \in Drains : ServerHandles(d)
  <2>1. UNCHANGED <<made, server>> /\ capture' \in {capture, Purged}
    BY <1>4, OtherSteps
  <2>2. KeptCopies /\ NoneReopens
    BY <1>1, <1>4, CopiesKept, FatesHold
  <2>3. made \in Nat /\ made' \in Nat /\ made <= made'
    BY <2>1, FieldSyncAssumption DEF TypeInv, TypeOK
  <2>4. \A f \in Features : capture[f] # "no" => capture'[f] # "no"
    BY <2>1 DEF Purged
  <2> QED BY <2>1, <2>2, <2>3, <2>4, CopyInvKept
<1> QED BY <1>2, <1>3, <1>4

LEMMA CopyInvInit == Init => CopyInv
<1> SUFFICES ASSUME Init PROVE CopyInv
  OBVIOUS
<1>1. TypeInv
  BY TypeInit
<1>2. \A i \in EditId : Copies(i) = {}
  <2> TAKE i \in EditId
  <2>1. queue[i] = NoRow /\ NoRow \notin Row
    BY DEF Init, NoRows, NoRow, Row, Status
  <2>2. \A d \in Drains : drain[d].todo[i] = NoRow /\ drain[d].claimed = NoRow
    BY DEF Init, Idle, NoRows
  <2> QED BY <1>1, <2>1, <2>2, CopyCases
<1>3. server = OnServer
  BY DEF Init
<1> QED BY <1>2, <1>3 DEF CopyInv, Named, Alike, Minted, OneInsert, Applied

\* A drain that was told its row is done was told the truth: no edit the row
\* carried is open any more.
DoneKnown ==
    \A d \in Drains : drain[d].pc = "answered" /\ drain[d].got = "done" =>
        \A e \in Sent(d).edits : fate[e] # "open"

\* A drain that has a row in hand has just claimed it, heard of it, or waits.
Told(d) ==
    \/ ServerHandles(d) \/ RequestLost(d)
    \/ \E answer \in Answers : ServerRefuses(d, answer)

Keeps(d) ==
    /\ Holding(d) /\ drain'[d].row = drain[d].row /\ drain'[d].todo = drain[d].todo
    /\ drain'[d].as = drain[d].as /\ (drain'[d] = drain[d] \/ Told(d))

Claims(d) ==
    /\ Claim(d) /\ drain'[d].pc = "replaying" /\ drain'[d].row = NextRow(d)
    /\ NextRow(d) \in Present(drain[d].todo) /\ StillFree(d, NextRow(d))
    /\ drain'[d].todo = drain[d].todo /\ drain'[d].as = drain[d].as

LEMMA ClaimTakes ==
    ASSUME TypeInv, NEW d \in Drains, Claim(d), Holding(d)'
    PROVE  Claims(d)
<1> DEFINE i == NextRow(d)
           claimed == [queue[i] EXCEPT !.status = "syncing", !.stale = FALSE]
           next == [drain[d] EXCEPT !.pc = "replaying", !.row = i,
                                    !.claimed = IF d = Worker THEN claimed ELSE NoRow]
<1>1. /\ drain[d] \in DrainState /\ drain[d].pc = "picking"
      /\ drain \in [Drains -> DrainState]
  BY DEF TypeInv, TypeOK, Claim
<1>2. i \in Present(drain[d].todo) /\ i \in EditId
  <2>1. Present(drain[d].todo) # {} /\ Present(drain[d].todo) \subseteq EditId
    BY <1>1 DEF TypeInv, DrainShape, Present
  <2> QED BY <2>1, MinOfIds DEF NextRow
<1>3. CASE StillFree(d, i)
  <2>1. drain' = [drain EXCEPT ![d] = next]
    BY <1>3 DEF Claim, TypeInv, TypeOK
  <2> HIDE DEF i, claimed
  <2>2. /\ next.row = i /\ next.todo = drain[d].todo /\ next.as = drain[d].as
        /\ next.pc = "replaying"
    BY <1>1, <1>2 DEF DrainState
  <2>3. drain'[d] = next
    BY <1>1, <2>1
  <2> HIDE DEF next
  <2> QED BY <1>2, <1>3, <2>2, <2>3 DEF Claims, i
<1>4. CASE ~StillFree(d, i)
  <2>1. drain' = [drain EXCEPT ![d] = Settled(d, Remove(drain[d].todo, {i}))]
    BY <1>4 DEF Claim
  <2> HIDE DEF i
  <2>2. drain'[d].pc \in {"idle", "picking"}
    BY <1>1, <1>2, <2>1, SettledType
  <2> QED BY <2>2 DEF Holding
<1> QED BY <1>3, <1>4

LEMMA HandEffect ==
    ASSUME TypeInv, [Next]_vars, NEW d \in Drains, Holding(d)'
    PROVE  Keeps(d) \/ Claims(d)
<1>0. drain \in [Drains -> DrainState]
  BY DEF TypeInv, TypeOK
<1>1. CASE drain'[d] = drain[d]
  BY <1>1 DEF Keeps, Holding
<1>2. ASSUME NEW x \in Drains, NEW u, NEW manual, NEW heads, Start(x, u, manual, heads)
      PROVE  drain'[d] = drain[d]
  <2> DEFINE next == [Idle EXCEPT !.pc = "picking", !.as = u, !.manual = manual,
                         !.todo = [i \in EditId |-> IF i \in heads THEN queue[i] ELSE NoRow]]
  <2>1. drain' = [drain EXCEPT ![x] = next]
    BY <1>2 DEF Start
  <2>2. next.pc = "picking"
    BY DEF Idle
  <2> HIDE DEF next
  <2> QED BY <1>0, <2>1, <2>2 DEF Holding
<1>3. ASSUME NEW x \in Drains, Draining(x) PROVE Keeps(d) \/ Claims(d)
  <2>1. CASE Claim(x)
    BY <1>1, <2>1, ClaimTakes, ClaimFields
  <2>2. CASE Settle(x)
    BY <1>1, <2>2, SettleStep DEF Holding
  <2>3. CASE Told(x)
    <3>1. drain[x].pc = "replaying" /\ \E outcome : Answered(x, outcome)
      BY <2>3 DEF Told, ServerHandles, RequestLost, ServerRefuses
    <3> QED BY <1>1, <2>3, <3>1, AnsweredFields DEF Keeps, Holding
  <2> QED BY <1>3, <2>1, <2>2, <2>3 DEF Draining, Told
<1>4. ASSUME \/ \E x \in Drains : Die(x)
             \/ \E p \in Pages : SignOut(p) \/ LoadPage(p)
      PROVE  drain'[d] = drain[d]
  BY <1>0, <1>4 DEF Die, SignOut, LoadPage, Idle, Holding
<1>5. ASSUME Edits \/ Decisions \/ \E i \in EditId : ClaimGoesStale(i) \/ BackoffElapses(i)
      PROVE  drain'[d] = drain[d]
  BY <1>5 DEF Edits, Decisions, SaveOffline, SaveOnline, ClaimGoesStale, BackoffElapses,
              RetryRejected, DiscardRejected, RemoveDeployment, RemoveForeign, Drop
<1>6. ASSUME Hands, ~\E p \in Pages : SignOut(p) \/ LoadPage(p)
      PROVE  drain'[d] = drain[d]
  BY <1>6 DEF Hands, RunIdentityGuard, SignIn, SessionExpires
<1>7. ASSUME Starts PROVE drain'[d] = drain[d]
  BY <1>2, <1>7 DEF Starts, StartPageDrain, StartWorkerDrain
<1> QED BY <1>1, <1>3, <1>4, <1>5, <1>6, <1>7 DEF Next, vars

\* What a drain is told of a row whose every copy lacks what was sent.
LEMMA DoneKnownStep ==
    ASSUME TypeInv, TypeInv', CopyInv, DoneKnown, NoneReopens, [Next]_vars
    PROVE  DoneKnown'
<1> SUFFICES ASSUME NEW d \in Drains, drain'[d].pc = "answered", drain'[d].got = "done",
                    NEW e \in Sent(d)'.edits
             PROVE  fate'[e] # "open"
  BY DEF DoneKnown
<1>1. Keeps(d)
  <2>1. Holding(d)'
    BY DEF Holding
  <2> QED BY <2>1, HandEffect DEF Claims
<1>2. /\ Sent(d)' = Sent(d) /\ Sent(d) \in Row /\ Holding(d) /\ drain[d].row \in EditId
      /\ e \in EditId /\ e \in Sent(d).edits
  <2>1. Sent(d)' = Sent(d) /\ Sent(d) \in Row /\ Holding(d) /\ drain[d].row \in EditId
    BY <1>1, SentType DEF Keeps, Sent
  <2> QED BY <2>1 DEF Row
<1>3. CASE drain'[d] = drain[d]
  BY <1>2, <1>3 DEF DoneKnown, NoneReopens
<1>4. CASE RequestLost(d) \/ \E answer \in Answers : ServerRefuses(d, answer)
  <2>1. PICK outcome \in {"unreachable", "failed", "rejected"} :
           Answered(d, outcome) /\ drain[d].pc = "replaying"
    <3>1. ASSUME NEW answer \in Answers, ServerRefuses(d, answer)
          PROVE  ReplayOutcome(answer, Sent(d).op) \in {"failed", "rejected"}
      BY <3>1 DEF ServerRefuses, ReplayOutcome
    <3> QED BY <1>4, <3>1 DEF RequestLost, ServerRefuses
  <2> QED BY <2>1, AnsweredFields
<1>5. CASE ServerHandles(d)
  <2> DEFINE r == Sent(d)
             found == r.feature \in server
             answer == IF r.op # "insert" /\ ~found THEN "404" ELSE "2xx"
  <2>1. PICK outcome \in Outcomes(d, answer) :
           Answered(d, outcome) /\ drain[d].pc = "replaying"
    BY <1>5 DEF ServerHandles
  <2>2. outcome = "done"
    BY <2>1, AnsweredFields
  <2>3. ReplayOutcome(answer, r.op) = "done"
    BY <2>1, <2>2 DEF Outcomes
  <2>4. CASE r.op = "delete" \/ (r.op = "insert") = ~found
    <3>1. fate' = Mark(fate, r.edits, "landed") /\ fate \in [EditId -> Fate]
      BY <1>5, <2>4 DEF ServerHandles, TypeInv, TypeOK
    <3> QED BY <1>2, <3>1, MarkNeverOpens
  <2>5. CASE r.op = "insert" /\ found
    <3>1. r \in Copies(drain[d].row)
      BY <1>2, CopyCases DEF Sent
    <3>2. fate[e] # "open"
      BY <1>2, <2>5, <3>1 DEF CopyInv, Applied
    <3> QED BY <1>2, <3>2 DEF NoneReopens
  <2>6. r.op = "update" => found
    BY <2>3 DEF ReplayOutcome
  <2>7. r.op \in {"insert", "update", "delete"}
    BY <1>2 DEF Row, QueueOp
  <2> QED BY <2>4, <2>5, <2>6, <2>7
<1> QED BY <1>1, <1>3, <1>4, <1>5 DEF Keeps, Told

\* A row leaves the queue when its replay is done, when a person drops it, or
\* when an edit is folded.
LEMMA RowsLeave ==
    ASSUME TypeInv, [Next]_vars, ~Edits, NEW i \in EditId, queue[i] # NoRow, queue'[i] = NoRow
    PROVE  \/ \E d \in Drains : Settle(d) /\ drain[d].row = i /\ drain[d].got = "done"
           \/ \E S : i \in S /\ fate' = Mark(fate, Carried(queue, S), "dropped")
<1>0. queue \in RowTable /\ queue[i] \in Row /\ NoRow \notin Row
  <2>1. queue \in RowTable /\ NoRow \notin Row
    BY DEF TypeInv, TypeOK, NoRow, Row, Status
  <2> QED BY <2>1 DEF RowTable
<1>1. ASSUME NEW d \in Drains, Settle(d) PROVE drain[d].row = i /\ drain[d].got = "done"
  BY <1>0, <1>1, SettleRows, SettleStep
<1>2. ASSUME NEW d \in Drains, Claim(d) PROVE FALSE
  <2>1. queue'[i] = queue[i] \/ queue'[i].status = "syncing"
    BY <1>2, ClaimStep
  <2> QED BY <2>1 DEF NoRow
<1>3. ASSUME NEW d \in Drains, Draining(d) \/ Die(d), ~Settle(d), ~Claim(d) PROVE FALSE
  BY <1>3 DEF Draining, Die, ServerHandles, ServerRefuses, RequestLost
<1>4. ASSUME NEW j \in EditId,
             \/ ClaimGoesStale(j) \/ BackoffElapses(j)
             \/ \E p \in Pages : RetryRejected(p, j)
      PROVE  FALSE
  <2>1. queue[j] \in Row
    BY <1>0, <1>4, PresentIsRow DEF ClaimGoesStale, BackoffElapses, RetryRejected
  <2>2. PICK row \in Row : queue' = [queue EXCEPT ![j] = row]
    <3>1. /\ [queue[j] EXCEPT !.stale = TRUE] \in Row
          /\ [queue[j] EXCEPT !.waiting = FALSE] \in Row
          /\ [queue[j] EXCEPT !.status = "pending"] \in Row
      BY <2>1 DEF Row, Status
    <3> QED BY <1>4, <3>1 DEF ClaimGoesStale, BackoffElapses, RetryRejected
  <2> QED BY <1>0, <2>2 DEF RowTable
<1>5. ASSUME NEW S \in SUBSET EditId, NEW cached, Drop(S, cached)
      PROVE  i \in S /\ fate' = Mark(fate, Carried(queue, S), "dropped")
  BY <1>0, <1>5, RemoveType DEF Drop
<1>6. ASSUME Decisions
      PROVE  \E S : i \in S /\ fate' = Mark(fate, Carried(queue, S), "dropped")
  BY <1>4, <1>5, <1>6
  DEF Decisions, DiscardRejected, RemoveDeployment, RemoveForeign, Present
<1>7. ASSUME Starts \/ Hands \/ UNCHANGED vars PROVE queue' = queue
  BY <1>7 DEF Starts, StartPageDrain, StartWorkerDrain, Start, Hands, SignOut, LoadPage,
              RunIdentityGuard, SignIn, SessionExpires, vars
<1> QED BY <1>1, <1>2, <1>3, <1>4, <1>6, <1>7 DEF Next

LEMMA AccountedKept ==
    ASSUME TypeInv, CopyInv, DoneKnown, Accounted, [Next]_vars, ~Edits
    PROVE  Accounted'
<1>0. /\ queue \in RowTable /\ fate \in [EditId -> Fate] /\ NoRow \notin Row
      /\ made \in 0..MaxEdits /\ MaxEdits \in Nat
  BY FieldSyncAssumption DEF TypeInv, TypeOK, NoRow, Row, Status
<1>1. made' = made /\ NoneReopens
  BY FatesHold, OtherSteps DEF ServerHandles
<1> SUFFICES ASSUME NEW e \in 1..made, fate'[e] = "open"
             PROVE  \E i \in EditId : queue'[i].status # "none" /\ e \in queue'[i].edits
  BY <1>1 DEF Accounted, Carried, Present
<1>2. e \in EditId /\ fate[e] = "open"
  <2>1. e \in EditId
    BY <1>0 DEF EditId
  <2> QED BY <1>1, <2>1 DEF NoneReopens
<1>3. PICK i \in EditId : queue[i].status # "none" /\ e \in queue[i].edits
  BY <1>2 DEF Accounted, Carried, Present
<1>4. queue[i] \in Row /\ queue[i] # NoRow /\ queue[i] \in Copies(i)
  <2>1. queue[i] \in Row
    BY <1>0, <1>3, PresentIsRow
  <2> QED BY <1>0, <2>1, CopyCases
<1>5. queue'[i] # NoRow
  <2> SUFFICES ASSUME queue'[i] = NoRow PROVE FALSE
    OBVIOUS
  <2>1. ASSUME NEW d \in Drains, Settle(d), drain[d].row = i, drain[d].got = "done"
        PROVE  FALSE
    <3>1. Holding(d) /\ drain[d].pc = "answered"
      BY <2>1 DEF Settle, Holding
    <3>2. Sent(d) \in Row /\ Sent(d) = drain[d].todo[i]
      BY <2>1, <3>1, SentType DEF Sent
    <3>3. Sent(d) \in Copies(i)
      BY <3>2, CopyCases
    <3>4. e \in Sent(d).edits
      BY <1>2, <1>3, <1>4, <3>3 DEF CopyInv, Alike
    <3> QED BY <1>2, <2>1, <3>1, <3>4 DEF DoneKnown
  <2>2. ASSUME NEW S, i \in S, fate' = Mark(fate, Carried(queue, S), "dropped") PROVE FALSE
    <3>1. e \in Carried(queue, S)
      BY <1>3, <2>2 DEF Carried
    <3>2. Mark(fate, Carried(queue, S), "dropped")[e] # "open"
      BY <1>0, <1>2, <3>1, MarkNeverOpens
    <3> QED BY <2>2, <3>2
  <2> QED BY <1>4, <2>1, <2>2, RowsLeave
<1>6. PICK s \in Copies(i) : SameBody(queue'[i], s)
  BY <1>5, RowsKept
<1>7. e \in queue'[i].edits
  BY <1>2, <1>3, <1>4, <1>6 DEF CopyInv, Alike, SameBody
<1>8. queue'[i].status # "none"
  <2>1. TypeInv'
    BY TypeStep
  <2>2. queue'[i] \in Row
    BY <1>5, <2>1 DEF TypeInv, TypeOK, RowTable
  <2> QED BY <2>2 DEF Row, Status
<1> QED BY <1>7, <1>8

LEMMA AccountedEdit ==
    ASSUME TypeInv, CopyInv, Accounted, Edits
    PROVE  Accounted'
<1>1. PICK p \in Pages, f \in Features, op \in EditOps :
         \/ SaveOffline(p, f, op)
         \/ \E answered \in BOOLEAN : SaveOnline(p, f, op, answered)
  BY DEF Edits
<1> DEFINE u == viewer[p]
           S == Foldable(u, f)
           n == made + 1
<1>2. u \in Users /\ op \in QueueOp /\ made < MaxEdits /\ made' = n
  BY <1>1, EditQueues
<1>3. PICK before \in [EditId -> Fate] :
         /\ \A i \in EditId \ {n} : before[i] = fate[i]
         /\ \/ Enqueue(u, f, op, n, before)
            \/ UNCHANGED queue /\ fate' = before /\ before[n] # "open"
  BY <1>1, EditQueues
<1>4. /\ made \in Nat /\ MaxEdits \in Nat /\ n \in EditId /\ queue \in RowTable
      /\ queue[n] = NoRow
  <2>1. made \in 0..MaxEdits /\ MaxEdits \in Nat /\ n \in EditId /\ queue \in RowTable
    BY <1>2, FieldSyncAssumption DEF TypeInv, TypeOK, EditId
  <2> QED BY <2>1 DEF TypeInv, IdsMade
<1> HIDE DEF u
<1> SUFFICES ASSUME NEW e \in 1..n, fate'[e] = "open"
             PROVE  \E i \in EditId : queue'[i].status # "none" /\ e \in queue'[i].edits
  BY <1>2 DEF Accounted, Carried, Present
<1>5. e \in EditId
  BY <1>2, <1>4 DEF EditId
<1>6. ASSUME e # n, before[e] = "open"
      PROVE  \E i \in EditId : queue[i].status # "none" /\ e \in queue[i].edits
  <2>1. e \in 1..made /\ fate[e] = "open"
    BY <1>3, <1>4, <1>5, <1>6
  <2> QED BY <2>1 DEF Accounted, Carried, Present
<1>7. CASE UNCHANGED queue /\ fate' = before /\ before[n] # "open"
  BY <1>6, <1>7
<1> HIDE DEF n
<1>8. CASE S = {} /\ Enqueue(u, f, op, n, before)
  <2>1. /\ fate' = before /\ queue'[n] = FreshRow(u, f, op, n)
        /\ \A i \in EditId \ {n} : queue'[i] = queue[i]
    BY <1>2, <1>8, EnqueueRows DEF n
  <2>2. CASE e = n
    <3>1. queue'[n].status # "none" /\ e \in queue'[n].edits
      BY <2>1, <2>2 DEF FreshRow
    <3> QED BY <1>4, <3>1
  <2>3. CASE e # n
    <3>1. PICK i \in EditId : queue[i].status # "none" /\ e \in queue[i].edits
      BY <1>6, <2>1, <2>3
    <3>2. i # n
      BY <1>4, <3>1 DEF NoRow
    <3> QED BY <2>1, <3>1, <3>2
  <2> QED BY <2>2, <2>3
<1>9. CASE S # {} /\ FoldResult(S, op) = Annihilated /\ Enqueue(u, f, op, n, before)
  <2>1. /\ fate' = Mark(before, Carried(queue, S) \cup {n}, "dropped")
        /\ \A i \in EditId \ S : queue'[i] = queue[i]
    BY <1>2, <1>9, EnqueueRows DEF n
  <2>2. /\ e \notin Carried(queue, S) \cup {n}
        /\ before[e] = "open"
    <3>1. /\ e \in Carried(queue, S) \cup {n} => fate'[e] # "open"
          /\ before[e] # "open" => fate'[e] # "open"
      BY <1>5, <2>1, MarkNeverOpens
    <3> QED BY <3>1
  <2>3. PICK i \in EditId : queue[i].status # "none" /\ e \in queue[i].edits
    BY <1>6, <2>2
  <2>4. i \notin S
    BY <2>2, <2>3 DEF Carried
  <2> QED BY <2>1, <2>3, <2>4
<1>10. CASE S # {} /\ FoldResult(S, op) # Annihilated /\ Enqueue(u, f, op, n, before)
  <2> DEFINE m == Min0(S)
             row == FoldedRow(S, u, f, op, n)
  <2>1. /\ fate' = IF Exposes(m)
              THEN Mark(before, Carried(queue, S \ {m}) \cup {n}, "exposed") ELSE before
        /\ queue'[m] = row
        /\ \A i \in EditId \ S : queue'[i] = queue[i]
    BY <1>2, <1>10, EnqueueRows DEF n
  <2>2. before[e] = "open"
    <3>1. before[e] # "open" =>
             Mark(before, Carried(queue, S \ {m}) \cup {n}, "exposed")[e] # "open"
      BY <1>5, MarkNeverOpens
    <3> QED BY <2>1, <3>1
  <2>3. m \in S /\ row \in Row /\ row.edits = Carried(queue, S) \cup {n}
    BY <1>2, <1>10, FoldInto DEF n
  <2>4. m \in EditId /\ row.status # "none"
    BY <1>2, <2>3, FoldableRows DEF Row, Status
  <2>5. CASE e \in row.edits
    BY <2>1, <2>4, <2>5
  <2>6. CASE e \notin row.edits
    <3>1. PICK i \in EditId : queue[i].status # "none" /\ e \in queue[i].edits
      BY <1>6, <2>2, <2>3, <2>6
    <3>2. i \notin S
      BY <2>3, <2>6, <3>1 DEF Carried
    <3> QED BY <2>1, <3>1, <3>2
  <2> QED BY <2>5, <2>6
<1> QED BY <1>3, <1>7, <1>8, <1>9, <1>10

\* Whatever the interleaving of saves, folds, drains that die or race or outlive
\* their claim, refusals, lost answers, discards and hand-overs, an edit that was
\* queued is in a row, or the server applied it, or a person dropped it, or it
\* was folded where a stale listing or an insert already applied is
\* (offline-store.ts enqueueEdit, offline-sync.ts syncQueue, public/sw.js).
THEOREM EditsAreAccountedFor == Spec => []Accounted
<1> DEFINE AccInv == TypeInv /\ CopyInv /\ DoneKnown /\ Accounted
<1>1. Init => AccInv
  <2> SUFFICES ASSUME Init PROVE DoneKnown /\ Accounted
    BY TypeInit, CopyInvInit
  <2>1. \A d \in Drains : drain[d].pc = "idle"
    BY DEF Init, Idle
  <2>2. made = 0
    BY DEF Init
  <2> QED BY <2>1, <2>2 DEF DoneKnown, Accounted
<1>2. AccInv /\ [Next]_vars => AccInv'
  <2> SUFFICES ASSUME AccInv, [Next]_vars PROVE AccInv'
    OBVIOUS
  <2>1. TypeInv' /\ CopyInv' /\ NoneReopens
    BY TypeStep, CopyInvStep
  <2>2. DoneKnown'
    BY <2>1, DoneKnownStep
  <2>3. Accounted'
    BY AccountedKept, AccountedEdit
  <2> QED BY <2>1, <2>2, <2>3
<1>3. AccInv => Accounted
  OBVIOUS
<1> HIDE DEF AccInv
<1> QED BY <1>1, <1>2, <1>3, PTL DEF Spec

-----------------------------------------------------------------------------
(* A feature's rows are replayed in order                                  *)

\* A row taken away from a drain that has it in hand was dropped by a person:
\* where claims are exclusive nobody else settles it, and no fold touches it.
GoneDropped ==
    \A d \in Drains : Holding(d) /\ queue[drain[d].row].status = "none" =>
        fate[drain[d].row] = "dropped"

\* What a drain listed comes before all that its account has queued since.
ListedFirst ==
    \A d \in Drains : drain[d].pc # "idle" =>
        \A j \in Present(drain[d].todo), i \in Present(queue) :
            /\ queue[i].feature = drain[d].todo[j].feature
            /\ queue[i].owner = drain[d].as
            /\ fate[i] # "dropped"
            => j <= i

OrderInv == ClaimInv /\ CopyInv /\ GoneDropped /\ ListedFirst

\* An edit that was made and dropped stays so.
StayDropped ==
    \A e \in EditId \ {made + 1} : fate[e] = "dropped" => fate'[e] = "dropped"

LEMMA MarkDrops ==
    ASSUME NEW before \in [EditId -> Fate], NEW S, NEW end \in Fate, NEW e \in EditId
    PROVE  /\ before[e] = "dropped" => Mark(before, S, end)[e] = "dropped"
           /\ e \in S => Mark(before, S, "dropped")[e] = "dropped"
<1>1. before[e] \in {"open", "exposed", "landed", "dropped"}
      /\ end \in {"open", "exposed", "landed", "dropped"}
  BY FateNames
<1>2. /\ e \in S /\ FateRank[before[e]] < 3 => Mark(before, S, "dropped")[e] = "dropped"
      /\ before[e] = "dropped" => Mark(before, S, "dropped")[e] = "dropped"
  BY DEF Mark, FateRank
<1>3. before[e] # "dropped" => FateRank[before[e]] < 3
  BY <1>1 DEF FateRank
<1>4. before[e] = "dropped" => Mark(before, S, end)[e] = "dropped"
  BY <1>1 DEF Mark, FateRank
<1> QED BY <1>2, <1>3, <1>4

\* The row of the next edit is the one row an edit adds; the rows it finds keep
\* their feature and account, or go; a row in flight is left alone.
LEMMA EditEffect ==
    ASSUME TypeInv, Edits
    PROVE  /\ made' = made + 1 /\ UNCHANGED drain
           /\ StayDropped
           /\ \A i \in EditId :
                 \/ queue'[i] \in {queue[i], NoRow}
                 \/ i = made + 1
                 \/ /\ queue[i] \in Row /\ queue'[i].feature = queue[i].feature
                    /\ queue'[i].owner = queue[i].owner
           /\ \A i \in EditId : i # made + 1 /\ queue[i].status = "syncing"
                                  => queue'[i] = queue[i]
<1>1. PICK p \in Pages, f \in Features, op \in EditOps :
         \/ SaveOffline(p, f, op)
         \/ \E answered \in BOOLEAN : SaveOnline(p, f, op, answered)
  BY DEF Edits
<1> DEFINE u == viewer[p]
           S == Foldable(u, f)
           n == made + 1
<1>2. /\ u \in Users /\ op \in QueueOp /\ made < MaxEdits /\ made' = n /\ UNCHANGED drain
  BY <1>1, EditQueues
<1>3. PICK before \in [EditId -> Fate] :
         /\ \A i \in EditId \ {n} : before[i] = fate[i]
         /\ \/ Enqueue(u, f, op, n, before)
            \/ UNCHANGED queue /\ fate' = before
  BY <1>1, EditQueues
<1>4. \A T : \A end \in Fate : \A e \in EditId :
         before[e] = "dropped" => Mark(before, T, end)[e] = "dropped"
  BY MarkDrops
<1>5. "exposed" \in Fate /\ "dropped" \in Fate
  BY FateNames
<1>6. \A i \in S : /\ i \in EditId /\ queue[i] \in Row /\ queue[i].status # "syncing"
                   /\ queue[i].feature = f /\ queue[i].owner = u
  BY <1>2, FoldableRows
<1> HIDE DEF u
<1>7. CASE UNCHANGED queue /\ fate' = before
  BY <1>2, <1>3, <1>7 DEF StayDropped
<1>8. CASE S = {} /\ Enqueue(u, f, op, n, before)
  <2>1. fate' = before /\ \A i \in EditId \ {n} : queue'[i] = queue[i]
    BY <1>2, <1>8, EnqueueRows
  <2> QED BY <1>2, <1>3, <2>1 DEF StayDropped
<1>9. CASE S # {} /\ FoldResult(S, op) = Annihilated /\ Enqueue(u, f, op, n, before)
  <2>1. /\ fate' = Mark(before, Carried(queue, S) \cup {n}, "dropped")
        /\ \A i \in S : queue'[i] = NoRow
        /\ \A i \in EditId \ S : queue'[i] = queue[i]
    BY <1>2, <1>9, EnqueueRows
  <2> HIDE DEF S, n
  <2>2. \A e \in EditId \ {n} : fate[e] = "dropped" => fate'[e] = "dropped"
    BY <1>3, <1>4, <1>5, <2>1
  <2>3. \A i \in EditId : queue'[i] \in {queue[i], NoRow}
    BY <2>1
  <2>4. \A i \in EditId : queue[i].status = "syncing" => queue'[i] = queue[i]
    BY <1>6, <2>1
  <2> QED BY <1>2, <2>2, <2>3, <2>4 DEF n, StayDropped
<1>10. CASE S # {} /\ FoldResult(S, op) # Annihilated /\ Enqueue(u, f, op, n, before)
  <2> DEFINE m == Min0(S)
             row == FoldedRow(S, u, f, op, n)
  <2>1. /\ \/ fate' = Mark(before, Carried(queue, S \ {m}) \cup {n}, "exposed")
           \/ fate' = before
        /\ queue'[m] = row
        /\ \A i \in S \ {m} : queue'[i] = NoRow
        /\ \A i \in EditId \ S : queue'[i] = queue[i]
    BY <1>2, <1>10, EnqueueRows
  <2>2. m \in S /\ row.feature = f /\ row.owner = u
    BY <1>2, <1>10, FoldInto
  <2> HIDE DEF S, n, m, row
  <2>3. \A e \in EditId \ {n} : fate[e] = "dropped" => fate'[e] = "dropped"
    BY <1>3, <1>4, <1>5, <2>1
  <2>4. \A i \in EditId :
           \/ queue'[i] \in {queue[i], NoRow}
           \/ /\ queue[i] \in Row /\ queue'[i].feature = queue[i].feature
              /\ queue'[i].owner = queue[i].owner
    BY <1>6, <2>1, <2>2
  <2>5. \A i \in EditId : queue[i].status = "syncing" => queue'[i] = queue[i]
    BY <1>6, <2>1
  <2> QED BY <1>2, <2>3, <2>4, <2>5 DEF n, StayDropped
<1> QED BY <1>3, <1>7, <1>8, <1>9, <1>10

LEMMA DropsStay ==
    ASSUME TypeInv, [Next]_vars
    PROVE  StayDropped
<1>1. fate \in [EditId -> Fate] /\ "landed" \in Fate /\ "dropped" \in Fate
  BY FateNames DEF TypeInv, TypeOK
<1>2. \A S : \A end \in Fate : \A e \in EditId :
         fate[e] = "dropped" => Mark(fate, S, end)[e] = "dropped"
  BY <1>1, MarkDrops
<1>3. CASE Edits
  BY <1>3, EditEffect
<1>4. CASE \E d \in Drains : ServerHandles(d)
  BY <1>1, <1>2, <1>4 DEF ServerHandles, StayDropped
<1>5. CASE ~Edits /\ ~\E d \in Drains : ServerHandles(d)
  BY <1>1, <1>2, <1>5, OtherSteps DEF StayDropped
<1> QED BY <1>3, <1>4, <1>5

\* A row comes back when a drain writes back one that was removed under it.
LEMMA RowsAppear ==
    ASSUME TypeInv, [Next]_vars, ~Edits, NEW i \in EditId, queue[i] = NoRow, queue'[i] # NoRow
    PROVE  \E d \in Drains : Settle(d) /\ drain[d].row = i
<1>0. queue \in RowTable /\ queue[i].status = "none"
  BY DEF TypeInv, TypeOK, NoRow
<1>1. ASSUME NEW d \in Drains, Settle(d) PROVE drain[d].row = i
  BY <1>1, SettleStep
<1>2. ASSUME NEW d \in Drains, Claim(d) PROVE FALSE
  BY <1>0, <1>2, ClaimStep
<1>3. ASSUME NEW d \in Drains, Draining(d) \/ Die(d), ~Settle(d), ~Claim(d) PROVE FALSE
  BY <1>3 DEF Draining, Die, ServerHandles, ServerRefuses, RequestLost
<1>4. ASSUME NEW j \in EditId,
             \/ ClaimGoesStale(j) \/ BackoffElapses(j)
             \/ \E p \in Pages : RetryRejected(p, j)
      PROVE  FALSE
  <2>1. queue[j].status # "none" /\ \E row : queue' = [queue EXCEPT ![j] = row]
    BY <1>4 DEF ClaimGoesStale, BackoffElapses, RetryRejected
  <2> QED BY <1>0, <2>1 DEF RowTable
<1>5. ASSUME NEW S \in SUBSET EditId, NEW cached, Drop(S, cached) PROVE FALSE
  BY <1>0, <1>5, RemoveType DEF Drop
<1>6. ASSUME Decisions PROVE FALSE
  BY <1>4, <1>5, <1>6
  DEF Decisions, DiscardRejected, RemoveDeployment, RemoveForeign, Present
<1>7. ASSUME Starts \/ Hands \/ UNCHANGED vars PROVE queue' = queue
  BY <1>7 DEF Starts, StartPageDrain, StartWorkerDrain, Start, Hands, SignOut, LoadPage,
              RunIdentityGuard, SignIn, SessionExpires, vars
<1> QED BY <1>1, <1>2, <1>3, <1>4, <1>6, <1>7 DEF Next

LEMMA GoneDroppedStep ==
    ASSUME OrderInv, [Next]_vars
    PROVE  GoneDropped'
<1> SUFFICES ASSUME NEW d \in Drains, Holding(d)', queue'[drain'[d].row].status = "none"
             PROVE  fate'[drain'[d].row] = "dropped"
  BY DEF GoneDropped
<1>0. TypeInv /\ TypeInv' /\ CopyInv /\ GoneDropped /\ HeldRows /\ ClaimExclusive
  BY TypeStep DEF OrderInv, ClaimInv
<1> DEFINE i == drain[d].row
<1>1. CASE Claims(d)
  <2>1. Claim(d) /\ drain'[d].pc = "replaying"
    BY <1>1 DEF Claims
  <2>2. queue'[drain'[d].row].status = "syncing"
    BY <1>0, <2>1, ClaimStep
  <2> QED BY <2>2
<1>2. CASE Keeps(d)
  <2>1. /\ Holding(d) /\ drain'[d].row = i /\ i \in EditId /\ i # made + 1
        /\ queue'[i].status = "none"
    <3>1. Holding(d) /\ drain'[d].row = i
      BY <1>2 DEF Keeps
    <3>2. i \in EditId /\ i <= made
      BY <1>0, <3>1, SentType
    <3>3. made \in Nat
      BY <1>0, FieldSyncAssumption DEF TypeInv, TypeOK
    <3> QED BY <3>1, <3>2, <3>3 DEF EditId
  <2>2. CASE queue[i].status = "none"
    <3>1. fate[i] = "dropped"
      BY <1>0, <2>1, <2>2 DEF GoneDropped
    <3> QED BY <1>0, <2>1, <3>1, DropsStay DEF StayDropped
  <2>3. CASE queue[i].status # "none"
    <3>1. queue[i] \in Row /\ queue[i] # NoRow /\ queue[i].status = "syncing"
      <4>1. queue[i] \in Row /\ NoRow \notin Row
        BY <1>0, <2>1, <2>3, PresentIsRow DEF TypeInv, TypeOK, NoRow, Row, Status
      <4> QED BY <1>0, <2>1, <2>3, <4>1 DEF HeldRows
    <3>2. queue'[i] = NoRow
      <4>1. queue'[i] \in Row \cup {NoRow}
        BY <1>0, <2>1 DEF TypeInv, TypeOK, RowTable
      <4> QED BY <2>1, <4>1 DEF Row, Status
    <3>3. ~Edits
      BY <1>0, <2>1, <3>1, <3>2, EditEffect
    <3>4. ~\E x \in Drains : Settle(x) /\ drain[x].row = i
      <4> SUFFICES ASSUME NEW x \in Drains, Settle(x), drain[x].row = i PROVE FALSE
        OBVIOUS
      <4>1. Holding(x) /\ ~Holding(x)'
        BY <1>0, SettleStep DEF Holding
      <4> QED BY <1>0, <2>1, <4>1 DEF ClaimExclusive
    <3>5. PICK S : i \in S /\ fate' = Mark(fate, Carried(queue, S), "dropped")
      BY <1>0, <2>1, <3>1, <3>2, <3>3, <3>4, RowsLeave
    <3>6. i \in Carried(queue, S)
      <4>1. i \in queue[i].edits
        BY <1>0, <2>1, <3>1, CopyCases DEF CopyInv, Named
      <4> QED BY <3>5, <4>1 DEF Carried
    <3>7. fate \in [EditId -> Fate] /\ "dropped" \in Fate
      BY <1>0, FateNames DEF TypeInv, TypeOK
    <3> QED BY <2>1, <3>5, <3>6, <3>7, MarkDrops
  <2> QED BY <2>2, <2>3
<1> QED BY <1>0, <1>1, <1>2, HandEffect

LEMMA ListedFirstStep ==
    ASSUME OrderInv, [Next]_vars
    PROVE  ListedFirst'
<1> SUFFICES ASSUME NEW d \in Drains, drain'[d].pc # "idle",
                    NEW j \in EditId, drain'[d].todo[j].status # "none",
                    NEW i \in EditId, queue'[i].status # "none",
                    queue'[i].feature = drain'[d].todo[j].feature,
                    queue'[i].owner = drain'[d].as, fate'[i] # "dropped"
             PROVE  j <= i
  BY DEF ListedFirst, Present
<1>0. /\ TypeInv /\ TypeInv' /\ CopyInv /\ GoneDropped /\ ListedFirst
      /\ made \in Nat /\ queue \in RowTable /\ queue' \in RowTable
  BY TypeStep, FieldSyncAssumption DEF OrderInv, ClaimInv, TypeInv, TypeOK
<1>1. NoRow.status = "none" /\ NoRow \notin Row
  BY DEF NoRow, Row, Status
<1>2. CASE Begins(d)
  <2>1. PICK u \in Users, manual \in BOOLEAN, heads \in SUBSET EditId :
           /\ UNCHANGED <<queue, made, fate>>
           /\ heads \subseteq ChainHeads(Mine(u), manual) /\ drain'[d].as = u
           /\ \A k \in heads : drain'[d].todo[k] = queue[k]
           /\ \A k \in EditId \ heads : drain'[d].todo[k] = NoRow
    BY <1>2 DEF Begins
  <2>2. j \in heads /\ drain'[d].todo[j] = queue[j]
    BY <1>1, <2>1
  <2>3. i \in Mine(u) /\ queue[i].feature = queue[j].feature
    BY <2>1, <2>2 DEF Mine, Present, OwnedBy
  <2> QED BY <2>1, <2>2, <2>3 DEF ChainHeads
<1>3. CASE GoesOn(d)
  <2>1. /\ drain[d].pc # "idle" /\ drain'[d].as = drain[d].as
        /\ drain'[d].todo[j] = drain[d].todo[j]
    BY <1>1, <1>3 DEF GoesOn
  <2>2. CASE i = made + 1
    <3>1. ~(j > made)
      BY <1>0, <1>1, <2>1 DEF TypeInv, IdsMade
    <3> QED BY <1>0, <2>2, <3>1 DEF EditId
  <2>3. CASE i # made + 1
    <3>1. fate[i] # "dropped"
      BY <1>0, <2>3, DropsStay DEF StayDropped
    <3>2. CASE queue[i].status # "none"
      <4>1. queue[i] \in Row /\ queue'[i] # NoRow /\ queue[i] \in Copies(i)
        <5>1. queue[i] \in Row
          BY <1>0, <3>2, PresentIsRow
        <5> QED BY <1>0, <1>1, <5>1, CopyCases
      <4>2. queue'[i].feature = queue[i].feature /\ queue'[i].owner = queue[i].owner
        <5>1. CASE Edits
          BY <1>0, <2>3, <4>1, <5>1, EditEffect
        <5>2. CASE ~Edits
          <6>1. PICK s \in Copies(i) : SameBody(queue'[i], s)
            BY <1>0, <4>1, <5>2, RowsKept
          <6> QED BY <1>0, <4>1, <6>1 DEF CopyInv, Alike, SameBody
        <5> QED BY <5>1, <5>2
      <4> QED BY <1>0, <2>1, <3>1, <3>2, <4>2 DEF ListedFirst, Present
    <3>3. CASE queue[i].status = "none"
      <4>1. queue[i] = NoRow /\ queue'[i] # NoRow
        <5>1. queue[i] \in Row \cup {NoRow}
          BY <1>0 DEF RowTable
        <5> QED BY <1>1, <3>3, <5>1 DEF Row, Status
      <4>2. ~Edits
        BY <1>0, <1>1, <2>3, <4>1, EditEffect
      <4>3. PICK x \in Drains : Settle(x) /\ drain[x].row = i
        BY <1>0, <4>1, <4>2, RowsAppear
      <4>4. Holding(x)
        BY <4>3 DEF Settle, Holding
      <4> QED BY <1>0, <3>1, <3>3, <4>3, <4>4 DEF GoneDropped
    <3> QED BY <3>2, <3>3
  <2> QED BY <2>2, <2>3
<1> QED BY <1>0, <1>2, <1>3, DrainEffect

\* Where no replay outlives its claim, a drain never sends a row while an older
\* one of its account and feature waits, whatever is queued, discarded, parked
\* or put back while it runs (queue-replay.ts queueChainHeads).
THEOREM ReplaysAreInOrder == ~SlowReplays => (Spec => []ReplayInOrder)
<1> SUFFICES ASSUME ~SlowReplays PROVE Spec => []ReplayInOrder
  OBVIOUS
<1>1. Init => OrderInv
  <2> SUFFICES ASSUME Init PROVE GoneDropped /\ ListedFirst
    BY ClaimInvInit, CopyInvInit DEF OrderInv
  <2>1. \A d \in Drains : drain[d].pc = "idle"
    BY DEF Init, Idle
  <2> QED BY <2>1 DEF GoneDropped, ListedFirst, Holding
<1>2. OrderInv /\ [Next]_vars => OrderInv'
  <2> SUFFICES ASSUME OrderInv, [Next]_vars PROVE OrderInv'
    OBVIOUS
  <2>1. ClaimInv' /\ CopyInv'
    BY ClaimInvStep, CopyInvStep DEF OrderInv, ClaimInv
  <2>2. GoneDropped' /\ ListedFirst'
    BY GoneDroppedStep, ListedFirstStep
  <2> QED BY <2>1, <2>2 DEF OrderInv
<1>3. OrderInv => ReplayInOrder
  <2> SUFFICES ASSUME OrderInv, NEW d \in Drains, Holding(d), NEW i \in Present(queue),
                      queue[i].feature = Sent(d).feature, OwnedBy(queue[i], drain[d].as),
                      \A e \in queue[i].edits : fate[e] # "dropped"
               PROVE  drain[d].row <= i
    BY DEF ReplayInOrder
  <2>1. TypeInv /\ CopyInv /\ ListedFirst
    BY DEF OrderInv, ClaimInv
  <2>2. i \in EditId /\ queue[i] \in Row
    BY <2>1, PresentIsRow DEF Present, TypeInv, TypeOK
  <2>3. fate[i] # "dropped"
    BY <2>1, <2>2, CopyCases DEF CopyInv, Named
  <2>4. drain[d].row \in Present(drain[d].todo) /\ drain[d].pc # "idle"
    BY <2>1 DEF TypeInv, DrainShape, Holding
  <2> QED BY <2>1, <2>3, <2>4 DEF ListedFirst, OwnedBy, Sent
<1> QED BY <1>1, <1>2, <1>3, PTL DEF Spec
=============================================================================
