--------------------------- MODULE FoldEffectProofs ---------------------------
(***************************************************************************)
(* Theorems about FoldEffect, for any fields, answers, positions and chain. *)
(***************************************************************************)
EXTENDS FoldEffect, WellFoundedInduction, TLAPS

-----------------------------------------------------------------------------
(* The operators                                                           *)

LEMMA CoalesceKeeps ==
    ASSUME NEW a \in Geometries \cup {Null}, NEW b \in Geometries \cup {Null}
    PROVE  Coalesce(a, b) \in Geometries \cup {Null}
BY DEF Coalesce

LEMMA MergeKeeps ==
    ASSUME NEW a \in Props, NEW b \in Props
    PROVE  Merge(a, b) \in Props
BY DEF Merge, Props

\* Newer over older twice is the newest over the rest, folded or not.
LEMMA CoalesceTwice ==
    ASSUME NEW a, NEW b, NEW c
    PROVE  Coalesce(c, Coalesce(b, a)) = Coalesce(Coalesce(c, b), a)
BY DEF Coalesce

LEMMA MergeTwice ==
    ASSUME NEW a \in Props, NEW b \in Props, NEW c \in Props
    PROVE  Merge(Merge(a, b), c) = Merge(a, Merge(b, c))
<1>1. \A k \in Keys : Merge(Merge(a, b), c)[k] = Merge(a, Merge(b, c))[k]
  BY DEF Merge
<1>2. Merge(Merge(a, b), c) \in Props /\ Merge(a, Merge(b, c)) \in Props
  BY MergeKeeps
<1> QED BY <1>1, <1>2 DEF Props

\* What a request does, by its operation.
LEMMA ApplyIs ==
    ASSUME NEW feature, NEW edit
    PROVE  /\ edit.op = "insert" => Apply(feature, edit) =
                IF feature.live THEN feature
                ELSE [live |-> TRUE, geometry |-> edit.geometry, props |-> edit.props]
           /\ edit.op = "update" => Apply(feature, edit) =
                IF ~feature.live THEN feature
                ELSE [live |-> TRUE,
                      geometry |-> Coalesce(edit.geometry, feature.geometry),
                      props |-> Merge(feature.props, edit.props)]
           /\ edit.op = "delete" => Apply(feature, edit) = Absent
           /\ edit.op = "annihilated" => Apply(feature, edit) = feature
<1>1. CASE edit.op = "insert"
  BY <1>1 DEF Apply, Annihilated
<1>2. CASE edit.op = "update"
  BY <1>2 DEF Apply, Annihilated
<1>3. CASE edit.op = "delete"
  BY <1>3 DEF Apply, Annihilated
<1>4. CASE edit.op = "annihilated"
  BY <1>4 DEF Apply, Annihilated
<1>5. CASE edit.op \notin {"insert", "update", "delete", "annihilated"}
  BY <1>5
<1> QED BY <1>1, <1>2, <1>3, <1>4, <1>5

\* What an edit is.
LEMMA EditFields ==
    ASSUME NEW edit \in Edit
    PROVE  /\ edit.op \in QueueOp
           /\ edit.geometry \in Geometries \cup {Null} /\ edit.props \in Props
           /\ edit.op = "delete" => edit = Delete
           /\ edit # NoRow /\ edit # Gone
<1>1. Delete.op = "delete" /\ Delete.geometry = Null /\ Delete.props \in Props
  BY DEF Delete, Props
<1>2. NoRow.op = "none" /\ Gone.op = "annihilated"
  BY DEF NoRow, Gone, Annihilated
<1>3. CASE edit = Delete
  BY <1>1, <1>2, <1>3 DEF QueueOp
<1>4. CASE edit \in Write
  <2>1. /\ edit.op \in {"insert", "update"}
        /\ edit.geometry \in Geometries \cup {Null} /\ edit.props \in Props
    BY <1>4 DEF Write
  <2> QED BY <1>2, <2>1 DEF QueueOp
<1> QED BY <1>3, <1>4 DEF Edit

\* A feature is there, with a position and properties, or it is absent.
LEMMA FeatureFields ==
    ASSUME NEW feature \in Feature
    PROVE  /\ feature.live \in BOOLEAN
           /\ feature.live => /\ feature.geometry \in Geometries \cup {Null}
                              /\ feature.props \in Props
                              /\ feature = [live |-> TRUE, geometry |-> feature.geometry,
                                            props |-> feature.props]
           /\ ~feature.live => feature = Absent
<1>1. Absent.live = FALSE
  BY DEF Absent
<1>2. CASE feature = Absent
  BY <1>1, <1>2
<1>3. CASE feature # Absent
  <2>1. feature \in [live : {TRUE}, geometry : Geometries \cup {Null}, props : Props]
    BY <1>3 DEF Feature
  <2> QED BY <2>1
<1> QED BY <1>2, <1>3

LEMMA ApplyKeeps ==
    ASSUME NEW feature \in Feature, NEW edit \in Edit
    PROVE  Apply(feature, edit) \in Feature
<1>1. /\ edit.op \in QueueOp
      /\ edit.geometry \in Geometries \cup {Null} /\ edit.props \in Props
  BY EditFields
<1>2. \A g \in Geometries \cup {Null}, p \in Props :
         [live |-> TRUE, geometry |-> g, props |-> p] \in Feature
  BY DEF Feature
<1>3. CASE edit.op = "insert"
  BY <1>1, <1>2, <1>3 DEF Apply
<1>4. CASE edit.op = "update"
  <2>1. CASE feature.live
    <3>1. feature.geometry \in Geometries \cup {Null} /\ feature.props \in Props
      BY <2>1, FeatureFields
    <3>2. /\ Coalesce(edit.geometry, feature.geometry) \in Geometries \cup {Null}
          /\ Merge(feature.props, edit.props) \in Props
      BY <1>1, <3>1, CoalesceKeeps, MergeKeeps
    <3> QED BY <1>2, <1>4, <2>1, <3>2 DEF Apply
  <2>2. CASE ~feature.live
    BY <1>4, <2>2 DEF Apply
  <2> QED BY <2>1, <2>2
<1>5. CASE edit.op = "delete"
  BY <1>5 DEF Apply, Feature
<1> QED BY <1>1, <1>3, <1>4, <1>5 DEF QueueOp

\* What two edits fold into.
LEMMA FoldKeeps ==
    ASSUME NEW prior \in Edit, NEW next \in Edit
    PROVE  /\ FoldQueuedEdits(prior, next) \in Edit \cup {Gone}
           /\ FoldQueuedEdits(prior, next).op = FoldOp(prior.op, next.op)
<1> DEFINE op == FoldOp(prior.op, next.op)
           written == [op |-> op, geometry |-> Coalesce(next.geometry, prior.geometry),
                       props |-> Merge(prior.props, next.props)]
<1>1. prior.op \in QueueOp /\ next.op \in QueueOp
  BY EditFields
<1>2. op \in {"annihilated", "insert", "update", "delete"}
  BY <1>1 DEF FoldOp, QueueOp, Annihilated
<1>3. /\ Coalesce(next.geometry, prior.geometry) \in Geometries \cup {Null}
      /\ Merge(prior.props, next.props) \in Props
  BY EditFields, CoalesceKeeps, MergeKeeps
<1>4. /\ op = "annihilated" => FoldQueuedEdits(prior, next) = Gone
      /\ op = "delete" => FoldQueuedEdits(prior, next) = Delete
      /\ op \in {"insert", "update"} => FoldQueuedEdits(prior, next) = written
  BY DEF FoldQueuedEdits, Annihilated
<1>5. Gone.op = "annihilated" /\ Delete.op = "delete" /\ written.op = op
  BY DEF Gone, Delete, Annihilated
<1>6. op \in {"insert", "update"} => written \in Write
  BY <1>3 DEF Write
<1> HIDE DEF op, written
<1>7. CASE op = "annihilated"
  BY <1>4, <1>5, <1>7 DEF op
<1>8. CASE op = "delete"
  BY <1>4, <1>5, <1>8 DEF op, Edit
<1>9. CASE op \in {"insert", "update"}
  BY <1>4, <1>5, <1>6, <1>9 DEF op, Edit
<1> QED BY <1>2, <1>7, <1>8, <1>9

-----------------------------------------------------------------------------
(* The effect of the folded row                                            *)

\* The row says which of the two the server has: what it held, or what it
\* would hold.
RowFits ==
    sane =>
        /\ row = NoRow => online = base
        /\ row = Gone => ~base.live /\ ~online.live
        /\ row.op = "insert" => ~base.live /\ online.live
        /\ row.op = "update" => base.live /\ online.live
        /\ row.op = "delete" => base.live /\ ~online.live

FoldInv == TypeOK /\ (row = NoRow <=> ops = <<>>) /\ RowFits /\ FoldPreservesEffect

LEMMA FoldInit == Init => FoldInv
<1> SUFFICES ASSUME Init PROVE FoldInv
  OBVIOUS
<1>1. row = NoRow /\ row.op = "none" /\ row # Gone
  BY DEF Init, NoRow, Gone, Annihilated
<1>2. Apply(base, row) = base
  BY <1>1 DEF Apply, Annihilated
<1>3. TypeOK
  BY <1>1, FoldAssumption DEF Init, TypeOK
<1> QED BY <1>1, <1>2, <1>3 DEF Init, FoldInv, RowFits, FoldPreservesEffect

LEMMA FoldTypeNext ==
    ASSUME FoldInv, NEW edit \in Edit, QueueEdit(edit)
    PROVE  /\ TypeOK' /\ row' # NoRow /\ ops' # <<>>
           /\ row = NoRow => row' = edit
           /\ row = Gone => row' = Gone
           /\ row \in Edit => row' = FoldQueuedEdits(row, edit)
<1>1. TypeOK /\ edit.op \in QueueOp
  BY EditFields DEF FoldInv
<1>2. NoRow # Gone
  <2>1. NoRow.op = "none" /\ Gone.op = "annihilated"
    BY DEF NoRow, Gone, Annihilated
  <2> QED BY <2>1
<1>3. /\ row = NoRow => row' = edit
      /\ row = Gone => row' = Gone
      /\ row \in Edit => row' = FoldQueuedEdits(row, edit)
  BY <1>2, EditFields DEF QueueEdit
<1>4. row' \in Edit \cup {Gone}
  BY <1>1, <1>3, FoldKeeps DEF TypeOK
<1>5. row' # NoRow
  BY <1>2, <1>4, EditFields
<1>6. ops' \in Seq(QueueOp) /\ Len(ops') <= MaxOps /\ ops' # <<>>
  BY <1>1, FoldAssumption DEF QueueEdit, TypeOK
<1>7. online' \in Feature /\ base' \in Feature
  BY <1>1, ApplyKeeps DEF QueueEdit, TypeOK
<1>8. sane' \in BOOLEAN
  BY DEF QueueEdit
<1> QED BY <1>3, <1>4, <1>5, <1>6, <1>7, <1>8 DEF TypeOK

\* What a person's next edit of a feature can be, and what it leaves.
LEMMA SaneStep ==
    ASSUME FoldInv, NEW edit \in Edit, QueueEdit(edit), sane'
    PROVE  /\ sane /\ base' = base /\ online' = Apply(online, edit)
           /\ edit.op = "insert" <=> ~online.live
           /\ edit.op = "insert" => row = NoRow
<1>1. online.live \in BOOLEAN
  BY FeatureFields DEF FoldInv, TypeOK
<1>2. (edit.op = "insert") = ~online.live
  BY DEF QueueEdit, CanMake
<1>3. edit.op = "insert" => ops = <<>>
  BY DEF QueueEdit
<1> QED BY <1>1, <1>2, <1>3 DEF FoldInv, QueueEdit

\* The first edit is the row.
LEMMA FirstEdit ==
    ASSUME FoldInv, NEW edit \in Edit, QueueEdit(edit), row = NoRow
    PROVE  RowFits' /\ FoldPreservesEffect'
<1> SUFFICES ASSUME sane'
             PROVE  /\ Apply(base', row') = online'
                    /\ row' # NoRow /\ row' # Gone
                    /\ row'.op = "insert" => ~base'.live /\ online'.live
                    /\ row'.op = "update" => base'.live /\ online'.live
                    /\ row'.op = "delete" => base'.live /\ ~online'.live
  BY DEF RowFits, FoldPreservesEffect
<1>1. /\ sane /\ base' = base /\ online' = Apply(online, edit)
      /\ (edit.op = "insert" <=> ~online.live)
  BY SaneStep
<1>2. online = base /\ row' = edit /\ row' # NoRow /\ row' # Gone
  BY <1>1, FoldTypeNext, EditFields DEF FoldInv, RowFits
<1>3. Absent.live = FALSE
  BY DEF Absent
<1>4. /\ edit.op = "insert" => ~base.live /\ online'.live
      /\ edit.op = "update" => base.live /\ online'.live
      /\ edit.op = "delete" => base.live /\ ~online'.live
  BY <1>1, <1>2, <1>3, ApplyIs
<1> QED BY <1>1, <1>2, <1>4

\* Another one, folded into it.
LEMMA FoldedEdit ==
    ASSUME FoldInv, NEW edit \in Edit, QueueEdit(edit), row \in Edit
    PROVE  RowFits' /\ FoldPreservesEffect'
<1> SUFFICES ASSUME sane'
             PROVE  /\ Apply(base', row') = online'
                    /\ row' # NoRow
                    /\ row' = Gone => ~base'.live /\ ~online'.live
                    /\ row'.op = "insert" => ~base'.live /\ online'.live
                    /\ row'.op = "update" => base'.live /\ online'.live
                    /\ row'.op = "delete" => base'.live /\ ~online'.live
  BY DEF RowFits, FoldPreservesEffect
<1>1. /\ sane /\ base' = base /\ online' = Apply(online, edit)
      /\ (edit.op = "insert" <=> ~online.live) /\ edit.op # "insert"
  BY SaneStep, EditFields
<1>2. /\ online.live /\ base \in Feature /\ online \in Feature /\ online = Apply(base, row)
      /\ row' = FoldQueuedEdits(row, edit) /\ row' # NoRow
  BY <1>1, FoldTypeNext DEF FoldInv, TypeOK, FoldPreservesEffect
<1>3. row.op \in {"insert", "update"}
  <2>1. row.op # "delete"
    BY <1>1, <1>2 DEF FoldInv, RowFits
  <2> QED BY <2>1, EditFields DEF QueueOp
<1>4. edit.op \in {"update", "delete"}
  BY <1>1, EditFields DEF QueueOp
<1>5. /\ row.op = "insert" => ~base.live
      /\ row.op = "update" => base.live
  BY <1>1 DEF FoldInv, RowFits
<1>6. /\ Absent.live = FALSE /\ Delete.op = "delete" /\ Gone.op = "annihilated"
      /\ (~base.live => base = Absent)
  BY <1>2, FeatureFields DEF Absent, Delete, Gone, Annihilated
<1>7. CASE edit.op = "delete"
  <2>1. online' = Absent
    BY <1>1, <1>7, ApplyIs
  <2>2. CASE row.op = "insert"
    <3>1. row' = Gone
      BY <1>2, <1>7, <2>2 DEF FoldQueuedEdits, FoldOp, Annihilated
    <3>2. Apply(base, Gone) = base
      BY <1>6, ApplyIs
    <3> QED BY <1>1, <1>2, <1>5, <1>6, <2>1, <2>2, <3>1, <3>2
  <2>3. CASE row.op = "update"
    <3>1. row' = Delete
      BY <1>2, <1>7, <2>3 DEF FoldQueuedEdits, FoldOp, Annihilated
    <3>2. Apply(base, Delete) = Absent
      BY <1>6, ApplyIs
    <3>3. row' # Gone
      BY <1>6, <3>1
    <3> QED BY <1>1, <1>2, <1>5, <1>6, <2>1, <2>3, <3>1, <3>2, <3>3
  <2> QED BY <1>3, <2>2, <2>3
<1>8. CASE edit.op = "update"
  <2> DEFINE geometry == Coalesce(edit.geometry, row.geometry)
             props == Merge(row.props, edit.props)
             new == [op |-> row.op, geometry |-> geometry, props |-> props]
  <2>1. row' = new
    BY <1>2, <1>3, <1>8 DEF FoldQueuedEdits, FoldOp, Annihilated
  <2>2. new.op = row.op /\ new.geometry = geometry /\ new.props = props
    OBVIOUS
  <2>3. online' = [live |-> TRUE, geometry |-> Coalesce(edit.geometry, online.geometry),
                   props |-> Merge(online.props, edit.props)]
    BY <1>1, <1>2, <1>8, ApplyIs
  <2> HIDE DEF new
  <2>4. CASE row.op = "insert"
    <3>1. online = [live |-> TRUE, geometry |-> row.geometry, props |-> row.props]
      BY <1>2, <1>5, <2>4, ApplyIs
    <3>2. online' = [live |-> TRUE, geometry |-> geometry, props |-> props]
      BY <2>3, <3>1
    <3>3. Apply(base, new) = [live |-> TRUE, geometry |-> geometry, props |-> props]
      BY <1>5, <2>2, <2>4, ApplyIs
    <3>4. online'.live /\ new # Gone
      BY <1>6, <2>2, <2>4, <3>2
    <3> QED BY <1>1, <1>2, <1>5, <2>1, <2>2, <2>4, <3>2, <3>3, <3>4
  <2>5. CASE row.op = "update"
    <3>1. online = [live |-> TRUE, geometry |-> Coalesce(row.geometry, base.geometry),
                    props |-> Merge(base.props, row.props)]
      BY <1>2, <1>5, <2>5, ApplyIs
    <3>2. online.geometry = Coalesce(row.geometry, base.geometry)
          /\ online.props = Merge(base.props, row.props)
      BY <3>1
    <3>3. Apply(base, new) = [live |-> TRUE, geometry |-> Coalesce(geometry, base.geometry),
                              props |-> Merge(base.props, props)]
      BY <1>5, <2>2, <2>5, ApplyIs
    <3>4. base.props \in Props /\ row.props \in Props /\ edit.props \in Props
      BY <1>2, <1>5, <2>5, EditFields, FeatureFields
    <3>5. /\ Coalesce(edit.geometry, online.geometry) = Coalesce(geometry, base.geometry)
          /\ Merge(online.props, edit.props) = Merge(base.props, props)
      BY <3>2, <3>4, CoalesceTwice, MergeTwice
    <3>6. Apply(base, new) = online'
      BY <2>3, <3>3, <3>5
    <3>7. online'.live /\ new # Gone
      BY <1>6, <2>2, <2>3, <2>5
    <3> QED BY <1>1, <1>2, <1>5, <2>1, <2>2, <2>5, <3>6, <3>7
  <2> QED BY <1>3, <2>4, <2>5
<1> QED BY <1>4, <1>7, <1>8

LEMMA FoldNext == FoldInv /\ [Next]_vars => FoldInv'
<1> SUFFICES ASSUME FoldInv, [Next]_vars PROVE FoldInv'
  OBVIOUS
<1>1. CASE UNCHANGED vars
  BY <1>1 DEF vars, FoldInv, TypeOK, RowFits, FoldPreservesEffect
<1>2. ASSUME NEW edit \in Edit, QueueEdit(edit) PROVE FoldInv'
  <2>1. TypeOK' /\ row' # NoRow /\ ops' # <<>>
    BY <1>2, FoldTypeNext
  <2>2. RowFits' /\ FoldPreservesEffect'
    <3>1. CASE row = NoRow
      BY <1>2, <3>1, FirstEdit
    <3>2. CASE row \in Edit
      BY <1>2, <3>2, FoldedEdit
    <3>3. CASE row = Gone
      <4>1. ASSUME sane' PROVE FALSE
        <5>1. sane /\ (edit.op = "insert" <=> ~online.live) /\ (edit.op = "insert" => row = NoRow)
          BY <1>2, <4>1, SaneStep
        <5>2. ~online.live
          BY <3>3, <5>1 DEF FoldInv, RowFits
        <5>3. Gone # NoRow
          <6>1. NoRow.op = "none" /\ Gone.op = "annihilated"
            BY DEF NoRow, Gone, Annihilated
          <6> QED BY <6>1
        <5> QED BY <3>3, <5>1, <5>2, <5>3
      <4> QED BY <4>1 DEF RowFits, FoldPreservesEffect
    <3> QED BY <3>1, <3>2, <3>3 DEF FoldInv, TypeOK
  <2> QED BY <2>1, <2>2 DEF FoldInv
<1> QED BY <1>1, <1>2 DEF Next

\* A chain of edits is one queue row at any length, whatever was edited
\* (queue-fold.ts foldQueuedEdits).
THEOREM FoldTypes == Spec => []TypeOK
<1>1. FoldInv => TypeOK
  BY DEF FoldInv
<1> QED BY <1>1, FoldInit, FoldNext, PTL DEF Spec

\* However many edits a person makes of a feature with no signal, sending the
\* one row they were folded into leaves the server where sending each at once
\* would have (queue-fold.ts foldQueuedEdits).
THEOREM FoldingPreservesEffect == Spec => []FoldPreservesEffect
<1>1. FoldInv => FoldPreservesEffect
  BY DEF FoldInv
<1> QED BY <1>1, FoldInit, FoldNext, PTL DEF Spec

\* A capture stays a create, an edit of what the server holds never becomes one
\* (queue-fold.ts foldQueuedEdits).
THEOREM FoldedRowsFit == Spec => []FoldedOpFits
<1>1. FoldInv => FoldedOpFits
  <2> SUFFICES ASSUME FoldInv, sane, row.op \in QueueOp
               PROVE  (row.op = "insert") = ~base.live
    BY DEF FoldedOpFits
  <2>1. base.live \in BOOLEAN
    BY FeatureFields DEF FoldInv, TypeOK
  <2>2. row.op = "insert" <=> ~base.live
    BY DEF FoldInv, RowFits, QueueOp
  <2> QED BY <2>1, <2>2
<1> QED BY <1>1, FoldInit, FoldNext, PTL DEF Spec

-----------------------------------------------------------------------------
(* The chain in closed form                                                *)

\* A chain of two edits or more is decided by its first operation, its last,
\* and whether a delete follows the first.
ChainDecided ==
    /\ Len(ops) = 1 => row.op = ops[1]
    /\ Len(ops) > 1 =>
          row.op = FoldedChainOp(Head(ops), Last(ops),
                                 \E i \in 2..Len(ops) : ops[i] = "delete")

LEMMA ChainNext ==
    ASSUME FoldInv, ChainDecided, NEW edit \in Edit, QueueEdit(edit)
    PROVE  ChainDecided'
<1> DEFINE n == Len(ops)
           deleted == \E i \in 2..n : ops[i] = "delete"
<1>1. /\ ops \in Seq(QueueOp) /\ n \in Nat /\ ops' = Append(ops, edit.op)
      /\ edit.op \in QueueOp
  BY EditFields DEF FoldInv, TypeOK, QueueEdit
<1>2. /\ Len(ops') = n + 1 /\ ops'[n + 1] = edit.op
      /\ \A i \in 1..n : ops'[i] = ops[i] /\ ops[i] \in QueueOp
  BY <1>1
<1>3. CASE n = 0
  <2>1. ops = <<>>
    BY <1>1, <1>3
  <2>2. row' = edit
    BY <2>1, FoldTypeNext DEF FoldInv
  <2>3. Len(ops') = 1 /\ ops'[1] = edit.op
    BY <1>2, <1>3
  <2> QED BY <2>2, <2>3 DEF ChainDecided
<1>4. CASE n # 0
  <2>1. /\ Len(ops') > 1 /\ ~(Len(ops') = 1) /\ n >= 1
        /\ Head(ops') = ops[1] /\ Last(ops') = edit.op /\ ops[1] \in QueueOp
    BY <1>1, <1>2, <1>4 DEF Last
  <2>2. (\E i \in 2..Len(ops') : ops'[i] = "delete") <=> deleted \/ edit.op = "delete"
    BY <1>1, <1>2, <2>1
  <2>3. ops # <<>>
    BY <1>4
  <2>4. CASE n = 1
    <3>1. row.op = ops[1] /\ ~deleted
      BY <2>4 DEF ChainDecided
    <3>2. row.op \in QueueOp /\ row # Gone
      BY <2>1, <3>1 DEF Gone, Annihilated, QueueOp
    <3>3. row \in Edit
      BY <2>3, <3>2 DEF FoldInv, TypeOK
    <3>4. row'.op = FoldOp(ops[1], edit.op)
      BY <3>1, <3>3, FoldTypeNext, FoldKeeps
    <3>5. FoldOp(ops[1], edit.op) = FoldedChainOp(ops[1], edit.op, edit.op = "delete")
      BY <1>1, <2>1 DEF FoldOp, FoldedChainOp
    <3>6. (\E i \in 2..Len(ops') : ops'[i] = "delete") <=> edit.op = "delete"
      BY <2>2, <3>1
    <3> QED BY <2>1, <3>4, <3>5, <3>6 DEF ChainDecided, FoldedChainOp
  <2>5. CASE n > 1
    <3>1. row.op = FoldedChainOp(ops[1], ops[n], deleted)
      <4>1. Head(ops) = ops[1] /\ Last(ops) = ops[n]
        BY <1>1, <2>3 DEF Last
      <4> QED BY <2>5, <4>1 DEF ChainDecided
    <3>2. ops[n] \in QueueOp
      BY <1>2, <2>5
    <3>3. CASE ops[1] = "insert" /\ deleted
      <4>1. row.op = "annihilated"
        BY <3>1, <3>3 DEF FoldedChainOp, Annihilated
      <4>2. row = Gone
        <5>1. row \notin Edit
          BY <4>1, EditFields DEF QueueOp
        <5> QED BY <2>3, <5>1 DEF FoldInv, TypeOK
      <4>3. row'.op = "annihilated"
        BY <4>1, <4>2, FoldTypeNext
      <4> QED BY <2>1, <2>2, <3>3, <4>3 DEF ChainDecided, FoldedChainOp, Annihilated
    <3>4. CASE ~(ops[1] = "insert" /\ deleted)
      <4>1. row.op \in QueueOp
        BY <3>1, <3>4 DEF FoldedChainOp, QueueOp
      <4>2. row \in Edit
        BY <2>3, <4>1 DEF FoldInv, TypeOK, Gone, Annihilated, QueueOp
      <4>3. row'.op = FoldOp(row.op, edit.op)
        BY <4>2, FoldTypeNext, FoldKeeps
      <4>4. row.op = "insert" <=> ops[1] = "insert"
        BY <3>1, <3>4 DEF FoldedChainOp
      <4>5. FoldOp(row.op, edit.op)
               = FoldedChainOp(ops[1], edit.op, deleted \/ edit.op = "delete")
        BY <3>4, <4>4 DEF FoldOp, FoldedChainOp
      <4> QED BY <2>1, <2>2, <4>3, <4>5 DEF ChainDecided, FoldedChainOp
    <3> QED BY <3>3, <3>4
  <2>6. n = 1 \/ n > 1
    <3>1. n \in Nat /\ n # 0
      BY <1>1, <1>4
    <3> HIDE DEF n
    <3> QED BY <3>1
  <2> QED BY <2>4, <2>5, <2>6
<1> QED BY <1>3, <1>4

LEMMA ChainDecidedHolds == Spec => []ChainDecided
<1>1. Init => ChainDecided
  BY DEF Init, ChainDecided
<1>2. FoldInv /\ ChainDecided /\ [Next]_vars => ChainDecided'
  <2>1. UNCHANGED vars /\ ChainDecided => ChainDecided'
    BY DEF vars, ChainDecided
  <2> QED BY <2>1, ChainNext DEF Next
<1> QED BY <1>1, <1>2, FoldInit, FoldNext, PTL DEF Spec

-----------------------------------------------------------------------------
(* The loop over a chain.  The library's induction theorems are about an    *)
(* operator; a least counterexample serves as well.                         *)

\* Every non-empty set of numbers has a least one.
LEMMA LeastNumber ==
    ASSUME NEW T, T \subseteq Nat, T # {}
    PROVE  \E x \in T : \A y \in T : x <= y
<1>1. \E x \in T : \A y \in T : <<y, x>> \notin OpToRel(<, Nat)
  BY NatLessThanWellFounded, WFMin
<1>2. PICK x \in T : \A y \in T : <<y, x>> \notin OpToRel(<, Nat)
  BY <1>1
<1>3. \A y \in T : ~(y < x)
  BY <1>2 DEF OpToRel
<1> QED BY <1>3

\* Some of the first n numbers have a greatest one.
LEMMA GreatestNumber ==
    ASSUME NEW n \in Nat, NEW S, S \subseteq 1..n, S # {}
    PROVE  Max(S) \in S /\ \A i \in S : i <= Max(S)
<1> DEFINE Bounds == {b \in Nat : \A i \in S : i <= b}
<1>1. n \in Bounds
  OBVIOUS
<1>2. PICK m \in Bounds : \A b \in Bounds : m <= b
  BY <1>1, LeastNumber
<1>3. m \in S
  <2>1. SUFFICES ASSUME m \notin S PROVE FALSE
    OBVIOUS
  <2>2. PICK i \in S : TRUE
    OBVIOUS
  <2>3. m \in Nat /\ m > 0 /\ \A j \in S : j \in Nat /\ j <= m - 1
    BY <2>1, <2>2
  <2>4. m - 1 \in Bounds
    BY <2>3
  <2> QED BY <1>2, <2>3, <2>4
<1>4. \A i \in S : m >= i
  OBVIOUS
<1>5. Max(S) = CHOOSE x \in S : \A y \in S : x >= y
  BY DEF Max
<1>6. Max(S) \in S /\ \A y \in S : Max(S) >= y
  BY <1>3, <1>4, <1>5
<1> QED BY <1>6

\* f is the fold's recursion over some of the operations that follow the first.
LoopOver(later, first, f) ==
    f = [s \in SUBSET (DOMAIN later) |->
            IF s = {} THEN first
            ELSE LET acc == f[s \ {Max(s)}]
                 IN  IF acc = Annihilated THEN Annihilated ELSE FoldOp(acc, later[Max(s)])]

LEMMA LoopForm ==
    ASSUME NEW chain
    PROVE  FoldQueuedChain(chain)
              = (CHOOSE f : LoopOver(Tail(chain), Head(chain), f))[DOMAIN Tail(chain)]
BY DEF FoldQueuedChain, FoldLeft, MapThenFoldSet, LoopOver

\* What the loop makes of some of the later operations.
Decided(later, first, s) ==
    IF s = {} THEN first
    ELSE FoldedChainOp(first, later[Max(s)], \E i \in s : later[i] = "delete")

\* One turn of the loop keeps the closed form.
LEMMA LoopTurn ==
    ASSUME NEW n \in Nat, NEW later \in [1..n -> QueueOp], NEW first \in QueueOp,
           NEW s \in SUBSET (1..n), s # {}
    PROVE  LET acc == Decided(later, first, s \ {Max(s)})
           IN  Decided(later, first, s)
                 = IF acc = Annihilated THEN Annihilated ELSE FoldOp(acc, later[Max(s)])
<1> DEFINE m == Max(s)
           rest == s \ {m}
           acc == Decided(later, first, rest)
           gone(S) == \E i \in S : later[i] = "delete"
<1>1. m \in s /\ later[m] \in QueueOp
  BY GreatestNumber
<1>2. gone(s) <=> gone(rest) \/ later[m] = "delete"
  BY <1>1
<1>3. Decided(later, first, s) = FoldedChainOp(first, later[m], gone(s))
  BY DEF Decided
<1> SUFFICES FoldedChainOp(first, later[m], gone(s))
               = IF acc = Annihilated THEN Annihilated ELSE FoldOp(acc, later[m])
  BY <1>3
<1>4. CASE rest = {}
  <2>1. acc = first /\ ~gone(rest)
    BY <1>4 DEF Decided
  <2> HIDE DEF m, rest, acc, gone
  <2> QED BY <1>1, <1>2, <2>1 DEF FoldedChainOp, FoldOp, Annihilated, QueueOp
<1>5. CASE rest # {}
  <2>1. acc = FoldedChainOp(first, later[Max(rest)], gone(rest))
    BY <1>5 DEF Decided
  <2>2. /\ first = "insert" /\ gone(rest) => acc = Annihilated
        /\ first = "insert" /\ ~gone(rest) => acc = "insert"
        /\ first # "insert" => acc \in {"update", "delete"}
    BY <2>1 DEF FoldedChainOp
  <2> HIDE DEF m, rest, acc, gone
  <2> QED BY <1>1, <1>2, <2>2 DEF FoldedChainOp, FoldOp, Annihilated, QueueOp
<1> QED BY <1>4, <1>5

\* The recursion is well defined: there is what it describes.
LEMMA LoopEnds ==
    ASSUME NEW n \in Nat, NEW later \in [1..n -> QueueOp], NEW first \in QueueOp
    PROVE  \E f : LoopOver(later, first, f)
<1> DEFINE f == [s \in SUBSET (1..n) |-> Decided(later, first, s)]
<1>1. \A s \in SUBSET (1..n) :
         f[s] = IF s = {} THEN first
                ELSE IF f[s \ {Max(s)}] = Annihilated THEN Annihilated
                     ELSE FoldOp(f[s \ {Max(s)}], later[Max(s)])
  <2>1. ASSUME NEW s \in SUBSET (1..n), s = {}
        PROVE  f[s] = first
    BY <2>1 DEF Decided
  <2>2. ASSUME NEW s \in SUBSET (1..n), s # {}
        PROVE  f[s] = IF f[s \ {Max(s)}] = Annihilated THEN Annihilated
                      ELSE FoldOp(f[s \ {Max(s)}], later[Max(s)])
    <3>1. f[s] = Decided(later, first, s) /\ f[s \ {Max(s)}] = Decided(later, first, s \ {Max(s)})
      OBVIOUS
    <3> QED BY <2>2, <3>1, LoopTurn
  <2> QED BY <2>1, <2>2
<1>2. DOMAIN later = 1..n
  OBVIOUS
<1>3. LoopOver(later, first, f)
  <2>1. f = [s \in SUBSET (1..n) |-> f[s]]
    OBVIOUS
  <2> HIDE DEF f
  <2>2. f = [s \in SUBSET (1..n) |->
                IF s = {} THEN first
                ELSE IF f[s \ {Max(s)}] = Annihilated THEN Annihilated
                     ELSE FoldOp(f[s \ {Max(s)}], later[Max(s)])]
    BY <1>1, <2>1
  <2> QED BY <1>2, <2>2 DEF LoopOver
<1> QED BY <1>3

\* ... and nothing else, on the operations up to any one of them.
LEMMA LoopIsDecided ==
    ASSUME NEW n \in Nat, NEW later \in [1..n -> QueueOp], NEW first \in QueueOp,
           NEW f, LoopOver(later, first, f)
    PROVE  f[1..n] = Decided(later, first, 1..n)
<1> DEFINE Wrong == {k \in 0..n : f[1..k] # Decided(later, first, 1..k)}
<1>1. \A s \in SUBSET (1..n) :
         f[s] = IF s = {} THEN first
                ELSE IF f[s \ {Max(s)}] = Annihilated THEN Annihilated
                     ELSE FoldOp(f[s \ {Max(s)}], later[Max(s)])
  <2>1. DOMAIN later = 1..n
    OBVIOUS
  <2>2. f = [s \in SUBSET (1..n) |->
                IF s = {} THEN first
                ELSE IF f[s \ {Max(s)}] = Annihilated THEN Annihilated
                     ELSE FoldOp(f[s \ {Max(s)}], later[Max(s)])]
    BY <2>1 DEF LoopOver
  <2> DEFINE next(s) == IF s = {} THEN first
                        ELSE IF f[s \ {Max(s)}] = Annihilated THEN Annihilated
                             ELSE FoldOp(f[s \ {Max(s)}], later[Max(s)])
  <2>3. f = [s \in SUBSET (1..n) |-> next(s)]
    BY <2>2
  <2> HIDE DEF next
  <2>4. \A s \in SUBSET (1..n) : f[s] = next(s)
    BY <2>3
  <2> QED BY <2>4 DEF next
<1>2. SUFFICES ASSUME Wrong # {} PROVE FALSE
  OBVIOUS
<1>3. PICK k \in Wrong : \A j \in Wrong : k <= j
  <2>1. Wrong \subseteq Nat
    OBVIOUS
  <2> HIDE DEF Wrong
  <2> QED BY <1>2, <2>1, LeastNumber
<1>4. CASE k = 0
  <2>1. 1..k = {}
    BY <1>4
  <2>2. f[1..k] = first
    BY <1>1, <2>1
  <2> QED BY <2>1, <2>2 DEF Decided
<1>5. CASE k # 0
  <2>1. 1..k \in SUBSET (1..n) /\ 1..k # {} /\ k \in 1..n
    <3>1. k \in 0..n
      BY <1>3
    <3>2. k \in Nat /\ k >= 1 /\ k <= n
      BY <1>5, <3>1
    <3>3. \A i \in 1..k : i \in 1..n
      BY <3>2
    <3> QED BY <3>2, <3>3
  <2>2. Max(1..k) = k
    <3>1. Max(1..k) \in 1..k /\ \A i \in 1..k : i <= Max(1..k)
      BY <2>1, GreatestNumber
    <3> QED BY <2>1, <3>1
  <2>3. (1..k) \ {k} = 1..(k - 1) /\ k - 1 \in 0..n /\ ~(k <= k - 1)
    BY <2>1
  <2>4. f[1..(k - 1)] = Decided(later, first, 1..(k - 1))
    BY <1>3, <2>3
  <2>5. f[1..k] = Decided(later, first, 1..k)
    <3>1. f[1..k] = IF f[1..(k - 1)] = Annihilated THEN Annihilated
                    ELSE FoldOp(f[1..(k - 1)], later[k])
      BY <1>1, <2>1, <2>2, <2>3
    <3>2. Decided(later, first, 1..k)
            = IF Decided(later, first, 1..(k - 1)) = Annihilated THEN Annihilated
              ELSE FoldOp(Decided(later, first, 1..(k - 1)), later[k])
      <4> DEFINE acc == Decided(later, first, (1..k) \ {Max(1..k)})
      <4>1. Decided(later, first, 1..k)
              = IF acc = Annihilated THEN Annihilated ELSE FoldOp(acc, later[Max(1..k)])
        BY <2>1, LoopTurn
      <4> QED BY <2>2, <2>3, <4>1
    <3> QED BY <2>4, <3>1, <3>2
  <2> QED BY <2>5
<1> QED BY <1>4, <1>5

\* foldQueuedChain's loop, over any chain, is the closed form.
LEMMA ChainLoop ==
    ASSUME NEW chain \in Seq(QueueOp), chain # <<>>
    PROVE  /\ Len(chain) = 1 => FoldQueuedChain(chain) = chain[1]
           /\ Len(chain) > 1 =>
                 FoldQueuedChain(chain)
                   = FoldedChainOp(Head(chain), Last(chain),
                                   \E i \in 2..Len(chain) : chain[i] = "delete")
<1> DEFINE n == Len(chain) - 1
           later == Tail(chain)
           first == Head(chain)
<1>1. /\ n \in Nat /\ first = chain[1] /\ first \in QueueOp /\ Last(chain) = chain[n + 1]
      /\ later \in [1..n -> QueueOp] /\ DOMAIN later = 1..n
      /\ \A i \in 1..n : later[i] = chain[i + 1]
  <2>1. Len(chain) \in Nat /\ Len(chain) > 0
    OBVIOUS
  <2>2. first = chain[1] /\ chain[1] \in QueueOp
    BY <2>1
  <2>3. Last(chain) = chain[n + 1] /\ n \in Nat
    BY <2>1 DEF Last
  <2>4. later \in Seq(QueueOp) /\ Len(later) = n
    OBVIOUS
  <2>5. \A i \in 1..n : later[i] = chain[i + 1]
    BY <2>1
  <2>6. later \in [1..n -> QueueOp]
    <3> HIDE DEF later, n
    <3> QED BY <2>4
  <2>7. DOMAIN later = 1..n
    BY <2>6
  <2> HIDE DEF n, first, later
  <2> QED BY <2>2, <2>3, <2>5, <2>6, <2>7
<1>2. FoldQueuedChain(chain) = Decided(later, first, 1..n)
  <2>1. FoldQueuedChain(chain) = (CHOOSE f : LoopOver(later, first, f))[1..n]
    BY <1>1, LoopForm
  <2> HIDE DEF n, later, first
  <2>2. LoopOver(later, first, CHOOSE f : LoopOver(later, first, f))
    BY <1>1, LoopEnds
  <2> QED BY <1>1, <2>1, <2>2, LoopIsDecided
<1>3. CASE n = 0
  <2>1. Len(chain) = 1 /\ 1..n = {}
    <3>1. Len(chain) \in Nat
      OBVIOUS
    <3>2. Len(chain) = 1
      BY <1>3, <3>1
    <3>3. 1..n = {}
      <4> HIDE DEF n
      <4> QED BY <1>3
    <3> QED BY <3>2, <3>3
  <2>2. FoldQueuedChain(chain) = first
    BY <1>2, <2>1 DEF Decided
  <2> QED BY <1>1, <2>1, <2>2
<1>4. CASE n # 0
  <2>1. 1..n # {} /\ Max(1..n) \in 1..n /\ \A i \in 1..n : i <= Max(1..n)
    <3>1. 1 \in 1..n
      <4>1. n \in Nat /\ n # 0
        BY <1>1, <1>4
      <4> HIDE DEF n
      <4> QED BY <4>1
    <3> HIDE DEF n
    <3> QED BY <1>1, <3>1, GreatestNumber
  <2>2. Max(1..n) = n
    BY <1>1, <1>4, <2>1
  <2>3. later[n] = Last(chain)
    BY <1>1, <1>4
  <2>4. (\E i \in 1..n : later[i] = "delete") <=> \E i \in 2..(n + 1) : chain[i] = "delete"
    <3>1. \A i \in 2..(n + 1) : i - 1 \in 1..n /\ (i - 1) + 1 = i
      BY <1>1
    <3>2. \A i \in 1..n : i + 1 \in 2..(n + 1)
      BY <1>1
    <3> QED BY <1>1, <3>1, <3>2
  <2>5. Len(chain) # 1 /\ Len(chain) = n + 1
    BY <1>1, <1>4
  <2>6. FoldQueuedChain(chain)
          = FoldedChainOp(first, later[n], \E i \in 1..n : later[i] = "delete")
    BY <1>2, <2>1, <2>2 DEF Decided
  <2> HIDE DEF n, later
  <2> QED BY <2>3, <2>4, <2>5, <2>6 DEF FoldedChainOp
<1> QED BY <1>3, <1>4

\* Whether a chain of edits is folded one by one, as it is made, or in one loop
\* over its rows, the outcome is the closed form the drains rely on, at any
\* length: an unsynced capture followed by a delete anywhere is never sent,
\* whatever is queued behind it (queue-fold.ts foldQueuedChain).
THEOREM ChainsAreDecidedByTheirEnds == Spec => []ClosedForm
<1>1. FoldInv /\ ChainDecided => ClosedForm
  <2> SUFFICES ASSUME FoldInv, ChainDecided, ops # <<>>
               PROVE  /\ row.op = FoldQueuedChain(ops)
                      /\ Len(ops) > 1 =>
                            row.op = FoldedChainOp(Head(ops), Last(ops),
                                       \E i \in 2..Len(ops) : ops[i] = "delete")
    BY DEF ClosedForm
  <2>1. ops \in Seq(QueueOp)
    BY DEF FoldInv, TypeOK
  <2>4. Len(ops) = 1 \/ Len(ops) > 1
    <3>1. Len(ops) = 0 => ops = <<>>
      BY <2>1
    <3> DEFINE n == Len(ops)
    <3>2. n \in Nat
      BY <2>1
    <3>3. n # 0
      BY <3>1
    <3> HIDE DEF n
    <3>4. n = 1 \/ n > 1
      BY <3>2, <3>3
    <3> QED BY <3>4 DEF n
  <2>2. CASE Len(ops) = 1
    BY <2>1, <2>2, ChainLoop DEF ChainDecided
  <2>3. CASE Len(ops) > 1
    <3>1. FoldQueuedChain(ops)
            = FoldedChainOp(Head(ops), Last(ops), \E i \in 2..Len(ops) : ops[i] = "delete")
      BY <2>1, <2>3, ChainLoop, Zenon
    <3> QED BY <2>3, <3>1 DEF ChainDecided
  <2> QED BY <2>2, <2>3, <2>4
<1> QED BY <1>1, FoldInit, FoldNext, ChainDecidedHolds, PTL DEF Spec
=============================================================================
