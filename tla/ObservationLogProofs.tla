------------------------- MODULE ObservationLogProofs -------------------------
(***************************************************************************)
(* Theorems about ObservationLog and LayerDelta, for any features,         *)
(* requests and bounds.                                                    *)
(***************************************************************************)
EXTENDS LayerDelta, FiniteSetTheorems, TLAPS

-----------------------------------------------------------------------------
(* The head of a feature                                                   *)

LEMMA Times ==
    /\ Time \subseteq Nat /\ 0 \in Time /\ 1 \in Time
    /\ Version \subseteq Nat /\ 0 \in Version
    /\ NoDraft \in Nat
BY LogAssumption DEF Time, Version, NoDraft

\* A non-empty set of numbers up to a bound has a greatest one.
LEMMA GreatestOf ==
    ASSUME NEW N \in Nat, NEW S \in SUBSET (0..N), S # {}
    PROVE  \E n \in S : \A m \in S : m <= n
<1> DEFINE U == 0..N
           R == StrictSubsetOrdering(U)
           From(n) == n..N
           T == {From(n) : n \in S}
<1>1. /\ S \subseteq Nat /\ U \subseteq Nat
      /\ \A n \in S : n <= N /\ From(n) \subseteq U
  OBVIOUS
<1>2. IsFiniteSet(U)
  BY FS_Interval
<1>3. IsWellFoundedOn(R, SUBSET U)
  BY <1>2, FS_StrictSubsetOrderingWellFounded, FS_FiniteSubsetsOfFinite, Zenon
<1>4. T \subseteq SUBSET U /\ T # {}
  BY <1>1
<1>5. \E x \in T : \A y \in T : ~ (<<y, x>> \in R)
  <2> HIDE DEF R, T, U
  <2> QED BY <1>3, <1>4, WFMin
<1>6. PICK n \in S : \A m \in S : ~ (<<From(m), From(n)>> \in R)
  BY <1>5
<1>7. ASSUME NEW m \in S, ~(m <= n) PROVE FALSE
  <2>1. From(m) \subseteq From(n) /\ n \in From(n) /\ n \notin From(m)
    BY <1>1, <1>7
  <2>2. From(m) \in SUBSET U /\ From(n) \in SUBSET U /\ From(m) # From(n)
    BY <1>1, <2>1
  <2> QED BY <1>6, <2>1, <2>2 DEF StrictSubsetOrdering
<1> QED BY <1>7

LEMMA LatestTime ==
    ASSUME NEW S \in SUBSET Time, S # {}
    PROVE  \E n \in S : \A m \in S : m <= n
<1>1. MaxWrites + 1 \in Nat /\ S \in SUBSET (0..(MaxWrites + 1))
  BY LogAssumption DEF Time
<1> QED BY <1>1, GreatestOf

LEMMA GreatestEntity ==
    ASSUME NEW S \in SUBSET Entity, S # {}
    PROVE  \E n \in S : \A m \in S : m <= n
<1>1. S \in SUBSET (0..MaxEntity)
  BY LogAssumption DEF Entity
<1> QED BY <1>1, GreatestOf, LogAssumption

LEMMA LeastEntity ==
    ASSUME NEW S \in SUBSET Entity, S # {}
    PROVE  \E n \in S : \A m \in S : n <= m
<1> DEFINE T == {MaxEntity - n : n \in S}
<1>1. T \in SUBSET (0..MaxEntity) /\ T # {} /\ S \subseteq Nat
  <2>1. S \subseteq Nat /\ \A n \in S : n <= MaxEntity
    BY LogAssumption DEF Entity
  <2>2. \A n \in S : MaxEntity - n \in 0..MaxEntity
    BY <2>1, LogAssumption
  <2> QED BY <2>1, <2>2
<1>2. PICK t \in T : \A m \in T : m <= t
  <2> HIDE DEF T
  <2> QED BY <1>1, GreatestOf, LogAssumption
<1>3. PICK n \in S : t = MaxEntity - n
  OBVIOUS
<1>4. \A m \in S : MaxEntity - m <= MaxEntity - n
  BY <1>2, <1>3
<1> QED BY <1>1, <1>4, LogAssumption

\* The head is a time, no row of the feature is later, and it is one of its
\* rows' unless there are none.
LEMMA HeadIsLatest ==
    ASSUME log \subseteq Observation, NEW e \in Entity
    PROVE  /\ Head(e) \in Time
           /\ \A o \in Of(e) : o.at <= Head(e)
           /\ Of(e) # {} => \E o \in Of(e) : o.at = Head(e)
<1> DEFINE S == Of(e)
<1>1. S \subseteq Observation
  BY DEF Of
<1>2. CASE S = {}
  BY <1>2, Times DEF Head
<1>3. CASE S # {}
  <2> DEFINE A == {o.at : o \in S}
  <2>1. A \in SUBSET Time /\ A # {}
    BY <1>1, <1>3 DEF Observation
  <2>2. PICK n \in A : \A m \in A : m <= n
    BY <2>1, LatestTime
  <2>3. \E o \in S : \A x \in S : x.at <= o.at
    BY <2>2
  <2> DEFINE top == CHOOSE o \in S : \A x \in S : x.at <= o.at
  <2>4. top \in S /\ \A x \in S : x.at <= top.at
    BY <2>3
  <2>5. Head(e) = top.at
    BY <1>3 DEF Head
  <2> QED BY <1>1, <2>4, <2>5 DEF Observation
<1> QED BY <1>2, <1>3

\* The head depends on the feature's own rows only, and so does being live.
LEMMA HeadIsLocal ==
    ASSUME NEW e, Of(e)' = Of(e)
    PROVE  Head(e)' = Head(e) /\ Live(e)' = Live(e)
BY DEF Head, Live

-----------------------------------------------------------------------------
(* The inductive invariant                                                 *)

\* A request sees the past, and is stamped after what it has seen.
SeesThePast ==
    /\ \A o \in log : o.at <= clock
    /\ \A w \in Writers, e \in Entity : writer[w].seen[e] <= clock
    /\ \A w \in Writers : writer[w].pc \in {"stamped", "checked"} =>
          writer[w].at <= clock /\ \A e \in Entity : writer[w].seen[e] < writer[w].at

\* A lock has one holder, and a request that passed its check holds the locks
\* of all it writes.
LockDiscipline ==
    /\ \A v, w \in Writers : v # w => writer[v].held \cap writer[w].held = {}
    /\ \A w \in Writers : writer[w].pc = "checked" => writer[w].on \subseteq writer[w].held
    /\ \A w \in Writers : writer[w].guarded => writer[w].kind # "create"

\* A guarded row is later than its base.
GuardedForward == \A o \in log : o.guarded => o.base < o.at

\* Nobody has yet won the head a guarded request has passed its check with.
HeadUnclaimed ==
    \A w \in Writers : writer[w].pc = "checked" /\ writer[w].guarded =>
        \A e \in writer[w].on : \A o \in log :
            o.guarded /\ o.entity = e => o.base # writer[w].seen[e]

WinInv == /\ TypeOK
          /\ SeesThePast
          /\ LockDiscipline
          /\ GuardedForward
          /\ HeadUnclaimed
          /\ OneWinnerPerHead

LEMMA IdleIsWriter == Idle \in WriterState
BY Times DEF Idle, WriterState, Kind

LEMMA WinInit == Init => WinInv
<1> SUFFICES ASSUME Init PROVE WinInv
  OBVIOUS
<1> USE Times, LogAssumption DEF Init
<1>1. \A o \in log : /\ o \in Observation
                     /\ o.guarded = FALSE /\ o.at = 1
  <2> TAKE o \in log
  <2>1. PICK e \in Existing :
           o = [entity |-> e, kind |-> "create", at |-> 1, version |-> 0,
                base |-> 0, guarded |-> FALSE]
    OBVIOUS
  <2>2. e \in Entity /\ "create" \in Kind
    BY DEF Entity, Kind
  <2> QED BY <2>1, <2>2 DEF Observation
<1>2. \A w \in Writers : writer[w] = Idle
  OBVIOUS
<1>3. TypeOK
  BY <1>1, IdleIsWriter DEF TypeOK, NoDraft
<1>4. SeesThePast
  BY <1>1, <1>2 DEF SeesThePast, Idle
<1>5. LockDiscipline
  BY <1>2 DEF LockDiscipline, Idle
<1>6. GuardedForward /\ OneWinnerPerHead
  BY <1>1 DEF GuardedForward, OneWinnerPerHead
<1>7. HeadUnclaimed
  BY <1>2 DEF HeadUnclaimed, Idle
<1> QED BY <1>3, <1>4, <1>5, <1>6, <1>7 DEF WinInv

\* One request moves, the others do not.
LEMMA OneMoves ==
    ASSUME TypeOK, NEW w \in Writers, NEW next \in WriterState,
           writer' = [writer EXCEPT ![w] = next]
    PROVE  /\ writer' \in [Writers -> WriterState]
           /\ writer'[w] = next
           /\ \A v \in Writers \ {w} : writer'[v] = writer[v]
BY DEF TypeOK

\* A request that only changes its own variables, and neither lays hold of
\* locks nor passes a check by it, keeps the invariant.
LEMMA QuietMove ==
    ASSUME WinInv, NEW w \in Writers, NEW next \in WriterState,
           writer' = [writer EXCEPT ![w] = next],
           log' = log, clock' = clock, counter' \in Version, UNCHANGED <<draft, snaps>>,
           next.pc # "checked", next.held \subseteq writer[w].held,
           next.guarded => next.kind # "create",
           \A e \in Entity : next.seen[e] <= clock,
           next.pc = "stamped" =>
              next.at <= clock /\ \A e \in Entity : next.seen[e] < next.at
    PROVE  WinInv'
<1>1. /\ writer' \in [Writers -> WriterState]
      /\ writer'[w] = next
      /\ \A v \in Writers \ {w} : writer'[v] = writer[v]
  BY OneMoves DEF WinInv
<1>2. TypeOK'
  BY <1>1 DEF WinInv, TypeOK
<1>3. SeesThePast'
  BY <1>1 DEF WinInv, SeesThePast
<1>4. LockDiscipline'
  <2>1. \A v \in Writers : writer'[v].held \subseteq writer[v].held
    BY <1>1
  <2> QED BY <1>1, <2>1 DEF WinInv, LockDiscipline
<1>5. GuardedForward' /\ OneWinnerPerHead'
  BY DEF WinInv, GuardedForward, OneWinnerPerHead
<1>6. HeadUnclaimed'
  BY <1>1 DEF WinInv, HeadUnclaimed
<1> QED BY <1>2, <1>3, <1>4, <1>5, <1>6 DEF WinInv

LEMMA StartKeeps ==
    ASSUME WinInv, NEW w \in Writers, NEW kind \in Kind, NEW on \in SUBSET Entity,
           NEW guarded \in BOOLEAN, guarded => kind # "create",
           Start(w, kind, on, guarded)
    PROVE  WinInv'
<1> DEFINE seen == [e \in Entity |-> IF e \in on THEN Head(e) ELSE 0]
           next == [Idle EXCEPT !.pc = "read", !.kind = kind, !.on = on,
                                !.guarded = guarded, !.seen = seen]
<1>1. \A e \in Entity : Head(e) \in Time /\ Head(e) <= clock
  <2> TAKE e \in Entity
  <2>1. log \subseteq Observation /\ clock \in Nat /\ \A o \in log : o.at <= clock
    BY Times DEF WinInv, TypeOK, SeesThePast
  <2>2. CASE Of(e) = {}
    BY <2>1, <2>2, Times DEF Head
  <2>3. CASE Of(e) # {}
    BY <2>1, <2>3, HeadIsLatest DEF Of
  <2> QED BY <2>2, <2>3
<1>2. seen \in [Entity -> Time] /\ \A e \in Entity : seen[e] <= clock
  BY <1>1, Times DEF WinInv, TypeOK
<1> HIDE DEF seen
<1>3. next \in WriterState /\ next.pc = "read" /\ next.held = {} /\ next.seen = seen
      /\ next.guarded = guarded /\ next.kind = kind
  BY <1>2, IdleIsWriter DEF Idle, WriterState
<1>4. writer' = [writer EXCEPT ![w] = next]
  BY DEF Start, seen
<1> HIDE DEF next
<1>5. log' = log /\ clock' = clock /\ counter' \in Version /\ UNCHANGED <<draft, snaps>>
  BY DEF Start, WinInv, TypeOK
<1> QED BY <1>2, <1>3, <1>4, <1>5, QuietMove

LEMMA BumpKeeps ==
    ASSUME WinInv, NEW w \in Writers, Bump(w)
    PROVE  WinInv'
<1> DEFINE next == [writer[w] EXCEPT !.pc = "bumped", !.version = counter + 1]
<1>1. writer[w] \in WriterState /\ counter + 1 \in Version
  BY LogAssumption DEF Bump, WinInv, TypeOK, Version
<1>2. /\ next \in WriterState /\ next.pc = "bumped"
      /\ next.held = writer[w].held /\ next.seen = writer[w].seen
      /\ next.guarded = writer[w].guarded /\ next.kind = writer[w].kind
  BY <1>1 DEF WriterState
<1>3. /\ writer' = [writer EXCEPT ![w] = next]
      /\ log' = log /\ clock' = clock /\ counter' = counter + 1
      /\ UNCHANGED <<draft, snaps>>
  BY <1>1 DEF Bump, WriterState
<1> HIDE DEF next
<1>4. /\ next.guarded => next.kind # "create"
      /\ \A e \in Entity : next.seen[e] <= clock
  BY <1>2 DEF WinInv, LockDiscipline, SeesThePast
<1> QED BY <1>1, <1>2, <1>3, <1>4, QuietMove

LEMMA StampKeeps ==
    ASSUME WinInv, NEW w \in Writers, Stamp(w)
    PROVE  WinInv'
<1> DEFINE next == [writer[w] EXCEPT !.pc = "stamped", !.at = clock + 1]
<1>1. writer[w] \in WriterState /\ clock \in Nat /\ clock + 1 \in Time
  BY LogAssumption DEF Stamp, WinInv, TypeOK, Time
<1>2. /\ next \in WriterState /\ next.pc = "stamped" /\ next.at = clock + 1
      /\ next.held = writer[w].held /\ next.seen = writer[w].seen
      /\ next.guarded = writer[w].guarded /\ next.kind = writer[w].kind
  BY <1>1 DEF WriterState
<1>3. /\ writer' = [writer EXCEPT ![w] = next]
      /\ log' = log /\ clock' = clock + 1 /\ UNCHANGED <<counter, draft, snaps>>
  BY <1>1 DEF Stamp, WriterState
<1> HIDE DEF next
<1>4. /\ writer' \in [Writers -> WriterState]
      /\ writer'[w] = next
      /\ \A v \in Writers \ {w} : writer'[v] = writer[v]
  BY <1>2, <1>3, OneMoves DEF WinInv
<1>5. TypeOK'
  BY <1>1, <1>3, <1>4 DEF WinInv, TypeOK
<1>6. SeesThePast'
  <2>1. \A o \in log : o.at \in Nat
    BY Times DEF WinInv, TypeOK, Observation
  <2>2. \A v \in Writers : writer[v].at \in Nat /\ \A e \in Entity : writer[v].seen[e] \in Nat
    BY Times DEF WinInv, TypeOK, WriterState
  <2> QED BY <1>1, <1>2, <1>3, <1>4, <2>1, <2>2 DEF WinInv, SeesThePast
<1>7. LockDiscipline'
  BY <1>2, <1>4 DEF WinInv, LockDiscipline
<1>8. GuardedForward' /\ OneWinnerPerHead'
  BY <1>3 DEF WinInv, GuardedForward, OneWinnerPerHead
<1>9. HeadUnclaimed'
  BY <1>2, <1>3, <1>4 DEF WinInv, HeadUnclaimed
<1> QED BY <1>5, <1>6, <1>7, <1>8, <1>9 DEF WinInv

LEMMA LockKeeps ==
    ASSUME WinInv, NEW w \in Writers, NEW e \in Entity, Lock(w, e)
    PROVE  WinInv'
<1> DEFINE next == [writer[w] EXCEPT !.held = writer[w].held \cup {e}]
<1>1. writer[w] \in WriterState /\ writer[w].pc = "stamped"
  BY DEF Lock, WinInv, TypeOK
<1>2. /\ next \in WriterState /\ next.held = writer[w].held \cup {e}
      /\ next.pc = "stamped" /\ next.at = writer[w].at
      /\ next.seen = writer[w].seen
      /\ next.guarded = writer[w].guarded /\ next.kind = writer[w].kind
  BY <1>1 DEF WriterState
<1>3. /\ writer' = [writer EXCEPT ![w] = next]
      /\ UNCHANGED <<log, clock, counter, draft, snaps>>
      /\ \A v \in Writers \ {w} : e \notin writer[v].held
  BY <1>1 DEF Lock, Takes, WriterState
<1> HIDE DEF next
<1>4. /\ writer' \in [Writers -> WriterState]
      /\ writer'[w] = next
      /\ \A v \in Writers \ {w} : writer'[v] = writer[v]
  BY <1>2, <1>3, OneMoves DEF WinInv
<1>5. TypeOK'
  BY <1>3, <1>4 DEF WinInv, TypeOK
<1>6. SeesThePast'
  BY <1>1, <1>2, <1>3, <1>4 DEF WinInv, SeesThePast
<1>7. LockDiscipline'
  BY <1>2, <1>3, <1>4 DEF WinInv, LockDiscipline
<1>8. GuardedForward' /\ OneWinnerPerHead'
  BY <1>3 DEF WinInv, GuardedForward, OneWinnerPerHead
<1>9. HeadUnclaimed'
  BY <1>2, <1>3, <1>4 DEF WinInv, HeadUnclaimed
<1> QED BY <1>5, <1>6, <1>7, <1>8, <1>9 DEF WinInv

LEMMA IdleKeeps ==
    ASSUME WinInv, NEW w \in Writers, writer' = [writer EXCEPT ![w] = Idle],
           UNCHANGED <<log, counter, clock, draft, snaps>>
    PROVE  WinInv'
<1>1. /\ Idle.pc = "idle" /\ Idle.held = {} /\ Idle.guarded = FALSE
      /\ \A e \in Entity : Idle.seen[e] = 0
  BY DEF Idle
<1>2. clock \in Nat /\ counter' \in Version /\ log' = log /\ clock' = clock
  BY Times DEF WinInv, TypeOK
<1>3. \A e \in Entity : Idle.seen[e] <= clock
  BY <1>1, <1>2
<1>4. /\ Idle.pc # "checked" /\ Idle.pc # "stamped"
      /\ Idle.held \subseteq writer[w].held /\ ~Idle.guarded
  BY <1>1
<1> HIDE DEF Idle
<1> QED BY <1>2, <1>3, <1>4, IdleIsWriter, QuietMove

\* The rows a head was won against are older than it, so that a head that is
\* still the one read has been won by nobody.
LEMMA CheckKeeps ==
    ASSUME WinInv, NEW w \in Writers, Check(w)
    PROVE  WinInv'
<1> DEFINE on == Passes(w)
           next == [writer[w] EXCEPT !.pc = "checked", !.on = on]
<1>1. writer[w] \in WriterState /\ writer[w].pc = "stamped"
  BY DEF Check, WinInv, TypeOK
<1>2. on \subseteq writer[w].on /\ writer[w].on \subseteq Entity
  BY <1>1 DEF Passes, WriterState
<1>3. writer[w].on \subseteq writer[w].held
  BY DEF Check, Wanted
<1>4. ASSUME writer[w].guarded, NEW e \in on, NEW o \in log, o.guarded, o.entity = e
      PROVE  o.base # writer[w].seen[e]
  <2>1. Head(e) = writer[w].seen[e] /\ e \in Entity
    BY <1>2, <1>4 DEF Passes, WinInv, LockDiscipline
  <2>2. o.base < o.at /\ o \in Of(e)
    BY <1>4 DEF WinInv, GuardedForward, Of
  <2>3. log \subseteq Observation /\ o.base \in Nat /\ o.at \in Nat
    BY Times DEF WinInv, TypeOK, Observation
  <2>4. o.at <= Head(e) /\ Head(e) \in Nat
    BY <2>1, <2>2, <2>3, HeadIsLatest, Times
  <2> QED BY <2>1, <2>2, <2>3, <2>4
<1> HIDE DEF on
<1>5. /\ next \in WriterState /\ next.pc = "checked" /\ next.on = on
      /\ next.held = writer[w].held /\ next.at = writer[w].at
      /\ next.seen = writer[w].seen
      /\ next.guarded = writer[w].guarded /\ next.kind = writer[w].kind
  BY <1>1, <1>2 DEF WriterState
<1>6. /\ writer' = [writer EXCEPT ![w] = IF on = {} THEN Idle ELSE next]
      /\ UNCHANGED <<log, counter, clock, draft, snaps>>
  BY DEF Check, on
<1> HIDE DEF next
<1>7. CASE on = {}
  BY <1>6, <1>7, IdleKeeps
<1>8. CASE on # {}
  <2>1. /\ writer' \in [Writers -> WriterState]
        /\ writer'[w] = next
        /\ \A v \in Writers \ {w} : writer'[v] = writer[v]
    BY <1>5, <1>6, <1>8, OneMoves DEF WinInv
  <2>2. TypeOK'
    BY <1>6, <2>1 DEF WinInv, TypeOK
  <2>3. SeesThePast'
    BY <1>1, <1>5, <1>6, <2>1 DEF WinInv, SeesThePast
  <2>4. LockDiscipline'
    BY <1>2, <1>3, <1>5, <2>1 DEF WinInv, LockDiscipline
  <2>5. GuardedForward' /\ OneWinnerPerHead'
    BY <1>6 DEF WinInv, GuardedForward, OneWinnerPerHead
  <2>6. HeadUnclaimed'
    BY <1>4, <1>5, <1>6, <2>1 DEF WinInv, HeadUnclaimed
  <2> QED BY <2>2, <2>3, <2>4, <2>5, <2>6 DEF WinInv
<1> QED BY <1>7, <1>8

\* What a request writes.
LEMMA WrittenRows ==
    ASSUME WinInv, NEW w \in Writers, NEW o \in Written(w)
    PROVE  /\ o.entity \in writer[w].on /\ o.kind = writer[w].kind
           /\ o.guarded = writer[w].guarded
           /\ o.at = writer[w].at /\ o.version = writer[w].version
           /\ writer[w].kind # "create" => o.base = writer[w].seen[o.entity]
           /\ o \in Observation
           /\ \A x \in Written(w) : x.entity = o.entity => x = o
<1>1. writer[w] \in WriterState
  BY DEF WinInv, TypeOK
<1>2. \A x \in Written(w) : \E e \in writer[w].on :
         x = [entity |-> e, kind |-> writer[w].kind, at |-> writer[w].at,
              version |-> writer[w].version,
              base |-> IF writer[w].kind = "create" THEN 0 ELSE writer[w].seen[e],
              guarded |-> writer[w].guarded]
  BY DEF Written
<1>3. PICK e \in writer[w].on :
         o = [entity |-> e, kind |-> writer[w].kind, at |-> writer[w].at,
              version |-> writer[w].version,
              base |-> IF writer[w].kind = "create" THEN 0 ELSE writer[w].seen[e],
              guarded |-> writer[w].guarded]
  BY <1>2
<1>4. o \in Observation
  BY <1>1, <1>3, Times DEF Observation, WriterState
<1>5. \A x \in Written(w) : x.entity = o.entity => x = o
  BY <1>2, <1>3
<1> QED BY <1>3, <1>4, <1>5

\* A guarded request stores its rows under the locks of their features: the
\* head was not won before, and no other request that passed is on it.
LEMMA StoreKeeps ==
    ASSUME WinInv, NEW w \in Writers, Store(w)
    PROVE  WinInv'
<1> DEFINE new == Written(w)
<1>1. /\ writer[w] \in WriterState /\ writer[w].pc \in {"stamped", "checked"}
      /\ writer[w].guarded => writer[w].pc = "checked" /\ writer[w].kind # "create"
  BY DEF Store, Locking, WinInv, TypeOK, LockDiscipline
<1>2. /\ log' = log \cup new
      /\ writer' = [writer EXCEPT ![w] = Idle]
      /\ UNCHANGED <<counter, clock, draft, snaps>>
  BY DEF Store
<1>3. \A o \in new : /\ o \in Observation /\ o.entity \in writer[w].on
                     /\ o.at = writer[w].at /\ o.guarded = writer[w].guarded
                     /\ o.guarded => o.base = writer[w].seen[o.entity]
                     /\ \A x \in new : x.entity = o.entity => x = o
  BY <1>1, WrittenRows
<1> HIDE DEF new
<1>4. /\ Idle.pc = "idle" /\ Idle.held = {} /\ Idle.guarded = FALSE
      /\ \A e \in Entity : Idle.seen[e] = 0
  BY DEF Idle
<1>5. /\ writer' \in [Writers -> WriterState]
      /\ writer'[w] = Idle
      /\ \A v \in Writers \ {w} : writer'[v] = writer[v]
  BY <1>2, IdleIsWriter, OneMoves DEF WinInv
<1>6. TypeOK'
  BY <1>2, <1>3, <1>5 DEF WinInv, TypeOK
<1>7. SeesThePast'
  <2>1. clock \in Nat
    BY Times DEF WinInv, TypeOK
  <2>2. \A o \in new : o.at <= clock
    BY <1>1, <1>3 DEF WinInv, SeesThePast
  <2> QED BY <1>2, <1>4, <1>5, <2>1, <2>2 DEF WinInv, SeesThePast
<1>8. LockDiscipline'
  BY <1>4, <1>5 DEF WinInv, LockDiscipline
<1>9. GuardedForward'
  <2>1. \A o \in new : o.entity \in Entity
    BY <1>3 DEF Observation
  <2> QED BY <1>1, <1>2, <1>3, <2>1 DEF WinInv, GuardedForward, SeesThePast
<1>10. HeadUnclaimed'
  <2> SUFFICES ASSUME NEW v \in Writers, writer'[v].pc = "checked", writer'[v].guarded,
                      NEW e \in writer'[v].on, NEW o \in log', o.guarded, o.entity = e
               PROVE  o.base # writer'[v].seen[e]
    BY DEF HeadUnclaimed
  <2>1. v # w /\ writer'[v] = writer[v]
    BY <1>4, <1>5
  <2>2. ASSUME o \in new PROVE FALSE
    <3>1. e \in writer[w].held
      BY <1>1, <1>3, <2>2 DEF WinInv, LockDiscipline
    <3>2. e \in writer[v].held
      BY <2>1 DEF WinInv, LockDiscipline
    <3> QED BY <2>1, <3>1, <3>2 DEF WinInv, LockDiscipline
  <2> QED BY <1>2, <2>1, <2>2 DEF WinInv, HeadUnclaimed
<1>11. OneWinnerPerHead'
  <2> SUFFICES ASSUME NEW o \in log', NEW x \in log', o.guarded, x.guarded,
                      o.entity = x.entity, o.base = x.base
               PROVE  o = x
    BY DEF OneWinnerPerHead
  <2>1. ASSUME NEW a \in new, NEW b \in log, a.guarded, b.guarded, a.entity = b.entity
        PROVE  a.base # b.base
    BY <1>1, <1>3, <2>1 DEF WinInv, HeadUnclaimed
  <2>2. CASE o \in log /\ x \in log
    BY <2>2 DEF WinInv, OneWinnerPerHead
  <2>3. CASE o \in new /\ x \in new
    BY <1>3, <2>3
  <2>4. CASE (o \in new /\ x \in log) \/ (o \in log /\ x \in new)
    BY <2>1, <2>4
  <2> QED BY <1>2, <2>2, <2>3, <2>4
<1> QED BY <1>6, <1>7, <1>8, <1>9, <1>10, <1>11 DEF WinInv

LEMMA ImportKeeps ==
    ASSUME WinInv, NEW on \in SUBSET Entity, Import(on)
    PROVE  WinInv'
<1> DEFINE new == {[entity |-> e, kind |-> "create", at |-> clock + 1, version |-> 0,
                    base |-> 0, guarded |-> FALSE] : e \in on}
<1>1. clock \in Nat /\ clock + 1 \in Time
  BY LogAssumption DEF Import, WinInv, TypeOK, Time
<1>2. \A o \in new : o \in Observation /\ o.at = clock + 1 /\ ~o.guarded
  <2> TAKE o \in new
  <2>1. PICK e \in on :
           o = [entity |-> e, kind |-> "create", at |-> clock + 1, version |-> 0,
                base |-> 0, guarded |-> FALSE]
    OBVIOUS
  <2> QED BY <1>1, <2>1, Times DEF Observation, Kind
<1>3. /\ log' = log \cup new /\ clock' = clock + 1
      /\ UNCHANGED <<counter, writer, draft, snaps>>
  BY DEF Import
<1> HIDE DEF new
<1>4. TypeOK'
  BY <1>1, <1>2, <1>3 DEF WinInv, TypeOK
<1>5. SeesThePast'
  <2>1. \A o \in log : o.at \in Nat
    BY Times DEF WinInv, TypeOK, Observation
  <2>2. \A v \in Writers : writer[v].at \in Nat /\ \A e \in Entity : writer[v].seen[e] \in Nat
    BY Times DEF WinInv, TypeOK, WriterState
  <2> QED BY <1>1, <1>2, <1>3, <2>1, <2>2 DEF WinInv, SeesThePast
<1>6. LockDiscipline'
  BY <1>3 DEF WinInv, LockDiscipline
<1>7. GuardedForward' /\ OneWinnerPerHead' /\ HeadUnclaimed'
  BY <1>2, <1>3 DEF WinInv, GuardedForward, OneWinnerPerHead, HeadUnclaimed
<1> QED BY <1>4, <1>5, <1>6, <1>7 DEF WinInv

LEMMA StructureKeeps ==
    ASSUME WinInv, Structure
    PROVE  WinInv'
<1>1. UNCHANGED <<log, clock, writer>>
  BY DEF Structure, OpenStructure, SaveStructure, Revert, ReplaceData
<1>2. counter' \in Version /\ draft' \in Version \cup {NoDraft} /\ snaps' \in SUBSET Version
  BY DEF Structure, OpenStructure, SaveStructure, Revert, ReplaceData, WinInv, TypeOK
<1> QED BY <1>1, <1>2 DEF WinInv, TypeOK, SeesThePast, LockDiscipline, GuardedForward,
                          HeadUnclaimed, OneWinnerPerHead

LEMMA WritingKeeps ==
    ASSUME WinInv, NEW w \in Writers, Writing(w)
    PROVE  WinInv'
<1>1. ASSUME NEW on \in SUBSET Entity, InsertFeatures(w, on) \/ CalculateField(w, on)
      PROVE  WinInv'
  <2>1. "create" \in Kind /\ "update" \in Kind
    BY DEF Kind
  <2> QED BY <1>1, <2>1, StartKeeps DEF InsertFeatures, CalculateField
<1>2. ASSUME NEW e \in Entity, NEW guarded \in Guarding,
             UpdateFeature(w, e, guarded) \/ DeleteFeature(w, e, guarded)
      PROVE  WinInv'
  <2>1. /\ "update" \in Kind /\ "delete" \in Kind
        /\ {e} \in SUBSET Entity /\ guarded \in BOOLEAN
    BY LogAssumption DEF Kind
  <2> QED BY <1>2, <2>1, StartKeeps DEF UpdateFeature, DeleteFeature
<1>3. ASSUME GiveUp(w) PROVE WinInv'
  BY <1>3, IdleKeeps DEF GiveUp
<1> QED BY <1>1, <1>2, <1>3, BumpKeeps, StampKeeps, LockKeeps, CheckKeeps, StoreKeeps
        DEF Writing

LEMMA WinNext == WinInv /\ [LogNext]_logVars => WinInv'
<1> SUFFICES ASSUME WinInv, [LogNext]_logVars PROVE WinInv'
  OBVIOUS
<1>1. CASE UNCHANGED logVars
  BY <1>1 DEF logVars, WinInv, TypeOK, SeesThePast, LockDiscipline, GuardedForward,
              HeadUnclaimed, OneWinnerPerHead
<1>2. CASE LogNext
  BY <1>2, WritingKeeps, ImportKeeps, StructureKeeps DEF LogNext
<1> QED BY <1>1, <1>2

\* The log, its counter and every request are well typed: a row always carries
\* a version and a base (the shape engine.service.ts insertOne persists).
THEOREM LogTypeCorrect == Spec => []TypeOK
<1>1. WinInv => TypeOK
  BY DEF WinInv
<1> QED BY <1>1, WinInit, WinNext, PTL DEF Spec

\* Of the guarded writes made against one observation one lands, whatever
\* unguarded writes, imports and structure edits do meanwhile
\* (engine.service.ts writeIfHead).
THEOREM OneWinner == Spec => []OneWinnerPerHead
<1>1. WinInv => OneWinnerPerHead
  BY DEF WinInv
<1> QED BY <1>1, WinInit, WinNext, PTL DEF Spec

-----------------------------------------------------------------------------
(* When every client is guarded                                            *)

\* Every request takes locks.
Serialised == \A w \in Writers : writer[w].pc # "idle" => Locking(w)

\* What a check found still holds when its rows are stored.
CheckStands ==
    \A w \in Writers : writer[w].pc = "checked" => \A e \in writer[w].on :
        IF writer[w].kind = "create" THEN ~Live(e) ELSE Head(e) = writer[w].seen[e]

GuardInv == WinInv /\ Serialised /\ CheckStands

LEMMA GuardInit == Init => GuardInv
<1> SUFFICES ASSUME Init PROVE GuardInv
  OBVIOUS
<1>1. \A w \in Writers : writer[w].pc = "idle"
  BY DEF Init, Idle
<1> QED BY <1>1, WinInit DEF GuardInv, Serialised, CheckStands

\* A step of one request that leaves the log alone.
LEMMA GuardedMove ==
    ASSUME GuardInv, NEW w \in Writers, NEW next \in WriterState,
           writer' = [writer EXCEPT ![w] = next], log' = log,
           next.pc # "idle" => next.kind = "create" \/ next.guarded,
           next.pc = "checked" => \A e \in next.on :
              IF next.kind = "create" THEN ~Live(e) ELSE Head(e) = next.seen[e]
    PROVE  Serialised' /\ CheckStands'
<1>1. /\ writer'[w] = next
      /\ \A v \in Writers \ {w} : writer'[v] = writer[v]
  BY OneMoves DEF GuardInv, WinInv
<1>2. Serialised'
  BY <1>1 DEF GuardInv, Serialised, Locking
<1>3. \A e : Head(e)' = Head(e) /\ Live(e)' = Live(e)
  BY HeadIsLocal DEF Of
<1>4. CheckStands'
  BY <1>1, <1>3 DEF GuardInv, CheckStands
<1> QED BY <1>2, <1>4

LEMMA GuardStart ==
    ASSUME GuardInv, NEW w \in Writers, NEW kind \in Kind, NEW on \in SUBSET Entity,
           NEW guarded \in BOOLEAN, Start(w, kind, on, guarded),
           kind = "create" \/ guarded
    PROVE  Serialised' /\ CheckStands'
<1> DEFINE seen == [e \in Entity |-> IF e \in on THEN Head(e) ELSE 0]
           next == [Idle EXCEPT !.pc = "read", !.kind = kind, !.on = on,
                                !.guarded = guarded, !.seen = seen]
<1>1. seen \in [Entity -> Time]
  BY HeadIsLatest, Times DEF GuardInv, WinInv, TypeOK
<1> HIDE DEF seen
<1>2. next \in WriterState /\ next.pc = "read" /\ next.guarded = guarded /\ next.kind = kind
  BY <1>1, IdleIsWriter DEF Idle, WriterState
<1>3. writer' = [writer EXCEPT ![w] = next] /\ log' = log
  BY DEF Start, seen
<1> HIDE DEF next
<1> QED BY <1>2, <1>3, GuardedMove

LEMMA GuardQuiet ==
    ASSUME GuardInv, NEW w \in Writers,
           Bump(w) \/ Stamp(w) \/ (\E e \in Entity : Lock(w, e)) \/ GiveUp(w)
    PROVE  Serialised' /\ CheckStands'
<1>1. writer[w] \in WriterState /\ writer[w].pc # "idle"
  BY DEF GuardInv, WinInv, TypeOK, Bump, Stamp, Lock, GiveUp
<1>2. writer[w].kind = "create" \/ writer[w].guarded
  BY <1>1 DEF GuardInv, Serialised, Locking
<1>3. CASE Bump(w)
  <2> DEFINE next == [writer[w] EXCEPT !.pc = "bumped", !.version = counter + 1]
  <2>1. counter + 1 \in Version
    BY <1>3, LogAssumption DEF Bump, GuardInv, WinInv, TypeOK, Version
  <2>2. /\ next \in WriterState /\ next.pc = "bumped"
        /\ next.guarded = writer[w].guarded /\ next.kind = writer[w].kind
    BY <1>1, <2>1 DEF WriterState
  <2>3. writer' = [writer EXCEPT ![w] = next] /\ log' = log
    BY <1>1, <1>3 DEF Bump, WriterState
  <2> HIDE DEF next
  <2> QED BY <1>2, <2>2, <2>3, GuardedMove
<1>4. CASE Stamp(w)
  <2> DEFINE next == [writer[w] EXCEPT !.pc = "stamped", !.at = clock + 1]
  <2>1. clock + 1 \in Time
    BY <1>4, LogAssumption DEF Stamp, GuardInv, WinInv, TypeOK, Time
  <2>2. /\ next \in WriterState /\ next.pc = "stamped"
        /\ next.guarded = writer[w].guarded /\ next.kind = writer[w].kind
    BY <1>1, <2>1 DEF WriterState
  <2>3. writer' = [writer EXCEPT ![w] = next] /\ log' = log
    BY <1>1, <1>4 DEF Stamp, WriterState
  <2> HIDE DEF next
  <2> QED BY <1>2, <2>2, <2>3, GuardedMove
<1>5. ASSUME NEW e \in Entity, Lock(w, e) PROVE Serialised' /\ CheckStands'
  <2> DEFINE next == [writer[w] EXCEPT !.held = writer[w].held \cup {e}]
  <2>1. writer[w].pc = "stamped"
    BY <1>5 DEF Lock
  <2>2. /\ next \in WriterState /\ next.pc = "stamped"
        /\ next.guarded = writer[w].guarded /\ next.kind = writer[w].kind
    BY <1>1, <2>1 DEF WriterState
  <2>3. writer' = [writer EXCEPT ![w] = next] /\ log' = log
    BY <1>1, <1>5 DEF Lock, WriterState
  <2> HIDE DEF next
  <2> QED BY <1>2, <2>2, <2>3, GuardedMove
<1>6. CASE GiveUp(w)
  <2>1. Idle.pc = "idle"
    BY DEF Idle
  <2>2. writer' = [writer EXCEPT ![w] = Idle] /\ log' = log
    BY <1>6 DEF GiveUp
  <2> QED BY <2>1, <2>2, IdleIsWriter, GuardedMove
<1> QED BY <1>3, <1>4, <1>5, <1>6

LEMMA GuardCheck ==
    ASSUME GuardInv, NEW w \in Writers, Check(w)
    PROVE  Serialised' /\ CheckStands'
<1> DEFINE on == Passes(w)
           next == [writer[w] EXCEPT !.pc = "checked", !.on = on]
<1>1. writer[w] \in WriterState /\ writer[w].pc = "stamped"
  BY DEF Check, GuardInv, WinInv, TypeOK
<1>2. writer[w].kind = "create" \/ writer[w].guarded
  BY <1>1 DEF GuardInv, Serialised, Locking
<1>3. /\ on \subseteq Entity
      /\ \A e \in on : IF writer[w].kind = "create" THEN ~Live(e)
                       ELSE Head(e) = writer[w].seen[e]
  BY <1>1 DEF Passes, WriterState
<1> HIDE DEF on
<1>4. /\ next \in WriterState /\ next.pc = "checked" /\ next.on = on
      /\ next.seen = writer[w].seen
      /\ next.guarded = writer[w].guarded /\ next.kind = writer[w].kind
  BY <1>1, <1>3 DEF WriterState
<1>5. writer' = [writer EXCEPT ![w] = IF on = {} THEN Idle ELSE next] /\ log' = log
  BY DEF Check, on
<1> HIDE DEF next
<1>6. CASE on = {}
  <2>1. Idle.pc = "idle" /\ writer' = [writer EXCEPT ![w] = Idle]
    BY <1>5, <1>6 DEF Idle
  <2> QED BY <1>5, <2>1, IdleIsWriter, GuardedMove
<1>7. CASE on # {}
  <2>1. writer' = [writer EXCEPT ![w] = next]
    BY <1>5, <1>7
  <2> QED BY <1>2, <1>3, <1>4, <1>5, <2>1, GuardedMove
<1> QED BY <1>6, <1>7

\* Rows that land are on features no other request has passed its check for.
LEMMA GuardStore ==
    ASSUME GuardInv, NEW w \in Writers, Store(w)
    PROVE  Serialised' /\ CheckStands'
<1>1. writer[w].pc = "checked"
  BY DEF Store, GuardInv, Serialised
<1>2. \A o \in Written(w) : o.entity \in writer[w].held
  BY <1>1, WrittenRows DEF GuardInv, WinInv, LockDiscipline
<1>3. /\ writer'[w] = Idle /\ Idle.pc = "idle"
      /\ \A v \in Writers \ {w} : writer'[v] = writer[v]
  BY IdleIsWriter, OneMoves DEF Store, GuardInv, WinInv, Idle
<1>4. Serialised'
  BY <1>3 DEF GuardInv, Serialised, Locking
<1>5. CheckStands'
  <2> SUFFICES ASSUME NEW v \in Writers, writer'[v].pc = "checked", NEW e \in writer'[v].on
               PROVE  IF writer'[v].kind = "create" THEN ~Live(e)'
                      ELSE Head(e)' = writer'[v].seen[e]
    BY DEF CheckStands
  <2>1. v # w /\ writer'[v] = writer[v]
    BY <1>3
  <2>2. e \in writer[v].held /\ e \notin writer[w].held
    BY <2>1 DEF GuardInv, WinInv, LockDiscipline
  <2>3. Of(e)' = Of(e)
    BY <1>2, <2>2 DEF Store, Of
  <2>4. Head(e)' = Head(e) /\ Live(e)' = Live(e)
    BY <2>3, HeadIsLocal
  <2> QED BY <2>1, <2>4 DEF GuardInv, CheckStands
<1> QED BY <1>4, <1>5

\* An import writes features no request writes.
LEMMA GuardImport ==
    ASSUME GuardInv, NEW on \in SUBSET Entity, Import(on)
    PROVE  Serialised' /\ CheckStands'
<1>1. writer' = writer /\ \A v \in Writers, e \in on : e \notin writer[v].on
  BY DEF Import
<1>2. Serialised'
  BY <1>1 DEF GuardInv, Serialised, Locking
<1>3. ASSUME NEW e, e \notin on PROVE Head(e)' = Head(e) /\ Live(e)' = Live(e)
  <2>1. Of(e)' = Of(e)
    BY <1>3 DEF Import, Of
  <2> QED BY <2>1, HeadIsLocal
<1>4. CheckStands'
  BY <1>1, <1>3 DEF GuardInv, CheckStands
<1> QED BY <1>2, <1>4

LEMMA GuardNext == FALSE \notin Guarding /\ GuardInv /\ [LogNext]_logVars => GuardInv'
<1> SUFFICES ASSUME FALSE \notin Guarding, GuardInv, [LogNext]_logVars
             PROVE  Serialised' /\ CheckStands'
  BY WinNext DEF GuardInv
<1>1. CASE UNCHANGED <<log, writer>>
  <2>1. \A e : Head(e)' = Head(e) /\ Live(e)' = Live(e)
    BY <1>1, HeadIsLocal DEF Of
  <2>2. writer' = writer
    BY <1>1
  <2> QED BY <2>1, <2>2 DEF GuardInv, Serialised, CheckStands, Locking
<1>2. ASSUME NEW w \in Writers, Writing(w) PROVE Serialised' /\ CheckStands'
  <2>1. ASSUME NEW on \in SUBSET Entity, InsertFeatures(w, on) \/ CalculateField(w, on)
        PROVE  Serialised' /\ CheckStands'
    <3>1. "create" \in Kind /\ ~CalculateField(w, on)
      BY DEF Kind, CalculateField
    <3> QED BY <2>1, <3>1, GuardStart DEF InsertFeatures
  <2>2. ASSUME NEW e \in Entity, NEW guarded \in Guarding,
               UpdateFeature(w, e, guarded) \/ DeleteFeature(w, e, guarded)
        PROVE  Serialised' /\ CheckStands'
    <3>1. /\ "update" \in Kind /\ "delete" \in Kind
          /\ {e} \in SUBSET Entity /\ guarded \in BOOLEAN /\ guarded
      BY LogAssumption DEF Kind
    <3> QED BY <2>2, <3>1, GuardStart DEF UpdateFeature, DeleteFeature
  <2> QED BY <1>2, <2>1, <2>2, GuardQuiet, GuardCheck, GuardStore DEF Writing
<1>3. ASSUME Structure PROVE UNCHANGED <<log, writer>>
  BY <1>3 DEF Structure, OpenStructure, SaveStructure, Revert, ReplaceData
<1>4. CASE UNCHANGED logVars
  BY <1>1, <1>4 DEF logVars
<1> QED BY <1>1, <1>2, <1>3, <1>4, GuardImport DEF LogNext

\* A row is new only when a request stores it or an import commits.
LEMMA NewRows ==
    ASSUME GuardInv, [LogNext]_logVars, NEW o \in log' \ log
    PROVE  \/ \E w \in Writers : Store(w) /\ o \in Written(w)
           \/ ~o.guarded /\ o.entity \in Entity /\ Of(o.entity) = {}
<1>1. CASE UNCHANGED logVars
  BY <1>1 DEF logVars
<1>2. ASSUME NEW w \in Writers, Writing(w)
      PROVE  Store(w) /\ o \in Written(w)
  BY <1>2 DEF Writing, InsertFeatures, CalculateField, UpdateFeature, DeleteFeature,
              Start, Bump, Stamp, Lock, Check, Store, GiveUp
<1>3. ASSUME NEW on \in SUBSET Entity, Import(on)
      PROVE  ~o.guarded /\ o.entity \in Entity /\ Of(o.entity) = {}
  <2>1. PICK e \in on :
           o = [entity |-> e, kind |-> "create", at |-> clock + 1, version |-> 0,
                base |-> 0, guarded |-> FALSE]
    BY <1>3 DEF Import
  <2>2. o.entity = e /\ ~o.guarded
    BY <2>1
  <2> QED BY <1>3, <2>2 DEF Import
<1>4. ASSUME Structure PROVE FALSE
  BY <1>4 DEF Structure, OpenStructure, SaveStructure, Revert, ReplaceData
<1> QED BY <1>1, <1>2, <1>3, <1>4 DEF LogNext

\* If every client sent the observation it had read, a guarded write would
\* land on the head its author saw: the unguarded INSERT of engine.service.ts
\* write is the only way past writeIfHead's check.
THEOREM GuardedWritesSeeAll == FALSE \notin Guarding => (Spec => GuardedSeesAll)
<1> SUFFICES ASSUME FALSE \notin Guarding PROVE Spec => GuardedSeesAll
  OBVIOUS
<1>1. GuardInv /\ [LogNext]_logVars =>
         [\A o \in log' \ log : o.guarded => o.base = Head(o.entity)]_log
  <2> SUFFICES ASSUME GuardInv, [LogNext]_logVars, NEW o \in log' \ log, o.guarded
               PROVE  o.base = Head(o.entity)
    OBVIOUS
  <2>1. PICK w \in Writers : Store(w) /\ o \in Written(w)
    BY NewRows
  <2>2. /\ o.entity \in writer[w].on /\ writer[w].guarded
        /\ writer[w].kind # "create" => o.base = writer[w].seen[o.entity]
    BY <2>1, WrittenRows DEF GuardInv
  <2>3. writer[w].pc = "checked" /\ writer[w].kind # "create"
    BY <2>1, <2>2 DEF Store, Locking, GuardInv, WinInv, LockDiscipline
  <2> QED BY <2>2, <2>3 DEF GuardInv, CheckStands
<1>2. GuardInv /\ [LogNext]_logVars => GuardInv'
  BY GuardNext
<1> QED BY <1>1, <1>2, GuardInit, PTL DEF Spec, GuardedSeesAll

\* If every client sent the observation it had read, a create would never land
\* beside a live feature of its id, however its retries overlap with deletes
\* and with each other (data-layer.ts writeFeaturesCreateIdempotent).
THEOREM CreatesLandOnce == FALSE \notin Guarding => (Spec => CreatedOnce)
<1> SUFFICES ASSUME FALSE \notin Guarding PROVE Spec => CreatedOnce
  OBVIOUS
<1>1. GuardInv /\ [LogNext]_logVars =>
         [\A o \in log' \ log : o.kind = "create" => ~Live(o.entity)]_log
  <2> SUFFICES ASSUME GuardInv, [LogNext]_logVars, NEW o \in log' \ log, o.kind = "create"
               PROVE  ~Live(o.entity)
    OBVIOUS
  <2>1. CASE Of(o.entity) = {}
    BY <2>1 DEF Live
  <2>2. ASSUME NEW w \in Writers, Store(w), o \in Written(w) PROVE ~Live(o.entity)
    <3>1. o.entity \in writer[w].on /\ writer[w].kind = "create"
      BY <2>2, WrittenRows DEF GuardInv
    <3>2. writer[w].pc = "checked"
      BY <2>2, <3>1 DEF Store, Locking
    <3> QED BY <3>1, <3>2 DEF GuardInv, CheckStands
  <2> QED BY <2>1, <2>2, NewRows
<1>2. GuardInv /\ [LogNext]_logVars => GuardInv'
  BY GuardNext
<1> QED BY <1>1, <1>2, GuardInit, PTL DEF Spec, CreatedOnce

\* If every client sent the observation it had read, an accepted guarded write
\* would be what is read next, though its time was taken before the lock: it
\* was taken after the head was read, and the head is still that one
\* (features.service.ts updateFeature, engine.service.ts writeIfHead).
THEOREM GuardedWritesAreRead == FALSE \notin Guarding => (Spec => GuardedIsRead)
<1> SUFFICES ASSUME FALSE \notin Guarding PROVE Spec => GuardedIsRead
  OBVIOUS
<1>1. GuardInv /\ [LogNext]_logVars =>
         [\A o \in log' \ log : o.guarded => o.at > Head(o.entity)]_log
  <2> SUFFICES ASSUME GuardInv, [LogNext]_logVars, NEW o \in log' \ log, o.guarded
               PROVE  o.at > Head(o.entity)
    OBVIOUS
  <2>1. PICK w \in Writers : Store(w) /\ o \in Written(w)
    BY NewRows
  <2>2. /\ o.entity \in writer[w].on /\ writer[w].guarded /\ o.at = writer[w].at
        /\ o.entity \in Entity
    BY <2>1, WrittenRows DEF GuardInv, Observation
  <2>3. writer[w].pc = "checked" /\ writer[w].kind # "create"
    BY <2>1, <2>2 DEF Store, Locking, GuardInv, WinInv, LockDiscipline
  <2>4. Head(o.entity) = writer[w].seen[o.entity]
    BY <2>2, <2>3 DEF GuardInv, CheckStands
  <2>5. writer[w].seen[o.entity] < writer[w].at
    BY <2>2, <2>3 DEF GuardInv, WinInv, SeesThePast
  <2>6. writer[w].seen[o.entity] \in Nat /\ writer[w].at \in Nat
    BY <2>2, Times DEF GuardInv, WinInv, TypeOK, WriterState
  <2> QED BY <2>2, <2>4, <2>5, <2>6
<1>2. GuardInv /\ [LogNext]_logVars => GuardInv'
  BY GuardNext
<1> QED BY <1>1, <1>2, GuardInit, PTL DEF Spec, GuardedIsRead

-----------------------------------------------------------------------------
(* Writes that are many statements are as if they were one                 *)

\* A request is about something until it ends, and one that saw the present
\* head of a feature it is to change saw it live.
SawLive ==
    /\ \A w \in Writers : writer[w].pc = "idle" <=> writer[w].on = {}
    /\ \A w \in Writers : writer[w].kind # "create" => \A e \in writer[w].on :
          writer[w].seen[e] <= Head(e) /\ (writer[w].seen[e] = Head(e) => Live(e))

LayerInv == GuardInv /\ SawLive

LEMMA LatestRow ==
    ASSUME NEW S \in SUBSET Observation, S # {}
    PROVE  LET top == CHOOSE o \in S : \A x \in S : x.at <= o.at
           IN  top \in S /\ \A x \in S : x.at <= top.at
<1> DEFINE A == {o.at : o \in S}
<1>1. A \in SUBSET Time /\ A # {}
  BY DEF Observation
<1>2. PICK n \in A : \A m \in A : m <= n
  <2> HIDE DEF A
  <2> QED BY <1>1, LatestTime
<1>3. \E o \in S : \A x \in S : x.at <= o.at
  BY <1>2
<1> QED BY <1>3

\* The head after a step, likewise the time of the latest row.
LEMMA NextHead ==
    ASSUME log' \subseteq Observation, NEW e \in Entity
    PROVE  /\ Head(e)' \in Nat
           /\ \A o \in log' : o.entity = e => o.at <= Head(e)'
           /\ (\A o \in log' : o.entity # e) => Head(e)' = 0
           /\ (\E o \in log' : o.entity = e) => \E o \in log' : o.entity = e /\ o.at = Head(e)'
<1> DEFINE S == {o \in log' : o.entity = e}
           top == CHOOSE o \in S : \A x \in S : x.at <= o.at
<1>1. Head(e)' = IF S = {} THEN 0 ELSE top.at
  BY DEF Head, Of
<1>2. S \in SUBSET Observation /\ \A o \in log' : o.entity = e <=> o \in S
  OBVIOUS
<1>3. CASE S = {}
  BY <1>1, <1>2, <1>3
<1>4. CASE S # {}
  <2>1. top \in S /\ \A x \in S : x.at <= top.at
    <3> HIDE DEF S
    <3> QED BY <1>2, <1>4, LatestRow
  <2>2. top \in log' /\ top.entity = e /\ top.at \in Nat
    BY <2>1, Times DEF Observation
  <2> HIDE DEF top
  <2> QED BY <1>1, <1>2, <1>4, <2>1, <2>2
<1> QED BY <1>3, <1>4

\* Rows are only added, so a head never goes back, and a feature whose head
\* stays stays live.
LEMMA HeadsGrow ==
    ASSUME log \subseteq Observation, log' \subseteq Observation, log \subseteq log',
           NEW e \in Entity
    PROVE  /\ Head(e) \in Nat /\ Head(e)' \in Nat /\ Head(e) <= Head(e)'
           /\ Head(e)' = Head(e) /\ Live(e) => Live(e)'
<1>1. Of(e) \subseteq Of(e)' /\ \A o \in Of(e) : o \in log' /\ o.entity = e
  BY DEF Of
<1>2. /\ Head(e) \in Nat
      /\ Of(e) # {} => \E o \in Of(e) : o.at = Head(e)
  BY HeadIsLatest, Times
<1>3. Head(e)' \in Nat /\ \A o \in log' : o.entity = e => o.at <= Head(e)'
  BY NextHead
<1>4. Head(e) <= Head(e)'
  <2>1. CASE Of(e) = {}
    <3>1. Head(e) = 0
      BY <2>1 DEF Head
    <3> QED BY <1>3, <3>1
  <2>2. CASE Of(e) # {}
    <3>1. PICK o \in Of(e) : o.at = Head(e)
      BY <1>2, <2>2
    <3> QED BY <1>1, <1>3, <3>1
  <2> QED BY <2>1, <2>2
<1>5. Head(e)' = Head(e) /\ Live(e) => Live(e)'
  BY <1>1 DEF Live
<1> QED BY <1>2, <1>3, <1>4, <1>5

\* What becomes of what a request is about: it is set when the request begins,
LEMMA StartAsks ==
    ASSUME TypeOK, NEW w \in Writers, NEW kind \in Kind, NEW on \in SUBSET Entity,
           NEW guarded \in BOOLEAN, Start(w, kind, on, guarded)
    PROVE  /\ writer[w].pc = "idle" /\ on # {} /\ log' = log
           /\ writer'[w].pc = "read" /\ writer'[w].on = on /\ writer'[w].kind = kind
           /\ \A e \in on : writer'[w].seen[e] = Head(e)
           /\ \A v \in Writers \ {w} : writer'[v] = writer[v]
<1> DEFINE seen == [e \in Entity |-> IF e \in on THEN Head(e) ELSE 0]
           next == [Idle EXCEPT !.pc = "read", !.kind = kind, !.on = on,
                                !.guarded = guarded, !.seen = seen]
<1>1. seen \in [Entity -> Time] /\ \A e \in on : seen[e] = Head(e)
  BY HeadIsLatest, Times DEF TypeOK
<1>2. writer' = [writer EXCEPT ![w] = next]
  BY DEF Start
<1> HIDE DEF seen
<1>3. /\ next \in WriterState /\ next.pc = "read" /\ next.on = on /\ next.kind = kind
      /\ next.seen = seen
  BY <1>1, IdleIsWriter DEF Idle, WriterState
<1> HIDE DEF next
<1> QED BY <1>1, <1>2, <1>3, OneMoves DEF Start

\* stays as it is while the request takes its version, its time and its locks,
LEMMA QuietAsks ==
    ASSUME TypeOK, NEW w \in Writers,
           Bump(w) \/ Stamp(w) \/ (\E e \in Entity : Lock(w, e))
    PROVE  /\ writer[w].pc # "idle" /\ writer'[w].pc # "idle" /\ log' = log
           /\ writer'[w].on = writer[w].on /\ writer'[w].kind = writer[w].kind
           /\ writer'[w].seen = writer[w].seen
           /\ \A v \in Writers \ {w} : writer'[v] = writer[v]
<1>1. CASE Bump(w)
  BY <1>1 DEF Bump, TypeOK, WriterState
<1>2. CASE Stamp(w)
  BY <1>2 DEF Stamp, TypeOK, WriterState
<1>3. ASSUME NEW e \in Entity, Lock(w, e)
      PROVE  /\ writer[w].pc # "idle" /\ writer'[w].pc # "idle" /\ log' = log
             /\ writer'[w].on = writer[w].on /\ writer'[w].kind = writer[w].kind
             /\ writer'[w].seen = writer[w].seen
             /\ \A v \in Writers \ {w} : writer'[v] = writer[v]
  BY <1>3 DEF Lock, TypeOK, WriterState
<1> QED BY <1>1, <1>2, <1>3

\* and is given up in part by a check, wholly when the request ends.
LEMMA EndAsks ==
    ASSUME TypeOK, NEW w \in Writers, writer' = [writer EXCEPT ![w] = Idle]
    PROVE  /\ writer'[w].pc = "idle" /\ writer'[w].on = {}
           /\ \A v \in Writers \ {w} : writer'[v] = writer[v]
<1>1. Idle.pc = "idle" /\ Idle.on = {}
  BY DEF Idle
<1> QED BY <1>1, IdleIsWriter, OneMoves

LEMMA CheckAsks ==
    ASSUME TypeOK, NEW w \in Writers, Check(w)
    PROVE  /\ writer[w].pc # "idle" /\ log' = log
           /\ \/ writer'[w].pc = "idle" /\ writer'[w].on = {}
              \/ /\ writer'[w].pc = "checked" /\ writer'[w].on # {}
                 /\ writer'[w].on \subseteq writer[w].on
                 /\ writer'[w].kind = writer[w].kind /\ writer'[w].seen = writer[w].seen
           /\ \A v \in Writers \ {w} : writer'[v] = writer[v]
<1>1. CASE Passes(w) = {}
  BY <1>1, EndAsks DEF Check
<1>2. CASE Passes(w) # {}
  <2>1. /\ writer[w].pc # "idle" /\ log' = log
        /\ writer' = [writer EXCEPT ![w] = [writer[w] EXCEPT !.pc = "checked", !.on = Passes(w)]]
    BY <1>2 DEF Check
  <2>2. Passes(w) \subseteq writer[w].on
    BY DEF Passes
  <2> QED BY <1>2, <2>1, <2>2 DEF TypeOK, WriterState
<1> QED BY <1>1, <1>2

LEMMA SawLiveInit == Init => SawLive
<1> SUFFICES ASSUME Init PROVE SawLive
  OBVIOUS
<1>1. \A w \in Writers : writer[w].pc = "idle" /\ writer[w].on = {}
  BY DEF Init, Idle
<1> QED BY <1>1 DEF SawLive

\* A request that goes on is about no more than it was, and other requests
\* cannot make a head it has seen come back.
LEMMA SawLiveMove ==
    ASSUME SawLive, log \subseteq Observation, log' \subseteq Observation, log \subseteq log',
           NEW w \in Writers,
           \A v \in Writers \ {w} : writer'[v] = writer[v],
           writer'[w].pc = "idle" <=> writer'[w].on = {},
           writer'[w].on \subseteq writer[w].on,
           writer'[w].on # {} =>
              writer'[w].kind = writer[w].kind /\ writer'[w].seen = writer[w].seen,
           \A v \in Writers : writer[v] \in WriterState
    PROVE  SawLive'
<1>1. \A e \in Entity : /\ Head(e) \in Nat /\ Head(e)' \in Nat /\ Head(e) <= Head(e)'
                        /\ Head(e)' = Head(e) /\ Live(e) => Live(e)'
  BY HeadsGrow
<1>2. \A v \in Writers :
         /\ writer'[v].on \subseteq writer[v].on /\ writer[v].on \subseteq Entity
         /\ writer'[v].on # {} =>
              writer'[v].kind = writer[v].kind /\ writer'[v].seen = writer[v].seen
         /\ \A e \in Entity : writer[v].seen[e] \in Nat
  BY Times DEF WriterState
<1>3. ASSUME NEW v \in Writers, writer'[v].kind # "create", NEW e \in writer'[v].on
      PROVE  /\ writer'[v].seen[e] <= Head(e)'
             /\ writer'[v].seen[e] = Head(e)' => Live(e)'
  <2>1. /\ e \in Entity /\ writer'[v].seen[e] = writer[v].seen[e]
        /\ writer[v].seen[e] \in Nat
        /\ writer[v].seen[e] <= Head(e) /\ (writer[v].seen[e] = Head(e) => Live(e))
    BY <1>2, <1>3 DEF SawLive
  <2>2. writer[v].seen[e] = Head(e)' => Head(e)' = Head(e)
    BY <1>1, <2>1
  <2> QED BY <1>1, <2>1, <2>2
<1>4. \A v \in Writers : writer'[v].pc = "idle" <=> writer'[v].on = {}
  BY DEF SawLive
<1> QED BY <1>3, <1>4 DEF SawLive

LEMMA SawLiveStart ==
    ASSUME SawLive, TypeOK, NEW w \in Writers, NEW kind \in Kind, NEW on \in SUBSET Entity,
           NEW guarded \in BOOLEAN, Start(w, kind, on, guarded),
           kind # "create" => \A e \in on : Live(e)
    PROVE  SawLive'
<1>1. \A e : Head(e)' = Head(e) /\ Live(e)' = Live(e)
  BY StartAsks, HeadIsLocal DEF Of
<1>2. \A e \in Entity : Head(e) \in Nat
  BY HeadIsLatest, Times DEF TypeOK
<1>3. /\ writer'[w].pc = "read" /\ writer'[w].on = on /\ on # {}
      /\ writer'[w].kind = kind /\ \A e \in on : writer'[w].seen[e] = Head(e)
      /\ \A v \in Writers \ {w} : writer'[v] = writer[v]
  BY StartAsks
<1>4. kind # "create" => \A e \in on :
         writer'[w].seen[e] <= Head(e) /\ (writer'[w].seen[e] = Head(e) => Live(e))
  BY <1>2, <1>3
<1>5. SawLive' = /\ \A v \in Writers : writer'[v].pc = "idle" <=> writer'[v].on = {}
                 /\ \A v \in Writers : writer'[v].kind # "create" => \A e \in writer'[v].on :
                       /\ writer'[v].seen[e] <= Head(e)'
                       /\ writer'[v].seen[e] = Head(e)' => Live(e)'
  BY DEF SawLive
<1> QED BY <1>1, <1>3, <1>4, <1>5 DEF SawLive

LEMMA WritingKinds ==
    ASSUME NEW w \in Writers, Writing(w)
    PROVE  \/ \E kind \in Kind, on \in SUBSET Entity, guarded \in BOOLEAN :
                 /\ Start(w, kind, on, guarded)
                 /\ kind # "create" => \A e \in on : Live(e)
           \/ Bump(w) \/ Stamp(w) \/ \E e \in Entity : Lock(w, e)
           \/ Check(w) \/ Store(w) \/ GiveUp(w)
<1>1. /\ "create" \in Kind /\ "update" \in Kind /\ "delete" \in Kind
      /\ FALSE \in BOOLEAN /\ Guarding \subseteq BOOLEAN
      /\ \A e \in Entity : {e} \in SUBSET Entity
  BY LogAssumption DEF Kind
<1>2. ASSUME NEW on \in SUBSET Entity, InsertFeatures(w, on) \/ CalculateField(w, on)
      PROVE  \E kind \in Kind, fs \in SUBSET Entity, guarded \in BOOLEAN :
                Start(w, kind, fs, guarded) /\ (kind # "create" => \A e \in fs : Live(e))
  BY <1>1, <1>2 DEF InsertFeatures, CalculateField
<1>3. ASSUME NEW e \in Entity, NEW guarded \in Guarding,
             UpdateFeature(w, e, guarded) \/ DeleteFeature(w, e, guarded)
      PROVE  \E kind \in Kind, fs \in SUBSET Entity, g \in BOOLEAN :
                Start(w, kind, fs, g) /\ (kind # "create" => \A x \in fs : Live(x))
  <2>1. /\ guarded \in BOOLEAN /\ {e} \in SUBSET Entity
        /\ Live(e) /\ \A x \in {e} : Live(x)
        /\ Start(w, "update", {e}, guarded) \/ Start(w, "delete", {e}, guarded)
    BY <1>1, <1>3 DEF UpdateFeature, DeleteFeature
  <2> QED BY <1>1, <2>1
<1> QED BY <1>2, <1>3 DEF Writing

LEMMA SawLiveNext ==
    ASSUME LayerInv, TypeOK', [LogNext]_logVars
    PROVE  SawLive'
<1>1. /\ log \subseteq Observation /\ log' \subseteq Observation
      /\ \A v \in Writers : writer[v] \in WriterState
      /\ TypeOK /\ SawLive
  BY DEF LayerInv, GuardInv, WinInv, TypeOK
<1>2. CASE UNCHANGED writer /\ log \subseteq log'
  <2>1. \A e \in Entity : /\ Head(e) \in Nat /\ Head(e)' \in Nat /\ Head(e) <= Head(e)'
                          /\ Head(e)' = Head(e) /\ Live(e) => Live(e)'
    BY <1>1, <1>2, HeadsGrow
  <2>2. \A v \in Writers : writer[v].on \subseteq Entity
           /\ \A e \in Entity : writer[v].seen[e] \in Nat
    BY <1>1, Times DEF WriterState
  <2>3. ASSUME NEW v \in Writers, writer[v].kind # "create", NEW e \in writer[v].on
        PROVE  /\ writer[v].seen[e] <= Head(e)'
               /\ writer[v].seen[e] = Head(e)' => Live(e)'
    <3>1. /\ e \in Entity /\ writer[v].seen[e] \in Nat /\ writer[v].seen[e] <= Head(e)
          /\ writer[v].seen[e] = Head(e) => Live(e)
      BY <1>1, <2>2, <2>3 DEF SawLive
    <3>2. writer[v].seen[e] = Head(e)' => Head(e)' = Head(e)
      BY <2>1, <3>1
    <3> QED BY <2>1, <3>1, <3>2
  <2> QED BY <1>1, <1>2, <2>3 DEF SawLive
<1>3. ASSUME NEW w \in Writers, Writing(w) PROVE SawLive'
  <2>1. ASSUME NEW kind \in Kind, NEW on \in SUBSET Entity, NEW guarded \in BOOLEAN,
               Start(w, kind, on, guarded), kind # "create" => \A e \in on : Live(e)
        PROVE  SawLive'
    BY <1>1, <2>1, SawLiveStart
  <2>2. CASE Bump(w) \/ Stamp(w) \/ \E e \in Entity : Lock(w, e)
    <3>1. /\ writer[w].pc # "idle" /\ writer'[w].pc # "idle" /\ log' = log
          /\ writer'[w].on = writer[w].on /\ writer'[w].kind = writer[w].kind
          /\ writer'[w].seen = writer[w].seen
          /\ \A v \in Writers \ {w} : writer'[v] = writer[v]
      BY <1>1, <2>2, QuietAsks
    <3>2. writer[w].on # {}
      BY <1>1, <3>1 DEF SawLive
    <3> QED BY <1>1, <3>1, <3>2, SawLiveMove
  <2>3. CASE Check(w)
    <3>1. /\ writer[w].pc # "idle" /\ log' = log
          /\ \/ writer'[w].pc = "idle" /\ writer'[w].on = {}
             \/ /\ writer'[w].pc = "checked" /\ writer'[w].on # {}
                /\ writer'[w].on \subseteq writer[w].on
                /\ writer'[w].kind = writer[w].kind /\ writer'[w].seen = writer[w].seen
          /\ \A v \in Writers \ {w} : writer'[v] = writer[v]
      BY <1>1, <2>3, CheckAsks
    <3> QED BY <1>1, <3>1, SawLiveMove
  <2>4. CASE Store(w) \/ GiveUp(w)
    <3>1. writer' = [writer EXCEPT ![w] = Idle] /\ log \subseteq log'
      BY <2>4 DEF Store, GiveUp
    <3>2. /\ writer'[w].pc = "idle" /\ writer'[w].on = {}
          /\ \A v \in Writers \ {w} : writer'[v] = writer[v]
      BY <1>1, <3>1, EndAsks
    <3> QED BY <1>1, <3>1, <3>2, SawLiveMove
  <2> QED BY <1>3, <2>1, <2>2, <2>3, <2>4, WritingKinds
<1>4. ASSUME NEW on \in SUBSET Entity, Import(on) PROVE SawLive'
  BY <1>2, <1>4 DEF Import
<1>5. CASE Structure \/ UNCHANGED logVars
  BY <1>2, <1>5 DEF Structure, OpenStructure, SaveStructure, Revert, ReplaceData, logVars
<1> QED BY <1>3, <1>4, <1>5 DEF LogNext

LEMMA LayerInvNext == FALSE \notin Guarding /\ LayerInv /\ [LogNext]_logVars => LayerInv'
<1> SUFFICES ASSUME FALSE \notin Guarding, LayerInv, [LogNext]_logVars PROVE LayerInv'
  OBVIOUS
<1>1. GuardInv'
  BY GuardNext DEF LayerInv
<1>2. TypeOK'
  BY <1>1 DEF GuardInv, WinInv
<1> QED BY <1>1, <1>2, SawLiveNext DEF LayerInv

-----------------------------------------------------------------------------
(* The statements of a write as steps of LayerContract                     *)

\* One request moves: its part of what is asked for changes, no other.
LEMMA AskedMoves ==
    ASSUME NEW w \in Writers, \A v \in Writers \ {w} : writer'[v] = writer[v]
    PROVE  [v \in Writers |-> Asked(v)]' = [[v \in Writers |-> Asked(v)] EXCEPT ![w] = Asked(w)']
<1>1. \A v \in Writers \ {w} : Asked(v)' = Asked(v)
  BY DEF Asked
<1> QED BY <1>1

\* What is asked for when nothing is.
LEMMA AskedNothing ==
    ASSUME NEW w \in Writers
    PROVE  (writer[w].on = {} <=> Asked(w) = {}) /\ (writer'[w].on = {} => Asked(w)' = {})
BY DEF Asked

\* A step that leaves the log alone, of a request that goes on or ends, gives
\* up some of what it asked for, or nothing of it.
LEMMA DropMaps ==
    ASSUME NEW w \in Writers, log' = log, writer'[w].on \subseteq writer[w].on,
           writer'[w].on # {} =>
              writer'[w].kind = writer[w].kind /\ writer'[w].seen = writer[w].seen,
           \A v \in Writers \ {w} : writer'[v] = writer[v]
    PROVE  Layer!LayerNext
<1>1. Asked(w)' \subseteq Asked(w)
  BY DEF Asked
<1>2. \A e \in Entity : Head(e)' = Head(e) /\ Live(e)' = Live(e)
  BY HeadIsLocal DEF Of
<1>3. [v \in Writers |-> Asked(v)]' = [[v \in Writers |-> Asked(v)] EXCEPT ![w] = Asked(w)']
  BY AskedMoves
<1>4. Layer!Drop(w, Asked(w)')
  BY <1>2, <1>3 DEF Layer!Drop
<1> QED BY <1>1, <1>4 DEF Layer!LayerNext

LEMMA AskMaps ==
    ASSUME LayerInv, NEW w \in Writers, NEW kind \in Kind, NEW on \in SUBSET Entity,
           NEW guarded \in BOOLEAN, Start(w, kind, on, guarded),
           kind # "create" => \A e \in on : Live(e)
    PROVE  Layer!LayerNext
<1>1. /\ writer[w].pc = "idle" /\ on # {} /\ log' = log
      /\ writer'[w].on = on /\ writer'[w].kind = kind
      /\ \A e \in on : writer'[w].seen[e] = Head(e)
      /\ \A v \in Writers \ {w} : writer'[v] = writer[v]
  BY StartAsks DEF LayerInv, GuardInv, WinInv
<1>2. Asked(w) = {}
  BY <1>1, AskedNothing DEF LayerInv, SawLive
<1>3. \A e \in Entity : Head(e)' = Head(e) /\ Live(e)' = Live(e)
  BY <1>1, HeadIsLocal DEF Of
<1>4. Asked(w)' = {[feature |-> e, kind |-> kind, seen |-> Head(e)] : e \in on}
  BY <1>1 DEF Asked
<1>5. \A e \in on : [x \in Entity |-> Head(x)][e] = Head(e)
  OBVIOUS
<1>6. [v \in Writers |-> Asked(v)]' = [[v \in Writers |-> Asked(v)] EXCEPT ![w] = Asked(w)']
  BY <1>1, AskedMoves
<1>7. kind = "create" \/ on \subseteq {e \in Entity : Live(e)}
  OBVIOUS
<1>8. Layer!Ask(w, kind, on)
  <2>1. [v \in Writers |-> Asked(v)][w] = {}
    BY <1>2
  <2>2. {[feature |-> f, kind |-> kind, seen |-> [x \in Entity |-> Head(x)][f]] : f \in on}
           = Asked(w)'
    BY <1>4, <1>5
  <2>3. /\ [e \in Entity |-> Head(e)]' = [e \in Entity |-> Head(e)]
        /\ {e \in Entity : Live(e)}' = {e \in Entity : Live(e)}
    BY <1>3
  <2> QED BY <1>1, <1>6, <1>7, <2>1, <2>2, <2>3 DEF Layer!Ask
<1>9. kind \in Layer!Kind
  BY DEF Kind, Layer!Kind
<1> QED BY <1>8, <1>9 DEF Layer!LayerNext

\* The insert is the moment of a write: its features' heads are those it saw,
\* and its time is later, unless it makes anew what was deleted later still.
LEMMA LandMaps ==
    ASSUME LayerInv, TypeOK', NEW w \in Writers, Store(w)
    PROVE  Layer!LayerNext
<1> DEFINE t == writer[w].at
           on == writer[w].on
           kind == writer[w].kind
<1>1. /\ writer[w] \in WriterState /\ TypeOK /\ t \in Time /\ t \in Nat
      /\ on \subseteq Entity /\ log \subseteq Observation /\ log' \subseteq Observation
  BY Times DEF LayerInv, GuardInv, WinInv, TypeOK, WriterState
<1>2. /\ writer[w].pc = "checked" /\ writer[w].pc # "idle" /\ on # {}
      /\ log' = log \cup Written(w)
      /\ writer' = [writer EXCEPT ![w] = Idle]
  BY DEF Store, LayerInv, GuardInv, Serialised, SawLive
<1>3. /\ writer'[w].on = {} /\ \A v \in Writers \ {w} : writer'[v] = writer[v]
  BY <1>1, <1>2, EndAsks
<1>4. \A o \in log' : o \in log \/ (o.entity \in on /\ o.at = t /\ o.kind = kind)
  BY <1>2, WrittenRows DEF LayerInv, GuardInv
<1>5. \A e \in on : \E o \in log' : o.entity = e /\ o.at = t /\ o.kind = kind
  <2> TAKE e \in on
  <2> DEFINE o == [entity |-> e, kind |-> kind, at |-> t, version |-> writer[w].version,
                   base |-> IF kind = "create" THEN 0 ELSE writer[w].seen[e],
                   guarded |-> writer[w].guarded]
  <2>1. o \in Written(w)
    BY DEF Written
  <2>2. o.entity = e /\ o.at = t /\ o.kind = kind
    OBVIOUS
  <2> QED BY <1>2, <2>1, <2>2
<1>6. \A e \in on :
         IF kind = "create" THEN ~Live(e)
         ELSE Live(e) /\ Head(e) = writer[w].seen[e] /\ writer[w].seen[e] < t
  BY <1>1, <1>2 DEF LayerInv, GuardInv, CheckStands, SawLive, WinInv, SeesThePast
<1>7. \A e \in Entity : /\ Head(e) \in Nat
                        /\ \A o \in log : o.entity = e => o.at <= Head(e) /\ o.at \in Nat
  BY <1>1, HeadIsLatest, Times DEF Of, Observation
<1> HIDE DEF t, on, kind
<1>8. ASSUME NEW e \in Entity, e \notin on PROVE Head(e)' = Head(e) /\ Live(e)' = Live(e)
  <2>1. Of(e)' = Of(e)
    BY <1>2, <1>4, <1>8 DEF Of
  <2> QED BY <2>1, HeadIsLocal
<1>9. ASSUME NEW e \in on
      PROVE  /\ Head(e)' = IF Head(e) <= t THEN t ELSE Head(e)
             /\ Live(e)' <=> kind # "delete" /\ Head(e) <= t
  <2>1. /\ e \in Entity /\ Head(e)' \in Nat
        /\ \A o \in log' : o.entity = e => o.at <= Head(e)'
        /\ (\E o \in log' : o.entity = e) => \E o \in log' : o.entity = e /\ o.at = Head(e)'
    BY <1>1, NextHead
  <2>2. PICK n \in log' : n.entity = e /\ n.at = t /\ n.kind = kind
    BY <1>5
  <2>3. PICK h \in log' : h.entity = e /\ h.at = Head(e)'
    BY <2>1, <2>2
  <2>4. t <= Head(e)' /\ Head(e) <= Head(e)'
    BY <1>1, <1>2, <2>1, <2>2, HeadsGrow
  <2>5. h.at = t \/ (h.at <= Head(e) /\ Head(e) \in Nat)
    BY <1>4, <1>7, <2>1, <2>3
  <2>6. Head(e)' = IF Head(e) <= t THEN t ELSE Head(e)
    BY <1>1, <1>7, <2>1, <2>3, <2>4, <2>5
  <2>7. Live(e)' <=> \E o \in log' : o.entity = e /\ o.at = Head(e)' /\ o.kind # "delete"
    BY DEF Live, Of
  <2>8. CASE kind # "delete" /\ Head(e) <= t
    BY <2>2, <2>6, <2>7, <2>8
  <2>9. CASE kind = "delete"
    <3>1. Head(e) < t
      BY <1>6, <2>9
    <3>2. \A o \in log' : o.entity = e /\ o.at = Head(e)' => o.kind = "delete"
      BY <1>1, <1>4, <1>7, <2>1, <2>6, <2>9, <3>1
    <3> QED BY <2>6, <2>7, <2>9, <3>2
  <2>10. CASE kind # "delete" /\ ~(Head(e) <= t)
    <3>1. kind = "create" /\ ~Live(e)
      BY <1>1, <1>6, <1>7, <2>1, <2>10
    <3>2. Head(e)' = Head(e) /\ Head(e) # t
      BY <1>1, <1>7, <2>1, <2>6, <2>10
    <3>3. \A o \in log' : o.entity = e /\ o.at = Head(e)' => o \in Of(e) /\ o.at = Head(e)
      BY <1>4, <3>2 DEF Of
    <3> QED BY <2>6, <2>7, <2>10, <3>1, <3>3 DEF Live
  <2> QED BY <2>6, <2>8, <2>9, <2>10
<1> DEFINE heads == [e \in Entity |-> Head(e)]
           seen == {e \in Entity : Live(e)}
           asked == [v \in Writers |-> Asked(v)]
<1>10. /\ heads' = [e \in Entity |-> IF e \in on /\ heads[e] <= t THEN t ELSE heads[e]]
       /\ seen' = (seen \ on) \cup {e \in on : kind # "delete" /\ heads[e] <= t}
  <2>1. \A e \in Entity : Head(e)' = IF e \in on /\ Head(e) <= t THEN t ELSE Head(e)
    BY <1>8, <1>9
  <2>2. \A e \in Entity : Live(e)' <=>
           (Live(e) /\ e \notin on) \/ (e \in on /\ kind # "delete" /\ Head(e) <= t)
    BY <1>8, <1>9
  <2>3. on \subseteq Entity
    BY <1>1
  <2> QED BY <2>1, <2>2, <2>3
<1>11. asked[w] = {[feature |-> e, kind |-> kind, seen |-> writer[w].seen[e]] : e \in on}
  BY DEF Asked, on, kind
<1>12. asked' = [asked EXCEPT ![w] = {}]
  BY <1>3, AskedMoves, AskedNothing
<1> HIDE DEF asked
<1>13. asked[w] # {}
  BY <1>2, <1>11
<1>14. \A p \in asked[w] :
          IF p.kind = "create" THEN p.feature \notin seen
          ELSE p.feature \in seen /\ heads[p.feature] = p.seen /\ p.seen < t
  <2> TAKE p \in asked[w]
  <2>1. PICK e \in on : p = [feature |-> e, kind |-> kind, seen |-> writer[w].seen[e]]
    BY <1>11
  <2>2. p.feature = e /\ p.kind = kind /\ p.seen = writer[w].seen[e] /\ e \in Entity
    BY <1>1, <2>1
  <2> QED BY <1>6, <2>2
<1>15. \A e \in on : [feature |-> e, kind |-> kind, seen |-> writer[w].seen[e]] \in asked[w]
  BY <1>11
<1>16. \A p \in asked[w] : p.feature \in on /\ p.kind = kind
  BY <1>11
<1> HIDE DEF heads, seen
<1>17. {p.feature : p \in asked[w]} = on
  <2>1. \A e \in on : \E p \in asked[w] : p.feature = e
    <3> TAKE e \in on
    <3> DEFINE p == [feature |-> e, kind |-> kind, seen |-> writer[w].seen[e]]
    <3>1. p \in asked[w] /\ p.feature = e
      BY <1>15
    <3> QED BY <3>1
  <2> QED BY <1>16, <2>1
<1>18. {p.feature : p \in {q \in asked[w] : q.kind # "delete" /\ heads[q.feature] <= t}}
          = {e \in on : kind # "delete" /\ heads[e] <= t}
  <2> DEFINE late == {q \in asked[w] : q.kind # "delete" /\ heads[q.feature] <= t}
  <2>1. ASSUME NEW e \in on, kind # "delete", heads[e] <= t
        PROVE  \E p \in late : p.feature = e
    <3> DEFINE p == [feature |-> e, kind |-> kind, seen |-> writer[w].seen[e]]
    <3>1. p \in asked[w] /\ p.feature = e /\ p.kind = kind
      BY <1>15
    <3>2. p \in late
      BY <2>1, <3>1
    <3> QED BY <3>1, <3>2
  <2>2. \A p \in late : p.feature \in on /\ kind # "delete" /\ heads[p.feature] <= t
    BY <1>16
  <2> HIDE DEF late
  <2>3. {p.feature : p \in late} = {e \in on : kind # "delete" /\ heads[e] <= t}
    BY <2>1, <2>2
  <2> QED BY <2>3 DEF late
<1>19. Layer!Land(w, t)
  <2> HIDE DEF heads, seen
  <2>1. /\ Layer!Named(w) = {p.feature : p \in asked[w]}
        /\ Layer!Shown(w, t) =
              {p.feature : p \in {q \in asked[w] : q.kind # "delete" /\ heads[q.feature] <= t}}
    BY DEF Layer!Named, Layer!Shown, asked, heads
  <2>2. \A p \in asked[w] : Layer!Fits(p, t) <=>
           IF p.kind = "create" THEN p.feature \notin seen
           ELSE p.feature \in seen /\ heads[p.feature] = p.seen /\ p.seen < t
    BY DEF Layer!Fits, heads, seen
  <2>3. Layer!Land(w, t) <=>
           /\ asked[w] # {} /\ asked' = [asked EXCEPT ![w] = {}]
           /\ \A p \in asked[w] : Layer!Fits(p, t)
           /\ heads' = [e \in Entity |->
                 IF e \in Layer!Named(w) /\ heads[e] <= t THEN t ELSE heads[e]]
           /\ seen' = (seen \ Layer!Named(w)) \cup Layer!Shown(w, t)
    BY DEF Layer!Land, asked, heads, seen
  <2> QED BY <1>10, <1>12, <1>13, <1>14, <1>17, <1>18, <2>1, <2>2, <2>3
<1> QED BY <1>1, <1>19 DEF Layer!LayerNext

LEMMA ComeInMaps ==
    ASSUME LayerInv, TypeOK', NEW on \in SUBSET Entity, Import(on)
    PROVE  Layer!LayerNext
<1> DEFINE t == clock + 1
           heads == [e \in Entity |-> Head(e)]
           seen == {e \in Entity : Live(e)}
<1>1. /\ \A e \in on : Of(e) = {}
      /\ clock' = t /\ t \in Time /\ t \in Nat /\ 0 < t
      /\ log' = log \cup {[entity |-> e, kind |-> "create", at |-> t, version |-> 0,
                           base |-> 0, guarded |-> FALSE] : e \in on}
      /\ writer' = writer /\ log' \subseteq Observation
  BY LogAssumption DEF Import, LayerInv, GuardInv, WinInv, TypeOK, Time
<1> HIDE DEF t
<1>2. /\ \A o \in log' : o \in log \/ (o.entity \in on /\ o.at = t /\ o.kind = "create")
      /\ \A e \in on : \E o \in log' : o.entity = e /\ o.at = t /\ o.kind = "create"
  <2> DEFINE row(e) == [entity |-> e, kind |-> "create", at |-> t, version |-> 0,
                        base |-> 0, guarded |-> FALSE]
  <2>1. \A e : row(e).entity = e /\ row(e).at = t /\ row(e).kind = "create"
    OBVIOUS
  <2>2. log' = log \cup {row(e) : e \in on}
    BY <1>1
  <2> HIDE DEF row
  <2> QED BY <2>1, <2>2
<1>3. ASSUME NEW e \in Entity, e \notin on PROVE Head(e)' = Head(e) /\ Live(e)' = Live(e)
  <2>1. Of(e)' = Of(e)
    BY <1>1, <1>2, <1>3 DEF Of
  <2> QED BY <2>1, HeadIsLocal
<1>4. ASSUME NEW e \in on
      PROVE  Head(e) = 0 /\ ~Live(e) /\ Head(e)' = t /\ Live(e)'
  <2>1. Head(e) = 0 /\ ~Live(e)
    BY <1>1 DEF Head, Live
  <2>2. PICK n \in log' : n.entity = e /\ n.at = t /\ n.kind = "create"
    BY <1>2
  <2>3. \E o \in log' : o.entity = e /\ o.at = Head(e)'
    BY <1>1, <2>2, NextHead
  <2>4. Head(e)' = t
    BY <1>1, <1>2, <2>3 DEF Of
  <2>5. Live(e)'
    BY <2>2, <2>4 DEF Live, Of
  <2> QED BY <2>1, <2>4, <2>5
<1>5. /\ heads' = [e \in Entity |-> IF e \in on THEN t ELSE heads[e]]
      /\ seen' = seen \cup on
      /\ \A e \in on : heads[e] = 0 /\ e \notin seen
  BY <1>3, <1>4
<1>6. [v \in Writers |-> Asked(v)]' = [v \in Writers |-> Asked(v)]
  BY <1>1 DEF Asked
<1>7. Layer!ComeIn(on, t)
  <2> HIDE DEF heads, seen
  <2>1. Layer!ComeIn(on, t) <=>
           /\ [v \in Writers |-> Asked(v)]' = [v \in Writers |-> Asked(v)]
           /\ \A e \in on : heads[e] = 0 /\ e \notin seen
           /\ 0 < t
           /\ seen' = seen \cup on
           /\ heads' = [e \in Entity |-> IF e \in on THEN t ELSE heads[e]]
    BY DEF Layer!ComeIn, heads, seen
  <2> QED BY <1>1, <1>5, <1>6, <2>1
<1> QED BY <1>1, <1>7 DEF Layer!LayerNext

\* Every step of the log is a step of LayerContract, or none.
LEMMA LayerStep ==
    ASSUME LayerInv, TypeOK', [LogNext]_logVars
    PROVE  [Layer!LayerNext]_(Layer!layerVars)
<1>1. TypeOK /\ SawLive
  BY DEF LayerInv, GuardInv, WinInv
<1>2. CASE UNCHANGED <<log, writer>>
  <2>1. \A e \in Entity : Head(e)' = Head(e) /\ Live(e)' = Live(e)
    BY <1>2, HeadIsLocal DEF Of
  <2>2. [v \in Writers |-> Asked(v)]' = [v \in Writers |-> Asked(v)]
    BY <1>2 DEF Asked
  <2>3. /\ [e \in Entity |-> Head(e)]' = [e \in Entity |-> Head(e)]
        /\ {e \in Entity : Live(e)}' = {e \in Entity : Live(e)}
    BY <2>1
  <2> QED BY <2>2, <2>3 DEF Layer!layerVars
<1>3. ASSUME NEW w \in Writers, Writing(w) PROVE Layer!LayerNext
  <2>1. ASSUME NEW kind \in Kind, NEW on \in SUBSET Entity, NEW guarded \in BOOLEAN,
               Start(w, kind, on, guarded), kind # "create" => \A e \in on : Live(e)
        PROVE  Layer!LayerNext
    BY <2>1, AskMaps
  <2>2. CASE Bump(w) \/ Stamp(w) \/ \E e \in Entity : Lock(w, e)
    BY <1>1, <2>2, QuietAsks, DropMaps
  <2>3. CASE Check(w)
    BY <1>1, <2>3, CheckAsks, DropMaps
  <2>4. CASE GiveUp(w)
    <3>1. writer' = [writer EXCEPT ![w] = Idle] /\ log' = log
      BY <2>4 DEF GiveUp
    <3> QED BY <1>1, <3>1, EndAsks, DropMaps
  <2> QED BY <1>3, <2>1, <2>2, <2>3, <2>4, LandMaps, WritingKinds
<1>4. ASSUME Structure PROVE UNCHANGED <<log, writer>>
  BY <1>4 DEF Structure, OpenStructure, SaveStructure, Revert, ReplaceData
<1>5. CASE UNCHANGED logVars
  BY <1>2, <1>5 DEF logVars
<1> QED BY <1>2, <1>3, <1>4, <1>5, ComeInMaps DEF LogNext

\* If every client sent the observation it had read, the many statements of a
\* write, with other requests' between them, would be as if it landed at one
\* moment, whole, on what its author saw, or were refused: the API's log would
\* implement LayerContract (engine.service.ts writeIfHead,
\* data-layer.ts writeFeaturesCreateIdempotent).
THEOREM WritesLandAtOnce == FALSE \notin Guarding => (Spec => WritesAreAtomic)
<1> SUFFICES ASSUME FALSE \notin Guarding PROVE Spec => WritesAreAtomic
  OBVIOUS
<1>1. Init => LayerInv
  BY GuardInit, SawLiveInit DEF LayerInv
<1>2. LayerInv /\ [LogNext]_logVars => LayerInv'
  BY LayerInvNext
<1>3. LayerInv /\ LayerInv' /\ [LogNext]_logVars => [Layer!LayerNext]_(Layer!layerVars)
  BY LayerStep DEF LayerInv, GuardInv, WinInv
<1>4. Init => Layer!LayerInit
  <2> SUFFICES ASSUME Init PROVE Layer!LayerInit
    OBVIOUS
  <2>1. LayerInv
    BY <1>1
  <2>2. \A e \in Entity : Head(e) \in Time
    BY <2>1, HeadIsLatest DEF LayerInv, GuardInv, WinInv, TypeOK
  <2>3. \A w \in Writers : Asked(w) = {}
    BY AskedNothing DEF Init, Idle
  <2> QED BY <2>2, <2>3 DEF Layer!LayerInit
<1> QED BY <1>1, <1>2, <1>3, <1>4, PTL DEF Spec, WritesAreAtomic, Layer!LayerSpec

-----------------------------------------------------------------------------
(* What each step does to its request                                      *)

LEMMA StartMoves ==
    ASSUME TypeOK, NEW w \in Writers, NEW kind \in Kind, NEW on \in SUBSET Entity,
           NEW guarded \in BOOLEAN, Start(w, kind, on, guarded)
    PROVE  /\ writer'[w].pc = "read" /\ writer'[w].held = {}
           /\ \A v \in Writers \ {w} : writer'[v] = writer[v]
           /\ UNCHANGED <<log, counter, clock, draft, snaps>>
<1> DEFINE seen == [e \in Entity |-> IF e \in on THEN Head(e) ELSE 0]
           next == [Idle EXCEPT !.pc = "read", !.kind = kind, !.on = on,
                                !.guarded = guarded, !.seen = seen]
<1>1. seen \in [Entity -> Time]
  BY HeadIsLatest, Times DEF TypeOK
<1> HIDE DEF seen
<1>2. next \in WriterState /\ next.pc = "read" /\ next.held = {}
  BY <1>1, IdleIsWriter DEF Idle, WriterState
<1>3. writer' = [writer EXCEPT ![w] = next]
  BY DEF Start, seen
<1> HIDE DEF next
<1> QED BY <1>2, <1>3, OneMoves DEF Start

LEMMA StartTakes ==
    ASSUME TypeOK, NEW w \in Writers, NEW kind \in Kind, NEW on \in SUBSET Entity,
           NEW guarded \in BOOLEAN, Start(w, kind, on, guarded)
    PROVE  writer'[w].on = on /\ (guarded => writer'[w].guarded)
<1> DEFINE seen == [e \in Entity |-> IF e \in on THEN Head(e) ELSE 0]
           next == [Idle EXCEPT !.pc = "read", !.kind = kind, !.on = on,
                                !.guarded = guarded, !.seen = seen]
<1>1. seen \in [Entity -> Time]
  BY HeadIsLatest, Times DEF TypeOK
<1> HIDE DEF seen
<1>2. next \in WriterState /\ next.on = on /\ (guarded => next.guarded)
  BY <1>1, IdleIsWriter DEF Idle, WriterState
<1>3. writer' = [writer EXCEPT ![w] = next]
  BY DEF Start, seen
<1> HIDE DEF next
<1> QED BY <1>2, <1>3, OneMoves DEF Start

LEMMA BumpMoves ==
    ASSUME TypeOK, NEW w \in Writers, Bump(w)
    PROVE  /\ writer[w].pc = "read" /\ writer'[w].pc = "bumped"
           /\ writer'[w].version = counter + 1 /\ counter' = counter + 1
           /\ writer'[w].held = writer[w].held /\ writer'[w].seen = writer[w].seen
           /\ writer'[w].on = writer[w].on /\ writer'[w].guarded = writer[w].guarded
           /\ \A v \in Writers \ {w} : writer'[v] = writer[v]
           /\ UNCHANGED <<log, clock, draft, snaps>>
<1> DEFINE next == [writer[w] EXCEPT !.pc = "bumped", !.version = counter + 1]
<1>1. writer[w] \in WriterState /\ counter + 1 \in Version
  BY LogAssumption DEF Bump, TypeOK, Version
<1>2. /\ next \in WriterState /\ next.pc = "bumped" /\ next.version = counter + 1
      /\ next.held = writer[w].held /\ next.seen = writer[w].seen
      /\ next.on = writer[w].on /\ next.guarded = writer[w].guarded
  BY <1>1 DEF WriterState
<1>3. writer' = [writer EXCEPT ![w] = next]
  BY <1>1 DEF Bump, WriterState
<1> HIDE DEF next
<1> QED BY <1>2, <1>3, OneMoves DEF Bump

LEMMA StampMoves ==
    ASSUME TypeOK, NEW w \in Writers, Stamp(w)
    PROVE  /\ writer[w].pc = "bumped" /\ writer'[w].pc = "stamped"
           /\ writer'[w].at = clock + 1 /\ clock' = clock + 1
           /\ writer'[w].held = writer[w].held /\ writer'[w].seen = writer[w].seen
           /\ writer'[w].on = writer[w].on /\ writer'[w].guarded = writer[w].guarded
           /\ writer'[w].version = writer[w].version
           /\ \A v \in Writers \ {w} : writer'[v] = writer[v]
           /\ UNCHANGED <<log, counter, draft, snaps>>
<1> DEFINE next == [writer[w] EXCEPT !.pc = "stamped", !.at = clock + 1]
<1>1. writer[w] \in WriterState /\ clock + 1 \in Time
  BY LogAssumption DEF Stamp, TypeOK, Time
<1>2. /\ next \in WriterState /\ next.pc = "stamped" /\ next.at = clock + 1
      /\ next.held = writer[w].held /\ next.seen = writer[w].seen
      /\ next.on = writer[w].on /\ next.guarded = writer[w].guarded
      /\ next.version = writer[w].version
  BY <1>1 DEF WriterState
<1>3. writer' = [writer EXCEPT ![w] = next]
  BY <1>1 DEF Stamp, WriterState
<1> HIDE DEF next
<1> QED BY <1>2, <1>3, OneMoves DEF Stamp

LEMMA LockMoves ==
    ASSUME TypeOK, NEW w \in Writers, NEW e \in Entity, Lock(w, e)
    PROVE  /\ writer[w].pc = "stamped" /\ writer'[w].pc = "stamped"
           /\ writer'[w].held = writer[w].held \cup {e}
           /\ writer'[w].on = writer[w].on /\ writer'[w].seen = writer[w].seen
           /\ writer'[w].version = writer[w].version /\ writer'[w].at = writer[w].at
           /\ writer'[w].kind = writer[w].kind /\ writer'[w].guarded = writer[w].guarded
           /\ \A v \in Writers \ {w} : writer'[v] = writer[v]
           /\ UNCHANGED <<log, counter, clock, draft, snaps>>
<1> DEFINE next == [writer[w] EXCEPT !.held = writer[w].held \cup {e}]
<1>1. writer[w] \in WriterState /\ writer[w].pc = "stamped"
  BY DEF Lock, TypeOK
<1>2. /\ next \in WriterState /\ next.held = writer[w].held \cup {e}
      /\ next.pc = "stamped" /\ next.on = writer[w].on /\ next.seen = writer[w].seen
      /\ next.version = writer[w].version /\ next.at = writer[w].at
      /\ next.kind = writer[w].kind /\ next.guarded = writer[w].guarded
  BY <1>1 DEF WriterState
<1>3. writer' = [writer EXCEPT ![w] = next]
  BY <1>1 DEF Lock, WriterState
<1> HIDE DEF next
<1> QED BY <1>1, <1>2, <1>3, OneMoves DEF Lock

LEMMA IdleMoves ==
    ASSUME TypeOK, NEW w \in Writers, writer' = [writer EXCEPT ![w] = Idle]
    PROVE  /\ writer'[w].pc = "idle" /\ writer'[w].held = {}
           /\ \A v \in Writers \ {w} : writer'[v] = writer[v]
<1>1. Idle.pc = "idle" /\ Idle.held = {}
  BY DEF Idle
<1> QED BY <1>1, IdleIsWriter, OneMoves

LEMMA CheckMoves ==
    ASSUME TypeOK, NEW w \in Writers, Check(w)
    PROVE  /\ \/ writer'[w].pc = "idle" /\ writer'[w].held = {}
              \/ /\ writer'[w].pc = "checked" /\ writer'[w].on = Passes(w)
                 /\ writer'[w].held = writer[w].held /\ writer'[w].seen = writer[w].seen
                 /\ writer'[w].version = writer[w].version
                 /\ writer'[w].at = writer[w].at
                 /\ writer'[w].kind = writer[w].kind
                 /\ writer'[w].guarded = writer[w].guarded
           /\ writer[w].pc = "stamped" /\ Locking(w)
           /\ \A v \in Writers \ {w} : writer'[v] = writer[v]
           /\ UNCHANGED <<log, counter, clock, draft, snaps>>
<1> DEFINE on == Passes(w)
           next == [writer[w] EXCEPT !.pc = "checked", !.on = on]
<1>1. writer[w] \in WriterState /\ writer[w].pc = "stamped" /\ Locking(w)
  BY DEF Check, TypeOK
<1>2. on \subseteq Entity
  BY <1>1 DEF Passes, WriterState
<1> HIDE DEF on
<1>3. /\ next \in WriterState /\ next.pc = "checked" /\ next.on = on
      /\ next.held = writer[w].held /\ next.seen = writer[w].seen
      /\ next.version = writer[w].version /\ next.at = writer[w].at
      /\ next.kind = writer[w].kind /\ next.guarded = writer[w].guarded
  BY <1>1, <1>2 DEF WriterState
<1>4. /\ writer' = [writer EXCEPT ![w] = IF on = {} THEN Idle ELSE next]
      /\ UNCHANGED <<log, counter, clock, draft, snaps>>
  BY DEF Check, on
<1> HIDE DEF next
<1>5. CASE on = {}
  BY <1>1, <1>4, <1>5, IdleMoves
<1>6. CASE on # {}
  BY <1>1, <1>3, <1>4, <1>6, OneMoves DEF on
<1> QED BY <1>5, <1>6

-----------------------------------------------------------------------------
(* Locks in sorted order                                                   *)

\* Only a request in its transaction holds locks, and it waits only for
\* features that come after the ones it holds.
LockOrder ==
    /\ \A w \in Writers : writer[w].held # {} =>
          writer[w].pc \in {"stamped", "checked"} /\ Locking(w)
    /\ \A w \in Writers : writer[w].pc = "stamped" =>
          \A h \in writer[w].held, x \in Wanted(w) : h < x

\* A step that leaves every request without a lock or as it was.
LEMMA NoNewLock ==
    ASSUME LockOrder, NEW w \in Writers,
           writer'[w].held = {} \/ (writer'[w].pc = "checked" /\ Locking(w)'),
           \A v \in Writers \ {w} : writer'[v] = writer[v]
    PROVE  LockOrder'
BY DEF LockOrder, Wanted, Locking

LEMMA LockOrderNext ==
    ASSUME TypeOK, LockOrder, [LogNext]_logVars
    PROVE  LockOrder'
<1>1. CASE writer' = writer
  BY <1>1 DEF LockOrder, Wanted, Locking
<1>2. ASSUME NEW w \in Writers, Writing(w) PROVE LockOrder'
  <2>1. ASSUME NEW on \in SUBSET Entity, InsertFeatures(w, on) \/ CalculateField(w, on)
        PROVE  LockOrder'
    <3>1. "create" \in Kind /\ "update" \in Kind
      BY DEF Kind
    <3> QED BY <2>1, <3>1, StartMoves, NoNewLock DEF InsertFeatures, CalculateField
  <2>2. ASSUME NEW e \in Entity, NEW guarded \in Guarding,
               UpdateFeature(w, e, guarded) \/ DeleteFeature(w, e, guarded)
        PROVE  LockOrder'
    <3>1. /\ "update" \in Kind /\ "delete" \in Kind
          /\ {e} \in SUBSET Entity /\ guarded \in BOOLEAN
      BY LogAssumption DEF Kind
    <3> QED BY <2>2, <3>1, StartMoves, NoNewLock DEF UpdateFeature, DeleteFeature
  <2>3. CASE Bump(w)
    <3>1. writer[w].held = {}
      BY <2>3, BumpMoves DEF LockOrder
    <3> QED BY <2>3, <3>1, BumpMoves, NoNewLock
  <2>4. CASE Stamp(w)
    <3>1. writer[w].held = {}
      BY <2>4, StampMoves DEF LockOrder
    <3> QED BY <2>4, <3>1, StampMoves, NoNewLock
  <2>5. ASSUME NEW e \in Entity, Lock(w, e) PROVE LockOrder'
    <3>1. /\ writer'[w].pc = "stamped" /\ writer[w].pc = "stamped"
          /\ writer'[w].held = writer[w].held \cup {e}
          /\ writer'[w].on = writer[w].on
          /\ writer'[w].kind = writer[w].kind /\ writer'[w].guarded = writer[w].guarded
          /\ \A v \in Writers \ {w} : writer'[v] = writer[v]
      BY <2>5, LockMoves
    <3>2. Locking(w) /\ e \in Wanted(w) /\ \A x \in Wanted(w) : e <= x
      BY <2>5 DEF Lock, Takes
    <3>3. Wanted(w)' \subseteq Wanted(w) \ {e} /\ Wanted(w) \subseteq Nat
      BY <3>1 DEF Wanted, TypeOK, WriterState, Entity
    <3>4. \A h \in writer'[w].held, x \in Wanted(w)' : h < x
      BY <3>1, <3>2, <3>3 DEF LockOrder
    <3> QED BY <3>1, <3>2, <3>4 DEF LockOrder, Wanted, Locking
  <2>6. CASE Check(w)
    <3>1. writer'[w].pc = "checked" => Locking(w)'
      BY <2>6, CheckMoves DEF Locking
    <3> QED BY <2>6, <3>1, CheckMoves, NoNewLock
  <2>7. CASE Store(w) \/ GiveUp(w)
    BY <2>7, IdleMoves, NoNewLock DEF Store, GiveUp
  <2> QED BY <1>2, <2>1, <2>2, <2>3, <2>4, <2>5, <2>6, <2>7 DEF Writing
<1> QED BY <1>1, <1>2 DEF LogNext, logVars, Import, Structure, OpenStructure,
                          SaveStructure, Revert, ReplaceData

\* Of the requests that wait, the one that waits for the greatest feature waits
\* for nobody: whoever held it would wait for a greater one.
LEMMA TheFurthestProceeds ==
    ASSUME TypeOK, LockOrder
    PROVE  SomeoneProceeds
<1> DEFINE Waits(w) == writer[w].pc = "stamped" /\ Locking(w)
           Next(w, e) == e \in Wanted(w) /\ \A x \in Wanted(w) : e <= x
           S == {e \in Entity : \E w \in Writers : Waits(w) /\ Next(w, e)}
<1> SUFFICES ASSUME NEW u \in Writers, Waits(u),
                    \A w \in Writers : /\ writer[w].pc # "checked"
                                       /\ Waits(w) => Wanted(w) # {}
                                       /\ Waits(w) => \A e \in Entity : ~Takes(w, e)
             PROVE  FALSE
  BY DEF SomeoneProceeds
<1>1. \A w \in Writers : Wanted(w) \subseteq Entity
  BY DEF TypeOK, WriterState, Wanted
<1>2. ASSUME NEW w \in Writers, Waits(w) PROVE \E e \in Entity : Next(w, e)
  <2>1. Wanted(w) # {} /\ Wanted(w) \subseteq Entity
    BY <1>1, <1>2
  <2>2. PICK e \in Wanted(w) : \A x \in Wanted(w) : e <= x
    BY <2>1, LeastEntity
  <2> QED BY <2>1, <2>2
<1>3. S # {}
  BY <1>2
<1>4. PICK m \in S : \A x \in S : x <= m
  <2> HIDE DEF S
  <2>1. S \subseteq Entity
    BY DEF S
  <2> QED BY <1>3, <2>1, GreatestEntity
<1>5. PICK w \in Writers : Waits(w) /\ Next(w, m)
  OBVIOUS
<1>6. PICK v \in Writers : m \in writer[v].held
  BY <1>5 DEF Takes
<1>7. Waits(v)
  BY <1>6 DEF LockOrder
<1>8. PICK n \in Entity : Next(v, n)
  BY <1>2, <1>7
<1>9. m < n
  BY <1>6, <1>7, <1>8 DEF LockOrder
<1>10. n \in S /\ m \in Nat /\ n \in Nat
  BY <1>7, <1>8 DEF Entity
<1>11. n <= m
  BY <1>4, <1>10
<1> HIDE DEF S
<1> QED BY <1>9, <1>10, <1>11

\* Overlapping batches never wait for each other in a ring, whatever the
\* batches and however many requests there are (data-layer.ts
\* writeFeaturesCreateIdempotent takes its locks in sorted order).
THEOREM LocksNeverDeadlock == Spec => []SomeoneProceeds
<1>1. Init => LockOrder
  BY DEF Init, LockOrder, Idle
<1>2. WinInv /\ LockOrder /\ [LogNext]_logVars => LockOrder'
  BY LockOrderNext DEF WinInv
<1>3. WinInv /\ LockOrder => SomeoneProceeds
  BY TheFurthestProceeds DEF WinInv
<1> QED BY <1>1, <1>2, <1>3, WinInit, WinNext, PTL DEF Spec

-----------------------------------------------------------------------------
(* Versions in the order of time                                           *)

Bumped(w) == writer[w].pc \in {"bumped", "stamped", "checked"}
Stamped(w) == writer[w].pc \in {"stamped", "checked"}

\* The counter is past every version taken from it.
VersionsCounted ==
    /\ \A o \in log : o.version <= counter
    /\ \A w \in Writers : Bumped(w) => writer[w].version <= counter

\* A request has a greater version than every row, stored or on its way, that
\* was stamped no later than what the request has read.
VersionsPast ==
    \A w \in Writers, e \in Entity : Bumped(w) =>
       /\ \A o \in log : o.at <= writer[w].seen[e] => o.version < writer[w].version
       /\ \A v \in Writers : Stamped(v) /\ writer[v].at <= writer[w].seen[e]
             => writer[v].version < writer[w].version

\* No guarded row of a feature is later than the head with which a guarded
\* request has passed its check.
GuardedPast ==
    \A w \in Writers : writer[w].pc = "checked" /\ writer[w].guarded =>
        \A e \in writer[w].on : \A o \in log :
            o.guarded /\ o.entity = e => o.at <= writer[w].seen[e]

\* Nobody has put the counter back.
NobodyEdits == draft = NoDraft /\ snaps = {}

OrderInv == VersionsCounted /\ VersionsPast /\ GuardedPast /\ NobodyEdits
            /\ VersionsFollowTime

LEMMA Numbers ==
    ASSUME TypeOK
    PROVE  /\ counter \in Nat /\ clock \in Nat
           /\ \A o \in log : o.at \in Nat /\ o.version \in Nat
           /\ \A w \in Writers : /\ writer[w].at \in Nat /\ writer[w].version \in Nat
                                 /\ \A e \in Entity : writer[w].seen[e] \in Nat
<1>1. counter \in Nat /\ clock \in Nat
  BY Times DEF TypeOK
<1>2. \A o \in log : o.at \in Nat /\ o.version \in Nat
  BY Times DEF TypeOK, Observation
<1>3. ASSUME NEW w \in Writers
      PROVE  /\ writer[w].at \in Nat /\ writer[w].version \in Nat
             /\ \A e \in Entity : writer[w].seen[e] \in Nat
  BY Times DEF TypeOK, WriterState
<1> QED BY <1>1, <1>2, <1>3

\* A request that has not bumped yet, or is as bumped and stamped as it was.
LEMMA OrderMove ==
    ASSUME OrderInv, NEW w \in Writers, UNCHANGED <<log, counter, draft, snaps>>,
           \A v \in Writers \ {w} : writer'[v] = writer[v],
           Bumped(w)' => /\ Bumped(w) /\ writer'[w].version = writer[w].version
                         /\ writer'[w].seen = writer[w].seen,
           Stamped(w)' => Stamped(w) /\ writer'[w].at = writer[w].at,
           writer'[w].pc = "checked" /\ writer'[w].guarded =>
              \A e \in writer'[w].on : \A o \in log :
                  o.guarded /\ o.entity = e => o.at <= writer'[w].seen[e]
    PROVE  OrderInv'
<1>1. VersionsCounted'
  BY DEF OrderInv, VersionsCounted, Bumped
<1>2. VersionsPast'
  <2> SUFFICES ASSUME NEW u \in Writers, NEW e \in Entity, Bumped(u)'
               PROVE  /\ \A o \in log : o.at <= writer'[u].seen[e] =>
                            o.version < writer'[u].version
                      /\ \A v \in Writers : Stamped(v)' /\ writer'[v].at <= writer'[u].seen[e]
                            => writer'[v].version < writer'[u].version
    BY DEF VersionsPast
  <2>1. Bumped(u) /\ writer'[u].version = writer[u].version /\ writer'[u].seen = writer[u].seen
    BY DEF Bumped
  <2>2. ASSUME NEW v \in Writers, Stamped(v)'
        PROVE  Stamped(v) /\ writer'[v].at = writer[v].at /\ writer'[v].version = writer[v].version
    BY <2>2 DEF Stamped, Bumped
  <2> QED BY <2>1, <2>2 DEF OrderInv, VersionsPast
<1>3. GuardedPast'
  BY DEF OrderInv, GuardedPast
<1>4. NobodyEdits' /\ VersionsFollowTime'
  BY DEF OrderInv, NobodyEdits, VersionsFollowTime
<1> QED BY <1>1, <1>2, <1>3, <1>4 DEF OrderInv

LEMMA OrderStart ==
    ASSUME WinInv, OrderInv, NEW w \in Writers, NEW kind \in Kind,
           NEW on \in SUBSET Entity, NEW guarded \in BOOLEAN, Start(w, kind, on, guarded)
    PROVE  OrderInv'
<1>1. /\ writer'[w].pc = "read"
      /\ \A v \in Writers \ {w} : writer'[v] = writer[v]
      /\ UNCHANGED <<log, counter, draft, snaps>>
  BY StartMoves DEF WinInv
<1>2. ~Bumped(w)' /\ ~Stamped(w)'
  BY <1>1 DEF Bumped, Stamped
<1> QED BY <1>1, <1>2, OrderMove

\* The version taken is greater than every one before it.
LEMMA OrderBump ==
    ASSUME WinInv, OrderInv, NEW w \in Writers, Bump(w)
    PROVE  OrderInv'
<1>1. /\ writer'[w].pc = "bumped"
      /\ writer'[w].version = counter + 1 /\ counter' = counter + 1
      /\ \A v \in Writers \ {w} : writer'[v] = writer[v]
      /\ UNCHANGED <<log, draft, snaps>>
  BY BumpMoves DEF WinInv
<1>2. TypeOK
  BY DEF WinInv
<1>3. VersionsCounted'
  BY <1>1, <1>2, Numbers DEF OrderInv, VersionsCounted, Bumped
<1>4. VersionsPast'
  <2>1. ~Stamped(w)' /\ \A v \in Writers \ {w} : Stamped(v)' = Stamped(v)
    BY <1>1 DEF Stamped
  <2>2. \A v \in Writers : Stamped(v)' => v # w /\ Stamped(v) /\ Bumped(v)
    BY <2>1 DEF Stamped, Bumped
  <2>3. \A e \in Entity :
           /\ \A o \in log : o.version < counter + 1
           /\ \A v \in Writers : Stamped(v)' => writer'[v].version < counter + 1
    BY <1>1, <1>2, <2>2, Numbers DEF OrderInv, VersionsCounted
  <2>4. ASSUME NEW u \in Writers, u # w, Bumped(u)', NEW e \in Entity
        PROVE  /\ \A o \in log : o.at <= writer'[u].seen[e] =>
                      o.version < writer'[u].version
               /\ \A v \in Writers : Stamped(v)' /\ writer'[v].at <= writer'[u].seen[e]
                      => writer'[v].version < writer'[u].version
    <3>1. Bumped(u) /\ writer'[u] = writer[u]
      BY <1>1, <2>4 DEF Bumped
    <3> QED BY <1>1, <2>2, <3>1 DEF OrderInv, VersionsPast
  <2> QED BY <1>1, <2>3, <2>4 DEF VersionsPast
<1>5. GuardedPast'
  BY <1>1 DEF OrderInv, GuardedPast
<1>6. NobodyEdits' /\ VersionsFollowTime'
  BY <1>1 DEF OrderInv, NobodyEdits, VersionsFollowTime
<1> QED BY <1>3, <1>4, <1>5, <1>6 DEF OrderInv

\* The time taken is later than everything read so far.
LEMMA OrderStamp ==
    ASSUME WinInv, OrderInv, NEW w \in Writers, Stamp(w)
    PROVE  OrderInv'
<1>1. /\ writer[w].pc = "bumped" /\ writer'[w].pc = "stamped"
      /\ writer'[w].at = clock + 1
      /\ writer'[w].seen = writer[w].seen /\ writer'[w].version = writer[w].version
      /\ \A v \in Writers \ {w} : writer'[v] = writer[v]
      /\ UNCHANGED <<log, counter, draft, snaps>>
  BY StampMoves DEF WinInv
<1>2. TypeOK
  BY DEF WinInv
<1>3. VersionsCounted'
  BY <1>1 DEF OrderInv, VersionsCounted, Bumped
<1>4. VersionsPast'
  <2> SUFFICES ASSUME NEW u \in Writers, NEW e \in Entity, Bumped(u)'
               PROVE  /\ \A o \in log : o.at <= writer'[u].seen[e] =>
                            o.version < writer'[u].version
                      /\ \A v \in Writers : Stamped(v)' /\ writer'[v].at <= writer'[u].seen[e]
                            => writer'[v].version < writer'[u].version
    BY <1>1 DEF VersionsPast
  <2>1. Bumped(u) /\ writer'[u].version = writer[u].version /\ writer'[u].seen = writer[u].seen
    BY <1>1 DEF Bumped
  <2>2. ~(clock + 1 <= writer[u].seen[e])
    BY <1>2, Numbers DEF WinInv, SeesThePast
  <2>3. ASSUME NEW v \in Writers, v # w, Stamped(v)'
        PROVE  Stamped(v) /\ writer'[v] = writer[v]
    BY <1>1, <2>3 DEF Stamped
  <2> QED BY <1>1, <2>1, <2>2, <2>3 DEF OrderInv, VersionsPast
<1>5. GuardedPast'
  BY <1>1 DEF OrderInv, GuardedPast
<1>6. NobodyEdits' /\ VersionsFollowTime'
  BY <1>1 DEF OrderInv, NobodyEdits, VersionsFollowTime
<1> QED BY <1>3, <1>4, <1>5, <1>6 DEF OrderInv

LEMMA OrderLock ==
    ASSUME WinInv, OrderInv, NEW w \in Writers, NEW e \in Entity, Lock(w, e)
    PROVE  OrderInv'
<1>1. /\ writer[w].pc = "stamped" /\ writer'[w].pc = "stamped"
      /\ writer'[w].seen = writer[w].seen /\ writer'[w].at = writer[w].at
      /\ writer'[w].version = writer[w].version
      /\ \A v \in Writers \ {w} : writer'[v] = writer[v]
      /\ UNCHANGED <<log, counter, draft, snaps>>
  BY LockMoves DEF WinInv
<1>2. Bumped(w) /\ Stamped(w)
  BY <1>1 DEF Bumped, Stamped
<1> QED BY <1>1, <1>2, OrderMove

\* The head is the one read, so that no row is later.
LEMMA OrderCheck ==
    ASSUME WinInv, OrderInv, NEW w \in Writers, Check(w)
    PROVE  OrderInv'
<1>1. /\ \/ writer'[w].pc = "idle"
         \/ /\ writer'[w].pc = "checked" /\ writer'[w].on = Passes(w)
            /\ writer'[w].seen = writer[w].seen
            /\ writer'[w].version = writer[w].version
            /\ writer'[w].at = writer[w].at
            /\ writer'[w].guarded = writer[w].guarded
      /\ writer[w].pc = "stamped"
      /\ \A v \in Writers \ {w} : writer'[v] = writer[v]
      /\ UNCHANGED <<log, counter, draft, snaps>>
  BY CheckMoves DEF WinInv
<1>2. Bumped(w) /\ Stamped(w)
  BY <1>1 DEF Bumped, Stamped
<1>3. /\ Bumped(w)' => /\ writer'[w].version = writer[w].version
                       /\ writer'[w].seen = writer[w].seen
      /\ Stamped(w)' => writer'[w].at = writer[w].at
  BY <1>1 DEF Bumped, Stamped
<1>4. ASSUME writer'[w].pc = "checked", writer'[w].guarded, NEW e \in writer'[w].on,
             NEW o \in log, o.guarded, o.entity = e
      PROVE  o.at <= writer'[w].seen[e]
  <2>1. writer[w].guarded /\ e \in Passes(w) /\ writer'[w].seen = writer[w].seen
    BY <1>1, <1>4
  <2>2. writer[w].kind # "create"
    BY <2>1 DEF WinInv, LockDiscipline
  <2>3. Head(e) = writer[w].seen[e] /\ e \in Entity
    BY <2>1, <2>2 DEF Passes, WinInv, TypeOK, WriterState
  <2>4. o \in Of(e) /\ log \subseteq Observation
    BY <1>4 DEF Of, WinInv, TypeOK
  <2> QED BY <2>1, <2>3, <2>4, HeadIsLatest
<1> QED BY <1>1, <1>2, <1>3, <1>4, OrderMove

\* A guarded row is stored after all the guarded rows its author has read, and
\* there are no others: it has both the latest time and the greatest version.
LEMMA OrderStore ==
    ASSUME WinInv, OrderInv, NEW w \in Writers, Store(w)
    PROVE  OrderInv'
<1> DEFINE new == Written(w)
<1>1. /\ Stamped(w) /\ Bumped(w)
      /\ writer[w].guarded => writer[w].pc = "checked"
  BY DEF Store, Locking, Stamped, Bumped
<1>2. /\ log' = log \cup new
      /\ UNCHANGED <<counter, draft, snaps>>
      /\ writer'[w].pc = "idle"
      /\ \A v \in Writers \ {w} : writer'[v] = writer[v]
  BY IdleMoves DEF Store, WinInv
<1>3. \A o \in new : /\ o.entity \in writer[w].on /\ o.entity \in Entity
                     /\ o.at = writer[w].at /\ o.version = writer[w].version
                     /\ o.guarded = writer[w].guarded
  BY WrittenRows DEF Observation
<1> HIDE DEF new
<1>4. ASSUME NEW v \in Writers, Bumped(v)'
      PROVE  v # w /\ Bumped(v) /\ writer'[v] = writer[v]
  BY <1>2, <1>4 DEF Bumped
<1>5. VersionsCounted'
  BY <1>1, <1>2, <1>3, <1>4 DEF OrderInv, VersionsCounted
<1>6. VersionsPast'
  <2> SUFFICES ASSUME NEW u \in Writers, NEW e \in Entity, Bumped(u)'
               PROVE  /\ \A o \in log' : o.at <= writer'[u].seen[e] =>
                            o.version < writer'[u].version
                      /\ \A v \in Writers : Stamped(v)' /\ writer'[v].at <= writer'[u].seen[e]
                            => writer'[v].version < writer'[u].version
    BY <1>2 DEF VersionsPast
  <2>1. Bumped(u) /\ writer'[u] = writer[u]
    BY <1>4
  <2>2. \A o \in log' : o.at <= writer'[u].seen[e] => o.version < writer'[u].version
    BY <1>1, <1>2, <1>3, <2>1 DEF OrderInv, VersionsPast
  <2>3. ASSUME NEW v \in Writers, Stamped(v)' PROVE Stamped(v) /\ writer'[v] = writer[v]
    <3>1. Bumped(v)'
      BY <2>3 DEF Stamped, Bumped
    <3>2. writer'[v] = writer[v]
      BY <1>4, <3>1
    <3> QED BY <2>3, <3>2 DEF Stamped
  <2> QED BY <2>1, <2>2, <2>3 DEF OrderInv, VersionsPast
<1>7. GuardedPast'
  <2> SUFFICES ASSUME NEW v \in Writers, writer'[v].pc = "checked", writer'[v].guarded,
                      NEW e \in writer'[v].on, NEW o \in log', o.guarded, o.entity = e
               PROVE  o.at <= writer'[v].seen[e]
    BY DEF GuardedPast
  <2>1. v # w /\ writer'[v] = writer[v]
    BY <1>2
  <2>2. ASSUME o \in new PROVE FALSE
    <3>1. e \in writer[w].held
      BY <1>1, <1>3, <2>2 DEF WinInv, LockDiscipline
    <3>2. e \in writer[v].held
      BY <2>1 DEF WinInv, LockDiscipline
    <3> QED BY <2>1, <3>1, <3>2 DEF WinInv, LockDiscipline
  <2> QED BY <1>2, <2>1, <2>2 DEF OrderInv, GuardedPast
<1>8. VersionsFollowTime'
  <2> SUFFICES ASSUME NEW o \in log', NEW x \in log', o.guarded, x.guarded,
                      o.entity = x.entity, o.at < x.at
               PROVE  o.version < x.version
    BY DEF VersionsFollowTime
  <2>1. ASSUME NEW a \in new, a.guarded, NEW b \in log, b.guarded, a.entity = b.entity
        PROVE  b.at < a.at /\ b.version < a.version
    <3>1. b.at <= writer[w].seen[a.entity]
      BY <1>1, <1>3, <2>1 DEF OrderInv, GuardedPast
    <3>2. writer[w].seen[a.entity] < writer[w].at
      BY <1>1, <1>3, <2>1 DEF WinInv, SeesThePast
    <3>3. b.version < writer[w].version
      BY <1>1, <1>3, <2>1, <3>1 DEF OrderInv, VersionsPast
    <3>4. b.at \in Nat /\ writer[w].seen[a.entity] \in Nat /\ writer[w].at \in Nat
      BY <1>3, <2>1, Numbers DEF WinInv
    <3> QED BY <1>3, <2>1, <3>1, <3>2, <3>3, <3>4
  <2>2. \A a \in new : a.at \in Nat /\ a.version \in Nat
    BY <1>3, Numbers DEF WinInv
  <2>3. \A b \in log : b.at \in Nat
    BY Numbers DEF WinInv
  <2>4. CASE o \in log /\ x \in log
    BY <2>4 DEF OrderInv, VersionsFollowTime
  <2>5. CASE o \in log /\ x \in new
    BY <2>1, <2>5
  <2>6. CASE o \in new /\ x \in log
    <3>1. x.at < o.at
      BY <2>1, <2>6
    <3> QED BY <2>2, <2>3, <2>6, <3>1
  <2>7. CASE o \in new /\ x \in new
    BY <1>3, <2>2, <2>7
  <2> QED BY <1>2, <2>4, <2>5, <2>6, <2>7
<1>9. NobodyEdits'
  BY <1>2 DEF OrderInv, NobodyEdits
<1> QED BY <1>5, <1>6, <1>7, <1>8, <1>9 DEF OrderInv

LEMMA OrderImport ==
    ASSUME WinInv, OrderInv, NEW on \in SUBSET Entity, Import(on)
    PROVE  OrderInv'
<1> DEFINE new == {[entity |-> e, kind |-> "create", at |-> clock + 1, version |-> 0,
                    base |-> 0, guarded |-> FALSE] : e \in on}
<1>1. \A o \in new : o.at = clock + 1 /\ o.version = 0 /\ ~o.guarded
  OBVIOUS
<1>2. log' = log \cup new /\ UNCHANGED <<counter, writer, draft, snaps>>
  BY DEF Import
<1> HIDE DEF new
<1>3. TypeOK
  BY DEF WinInv
<1>4. \A w \in Writers : Bumped(w)' = Bumped(w) /\ Stamped(w)' = Stamped(w)
  BY <1>2 DEF Bumped, Stamped
<1>5. VersionsCounted'
  BY <1>1, <1>2, <1>3, <1>4, Numbers DEF OrderInv, VersionsCounted
<1>6. VersionsPast'
  <2>1. \A w \in Writers, e \in Entity : ~(clock + 1 <= writer[w].seen[e])
    BY <1>3, Numbers DEF WinInv, SeesThePast
  <2> QED BY <1>1, <1>2, <1>4, <2>1 DEF OrderInv, VersionsPast
<1>7. GuardedPast' /\ VersionsFollowTime' /\ NobodyEdits'
  BY <1>1, <1>2 DEF OrderInv, GuardedPast, VersionsFollowTime, NobodyEdits
<1> QED BY <1>5, <1>6, <1>7 DEF OrderInv

LEMMA OrderNext == ~SchemaEdits /\ WinInv /\ OrderInv /\ [LogNext]_logVars => OrderInv'
<1> SUFFICES ASSUME ~SchemaEdits, WinInv, OrderInv, [LogNext]_logVars
             PROVE  OrderInv'
  OBVIOUS
<1>1. CASE UNCHANGED logVars
  BY <1>1 DEF logVars, OrderInv, VersionsCounted, VersionsPast, GuardedPast, NobodyEdits,
              VersionsFollowTime, Bumped, Stamped
<1>2. ASSUME NEW w \in Writers, Writing(w) PROVE OrderInv'
  <2>1. ASSUME NEW on \in SUBSET Entity, InsertFeatures(w, on) \/ CalculateField(w, on)
        PROVE  OrderInv'
    <3>1. "create" \in Kind /\ "update" \in Kind
      BY DEF Kind
    <3> QED BY <2>1, <3>1, OrderStart DEF InsertFeatures, CalculateField
  <2>2. ASSUME NEW e \in Entity, NEW guarded \in Guarding,
               UpdateFeature(w, e, guarded) \/ DeleteFeature(w, e, guarded)
        PROVE  OrderInv'
    <3>1. /\ "update" \in Kind /\ "delete" \in Kind
          /\ {e} \in SUBSET Entity /\ guarded \in BOOLEAN
      BY LogAssumption DEF Kind
    <3> QED BY <2>2, <3>1, OrderStart DEF UpdateFeature, DeleteFeature
  <2>3. CASE GiveUp(w)
    <3>1. /\ writer'[w].pc = "idle" /\ UNCHANGED <<log, counter, draft, snaps>>
          /\ \A v \in Writers \ {w} : writer'[v] = writer[v]
      BY <2>3, IdleMoves DEF GiveUp, WinInv
    <3>2. ~Bumped(w)' /\ ~Stamped(w)'
      BY <3>1 DEF Bumped, Stamped
    <3> QED BY <3>1, <3>2, OrderMove
  <2> QED BY <1>2, <2>1, <2>2, <2>3, OrderBump, OrderStamp, OrderLock, OrderCheck,
             OrderStore DEF Writing
<1>3. ~Structure
  BY DEF Structure, OpenStructure, SaveStructure, Revert, OrderInv, NobodyEdits
<1> QED BY <1>1, <1>2, <1>3, OrderImport DEF LogNext

\* While nobody puts an older counter back, guarded rows of a feature have the
\* order of their versions in their time too, whatever unguarded writes and
\* imports do meanwhile: a delta, which lists by version, and a reader, who
\* goes by time, agree on the last one (features.service.ts updateFeature bumps
\* before it stamps; engine.service.ts writeIfHead).
THEOREM VersionsAreInOrder == ~SchemaEdits => (Spec => []VersionsFollowTime)
<1> SUFFICES ASSUME ~SchemaEdits PROVE Spec => []VersionsFollowTime
  OBVIOUS
<1>1. Init => OrderInv
  <2> SUFFICES ASSUME Init PROVE OrderInv
    OBVIOUS
  <2>1. \A o \in log : o.version = 0 /\ ~o.guarded
    BY DEF Init
  <2>2. \A w \in Writers : writer[w].pc = "idle"
    BY DEF Init, Idle
  <2>3. counter = 0 /\ draft = NoDraft /\ snaps = {}
    BY DEF Init
  <2> QED BY <2>1, <2>2, <2>3 DEF OrderInv, VersionsCounted, VersionsPast, GuardedPast,
             NobodyEdits, VersionsFollowTime, Bumped
<1>2. WinInv /\ OrderInv /\ [LogNext]_logVars => OrderInv'
  BY OrderNext
<1>3. OrderInv => VersionsFollowTime
  BY DEF OrderInv
<1> QED BY <1>1, <1>2, <1>3, WinInit, WinNext, PTL DEF Spec

-----------------------------------------------------------------------------
(* A device's copy of the layer                                            *)

\* The last of some rows, in the order a delta lists them.
LEMMA LastExists ==
    ASSUME NEW S \in SUBSET Observation, S # {}
    PROVE  \E o \in S : \A x \in S : Precedes(x, o)
<1>1. \A o \in S : o.version \in Version /\ o.at \in Time
  BY DEF Observation
<1>2. PICK o \in S : \A x \in S : x.version <= o.version
  <2> DEFINE V == {x.version : x \in S}
  <2>1. V \in SUBSET (0..MaxVersion) /\ V # {} /\ MaxVersion \in Nat
    BY <1>1, LogAssumption DEF Version
  <2>2. PICK n \in V : \A m \in V : m <= n
    <3> HIDE DEF V
    <3> QED BY <2>1, GreatestOf
  <2> QED BY <2>2
<1>3. PICK p \in S : /\ p.version = o.version
                     /\ \A x \in S : x.version = o.version => x.at <= p.at
  <2> DEFINE A == {x.at : x \in {y \in S : y.version = o.version}}
  <2>1. A \in SUBSET Time /\ A # {}
    BY <1>1
  <2>2. PICK n \in A : \A m \in A : m <= n
    BY <2>1, LatestTime
  <2> QED BY <2>2
<1>4. ASSUME NEW x \in S PROVE Precedes(x, p)
  <2>1. /\ x.version <= p.version /\ x.version \in Nat /\ p.version \in Nat
        /\ x.version = p.version => x.at <= p.at
    BY <1>1, <1>2, <1>3, Times
  <2> QED BY <2>1 DEF Precedes
<1> QED BY <1>4

LEMMA LastOnPage ==
    ASSUME NEW page \in SUBSET Observation, NEW e, \E o \in page : o.entity = e
    PROVE  /\ LastOn(page, e) \in page /\ LastOn(page, e).entity = e
           /\ \A x \in page : x.entity = e => Precedes(x, LastOn(page, e))
<1> DEFINE S == {o \in page : o.entity = e}
<1>1. \E o \in S : \A x \in S : Precedes(x, o)
  BY LastExists
<1>2. \E o \in page : o.entity = e /\ \A x \in page : x.entity = e => Precedes(x, o)
  BY <1>1
<1> QED BY <1>2 DEF LastOn

LEMMA NextSinceOnPage ==
    ASSUME NEW page \in SUBSET Observation, page # {}
    PROVE  \E o \in page : o.version = NextSince(page) /\ \A x \in page : Precedes(x, o)
<1>1. \E o \in page : \A x \in page : Precedes(x, o)
  BY LastExists
<1> QED BY <1>1 DEF NextSince

\* A refresh does not touch the log, and the log does not touch a refresh.
LEMMA DeltaSteps ==
    ASSUME [LogStep \/ Refresh]_vars
    PROVE  /\ [LogNext]_logVars
           /\ \/ Refresh /\ UNCHANGED logVars
              \/ UNCHANGED <<cache, cursor, pull>> /\ (LogStep \/ UNCHANGED vars)
<1>1. CASE LogStep
  BY <1>1 DEF LogStep
<1>2. CASE Refresh
  BY <1>2 DEF Refresh, StartRefresh, FullRead, Seed, SeedMissed, Query, Answer,
              SaveManifest, FailRefresh
<1>3. CASE UNCHANGED vars
  BY <1>3 DEF vars, deltaVars
<1> QED BY <1>1, <1>2, <1>3

\* What a page holds, and how a refresh goes on; each a record of its own.
LEMMA PullFields ==
    ASSUME pull \in Pull, NEW page \in SUBSET Observation, NEW cut \in BOOLEAN,
           NEW v \in Version
    PROVE  /\ [pull EXCEPT !.pc = "seed"] \in Pull
           /\ [pull EXCEPT !.pc = "save", !.head = v] \in Pull
           /\ [pull EXCEPT !.pc = "answer", !.page = page, !.truncated = cut] \in Pull
           /\ NoPull \in Pull
           /\ [NoPull EXCEPT !.pc = "full"] \in Pull
           /\ [NoPull EXCEPT !.pc = "ask", !.since = v] \in Pull
           /\ [NoPull EXCEPT !.pc = "save", !.head = v] \in Pull
BY Times DEF Pull, NoPull

\* There are only so many rows: a table has a size.
LEMMA RowsAreFinite == IsFiniteSet(Observation)
<1> DEFINE A == Entity \X Kind
           B == Time \X Version
           C == Time \X BOOLEAN
           D == A \X B
           P == D \X C
           f == [p \in P |-> [entity |-> p[1][1][1], kind |-> p[1][1][2],
                              at |-> p[1][2][1], version |-> p[1][2][2],
                              base |-> p[2][1], guarded |-> p[2][2]]]
<1>1. IsFiniteSet(Entity) /\ IsFiniteSet(Time) /\ IsFiniteSet(Version)
  BY LogAssumption, FS_Interval DEF Entity, Time, Version
<1>2. IsFiniteSet(Kind) /\ IsFiniteSet(BOOLEAN)
  <2>1. IsFiniteSet({"create"} \cup {"update"} \cup {"delete"})
    BY FS_Singleton, FS_AddElement
  <2>2. IsFiniteSet({TRUE} \cup {FALSE})
    BY FS_Singleton, FS_AddElement
  <2>3. Kind = {"create"} \cup {"update"} \cup {"delete"} /\ BOOLEAN = {TRUE} \cup {FALSE}
    BY DEF Kind
  <2> QED BY <2>1, <2>2, <2>3
<1>3. IsFiniteSet(A) /\ IsFiniteSet(B) /\ IsFiniteSet(C)
  BY <1>1, <1>2, FS_Product
<1>4. IsFiniteSet(D)
  <2> HIDE DEF A, B
  <2> QED BY <1>3, FS_Product
<1>5. IsFiniteSet(P)
  <2> HIDE DEF C, D
  <2> QED BY <1>3, <1>4, FS_Product
<1>6. f \in [P -> Observation]
  BY DEF Observation
<1>7. ASSUME NEW o \in Observation PROVE \E p \in P : f[p] = o
  <2> DEFINE p == <<<<<<o.entity, o.kind>>, <<o.at, o.version>>>>, <<o.base, o.guarded>>>>
  <2>1. p \in P
    BY DEF Observation
  <2>2. f[p] = [entity |-> o.entity, kind |-> o.kind, at |-> o.at, version |-> o.version,
                base |-> o.base, guarded |-> o.guarded]
    BY <2>1
  <2>3. o = [entity |-> o.entity, kind |-> o.kind, at |-> o.at, version |-> o.version,
             base |-> o.base, guarded |-> o.guarded]
    BY DEF Observation
  <2> QED BY <2>1, <2>2, <2>3
<1>8. f \in Surjection(P, Observation)
  BY <1>6, <1>7 DEF Surjection
<1> HIDE DEF P, f
<1> QED BY <1>5, <1>8, FS_Surjection

LEMMA LeastOfTwo ==
    ASSUME NEW a \in Nat, NEW b \in Nat
    PROVE  /\ AtMost(a, b) \in Nat /\ AtMost(a, b) <= a /\ AtMost(a, b) <= b
           /\ AtMost(a, b) = a \/ AtMost(a, b) = b
BY DEF AtMost

\* A page is the beginning of the rows, and all of them when they fit.
LEMMA PageIsAStart ==
    ASSUME NEW rows \in SUBSET Observation, NEW n \in Nat \ {0},
           NEW page \in FirstOf(rows, n)
    PROVE  /\ page \subseteq rows /\ IsFiniteSet(rows) /\ Cardinality(rows) \in Nat
           /\ Cardinality(rows) <= n => page = rows
           /\ rows # {} => page # {}
           /\ \A o \in page, x \in rows \ page : Precedes(o, x)
<1>1. IsFiniteSet(rows) /\ Cardinality(rows) \in Nat
  BY RowsAreFinite, FS_Subset, FS_CardinalityType
<1>2. /\ page \in SUBSET rows /\ Cardinality(page) = AtMost(n, Cardinality(rows))
      /\ \A o \in page, x \in rows \ page : Precedes(o, x)
  BY DEF FirstOf
<1>3. Cardinality(rows) <= n => Cardinality(page) = Cardinality(rows)
  BY <1>1, <1>2 DEF AtMost
<1>4. (Cardinality(page) = Cardinality(rows)) => page = rows
  BY <1>1, <1>2, FS_Subset
<1>5. ASSUME page = {} PROVE rows = {}
  <2>1. Cardinality(page) = 0
    BY <1>5, FS_EmptySet
  <2>2. Cardinality(rows) = 0
    BY <1>1, <1>2, <2>1 DEF AtMost
  <2> QED BY <1>1, <2>2, FS_EmptySet
<1> QED BY <1>1, <1>2, <1>3, <1>4, <1>5

\* What a query answers: a page of the rows above the cursor, said to be cut
\* short only if it is; and always then, below the cap.
LEMMA QueryAnswers ==
    ASSUME log \subseteq Observation, Query
    PROVE  \E page \in FirstOf(RowsSince(pull.since), Limit), cut \in BOOLEAN :
              /\ pull' = [pull EXCEPT !.pc = "answer", !.page = page, !.truncated = cut]
              /\ cut => Cardinality(RowsSince(pull.since)) > Limit
              /\ Limit < MaxLimit => cut = (Cardinality(RowsSince(pull.since)) > Limit)
<1> DEFINE rows == RowsSince(pull.since)
           size == Cardinality(rows)
           cut == AtMost(AtMost(Limit + 1, MaxLimit), size) > Limit
<1>1. rows \subseteq Observation
  BY DEF RowsSince
<1>2. size \in Nat
  BY <1>1, RowsAreFinite, FS_Subset, FS_CardinalityType
<1>3. Limit \in Nat \ {0} /\ MaxLimit \in Nat \ {0} /\ Limit <= MaxLimit
  BY DeltaAssumption
<1>4. AtMost(Limit, MaxLimit) = Limit
  BY <1>3 DEF AtMost
<1>5. PICK page \in FirstOf(rows, AtMost(Limit, MaxLimit)) :
         pull' = [pull EXCEPT !.pc = "answer", !.page = page, !.truncated = cut]
  BY DEF Query
<1> HIDE DEF size
<1>6. cut \in BOOLEAN
  BY <1>2, <1>3 DEF AtMost
<1>7. cut => size > Limit
  BY <1>2, <1>3 DEF AtMost
<1>8. Limit < MaxLimit => cut = (size > Limit)
  BY <1>2, <1>3 DEF AtMost
<1> HIDE DEF cut, rows
<1>9. page \in FirstOf(rows, Limit)
  BY <1>4, <1>5
<1>10. /\ pull' = [pull EXCEPT !.pc = "answer", !.page = page, !.truncated = cut]
       /\ cut => Cardinality(rows) > Limit
       /\ Limit < MaxLimit => cut = (Cardinality(rows) > Limit)
  BY <1>5, <1>7, <1>8 DEF size
<1> QED BY <1>6, <1>9, <1>10 DEF rows

\* A page that was cut short has a last row to go on from.
CutHasRows == pull.pc = "answer" /\ pull.truncated => pull.page # {}

LEMMA DeltaTypeNext ==
    ASSUME WinInv, DeltaTypeOK, CutHasRows, [LogStep \/ Refresh]_vars
    PROVE  DeltaTypeOK' /\ CutHasRows'
<1>0. /\ log \subseteq Observation /\ counter \in Version /\ pull \in Pull
      /\ cache \in [Entity -> Time] /\ cursor \in Version \cup {NoCursor}
      /\ fresh \in {"no", "pulling", "yes"} /\ 0 \in Time
      /\ pull.page \subseteq Observation /\ pull.since \in Version /\ pull.head \in Version
  BY Times DEF WinInv, TypeOK, DeltaTypeOK, Pull
<1>1. \A e \in Entity : Head(e) \in Time
  BY <1>0, HeadIsLatest
<1>2. CASE StartRefresh
  <2>1. DeltaTypeOK'
    BY <1>0, <1>2, PullFields DEF StartRefresh, DeltaTypeOK, NoCursor
  <2>2. pull'.pc # "answer"
    BY <1>2 DEF StartRefresh, NoPull
  <2> QED BY <2>1, <2>2 DEF CutHasRows
<1>3. CASE FullRead
  <2>1. cache' \in [Entity -> Time]
    BY <1>0, <1>1, <1>3 DEF FullRead, View
  <2>2. DeltaTypeOK'
    BY <1>0, <1>3, <2>1, PullFields DEF FullRead, DeltaTypeOK
  <2>3. pull'.pc = "seed"
    BY <1>0, <1>3 DEF FullRead, Pull
  <2> QED BY <2>2, <2>3 DEF CutHasRows
<1>4. CASE Seed \/ SeedMissed \/ SaveManifest \/ FailRefresh
  <2>1. DeltaTypeOK'
    BY <1>0, <1>4, PullFields DEF Seed, SeedMissed, SaveManifest, FailRefresh, DeltaTypeOK
  <2>2. pull'.pc # "answer"
    <3>1. [pull EXCEPT !.pc = "save", !.head = counter].pc = "save" /\ NoPull.pc = "idle"
      BY <1>0 DEF Pull, NoPull
    <3> QED BY <1>4, <3>1 DEF Seed, SeedMissed, SaveManifest, FailRefresh
  <2> QED BY <2>1, <2>2 DEF CutHasRows
<1>5. CASE Query
  <2> DEFINE rows == RowsSince(pull.since)
  <2>1. PICK page \in FirstOf(rows, Limit), cut \in BOOLEAN :
           /\ pull' = [pull EXCEPT !.pc = "answer", !.page = page, !.truncated = cut]
           /\ cut => Cardinality(rows) > Limit
    BY <1>0, <1>5, QueryAnswers
  <2>2. rows \in SUBSET Observation /\ Limit \in Nat \ {0}
    BY <1>0, DeltaAssumption DEF RowsSince
  <2> HIDE DEF rows
  <2>3. /\ page \subseteq Observation /\ IsFiniteSet(rows) /\ Cardinality(rows) \in Nat
        /\ rows # {} => page # {}
    BY <2>2, PageIsAStart
  <2>4. cut => page # {}
    <3>1. rows = {} => Cardinality(rows) = 0
      BY FS_EmptySet
    <3> QED BY <2>1, <2>2, <2>3, <3>1
  <2>5. pull' \in Pull
    BY <1>0, <2>1, <2>3, PullFields
  <2>6. pull'.page = page /\ pull'.truncated = cut
    BY <1>0, <2>1 DEF Pull
  <2>7. DeltaTypeOK'
    BY <1>0, <1>5, <2>5 DEF Query, DeltaTypeOK
  <2> QED BY <2>4, <2>6, <2>7 DEF CutHasRows
<1>6. CASE Answer
  <2>0. pull.pc = "answer" /\ (pull.truncated => pull.page # {})
    BY <1>6 DEF Answer, CutHasRows
  <2>1. cache' \in [Entity -> Time]
    <3>1. ASSUME NEW e \in Entity, \E o \in pull.page : o.entity = e
          PROVE  LastOn(pull.page, e).at \in Time
      <4>1. LastOn(pull.page, e) \in pull.page
        BY <1>0, <3>1, LastOnPage
      <4> QED BY <1>0, <4>1 DEF Observation
    <3> QED BY <1>0, <1>6, <3>1 DEF Answer, Applied
  <2>2. pull.truncated => NextSince(pull.page) \in Version
    BY <1>0, <2>0, NextSinceOnPage DEF Observation
  <2>3. pull' \in Pull
    BY <1>0, <1>6, <2>2, PullFields DEF Answer
  <2>4. pull'.pc # "answer"
    BY <1>6 DEF Answer, NoPull
  <2> QED BY <1>0, <1>6, <2>1, <2>3, <2>4 DEF Answer, DeltaTypeOK, CutHasRows
<1>7. CASE UNCHANGED <<cache, cursor, pull>> /\ (LogStep \/ UNCHANGED vars)
  BY <1>0, <1>7 DEF LogStep, DeltaTypeOK, CutHasRows, vars, deltaVars
<1> QED BY <1>2, <1>3, <1>4, <1>5, <1>6, <1>7, DeltaSteps DEF Refresh

DeltaTypeInv == WinInv /\ DeltaTypeOK /\ CutHasRows

LEMMA DeltaTypeInit == DeltaInit => DeltaTypeInv
<1> SUFFICES ASSUME DeltaInit PROVE DeltaTypeInv
  OBVIOUS
<1>1. WinInv
  BY WinInit DEF DeltaInit
<1>2. pull.pc = "idle" /\ pull \in Pull
  BY Times DEF DeltaInit, NoPull, Pull
<1> QED BY <1>1, <1>2, Times DEF DeltaInit, DeltaTypeInv, DeltaTypeOK, CutHasRows

LEMMA DeltaTypeStep == DeltaTypeInv /\ [LogStep \/ Refresh]_vars => DeltaTypeInv'
<1> SUFFICES ASSUME DeltaTypeInv, [LogStep \/ Refresh]_vars PROVE DeltaTypeInv'
  OBVIOUS
<1>1. WinInv /\ DeltaTypeOK /\ CutHasRows
  BY DEF DeltaTypeInv
<1>2. WinInv'
  BY <1>1, DeltaSteps, WinNext
<1> QED BY <1>1, <1>2, DeltaTypeNext DEF DeltaTypeInv

\* The device's store and its manifest keep their types through any refresh,
\* whatever is written meanwhile and wherever a request fails: in particular a
\* walk that is cut short has a row to take its next cursor from
\* (offline-download.ts, features.service.ts listDelta).
THEOREM DeltaTypes == DeltaSpec => []DeltaTypeOK
<1>1. DeltaTypeInv => DeltaTypeOK
  BY DEF DeltaTypeInv
<1> QED BY <1>1, DeltaTypeInit, DeltaTypeStep, PTL DEF DeltaSpec

-----------------------------------------------------------------------------
(* What the log does while nobody edits the structure or imports            *)

\* The native client's updates and deletes.
OnlyGuarded == FALSE \notin Guarding /\ "create" \notin Ops

\* Writes of one feature each.
OneFeatureEach == Batch <= 1 \/ OnlyGuarded

\* A request moves: it begins or ends, takes a version, a time or a lock,
\* passes its check, or stores its rows.
Begins(w) ==
    /\ writer'[w].pc = "read"
    /\ OneFeatureEach => \A d, e \in writer'[w].on : d = e
    /\ OnlyGuarded => writer'[w].guarded
    /\ UNCHANGED <<log, counter, clock>>
Ends(w) == writer'[w].pc = "idle" /\ UNCHANGED <<log, counter, clock>>
TakesVersion(w) ==
    /\ writer[w].pc = "read" /\ writer'[w].pc = "bumped"
    /\ writer'[w].version = counter + 1 /\ counter' = counter + 1
    /\ writer'[w].on = writer[w].on /\ writer'[w].guarded = writer[w].guarded
    /\ UNCHANGED <<log, clock>>
TakesTime(w) ==
    /\ writer[w].pc = "bumped" /\ writer'[w].pc = "stamped"
    /\ writer'[w].at = clock + 1 /\ clock' = clock + 1
    /\ writer'[w].version = writer[w].version
    /\ writer'[w].on = writer[w].on /\ writer'[w].guarded = writer[w].guarded
    /\ UNCHANGED <<log, counter>>
GoesOn(w) ==
    /\ Stamped(w) /\ Stamped(w)'
    /\ writer'[w].at = writer[w].at /\ writer'[w].version = writer[w].version
    /\ writer'[w].on \subseteq writer[w].on /\ writer'[w].guarded = writer[w].guarded
    /\ UNCHANGED <<log, counter, clock>>
Stores(w) ==
    /\ Stamped(w) /\ writer'[w].pc = "idle"
    /\ log' = log \cup Written(w)
    /\ UNCHANGED <<counter, clock>>
Moves(w) ==
    /\ \A v \in Writers \ {w} : writer'[v] = writer[v]
    /\ Begins(w) \/ Ends(w) \/ TakesVersion(w) \/ TakesTime(w) \/ GoesOn(w) \/ Stores(w)

LEMMA AtMostOne ==
    ASSUME NEW on \in SUBSET Entity, on # {}, Cardinality(on) <= Batch, Batch <= 1
    PROVE  \A d, e \in on : d = e
<1>1. IsFiniteSet(on)
  <2>1. IsFiniteSet(Entity)
    BY LogAssumption, FS_Interval DEF Entity
  <2> QED BY <2>1, FS_Subset
<1>2. Cardinality(on) \in Nat /\ Cardinality(on) # 0
  BY <1>1, FS_CardinalityType, FS_EmptySet
<1>3. Cardinality(on) = 1
  BY <1>2, LogAssumption
<1> QED BY <1>1, <1>3, FS_Singleton

LEMMA StartBegins ==
    ASSUME TypeOK, NEW w \in Writers, NEW kind \in Kind, NEW on \in SUBSET Entity,
           NEW guarded \in BOOLEAN, Start(w, kind, on, guarded),
           OnlyGuarded => guarded /\ \A d, e \in on : d = e
    PROVE  Moves(w)
<1>1. Batch <= 1 => \A d, e \in on : d = e
  BY AtMostOne DEF Start
<1>2. /\ writer'[w].pc = "read"
      /\ \A v \in Writers \ {w} : writer'[v] = writer[v]
      /\ UNCHANGED <<log, counter, clock>>
  BY StartMoves
<1>3. writer'[w].on = on /\ (guarded => writer'[w].guarded)
  BY StartTakes
<1>4. Begins(w)
  BY <1>1, <1>2, <1>3 DEF Begins, OneFeatureEach, OnlyGuarded
<1> QED BY <1>2, <1>4 DEF Moves

LEMMA LogMoves ==
    ASSUME ~SchemaEdits, "import" \notin Ops, WinInv, NobodyEdits, [LogNext]_logVars
    PROVE  UNCHANGED logVars \/ \E w \in Writers : Moves(w)
<1>0. TypeOK
  BY DEF WinInv
<1>1. ASSUME NEW w \in Writers, Writing(w) PROVE Moves(w)
  <2>1. ASSUME NEW on \in SUBSET Entity, InsertFeatures(w, on) \/ CalculateField(w, on)
        PROVE  Moves(w)
    <3>1. "create" \in Kind /\ "update" \in Kind /\ FALSE \in BOOLEAN
      BY DEF Kind
    <3>2. ~OnlyGuarded
      BY <2>1 DEF InsertFeatures, CalculateField, Start, OnlyGuarded
    <3> QED BY <1>0, <2>1, <3>1, <3>2, StartBegins DEF InsertFeatures, CalculateField
  <2>2. ASSUME NEW e \in Entity, NEW guarded \in Guarding,
               UpdateFeature(w, e, guarded) \/ DeleteFeature(w, e, guarded)
        PROVE  Moves(w)
    <3>1. /\ "update" \in Kind /\ "delete" \in Kind
          /\ {e} \in SUBSET Entity /\ guarded \in BOOLEAN
      BY LogAssumption DEF Kind
    <3>2. OnlyGuarded => guarded /\ \A d, x \in {e} : d = x
      BY <3>1 DEF OnlyGuarded
    <3> QED BY <1>0, <2>2, <3>1, <3>2, StartBegins DEF UpdateFeature, DeleteFeature
  <2>3. CASE Bump(w)
    <3>1. TakesVersion(w) /\ \A v \in Writers \ {w} : writer'[v] = writer[v]
      BY <1>0, <2>3, BumpMoves DEF TakesVersion
    <3> QED BY <3>1 DEF Moves
  <2>4. CASE Stamp(w)
    <3>1. TakesTime(w) /\ \A v \in Writers \ {w} : writer'[v] = writer[v]
      BY <1>0, <2>4, StampMoves DEF TakesTime
    <3> QED BY <3>1 DEF Moves
  <2>5. ASSUME NEW e \in Entity, Lock(w, e) PROVE Moves(w)
    <3>1. GoesOn(w) /\ \A v \in Writers \ {w} : writer'[v] = writer[v]
      BY <1>0, <2>5, LockMoves DEF GoesOn, Stamped
    <3> QED BY <3>1 DEF Moves
  <2>6. CASE Check(w)
    <3>1. Passes(w) \subseteq writer[w].on
      BY DEF Passes
    <3>2. /\ Ends(w) \/ GoesOn(w)
          /\ \A v \in Writers \ {w} : writer'[v] = writer[v]
      BY <1>0, <2>6, <3>1, CheckMoves DEF GoesOn, Ends, Stamped
    <3> QED BY <3>2 DEF Moves
  <2>7. CASE Store(w)
    <3>1. Stores(w) /\ \A v \in Writers \ {w} : writer'[v] = writer[v]
      BY <1>0, <2>7, IdleMoves DEF Store, Stores, Stamped
    <3> QED BY <3>1 DEF Moves
  <2>8. CASE GiveUp(w)
    <3>1. Ends(w) /\ \A v \in Writers \ {w} : writer'[v] = writer[v]
      BY <1>0, <2>8, IdleMoves DEF GiveUp, Ends
    <3> QED BY <3>1 DEF Moves
  <2> QED BY <1>1, <2>1, <2>2, <2>3, <2>4, <2>5, <2>6, <2>7, <2>8 DEF Writing
<1>2. ~Structure
  BY DEF Structure, OpenStructure, SaveStructure, Revert, NobodyEdits
<1>3. \A on \in SUBSET Entity : ~Import(on)
  BY DEF Import
<1> QED BY <1>1, <1>2, <1>3 DEF LogNext

\* Rows of a feature have times of their own, and so have the requests that
\* are about to store one.
OwnTimes ==
    /\ \A o \in log : o.at > 0
    /\ \A o, x \in log : o.entity = x.entity /\ o.at = x.at => o = x
    /\ \A w \in Writers : Stamped(w) =>
          writer[w].at > 0 /\ \A o \in log : o.at # writer[w].at
    /\ \A v, w \in Writers : v # w /\ Stamped(v) /\ Stamped(w) =>
          writer[v].at # writer[w].at

LEMMA OwnTimesNext ==
    ASSUME WinInv, OwnTimes, UNCHANGED logVars \/ \E w \in Writers : Moves(w)
    PROVE  OwnTimes'
<1>0. TypeOK
  BY DEF WinInv
<1>1. CASE UNCHANGED logVars
  BY <1>1 DEF logVars, OwnTimes, Stamped
<1>2. ASSUME NEW w \in Writers, Moves(w) PROVE OwnTimes'
  <2>1. \A v \in Writers \ {w} : writer'[v] = writer[v]
    BY <1>2 DEF Moves
  <2>2. CASE Begins(w) \/ Ends(w) \/ TakesVersion(w)
    <3>1. ~Stamped(w)' /\ log' = log
      BY <2>2 DEF Begins, Ends, TakesVersion, Stamped
    <3> QED BY <2>1, <3>1 DEF OwnTimes, Stamped
  <2>3. CASE TakesTime(w)
    <3>1. /\ writer'[w].at = clock + 1 /\ log' = log /\ clock \in Nat
          /\ \A o \in log : o.at <= clock /\ o.at \in Nat
          /\ \A v \in Writers : Stamped(v) => writer[v].at <= clock /\ writer[v].at \in Nat
      BY <1>0, <2>3, Numbers DEF TakesTime, WinInv, SeesThePast, Stamped
    <3>2. \A v \in Writers \ {w} : Stamped(v)' = Stamped(v)
      BY <2>1 DEF Stamped
    <3>3. clock + 1 > 0 /\ \A n \in Nat : n <= clock => n # clock + 1
      BY <3>1
    <3>4. /\ writer'[w].at > 0 /\ \A o \in log : o.at # writer'[w].at
          /\ \A v \in Writers \ {w} : Stamped(v)' => writer'[v].at # writer'[w].at
      BY <2>1, <3>1, <3>2, <3>3
    <3> QED BY <2>1, <3>1, <3>2, <3>4 DEF OwnTimes
  <2>4. CASE GoesOn(w)
    <3>1. Stamped(w) /\ writer'[w].at = writer[w].at /\ log' = log
      BY <2>4 DEF GoesOn
    <3>2. \A v \in Writers : (Stamped(v)' => Stamped(v)) /\ writer'[v].at = writer[v].at
      BY <2>1, <3>1 DEF Stamped
    <3> QED BY <3>1, <3>2 DEF OwnTimes
  <2>5. CASE Stores(w)
    <3> DEFINE new == Written(w)
    <3>1. log' = log \cup new /\ Stamped(w) /\ ~Stamped(w)'
      BY <2>5 DEF Stores, Stamped
    <3>2. \A o \in new : o.at = writer[w].at /\ \A x \in new : x.entity = o.entity => x = o
      BY WrittenRows
    <3> HIDE DEF new
    <3>3. \A v \in Writers : Stamped(v)' => v # w /\ Stamped(v) /\ writer'[v] = writer[v]
      BY <2>1, <3>1 DEF Stamped
    <3>4. (\A o \in log : o.at > 0)'
      BY <3>1, <3>2 DEF OwnTimes
    <3>5. (\A o, x \in log : o.entity = x.entity /\ o.at = x.at => o = x)'
      BY <3>1, <3>2 DEF OwnTimes
    <3>6. (\A v \in Writers : Stamped(v) =>
              writer[v].at > 0 /\ \A o \in log : o.at # writer[v].at)'
      BY <3>1, <3>2, <3>3 DEF OwnTimes
    <3>7. (\A u, v \in Writers : u # v /\ Stamped(u) /\ Stamped(v) =>
              writer[u].at # writer[v].at)'
      BY <3>3 DEF OwnTimes
    <3> QED BY <3>4, <3>5, <3>6, <3>7 DEF OwnTimes
  <2> QED BY <1>2, <2>2, <2>3, <2>4, <2>5 DEF Moves
<1> QED BY <1>1, <1>2

\* A version is of one row, or of one request that is yet to store it.
OwnVersions ==
    /\ \A w \in Writers : writer[w].pc # "idle" => \A d, e \in writer[w].on : d = e
    /\ \A o, x \in log : o.version = x.version /\ o.version > 0 => o = x
    /\ \A w \in Writers : Bumped(w) =>
          writer[w].version > 0 /\ \A o \in log : o.version # writer[w].version
    /\ \A v, w \in Writers : v # w /\ Bumped(v) /\ Bumped(w) =>
          writer[v].version # writer[w].version

LEMMA OwnVersionsNext ==
    ASSUME OneFeatureEach, WinInv, VersionsCounted, OwnVersions,
           UNCHANGED logVars \/ \E w \in Writers : Moves(w)
    PROVE  OwnVersions'
<1>0. TypeOK
  BY DEF WinInv
<1>1. CASE UNCHANGED logVars
  BY <1>1 DEF logVars, OwnVersions, Bumped
<1>2. ASSUME NEW w \in Writers, Moves(w) PROVE OwnVersions'
  <2>1. \A v \in Writers \ {w} : writer'[v] = writer[v]
    BY <1>2 DEF Moves
  <2>2. \A v \in Writers \ {w} : Bumped(v)' = Bumped(v)
    BY <2>1 DEF Bumped
  <2>3. CASE Begins(w) \/ Ends(w)
    <3>1. /\ ~Bumped(w)' /\ log' = log
          /\ writer'[w].pc # "idle" => \A d, e \in writer'[w].on : d = e
      BY <2>3 DEF Begins, Ends, Bumped
    <3> QED BY <2>1, <2>2, <3>1 DEF OwnVersions
  <2>4. CASE TakesVersion(w)
    <3>1. /\ writer'[w].version = counter + 1 /\ log' = log /\ counter \in Nat
          /\ writer'[w].on = writer[w].on /\ writer[w].pc # "idle"
          /\ \A o \in log : o.version <= counter /\ o.version \in Nat
          /\ \A v \in Writers : Bumped(v) =>
                writer[v].version <= counter /\ writer[v].version \in Nat
      BY <1>0, <2>4, Numbers DEF TakesVersion, VersionsCounted
    <3>2. counter + 1 > 0 /\ \A n \in Nat : n <= counter => n # counter + 1
      BY <3>1
    <3>3. /\ writer'[w].version > 0 /\ \A o \in log : o.version # writer'[w].version
          /\ \A v \in Writers \ {w} : Bumped(v)' => writer'[v].version # writer'[w].version
      BY <2>1, <2>2, <3>1, <3>2
    <3> QED BY <2>1, <2>2, <3>1, <3>3 DEF OwnVersions
  <2>5. CASE TakesTime(w) \/ GoesOn(w)
    <3>1. /\ Bumped(w) /\ writer'[w].version = writer[w].version /\ log' = log
          /\ writer'[w].on \subseteq writer[w].on /\ writer[w].pc # "idle"
      BY <2>5 DEF TakesTime, GoesOn, Bumped, Stamped
    <3>2. \A v \in Writers :
             (Bumped(v)' => Bumped(v)) /\ writer'[v].version = writer[v].version
      BY <2>1, <2>2, <3>1
    <3>3. \A v \in Writers : writer'[v].pc # "idle" =>
             writer'[v].on \subseteq writer[v].on /\ writer[v].pc # "idle"
      BY <2>1, <3>1
    <3> QED BY <3>1, <3>2, <3>3 DEF OwnVersions
  <2>6. CASE Stores(w)
    <3> DEFINE new == Written(w)
    <3>1. log' = log \cup new /\ Bumped(w) /\ ~Bumped(w)' /\ writer'[w].pc = "idle"
          /\ writer[w].pc # "idle"
      BY <2>6 DEF Stores, Stamped, Bumped
    <3>2. \A o \in new : /\ o.version = writer[w].version /\ o.entity \in writer[w].on
                         /\ \A x \in new : x.entity = o.entity => x = o
      BY WrittenRows
    <3> HIDE DEF new
    <3>3. \A o, x \in new : o = x
      BY <3>1, <3>2 DEF OwnVersions
    <3>4. \A v \in Writers : Bumped(v)' => v # w /\ Bumped(v) /\ writer'[v] = writer[v]
      BY <2>1, <2>2, <3>1
    <3>5. (\A o, x \in log : o.version = x.version /\ o.version > 0 => o = x)'
      BY <3>1, <3>2, <3>3 DEF OwnVersions
    <3>6. (\A v \in Writers : Bumped(v) =>
              writer[v].version > 0 /\ \A o \in log : o.version # writer[v].version)'
      BY <3>1, <3>2, <3>4 DEF OwnVersions
    <3>7. (\A u, v \in Writers : u # v /\ Bumped(u) /\ Bumped(v) =>
              writer[u].version # writer[v].version)'
      BY <3>4 DEF OwnVersions
    <3>8. (\A v \in Writers : writer[v].pc # "idle" => \A d, e \in writer[v].on : d = e)'
      BY <2>1, <3>1 DEF OwnVersions
    <3> QED BY <3>5, <3>6, <3>7, <3>8 DEF OwnVersions
  <2> QED BY <1>2, <2>3, <2>4, <2>5, <2>6 DEF Moves
<1> QED BY <1>1, <1>2

\* One request at a time, and one feature in it.
OneWriter == Batch <= 1 /\ \A v, w \in Writers : v = w

\* Rows of a feature have the order of their versions in their time.
RowsInStep ==
    \A o, x \in log : o.entity = x.entity /\ o.at < x.at => o.version < x.version

\* What is about to be stored is past all that is there.
Ahead ==
    \A w \in Writers :
        /\ Bumped(w) => \A o \in log : o.version < writer[w].version
        /\ Stamped(w) => \A o \in log : o.at < writer[w].at

LEMMA AheadNext ==
    ASSUME OneWriter, WinInv, VersionsCounted, Ahead, RowsInStep,
           UNCHANGED logVars \/ \E w \in Writers : Moves(w)
    PROVE  Ahead' /\ RowsInStep'
<1>0. TypeOK
  BY DEF WinInv
<1>1. CASE UNCHANGED logVars
  BY <1>1 DEF logVars, Ahead, RowsInStep, Stamped, Bumped
<1>2. ASSUME NEW w \in Writers, Moves(w) PROVE Ahead' /\ RowsInStep'
  <2>1. \A v \in Writers : v = w
    BY DEF OneWriter
  <2>2. CASE Begins(w) \/ Ends(w)
    <3>1. ~Bumped(w)' /\ ~Stamped(w)' /\ log' = log
      BY <2>2 DEF Begins, Ends, Bumped, Stamped
    <3> QED BY <2>1, <3>1 DEF Ahead, RowsInStep
  <2>3. CASE TakesVersion(w)
    <3>1. /\ writer'[w].version = counter + 1 /\ log' = log /\ counter \in Nat
          /\ \A o \in log : o.version <= counter /\ o.version \in Nat
          /\ ~Stamped(w)'
      BY <1>0, <2>3, Numbers DEF TakesVersion, VersionsCounted, Stamped
    <3>2. \A o \in log : o.version < writer'[w].version
      BY <3>1
    <3> QED BY <2>1, <3>1, <3>2 DEF Ahead, RowsInStep
  <2>4. CASE TakesTime(w)
    <3>1. /\ writer'[w].at = clock + 1 /\ log' = log /\ clock \in Nat
          /\ \A o \in log : o.at <= clock /\ o.at \in Nat
          /\ Bumped(w) /\ writer'[w].version = writer[w].version
      BY <1>0, <2>4, Numbers DEF TakesTime, WinInv, SeesThePast, Bumped
    <3>2. \A o \in log : o.at < writer'[w].at
      BY <3>1
    <3> QED BY <2>1, <3>1, <3>2 DEF Ahead, RowsInStep
  <2>5. CASE GoesOn(w)
    <3>1. /\ Bumped(w) /\ Stamped(w) /\ writer'[w].version = writer[w].version
          /\ writer'[w].at = writer[w].at /\ log' = log
      BY <2>5 DEF GoesOn, Bumped, Stamped
    <3> QED BY <2>1, <3>1 DEF Ahead, RowsInStep
  <2>6. CASE Stores(w)
    <3> DEFINE new == Written(w)
    <3>1. /\ log' = log \cup new /\ Bumped(w) /\ Stamped(w)
          /\ ~Bumped(w)' /\ ~Stamped(w)'
      BY <2>6 DEF Stores, Stamped, Bumped
    <3>2. \A o \in new : o.version = writer[w].version /\ o.at = writer[w].at
      BY WrittenRows
    <3> HIDE DEF new
    <3>3. /\ writer[w].at \in Nat
          /\ \A o \in log : /\ o.version < writer[w].version /\ o.at < writer[w].at
                            /\ o.at \in Nat
      BY <1>0, <3>1, Numbers DEF Ahead
    <3>4. ASSUME NEW o \in log', NEW x \in log', o.entity = x.entity, o.at < x.at
          PROVE  o.version < x.version
      <4>1. CASE o \in log /\ x \in log
        BY <3>4, <4>1 DEF RowsInStep
      <4>2. CASE o \in log /\ x \in new
        BY <3>2, <3>3, <4>2
      <4>3. CASE o \in new
        <5>1. o.at = writer[w].at
          BY <3>2, <4>3
        <5>2. CASE x \in new
          BY <3>2, <3>3, <3>4, <5>1, <5>2
        <5>3. CASE x \in log
          BY <3>3, <3>4, <5>1, <5>3
        <5> QED BY <3>1, <5>2, <5>3
      <4> QED BY <3>1, <4>1, <4>2, <4>3
    <3>5. RowsInStep'
      BY <3>4 DEF RowsInStep
    <3> QED BY <2>1, <3>1, <3>5 DEF Ahead
  <2> QED BY <1>2, <2>2, <2>3, <2>4, <2>5, <2>6 DEF Moves
<1> QED BY <1>1, <1>2

\* But for the rows of the start, every row is guarded and comes later.
AllGuarded ==
    /\ \A o \in log : IF o.guarded THEN o.version > 0 /\ o.at > 1
                                   ELSE o.version = 0 /\ o.at = 1
    /\ \A w \in Writers : /\ writer[w].pc # "idle" => writer[w].guarded
                          /\ Bumped(w) => writer[w].version > 0
                          /\ Stamped(w) => writer[w].at > 1
    /\ clock > 0

LEMMA AllGuardedNext ==
    ASSUME OnlyGuarded, WinInv, AllGuarded,
           UNCHANGED logVars \/ \E w \in Writers : Moves(w)
    PROVE  AllGuarded'
<1>0. TypeOK /\ clock \in Nat /\ counter \in Nat
  BY Numbers DEF WinInv
<1>1. CASE UNCHANGED logVars
  BY <1>1 DEF logVars, AllGuarded, Stamped, Bumped
<1>2. ASSUME NEW w \in Writers, Moves(w) PROVE AllGuarded'
  <2>1. \A v \in Writers \ {w} : /\ writer'[v] = writer[v]
                                 /\ Bumped(v)' = Bumped(v) /\ Stamped(v)' = Stamped(v)
    BY <1>2 DEF Moves, Bumped, Stamped
  <2>2. CASE Begins(w) \/ Ends(w)
    <3>1. /\ ~Bumped(w)' /\ ~Stamped(w)' /\ log' = log /\ clock' = clock
          /\ writer'[w].pc # "idle" => writer'[w].guarded
      BY <2>2 DEF Begins, Ends, Bumped, Stamped
    <3> QED BY <2>1, <3>1 DEF AllGuarded
  <2>3. CASE TakesVersion(w)
    <3>1. /\ writer'[w].version > 0 /\ log' = log /\ clock' = clock
          /\ writer[w].pc # "idle" /\ ~Stamped(w)'
          /\ writer'[w].guarded = writer[w].guarded
      BY <1>0, <2>3 DEF TakesVersion, Stamped
    <3> QED BY <2>1, <3>1 DEF AllGuarded
  <2>4. CASE TakesTime(w)
    <3>1. /\ writer'[w].at > 1 /\ log' = log /\ clock' > 0
          /\ writer[w].pc # "idle" /\ Bumped(w)
          /\ writer'[w].version = writer[w].version
          /\ writer'[w].guarded = writer[w].guarded
      BY <1>0, <2>4 DEF TakesTime, Bumped, AllGuarded
    <3> QED BY <2>1, <3>1 DEF AllGuarded
  <2>5. CASE GoesOn(w)
    <3>1. /\ Bumped(w) /\ Stamped(w) /\ writer'[w].version = writer[w].version
          /\ writer'[w].at = writer[w].at /\ log' = log /\ clock' = clock
          /\ writer[w].pc # "idle" /\ writer'[w].guarded = writer[w].guarded
      BY <2>5 DEF GoesOn, Bumped, Stamped
    <3> QED BY <2>1, <3>1 DEF AllGuarded
  <2>6. CASE Stores(w)
    <3> DEFINE new == Written(w)
    <3>1. /\ log' = log \cup new /\ Bumped(w) /\ Stamped(w) /\ clock' = clock
          /\ ~Bumped(w)' /\ ~Stamped(w)' /\ writer'[w].pc = "idle"
          /\ writer[w].pc # "idle"
      BY <2>6 DEF Stores, Stamped, Bumped
    <3>2. \A o \in new : /\ o.version = writer[w].version /\ o.at = writer[w].at
                         /\ o.guarded = writer[w].guarded
      BY WrittenRows
    <3> HIDE DEF new
    <3>3. \A o \in new : o.guarded /\ o.version > 0 /\ o.at > 1
      BY <3>1, <3>2 DEF AllGuarded
    <3>4. (\A o \in log : IF o.guarded THEN o.version > 0 /\ o.at > 1
                                       ELSE o.version = 0 /\ o.at = 1)'
      BY <3>1, <3>3 DEF AllGuarded
    <3> QED BY <2>1, <3>1, <3>4 DEF AllGuarded
  <2> QED BY <1>2, <2>2, <2>3, <2>4, <2>5, <2>6 DEF Moves
<1> QED BY <1>1, <1>2

LEMMA GuardedInStep ==
    ASSUME WinInv, AllGuarded, VersionsFollowTime
    PROVE  RowsInStep
<1> SUFFICES ASSUME NEW o \in log, NEW x \in log, o.entity = x.entity, o.at < x.at
             PROVE  o.version < x.version
  BY DEF RowsInStep
<1>1. o.at \in Nat /\ x.at \in Nat /\ o.version \in Nat /\ x.version \in Nat
  BY Numbers DEF WinInv
<1>2. CASE ~x.guarded
  <2>1. x.at = 1 /\ (o.at = 1 \/ o.at > 1)
    BY <1>2 DEF AllGuarded
  <2> QED BY <1>1, <2>1
<1>3. CASE x.guarded /\ ~o.guarded
  <2>1. o.version = 0 /\ x.version > 0
    BY <1>3 DEF AllGuarded
  <2> QED BY <1>1, <2>1
<1>4. CASE x.guarded /\ o.guarded
  BY <1>4 DEF VersionsFollowTime
<1> QED BY <1>2, <1>3, <1>4

-----------------------------------------------------------------------------
(* A refresh whose turn it is                                              *)

\* Writes and refreshes take turns; nothing is deleted while a download has no
\* cursor; nobody imports or puts an older counter back; a page is below the
\* cap of the query.
TakesTurns ==
    ~Overlap /\ ~Ghosts /\ ~SchemaEdits /\ "import" \notin Ops /\ Limit < MaxLimit

\* A version names one row, and a feature's rows are in step.
WellVersioned ==
    /\ \A o, x \in log : o.version = x.version /\ o.version > 0 => o = x
    /\ RowsInStep

\* If a feature has no row above a cursor, the device shows its head.
Shows(e, since) == (\A o \in Of(e) : o.version <= since) => cache[e] = View[e]

InTurns == pull.pc # "idle" => WritersIdle /\ fresh # "yes"

\* What is yet to be stored will be above the device's cursor.
AboveCursor ==
    cursor # NoCursor =>
        /\ cursor <= counter
        /\ \A w \in Writers : Bumped(w) => writer[w].version > cursor

PullShape ==
    /\ pull.pc \in {"full", "seed"} => cursor = NoCursor
    /\ pull.pc \in {"ask", "answer"} => cursor # NoCursor /\ cursor <= pull.since
    /\ pull.pc = "save" => pull.head = counter
    /\ pull.pc = "answer" =>
          LET rows == RowsSince(pull.since) IN
          /\ pull.page \in FirstOf(rows, Limit)
          /\ pull.truncated = (Cardinality(rows) > Limit)

\* Until there is a cursor, what the device has stored is there.
NoGhosts == cursor = NoCursor => \A e \in Entity : cache[e] # 0 => Live(e)

\* What the device shows, at each point of a refresh and after it.
Known ==
    WellVersioned =>
        /\ cursor # NoCursor => \A e \in Entity : Shows(e, cursor)
        /\ pull.pc \in {"ask", "answer"} => \A e \in Entity : Shows(e, pull.since)
        /\ pull.pc \in {"seed", "save"} => cache = View
        /\ Refreshed

TurnInv == InTurns /\ AboveCursor /\ PullShape /\ NoGhosts /\ Known

\* The head is the row with the latest time, and there is only one.
LEMMA HeadRow ==
    ASSUME log \subseteq Observation, OwnTimes, NEW e \in Entity, NEW o \in Of(e),
           \A x \in Of(e) : x.at <= o.at
    PROVE  Head(e) = o.at /\ (Live(e) <=> o.kind # "delete")
<1>1. Of(e) \subseteq log /\ \A x \in Of(e) : x.at \in Nat /\ x.entity = e
  BY Times DEF Of, Observation
<1>2. /\ \A x \in Of(e) : x.at <= Head(e)
      /\ \E x \in Of(e) : x.at = Head(e)
  BY HeadIsLatest
<1>3. PICK h \in Of(e) : h.at = Head(e)
  BY <1>2
<1>4. h.at = o.at
  <2>1. h.at <= o.at /\ o.at <= h.at
    BY <1>2, <1>3
  <2> QED BY <1>1, <2>1
<1>5. \A x \in Of(e) : x.at = o.at => x = o
  BY <1>1 DEF OwnTimes
<1> QED BY <1>3, <1>4, <1>5 DEF Live

\* What is live is seen.
LEMMA LiveIsSeen ==
    ASSUME OwnTimes, NEW e \in Entity
    PROVE  Live(e) <=> View[e] # 0
<1>1. Live(e) => \E o \in log : o.at = Head(e)
  BY DEF Live, Of
<1>2. \A o \in log : o.at # 0
  BY DEF OwnTimes
<1> QED BY <1>1, <1>2 DEF View

\* A page with all of a feature's rows above a cursor brings the device up to
\* date on it.
LEMMA AppliedShows ==
    ASSUME log \subseteq Observation, OwnTimes, WellVersioned, NEW since \in Nat,
           NEW page \in SUBSET RowsSince(since), NEW e \in Entity, Shows(e, since),
           \A x \in RowsSince(since) : x.entity = e => x \in page
    PROVE  Applied(page)[e] = View[e]
<1>1. page \subseteq log /\ \A o \in page : o.version > since
  BY DEF RowsSince
<1>2. /\ Of(e) \subseteq log
      /\ \A o \in Of(e) : o.entity = e /\ o.at \in Nat /\ o.version \in Nat
  BY Times DEF Of, Observation
<1>3. \A o \in Of(e) : o.version > since => o \in page
  BY <1>2 DEF RowsSince
<1>4. CASE ~\E o \in page : o.entity = e
  <2>1. \A o \in Of(e) : o.version <= since
    BY <1>2, <1>3, <1>4
  <2> QED BY <1>4, <2>1 DEF Shows, Applied
<1>5. CASE \E o \in page : o.entity = e
  <2> DEFINE l == LastOn(page, e)
  <2>1. l \in page /\ l.entity = e /\ \A x \in page : x.entity = e => Precedes(x, l)
    BY <1>1, <1>5, LastOnPage
  <2>2. Applied(page)[e] = IF l.kind = "delete" THEN 0 ELSE l.at
    BY <1>5 DEF Applied
  <2> HIDE DEF l
  <2>3. l \in Of(e) /\ l.version > since
    BY <1>1, <2>1 DEF Of
  <2>4. ASSUME NEW x \in Of(e) PROVE x.version <= l.version
    <3>1. CASE x.version > since
      BY <1>2, <1>3, <2>1, <2>3, <3>1 DEF Precedes
    <3>2. CASE ~(x.version > since)
      BY <1>2, <2>3, <3>2
    <3> QED BY <3>1, <3>2
  <2>5. ASSUME NEW x \in Of(e) PROVE x.at <= l.at
    <3>1. l.at < x.at => l.version < x.version
      BY <1>2, <2>3 DEF WellVersioned, RowsInStep
    <3> QED BY <1>2, <2>3, <2>4, <3>1
  <2>6. Head(e) = l.at /\ (Live(e) <=> l.kind # "delete")
    BY <2>3, <2>5, HeadRow
  <2> QED BY <2>2, <2>6 DEF View
<1> QED BY <1>4, <1>5

\* A page that is cut short ends between two versions: all there is up to its
\* last one is on it.
LEMMA PageIsWhole ==
    ASSUME log \subseteq Observation, WellVersioned, NEW since \in Nat,
           NEW page \in SUBSET RowsSince(since), page # {},
           \A o \in page, x \in RowsSince(since) \ page : Precedes(o, x)
    PROVE  /\ NextSince(page) \in Nat /\ NextSince(page) > since
           /\ \A x \in RowsSince(since) : x.version <= NextSince(page) => x \in page
<1>1. page \subseteq Observation /\ RowsSince(since) \subseteq log
  BY DEF RowsSince
<1>2. PICK o \in page : o.version = NextSince(page)
  BY <1>1, NextSinceOnPage
<1>3. \A x \in RowsSince(since) : x \in log /\ x.version \in Nat /\ x.version > since
  BY Times DEF RowsSince, Observation
<1>4. ASSUME NEW x \in RowsSince(since), x.version <= o.version, x \notin page
      PROVE  FALSE
  <2>1. o.version < x.version \/ o.version = x.version
    BY <1>4 DEF Precedes
  <2>2. o.version = x.version /\ o.version > 0 /\ o \in log
    BY <1>3, <1>4, <2>1
  <2> QED BY <1>3, <1>4, <2>2 DEF WellVersioned
<1> QED BY <1>2, <1>3, <1>4

LEMMA LogUnmoved ==
    ASSUME UNCHANGED logVars
    PROVE  /\ View' = View /\ (WellVersioned' <=> WellVersioned)
           /\ \A e \in Entity : Of(e)' = Of(e) /\ (Live(e)' <=> Live(e))
           /\ WritersIdle' <=> WritersIdle
           /\ cursor' = cursor => (AboveCursor' <=> AboveCursor)
           /\ counter' = counter
<1>1. \A e : Of(e)' = Of(e) /\ Head(e)' = Head(e) /\ (Live(e)' <=> Live(e))
  BY DEF logVars, Of, Head, Live
<1>2. View' = View
  BY <1>1 DEF View
<1>3. WellVersioned' <=> WellVersioned
  BY DEF logVars, WellVersioned, RowsInStep
<1>4. WritersIdle' <=> WritersIdle
  BY DEF logVars, WritersIdle
<1>5. cursor' = cursor => (AboveCursor' <=> AboveCursor)
  BY DEF logVars, AboveCursor, Bumped
<1> QED BY <1>1, <1>2, <1>3, <1>4, <1>5 DEF logVars

\* What the device shows of a feature depends on it and on the log.
LEMMA ShowsStill ==
    ASSUME UNCHANGED logVars, cache' = cache, NEW e \in Entity, NEW since
    PROVE  Shows(e, since)' <=> Shows(e, since)
BY LogUnmoved DEF Shows

LEMMA StartRefreshTurns ==
    ASSUME TakesTurns, DeltaTypeInv, TurnInv, StartRefresh
    PROVE  TurnInv'
<1>1. /\ UNCHANGED <<log, counter, clock, writer, draft, snaps>> /\ WritersIdle
      /\ cache' = cache /\ cursor' = cursor /\ fresh' = "pulling" /\ pull.pc = "idle"
  BY DEF StartRefresh, TakesTurns, logVars
<1>2. UNCHANGED logVars
  BY <1>1 DEF logVars
<1>3. \/ cursor = NoCursor /\ pull'.pc = "full"
      \/ cursor # NoCursor /\ pull'.pc = "ask" /\ pull'.since = cursor
  BY DEF StartRefresh, NoPull
<1>4. cursor \in Nat
  BY Times DEF DeltaTypeInv, DeltaTypeOK, NoCursor, NoDraft
<1>5. InTurns' /\ AboveCursor' /\ NoGhosts'
  BY <1>1, <1>2, LogUnmoved DEF TurnInv, InTurns, NoGhosts
<1>6. PullShape'
  BY <1>1, <1>3, <1>4 DEF PullShape
<1>7. Known'
  <2> SUFFICES ASSUME WellVersioned' PROVE
        /\ cursor # NoCursor => \A e \in Entity : Shows(e, cursor)'
        /\ pull'.pc = "ask" => \A e \in Entity : Shows(e, cursor)'
    BY <1>1, <1>3 DEF Known, Shows, Refreshed
  <2>1. cursor # NoCursor => \A e \in Entity : Shows(e, cursor)
    BY <1>2, LogUnmoved DEF TurnInv, Known
  <2>2. cursor # NoCursor => \A e \in Entity : Shows(e, cursor)'
    BY <1>1, <1>2, <2>1, ShowsStill
  <2> QED BY <1>3, <2>2
<1> QED BY <1>5, <1>6, <1>7 DEF TurnInv

LEMMA FullReadTurns ==
    ASSUME DeltaTypeInv, OwnTimes, TurnInv, FullRead
    PROVE  TurnInv'
<1>1. /\ UNCHANGED logVars /\ cursor' = cursor /\ fresh' = fresh
      /\ pull.pc = "full" /\ cursor = NoCursor
  BY DEF FullRead, TurnInv, PullShape
<1>2. pull'.pc = "seed"
  BY DEF FullRead, DeltaTypeInv, DeltaTypeOK, Pull
<1>3. \A e \in Entity : cache'[e] = View[e]
  <2> TAKE e \in Entity
  <2>1. cache'[e] = IF View[e] # 0 THEN View[e] ELSE cache[e]
    BY DEF FullRead
  <2>2. cache[e] # 0 => View[e] # 0
    BY <1>1, LiveIsSeen DEF TurnInv, NoGhosts
  <2> QED BY <2>1, <2>2
<1>4. cache' = View'
  BY <1>1, <1>3, LogUnmoved DEF FullRead, View
<1>5. InTurns' /\ AboveCursor'
  BY <1>1, LogUnmoved DEF TurnInv, InTurns
<1>6. NoGhosts'
  <2>1. \A e \in Entity : cache'[e] # 0 => Live(e)
    BY <1>3, LiveIsSeen
  <2> QED BY <1>1, <2>1, LogUnmoved DEF NoGhosts
<1>7. PullShape'
  BY <1>1, <1>2 DEF PullShape
<1>8. Known'
  BY <1>1, <1>2, <1>4 DEF Known, Refreshed
<1> QED BY <1>5, <1>6, <1>7, <1>8 DEF TurnInv

LEMMA SeedTurns ==
    ASSUME DeltaTypeInv, TurnInv, Seed
    PROVE  TurnInv'
<1>1. /\ UNCHANGED logVars /\ cursor' = cursor /\ fresh' = fresh /\ cache' = cache
      /\ pull.pc = "seed" /\ cursor = NoCursor
  BY DEF Seed, TurnInv, PullShape
<1>2. pull'.pc = "save" /\ pull'.head = counter
  BY DEF Seed, DeltaTypeInv, DeltaTypeOK, Pull
<1>3. InTurns' /\ AboveCursor' /\ NoGhosts'
  BY <1>1, LogUnmoved DEF TurnInv, InTurns, NoGhosts
<1>4. PullShape'
  BY <1>1, <1>2, LogUnmoved DEF PullShape
<1>5. Known'
  BY <1>1, <1>2, LogUnmoved DEF TurnInv, Known, Refreshed
<1> QED BY <1>3, <1>4, <1>5 DEF TurnInv

LEMMA SeedMissedTurns ==
    ASSUME TurnInv, SeedMissed
    PROVE  TurnInv'
<1>1. /\ UNCHANGED logVars /\ cursor' = cursor /\ cache' = cache
      /\ pull.pc = "seed" /\ cursor = NoCursor /\ pull'.pc = "idle"
  BY DEF SeedMissed, TurnInv, PullShape, NoPull
<1>2. InTurns' /\ AboveCursor' /\ NoGhosts' /\ PullShape'
  BY <1>1, LogUnmoved DEF TurnInv, InTurns, NoGhosts, PullShape
<1>3. Known'
  BY <1>1, LogUnmoved DEF TurnInv, Known, Refreshed
<1> QED BY <1>2, <1>3 DEF TurnInv

LEMMA SaveManifestTurns ==
    ASSUME DeltaTypeInv, TurnInv, SaveManifest
    PROVE  TurnInv'
<1>1. /\ UNCHANGED logVars /\ cursor' = counter /\ cache' = cache
      /\ pull.pc = "save" /\ pull'.pc = "idle" /\ WritersIdle
  BY DEF SaveManifest, TurnInv, PullShape, NoPull, InTurns
<1>2. counter \in Nat /\ counter # NoCursor /\ counter' = counter
  BY <1>1, LogUnmoved, LogAssumption
  DEF DeltaTypeInv, WinInv, TypeOK, Version, NoCursor
<1>3. InTurns' /\ NoGhosts' /\ PullShape'
  BY <1>1, <1>2 DEF InTurns, NoGhosts, PullShape
<1>4. AboveCursor'
  BY <1>1, <1>2 DEF AboveCursor, WritersIdle, Bumped, logVars
<1>5. Known'
  <2>1. WellVersioned' => cache' = View'
    BY <1>1, LogUnmoved DEF TurnInv, Known
  <2> QED BY <1>1, <2>1 DEF Known, Shows, Refreshed
<1> QED BY <1>3, <1>4, <1>5 DEF TurnInv

LEMMA FailRefreshTurns ==
    ASSUME TurnInv, FailRefresh
    PROVE  TurnInv'
<1>1. /\ UNCHANGED logVars /\ cursor' = cursor /\ cache' = cache
      /\ pull'.pc = "idle" /\ fresh' = "no"
  BY DEF FailRefresh, NoPull
<1>2. InTurns' /\ AboveCursor' /\ NoGhosts' /\ PullShape'
  BY <1>1, LogUnmoved DEF TurnInv, InTurns, NoGhosts, PullShape
<1>3. Known'
  <2>1. WellVersioned' /\ cursor # NoCursor => \A e \in Entity : Shows(e, cursor)'
    BY <1>1, LogUnmoved, ShowsStill DEF TurnInv, Known
  <2> QED BY <1>1, <2>1 DEF Known, Shows, Refreshed
<1> QED BY <1>2, <1>3 DEF TurnInv

LEMMA QueryTurns ==
    ASSUME TakesTurns, DeltaTypeInv, TurnInv, Query
    PROVE  TurnInv'
<1> DEFINE rows == RowsSince(pull.since)
<1>1. /\ UNCHANGED logVars /\ cursor' = cursor /\ cache' = cache /\ fresh' = fresh
      /\ pull.pc = "ask" /\ log' = log
  BY DEF Query, logVars
<1>2. PICK page \in FirstOf(rows, Limit), cut \in BOOLEAN :
         /\ pull' = [pull EXCEPT !.pc = "answer", !.page = page, !.truncated = cut]
         /\ Limit < MaxLimit => cut = (Cardinality(rows) > Limit)
  BY QueryAnswers DEF DeltaTypeInv, WinInv, TypeOK
<1>3. /\ pull'.pc = "answer" /\ pull'.page = page /\ pull'.since = pull.since
      /\ pull'.truncated = cut
  BY <1>2 DEF DeltaTypeInv, DeltaTypeOK, Pull
<1>4. InTurns' /\ AboveCursor' /\ NoGhosts'
  BY <1>1, LogUnmoved DEF TurnInv, InTurns, NoGhosts
<1>5. RowsSince(pull.since)' = rows
  BY <1>1, <1>3 DEF RowsSince
<1> HIDE DEF rows
<1>6. PullShape'
  <2>1. cut = (Cardinality(rows) > Limit)
    BY <1>2 DEF TakesTurns
  <2>2. cursor' # NoCursor /\ cursor' <= pull'.since
    BY <1>1, <1>3 DEF TurnInv, PullShape
  <2> QED BY <1>2, <1>3, <1>5, <2>1, <2>2 DEF PullShape
<1>7. Known'
  <2>1. ASSUME WellVersioned', NEW e \in Entity
        PROVE  (cursor # NoCursor => Shows(e, cursor)') /\ Shows(e, pull.since)'
    <3>1. (cursor # NoCursor => Shows(e, cursor)) /\ Shows(e, pull.since)
      BY <1>1, <2>1, LogUnmoved DEF TurnInv, Known
    <3> QED BY <1>1, <1>3, <3>1, LogUnmoved DEF Shows
  <2>2. WellVersioned' => Refreshed'
    BY <1>1, LogUnmoved DEF TurnInv, InTurns, Refreshed
  <2> QED BY <1>1, <1>3, <2>1, <2>2 DEF Known
<1> QED BY <1>4, <1>6, <1>7 DEF TurnInv

\* The answer, applied: up to date with the last version of a page that was cut
\* short, and with everything after the last page.
LEMMA AnswerTurns ==
    ASSUME DeltaTypeInv, OwnTimes, TurnInv, Answer
    PROVE  TurnInv'
<1> DEFINE since == pull.since
           rows == RowsSince(since)
           page == pull.page
<1>1. /\ UNCHANGED logVars /\ cursor' = cursor /\ fresh' = fresh
      /\ pull.pc = "answer" /\ cache' = Applied(page) /\ log' = log
  BY DEF Answer, logVars
<1>2. /\ cursor # NoCursor /\ cursor <= since
      /\ page \in FirstOf(rows, Limit)
      /\ pull.truncated = (Cardinality(rows) > Limit)
      /\ fresh # "yes" /\ WritersIdle
  BY <1>1 DEF TurnInv, PullShape, InTurns
<1>3. /\ log \subseteq Observation /\ since \in Nat /\ cursor \in Nat
      /\ counter' = counter /\ (pull.truncated => page # {})
  BY <1>1, LogUnmoved, Times
  DEF DeltaTypeInv, WinInv, TypeOK, DeltaTypeOK, Pull, CutHasRows, NoCursor, NoDraft
<1>4. rows \in SUBSET Observation /\ Limit \in Nat \ {0}
  BY <1>3, DeltaAssumption DEF RowsSince
<1>5. /\ page \subseteq rows /\ Cardinality(rows) \in Nat
      /\ Cardinality(rows) <= Limit => page = rows
      /\ \A o \in page, x \in rows \ page : Precedes(o, x)
  <2> HIDE DEF rows, page
  <2> QED BY <1>2, <1>4, PageIsAStart
<1>6. ~pull.truncated => page = rows
  <2> DEFINE size == Cardinality(rows)
  <2>1. pull.truncated = (size > Limit) /\ size \in Nat /\ (size <= Limit => page = rows)
    BY <1>2, <1>5
  <2> HIDE DEF size, page, rows
  <2>2. ~(size > Limit) => size <= Limit
    BY <1>4, <2>1
  <2> QED BY <2>1, <2>2
<1>7. CASE pull.truncated
  <2> DEFINE next == NextSince(page)
  <2>1. pull'.pc = "ask" /\ pull'.since = next
    BY <1>7 DEF Answer, NoPull
  <2>2. ASSUME WellVersioned
        PROVE  /\ next \in Nat /\ next > since
               /\ \A x \in rows : x.version <= next => x \in page
    <3>1. /\ page \in SUBSET RowsSince(since) /\ page # {}
          /\ \A o \in page, x \in RowsSince(since) \ page : Precedes(o, x)
      BY <1>3, <1>5, <1>7
    <3> HIDE DEF page, since
    <3> QED BY <1>3, <2>2, <3>1, PageIsWhole
  <2>3. next \in Nat /\ next > since
    <3>1. page \in SUBSET Observation /\ page # {} /\ page \subseteq rows
      BY <1>3, <1>4, <1>5, <1>7
    <3>2. \A o \in rows : o.version > since /\ o.version \in Nat
      BY <1>4, Times DEF RowsSince, Observation
    <3> HIDE DEF page, rows
    <3>3. PICK o \in page : o.version = next
      BY <3>1, NextSinceOnPage
    <3> QED BY <3>1, <3>2, <3>3
  <2> HIDE DEF next
  <2>4. ASSUME WellVersioned, NEW e \in Entity, \A o \in Of(e) : o.version <= next
        PROVE  cache'[e] = View[e]
    <3>1. \A x \in rows : x.entity = e => x \in page
      BY <2>2, <2>4 DEF RowsSince, Of
    <3>2. Shows(e, since)
      BY <1>1, <2>4 DEF TurnInv, Known
    <3> QED BY <1>1, <1>3, <1>5, <2>4, <3>1, <3>2, AppliedShows
  <2>5. ASSUME WellVersioned, NEW e \in Entity, \A o \in Of(e) : o.version <= cursor
        PROVE  cache'[e] = View[e]
    <3>1. \A o \in Of(e) : o.version \in Nat /\ o.version <= cursor
      BY <1>3, <2>5, Times DEF Of, Observation
    <3>2. \A o \in Of(e) : o.version <= next
      BY <1>2, <1>3, <2>3, <3>1
    <3> QED BY <2>4, <2>5, <3>2
  <2>6. PullShape'
    BY <1>1, <1>2, <1>3, <2>1, <2>3 DEF PullShape
  <2>7. ASSUME WellVersioned', NEW e \in Entity
        PROVE  Shows(e, cursor)' /\ Shows(e, pull.since)'
    <3>1. WellVersioned /\ Of(e)' = Of(e) /\ View' = View
      BY <1>1, <2>7, LogUnmoved
    <3>2. Shows(e, cursor)'
      BY <1>1, <2>5, <3>1 DEF Shows
    <3>3. Shows(e, pull.since)'
      BY <2>1, <2>4, <3>1 DEF Shows
    <3> QED BY <3>2, <3>3
  <2>8. InTurns' /\ AboveCursor' /\ NoGhosts'
    BY <1>1, <1>2, LogUnmoved DEF TurnInv, InTurns, NoGhosts
  <2>9. Known'
    BY <1>1, <1>2, <2>1, <2>7 DEF Known, Refreshed
  <2> QED BY <2>6, <2>8, <2>9 DEF TurnInv
<1>8. CASE ~pull.truncated
  <2>1. pull'.pc = "save" /\ pull'.head = counter
    BY <1>8 DEF Answer, NoPull
  <2>2. ASSUME WellVersioned PROVE cache' = View
    <3>1. ASSUME NEW e \in Entity PROVE Applied(page)[e] = View[e]
      <4>1. Shows(e, since)
        BY <1>1, <2>2 DEF TurnInv, Known
      <4> QED BY <1>3, <1>5, <1>6, <1>8, <2>2, <4>1, AppliedShows
    <3> QED BY <1>1, <3>1 DEF Applied, View
  <2>3. PullShape'
    BY <1>3, <2>1 DEF PullShape
  <2>4. Known'
    BY <1>1, <1>2, <2>1, <2>2, LogUnmoved DEF Known, Refreshed, Shows
  <2>5. InTurns' /\ AboveCursor' /\ NoGhosts'
    BY <1>1, <1>2, LogUnmoved DEF TurnInv, InTurns, NoGhosts
  <2> QED BY <2>3, <2>4, <2>5 DEF TurnInv
<1> QED BY <1>7, <1>8

\* What is written between two refreshes is above the cursor.
LEMMA LogStepTurns ==
    ASSUME TakesTurns, DeltaTypeInv, VersionsCounted, TurnInv, LogStep,
           UNCHANGED logVars \/ \E w \in Writers : Moves(w)
    PROVE  TurnInv'
<1>1. /\ UNCHANGED <<cache, cursor, pull>> /\ pull.pc = "idle"
      /\ cursor # NoCursor \/ \A e \in Entity : cache[e] # 0 => Live(e)'
      /\ fresh' = IF log' # log THEN "no" ELSE fresh
  BY DEF LogStep, TakesTurns
<1>2. TypeOK /\ (cursor # NoCursor => cursor \in Nat) /\ counter \in Nat
  BY Numbers, Times DEF DeltaTypeInv, WinInv, DeltaTypeOK
<1>3. InTurns' /\ PullShape' /\ NoGhosts'
  BY <1>1 DEF InTurns, PullShape, NoGhosts
<1>4. AboveCursor' /\ counter' \in Nat /\ counter <= counter'
  <2>1. CASE UNCHANGED logVars
    BY <1>1, <1>2, <2>1, LogUnmoved DEF TurnInv
  <2>2. ASSUME NEW w \in Writers, Moves(w)
        PROVE  AboveCursor' /\ counter' \in Nat /\ counter <= counter'
    <3>1. \A v \in Writers \ {w} : writer'[v] = writer[v]
      BY <2>2 DEF Moves
    <3>2. CASE TakesVersion(w)
      BY <1>1, <1>2, <3>1, <3>2 DEF TakesVersion, TurnInv, AboveCursor, Bumped
    <3>3. CASE ~TakesVersion(w)
      <4>1. /\ Bumped(w)' => Bumped(w) /\ writer'[w].version = writer[w].version
            /\ counter' = counter
        BY <2>2, <3>3 DEF Moves, Begins, Ends, TakesTime, GoesOn, Stores, Bumped, Stamped
      <4> QED BY <1>1, <1>2, <3>1, <4>1 DEF TurnInv, AboveCursor, Bumped
    <3> QED BY <3>2, <3>3
  <2> QED BY <2>1, <2>2
<1>5. CASE log' = log
  <2>1. /\ \A e \in Entity : Of(e)' = Of(e) /\ Head(e)' = Head(e) /\ (Live(e)' <=> Live(e))
        /\ WellVersioned' <=> WellVersioned
    BY <1>5 DEF Of, Head, Live, WellVersioned, RowsInStep
  <2>2. View' = View
    BY <2>1 DEF View
  <2>3. Known'
    BY <1>1, <1>5, <2>1, <2>2 DEF TurnInv, Known, Shows, Refreshed
  <2> QED BY <1>3, <1>4, <2>3 DEF TurnInv
<1>6. CASE log' # log
  <2>1. PICK w \in Writers : Stores(w)
    <3>1. PICK w \in Writers : Moves(w)
      BY <1>6 DEF logVars
    <3>2. Stores(w)
      BY <1>6, <3>1 DEF Moves, Begins, Ends, TakesVersion, TakesTime, GoesOn
    <3> QED BY <3>2
  <2> DEFINE new == Written(w)
  <2>2. log' = log \cup new /\ Bumped(w)
    BY <2>1 DEF Stores, Stamped, Bumped
  <2>3. \A o \in new : o.version = writer[w].version
    BY WrittenRows DEF DeltaTypeInv
  <2> HIDE DEF new
  <2>4. WellVersioned' => WellVersioned
    BY <2>2 DEF WellVersioned, RowsInStep
  <2>5. ASSUME cursor # NoCursor, WellVersioned', NEW e \in Entity PROVE Shows(e, cursor)'
    <3> SUFFICES ASSUME \A o \in Of(e)' : o.version <= cursor
                 PROVE  cache[e] = View'[e]
      BY <1>1 DEF Shows
    <3>1. \A o \in new : o.entity # e
      <4>1. writer[w].version > cursor /\ writer[w].version \in Nat /\ cursor \in Nat
        BY <1>2, <2>2, <2>5, Numbers DEF TurnInv, AboveCursor
      <4> QED BY <2>2, <2>3, <4>1 DEF Of
    <3>2. Of(e)' = Of(e)
      BY <2>2, <3>1 DEF Of
    <3>3. Head(e)' = Head(e) /\ (Live(e)' <=> Live(e))
      BY <3>2 DEF Head, Live
    <3>4. View'[e] = View[e]
      BY <3>3 DEF View
    <3>5. Shows(e, cursor)
      BY <2>4, <2>5 DEF TurnInv, Known
    <3> QED BY <3>2, <3>4, <3>5 DEF Shows
  <2>6. Known'
    BY <1>1, <1>6, <2>5 DEF Known, Shows, Refreshed
  <2> QED BY <1>3, <1>4, <2>6 DEF TurnInv
<1> QED BY <1>5, <1>6

LEMMA RefreshTurns ==
    ASSUME TakesTurns, DeltaTypeInv, OwnTimes, TurnInv, Refresh
    PROVE  TurnInv'
BY StartRefreshTurns, FullReadTurns, SeedTurns, SeedMissedTurns, QueryTurns, AnswerTurns,
   SaveManifestTurns, FailRefreshTurns DEF Refresh

DeltaInv == DeltaTypeInv /\ OrderInv /\ OwnTimes /\ TurnInv

\* The log at the start: imported rows, one of a feature, and nobody writing.
LEMMA FirstRows ==
    ASSUME Init
    PROVE  /\ \A o \in log : o.version = 0 /\ o.at = 1 /\ ~o.guarded
           /\ \A o, x \in log : o.entity = x.entity => o = x
           /\ \A w \in Writers : writer[w].pc = "idle" /\ ~Bumped(w) /\ ~Stamped(w)
           /\ counter = 0 /\ clock = 1 /\ draft = NoDraft /\ snaps = {}
<1>1. \A o \in log : \E e \in Existing :
         o = [entity |-> e, kind |-> "create", at |-> 1, version |-> 0,
              base |-> 0, guarded |-> FALSE]
  BY DEF Init
<1>2. \A o \in log : o.version = 0 /\ o.at = 1 /\ ~o.guarded
  BY <1>1
<1>3. ASSUME NEW o \in log, NEW x \in log, o.entity = x.entity PROVE o = x
  <2> DEFINE Row(e) == [entity |-> e, kind |-> "create", at |-> 1, version |-> 0,
                        base |-> 0, guarded |-> FALSE]
  <2>1. PICK d \in Existing : o = Row(d)
    BY <1>1
  <2>2. PICK e \in Existing : x = Row(e)
    BY <1>1
  <2>3. o.entity = d /\ x.entity = e
    BY <2>1, <2>2
  <2> QED BY <1>3, <2>1, <2>2, <2>3
<1>4. \A w \in Writers : writer[w].pc = "idle"
  BY DEF Init, Idle
<1> QED BY <1>2, <1>3, <1>4 DEF Init, Bumped, Stamped

LEMMA DeltaInvInit == DeltaInit => DeltaInv
<1> SUFFICES ASSUME DeltaInit PROVE DeltaInv
  OBVIOUS
<1>1. Init
  BY DEF DeltaInit
<1>2. OrderInv
  BY <1>1, FirstRows DEF OrderInv, VersionsCounted, VersionsPast, GuardedPast, NobodyEdits,
     VersionsFollowTime
<1>3. OwnTimes
  BY <1>1, FirstRows DEF OwnTimes
<1>4. /\ pull.pc = "idle" /\ fresh = "no" /\ cursor = NoCursor
      /\ \A e \in Entity : cache[e] = 0
  BY DEF DeltaInit, NoPull
<1>5. TurnInv
  BY <1>4 DEF TurnInv, InTurns, AboveCursor, PullShape, NoGhosts, Known, Refreshed
<1> QED BY <1>2, <1>3, <1>5, DeltaTypeInit DEF DeltaInv

LEMMA DeltaInvStep ==
    ASSUME TakesTurns, DeltaInv, [LogStep \/ Refresh]_vars
    PROVE  DeltaInv' /\ (UNCHANGED logVars \/ \E w \in Writers : Moves(w))
<1>1. DeltaTypeInv /\ OrderInv /\ OwnTimes /\ TurnInv /\ WinInv /\ NobodyEdits /\ VersionsCounted
  BY DEF DeltaInv, DeltaTypeInv, OrderInv
<1>2. [LogNext]_logVars
  BY DeltaSteps
<1>3. UNCHANGED logVars \/ \E w \in Writers : Moves(w)
  BY <1>1, <1>2, LogMoves DEF TakesTurns
<1>4. DeltaTypeInv'
  BY <1>1, DeltaTypeStep
<1>5. OrderInv'
  BY <1>1, <1>2, OrderNext DEF TakesTurns
<1>6. OwnTimes'
  BY <1>1, <1>3, OwnTimesNext
<1>7. TurnInv'
  <2>1. CASE LogStep
    BY <1>1, <1>3, <2>1, LogStepTurns
  <2>2. CASE Refresh
    BY <1>1, <2>2, RefreshTurns
  <2>3. CASE UNCHANGED vars
    <3>1. /\ UNCHANGED logVars /\ cache' = cache /\ cursor' = cursor
          /\ pull' = pull /\ fresh' = fresh /\ log' = log
      BY <2>3 DEF vars, logVars, deltaVars
    <3>2. InTurns' /\ AboveCursor' /\ NoGhosts'
      BY <1>1, <3>1, LogUnmoved DEF TurnInv, InTurns, NoGhosts
    <3>3. PullShape'
      BY <1>1, <3>1, LogUnmoved DEF TurnInv, PullShape, RowsSince
    <3>4. Known'
      <4>1. ASSUME NEW e \in Entity
            PROVE  /\ Shows(e, cursor)' <=> Shows(e, cursor)
                   /\ Shows(e, pull.since)' <=> Shows(e, pull.since)
        BY <3>1, LogUnmoved DEF Shows
      <4> QED BY <1>1, <3>1, <4>1, LogUnmoved DEF TurnInv, Known, Refreshed
    <3> QED BY <3>2, <3>3, <3>4 DEF TurnInv
  <2> QED BY <2>1, <2>2, <2>3
<1> QED BY <1>3, <1>4, <1>5, <1>6, <1>7 DEF DeltaInv

\* Where writes and refreshes take turns, a finished refresh has brought the
\* device what the layer holds, however often it failed on the way and however
\* many pages it took, as long as a version names one row and a feature's
\* versions go with its times (offline-download.ts, data-layer.ts listDeltaSince).
THEOREM RefreshesAreComplete == TakesTurns => (DeltaSpec => [](WellVersioned => Refreshed))
<1> SUFFICES ASSUME TakesTurns PROVE DeltaSpec => [](WellVersioned => Refreshed)
  OBVIOUS
<1>1. DeltaInv /\ [LogStep \/ Refresh]_vars => DeltaInv'
  BY DeltaInvStep
<1>2. DeltaInv => (WellVersioned => Refreshed)
  BY DEF DeltaInv, TurnInv, Known
<1> QED BY <1>1, <1>2, DeltaInvInit, PTL DEF DeltaSpec

\* So it has when one request writes at a time, a feature each, and when any
\* number of the native client's guarded updates and deletes race each other
\* between the refreshes.
THEOREM RefreshesShowTheLayer ==
    TakesTurns /\ (OneWriter \/ OnlyGuarded) => (DeltaSpec => []Refreshed)
<1> SUFFICES ASSUME TakesTurns, OneWriter \/ OnlyGuarded PROVE DeltaSpec => []Refreshed
  OBVIOUS
<1> DEFINE Inv == /\ DeltaInv /\ OwnVersions
                  /\ OneWriter => Ahead /\ RowsInStep
                  /\ OnlyGuarded => AllGuarded
<1>0. OneFeatureEach
  BY DEF OneFeatureEach, OneWriter
<1>1. DeltaInit => Inv
  <2> SUFFICES ASSUME DeltaInit PROVE Inv
    OBVIOUS
  <2>1. Init
    BY DEF DeltaInit
  <2>2. OwnVersions
    BY <2>1, FirstRows DEF OwnVersions
  <2>3. Ahead /\ RowsInStep /\ AllGuarded
    BY <2>1, FirstRows DEF Ahead, RowsInStep, AllGuarded
  <2> QED BY <2>2, <2>3, DeltaInvInit
<1>2. Inv /\ [LogStep \/ Refresh]_vars => Inv'
  <2> SUFFICES ASSUME Inv, [LogStep \/ Refresh]_vars PROVE Inv'
    OBVIOUS
  <2>1. DeltaInv' /\ (UNCHANGED logVars \/ \E w \in Writers : Moves(w))
    BY DeltaInvStep
  <2>2. WinInv /\ VersionsCounted
    BY DEF DeltaInv, DeltaTypeInv, OrderInv
  <2>3. OwnVersions'
    BY <1>0, <2>1, <2>2, OwnVersionsNext
  <2>4. OneWriter => Ahead' /\ RowsInStep'
    BY <2>1, <2>2, AheadNext
  <2>5. OnlyGuarded => AllGuarded'
    BY <2>1, <2>2, AllGuardedNext
  <2> QED BY <2>1, <2>3, <2>4, <2>5 DEF OneWriter, OnlyGuarded
<1>3. Inv => Refreshed
  <2> SUFFICES ASSUME Inv PROVE Refreshed
    OBVIOUS
  <2>1. WinInv /\ VersionsFollowTime
    BY DEF DeltaInv, DeltaTypeInv, OrderInv
  <2>2. RowsInStep
    BY <2>1, GuardedInStep
  <2>3. WellVersioned
    BY <2>2 DEF WellVersioned, OwnVersions
  <2> QED BY <2>3 DEF DeltaInv, TurnInv, Known
<1> HIDE DEF Inv
<1> QED BY <1>1, <1>2, <1>3, PTL DEF DeltaSpec
=============================================================================
