--------------------------- MODULE TileCacheProofs ---------------------------
(***************************************************************************)
(* Theorems about TileCache, for any scopes, keys, requests, clients and   *)
(* limits.                                                                 *)
(***************************************************************************)
EXTENDS TileCache, FiniteSetTheorems, TLAPS

-----------------------------------------------------------------------------
(* The store's operations                                                  *)

LEMMA UnseenType == Unseen \in Values /\ \A s \in Scopes : Unseen[s] = Unread
BY TileAssumption DEF Unseen, Values, Unread

\* dropEntry, clear and the budgets of set: what goes is what was there, with its
\* registrations; the rest is as it was.
LEMMA DropEffect ==
    ASSUME NEW st \in Store, NEW ks
    PROVE  /\ Drop(st, ks) \in Store
           /\ Drop(st, ks).keys = st.keys \ ks
           /\ \A k \in Keys \ (ks \cap st.keys) :
                 /\ Drop(st, ks).value[k] = st.value[k]
                 /\ Drop(st, ks).prefixes[k] = st.prefixes[k]
           /\ \A k \in ks \cap st.keys : Drop(st, ks).prefixes[k] = {}
           /\ \A s \in Scopes : Drop(st, ks).dependents[s] = st.dependents[s] \ (ks \cap st.keys)
<1> DEFINE gone == ks \cap st.keys
<1>1. gone \subseteq Keys
  BY DEF Store
<1> HIDE DEF gone
<1>2. [k \in Keys |-> IF k \in gone THEN {} ELSE st.older[k] \ gone] \in [Keys -> SUBSET Keys]
  BY DEF Store
<1>3. [k \in Keys |-> IF k \in gone THEN Unseen ELSE st.value[k]] \in [Keys -> Values]
  BY UnseenType DEF Store
<1>4. [s \in Scopes |-> st.dependents[s] \ gone] \in [Scopes -> SUBSET Keys]
  BY DEF Store
<1>5. [k \in Keys |-> IF k \in gone THEN {} ELSE st.prefixes[k]] \in [Keys -> SUBSET Scopes]
  BY DEF Store
<1>6. st.keys \ gone \in SUBSET Keys
  BY DEF Store
<1>7. Drop(st, ks) = [keys |-> st.keys \ gone,
                      older |-> [k \in Keys |-> IF k \in gone THEN {} ELSE st.older[k] \ gone],
                      value |-> [k \in Keys |-> IF k \in gone THEN Unseen ELSE st.value[k]],
                      dependents |-> [s \in Scopes |-> st.dependents[s] \ gone],
                      prefixes |-> [k \in Keys |-> IF k \in gone THEN {} ELSE st.prefixes[k]]]
  BY DEF Drop, gone
<1>8. Drop(st, ks) \in Store
  BY <1>2, <1>3, <1>4, <1>5, <1>6, <1>7 DEF Store
<1>9. Drop(st, ks).keys = st.keys \ ks
  BY <1>7 DEF gone
<1> QED BY <1>1, <1>7, <1>8, <1>9 DEF gone

\* set and get make an entry the youngest and touch no registration.
LEMMA PromoteEffect ==
    ASSUME NEW st \in Store, NEW k \in Keys
    PROVE  /\ Promote(st, k) \in Store
           /\ Promote(st, k).keys = st.keys \cup {k}
           /\ Promote(st, k).value = st.value
           /\ Promote(st, k).dependents = st.dependents /\ Promote(st, k).prefixes = st.prefixes
<1> DEFINE o == [i \in Keys |-> IF i = k THEN st.keys \ {k} ELSE st.older[i] \ {k}]
<1>1. o \in [Keys -> SUBSET Keys]
  BY DEF Store
<1>2. Promote(st, k) = [[st EXCEPT !.keys = st.keys \cup {k}] EXCEPT !.older = o]
  BY DEF Promote, Store
<1> HIDE DEF o
<1>3. st.keys \cup {k} \in SUBSET Keys
  BY DEF Store
<1> QED BY <1>1, <1>2, <1>3 DEF Store

LEMMA RegisterEffect ==
    ASSUME NEW st \in Store, NEW k \in Keys
    PROVE  /\ Register(st, k) \in Store
           /\ Register(st, k).keys = st.keys /\ Register(st, k).value = st.value
           /\ \A s \in Scopes : Register(st, k).dependents[s] =
                 IF s \in DependsOn[k] THEN st.dependents[s] \cup {k} ELSE st.dependents[s]
           /\ \A i \in Keys : Register(st, k).prefixes[i] =
                 IF i = k THEN st.prefixes[k] \cup DependsOn[k] ELSE st.prefixes[i]
<1> DEFINE d == [s \in Scopes |-> IF s \in DependsOn[k] THEN st.dependents[s] \cup {k}
                                                        ELSE st.dependents[s]]
           p == [st.prefixes EXCEPT ![k] = st.prefixes[k] \cup DependsOn[k]]
<1>1. d \in [Scopes -> SUBSET Keys]
  BY DEF Store
<1>2. p \in [Keys -> SUBSET Scopes]
  BY TileAssumption DEF Store
<1>3. Register(st, k) = [[st EXCEPT !.dependents = d] EXCEPT !.prefixes = p]
  BY DEF Register, Store
<1>4. /\ \A s \in Scopes : d[s] = IF s \in DependsOn[k] THEN st.dependents[s] \cup {k}
                                                        ELSE st.dependents[s]
      /\ \A i \in Keys : p[i] = IF i = k THEN st.prefixes[k] \cup DependsOn[k] ELSE st.prefixes[i]
  BY DEF Store
<1> HIDE DEF d, p
<1> QED BY <1>1, <1>2, <1>3, <1>4 DEF Store

\* set: some entries go with their registrations, and k, when it stays, has the
\* new value.
LEMMA PutEffect ==
    ASSUME NEW st \in Store, NEW k \in Keys, NEW v \in Values, NEW big
    PROVE  /\ Put(st, k, v, big) \in Store
           /\ Put(st, k, v, big).keys \subseteq st.keys \cup {k}
           /\ \A i \in Put(st, k, v, big).keys :
                 Put(st, k, v, big).value[i] = IF i = k THEN v ELSE st.value[i]
           /\ \A i \in Keys, s \in Scopes :
                 LET stays == i \in Put(st, k, v, big).keys \/ i \notin st.keys \cup {k}
                 IN /\ i \in Put(st, k, v, big).dependents[s] <=> i \in st.dependents[s] /\ stays
                    /\ s \in Put(st, k, v, big).prefixes[i] <=> s \in st.prefixes[i] /\ stays
<1> DEFINE kept == [Promote(st, k) EXCEPT !.value[k] = v]
           over == {i \in kept.keys :
                       big \/ Cardinality(kept.older[i]) + MaxEntries < Cardinality(kept.keys)}
           put == Put(st, k, v, big)
<1>1. put = Drop(kept, over)
  BY DEF Put
<1>2. /\ kept \in Store /\ kept.keys = st.keys \cup {k} /\ kept.value = [st.value EXCEPT ![k] = v]
      /\ kept.dependents = st.dependents /\ kept.prefixes = st.prefixes
  BY PromoteEffect DEF Store
<1>3. st.value \in [Keys -> Values] /\ st.keys \subseteq Keys
  BY DEF Store
<1> HIDE DEF kept, over, put
<1>4. /\ put \in Store /\ put.keys = kept.keys \ over
      /\ \A i \in Keys \ (over \cap kept.keys) :
            put.value[i] = kept.value[i] /\ put.prefixes[i] = kept.prefixes[i]
      /\ \A i \in over \cap kept.keys : put.prefixes[i] = {}
      /\ \A s \in Scopes : put.dependents[s] = kept.dependents[s] \ (over \cap kept.keys)
  <2>1. kept \in Store
    BY <1>2
  <2> HIDE DEF put
  <2> QED BY <1>1, <2>1, DropEffect
<1> HIDE DEF put
<1>5. put.keys \subseteq st.keys \cup {k}
  BY <1>2, <1>4
<1>6. ASSUME NEW i \in put.keys PROVE put.value[i] = IF i = k THEN v ELSE st.value[i]
  <2>1. put.value[i] = kept.value[i] /\ i \in Keys
    BY <1>2, <1>3, <1>4
  <2> QED BY <1>2, <1>3, <2>1
<1>7. ASSUME NEW i \in Keys, NEW s \in Scopes
      PROVE  LET stays == i \in put.keys \/ i \notin st.keys \cup {k}
             IN /\ i \in put.dependents[s] <=> i \in st.dependents[s] /\ stays
                /\ s \in put.prefixes[i] <=> s \in st.prefixes[i] /\ stays
  <2>1. i \in over \cap kept.keys <=> ~(i \in put.keys \/ i \notin st.keys \cup {k})
    BY <1>2, <1>4
  <2> QED BY <1>2, <1>4, <2>1
<1> QED BY <1>4, <1>5, <1>6, <1>7 DEF put

\* What an invalidation of s is about.
About(st, s) == {k \in Keys : ScopeOf[k] = s} \cup st.dependents[s]

LEMMA InvalidateEffect ==
    ASSUME NEW st \in Store, NEW s \in Scopes
    PROVE  /\ Invalidate(st, s) \in Store
           /\ Invalidate(st, s).keys = st.keys \ About(st, s)
           /\ \A k \in st.keys \ About(st, s) : Invalidate(st, s).value[k] = st.value[k]
           /\ \A t \in Scopes : Invalidate(st, s).dependents[t] =
                 IF t = s THEN {} ELSE st.dependents[t] \ (About(st, s) \cap st.keys)
           /\ \A k \in About(st, s) \cap st.keys : Invalidate(st, s).prefixes[k] = {}
           /\ \A k \in Keys \ (About(st, s) \cap st.keys), t \in Scopes :
                 t \in Invalidate(st, s).prefixes[k] <=>
                     t \in st.prefixes[k] /\ ~(k \in st.dependents[s] /\ t = s)
<1> DEFINE out == About(st, s)
           cut == Drop(st, out)
           d == [cut.dependents EXCEPT ![s] = {}]
           p == [k \in Keys |-> IF k \in st.dependents[s] THEN cut.prefixes[k] \ {s} ELSE cut.prefixes[k]]
<1>1. /\ cut \in Store /\ cut.keys = st.keys \ out
      /\ \A k \in Keys \ (out \cap st.keys) :
            cut.value[k] = st.value[k] /\ cut.prefixes[k] = st.prefixes[k]
      /\ \A k \in out \cap st.keys : cut.prefixes[k] = {}
      /\ \A t \in Scopes : cut.dependents[t] = st.dependents[t] \ (out \cap st.keys)
  BY DropEffect
<1>2. st.keys \subseteq Keys
  BY DEF Store
<1>3. Invalidate(st, s) = [[cut EXCEPT !.dependents = d] EXCEPT !.prefixes = p]
  <2>1. Invalidate(st, s) = [cut EXCEPT !.dependents[s] = {},
            !.prefixes = [k \in Keys |-> IF k \in st.dependents[s] THEN @[k] \ {s} ELSE @[k]]]
    BY DEF Invalidate, About
  <2> HIDE DEF cut
  <2> QED BY <1>1, <2>1 DEF Store
<1> HIDE DEF cut, out
<1>4. d \in [Scopes -> SUBSET Keys] /\ p \in [Keys -> SUBSET Scopes]
  BY <1>1 DEF Store
<1>5. /\ \A t \in Scopes : d[t] = IF t = s THEN {} ELSE cut.dependents[t]
      /\ \A k \in Keys : p[k] = IF k \in st.dependents[s] THEN cut.prefixes[k] \ {s} ELSE cut.prefixes[k]
  BY <1>1 DEF Store
<1> HIDE DEF d, p
<1>6. /\ Invalidate(st, s) \in Store
      /\ Invalidate(st, s).keys = cut.keys /\ Invalidate(st, s).value = cut.value
      /\ Invalidate(st, s).dependents = d /\ Invalidate(st, s).prefixes = p
  BY <1>1, <1>3, <1>4 DEF Store
<1>7. \A k \in st.keys \ out : Invalidate(st, s).value[k] = st.value[k]
  BY <1>1, <1>2, <1>6
<1>8. /\ \A k \in out \cap st.keys : p[k] = {}
      /\ \A k \in Keys \ (out \cap st.keys), t \in Scopes :
            t \in p[k] <=> t \in st.prefixes[k] /\ ~(k \in st.dependents[s] /\ t = s)
  <2>1. ASSUME NEW k \in out \cap st.keys PROVE p[k] = {}
    <3>1. k \in Keys /\ cut.prefixes[k] = {}
      BY <1>1, <1>2
    <3> QED BY <1>5, <3>1
  <2>2. ASSUME NEW k \in Keys \ (out \cap st.keys), NEW t \in Scopes
        PROVE  t \in p[k] <=> t \in st.prefixes[k] /\ ~(k \in st.dependents[s] /\ t = s)
    <3>1. cut.prefixes[k] = st.prefixes[k]
      BY <1>1
    <3> QED BY <1>5, <3>1
  <2> QED BY <2>1, <2>2
<1>9. \A t \in Scopes : d[t] = IF t = s THEN {} ELSE st.dependents[t] \ (out \cap st.keys)
  BY <1>1, <1>5
<1>10. Invalidate(st, s).keys = st.keys \ out
  BY <1>1, <1>6
<1> QED BY <1>6, <1>7, <1>8, <1>9, <1>10 DEF out

-----------------------------------------------------------------------------
(* Types and steps                                                         *)

\* TypeOK but for the signs of the two counts, which SlotsBalance settles.
Typed ==
    /\ version \in [Scopes -> 0..MaxWrites] /\ wrote \subseteq Scopes
    /\ store \in Store
    /\ seqno \in [now : Nat, at : [Scopes -> Nat], cleared : Nat]
    /\ flight \in [Keys -> Flight]
    /\ lane \in [active : Int, waiters : Seq(Keys)] /\ tiles \in Int
    /\ conn \in [Clients -> {"unused", "connecting", "listening", "up", "gone"}]
    /\ bus \in [Clients -> Seq(Scopes)]
    /\ listener \in Clients \cup {NoClient} /\ starting \in BOOLEAN /\ timers \in Nat

\* The steps by what they do to the store.
LEMMA StoreSteps ==
    ASSUME [Next]_vars
    PROVE  \/ store' = store
           \/ \E k \in Keys : Expire(k)
           \/ \E x \in Callers \cup Keys, k \in Keys : Hit(x, k)
           \/ \E k \in Keys, b \in BOOLEAN : Complete(k, b)
           \/ \E s \in Scopes : Wrote(s)
           \/ \E c \in Clients : ListenerUp(c) \/ Notify(c)
<1>1. CASE UNCHANGED vars
  BY <1>1 DEF vars
<1>2. ASSUME NEW s \in Scopes, NEW here \in BOOLEAN, Write(s, here) PROVE store' = store
  BY <1>2 DEF Write
<1>3. ASSUME NEW x \in Callers \cup Keys, NEW k \in Keys, Join(x, k) \/ Lead(x, k)
      PROVE  store' = store
  BY <1>3 DEF Join, Lead
<1>4. ASSUME NEW x \in Callers, Abort(x) PROVE store' = store
  BY <1>4 DEF Abort
<1>5. ASSUME NEW k \in Keys, (\E s \in Scopes : Read(k, s)) \/ Fail(k) PROVE store' = store
  BY <1>5 DEF Read, Fail
<1>6. ASSUME NEW c \in Clients, ListenCommits(c) \/ ListenerLost(c) PROVE store' = store
  BY <1>6 DEF ListenCommits, ListenerLost
<1>7. CASE RetryTimer
  BY <1>7 DEF RetryTimer
<1> QED BY <1>1, <1>2, <1>3, <1>4, <1>5, <1>6, <1>7 DEF Next, Compute, GetOrCompute

\* ... and by what they do to the sequence numbers.
LEMMA SeqnoChanges ==
    ASSUME [Next]_vars
    PROVE  \/ seqno' = seqno
           \/ \E s \in Scopes : Wrote(s)
           \/ \E c \in Clients : ListenerUp(c) \/ Notify(c)
<1>1. ASSUME NEW s \in Scopes, NEW here \in BOOLEAN, Write(s, here) PROVE seqno' = seqno
  BY <1>1 DEF Write
<1>2. ASSUME NEW x \in Callers \cup Keys, NEW k \in Keys, GetOrCompute(x, k) PROVE seqno' = seqno
  BY <1>2 DEF GetOrCompute, Hit, Join, Lead
<1>3. ASSUME NEW x \in Callers, Abort(x) PROVE seqno' = seqno
  BY <1>3 DEF Abort
<1>4. ASSUME NEW k \in Keys, Compute(k) \/ Expire(k) PROVE seqno' = seqno
  BY <1>4 DEF Compute, Read, Complete, Fail, Expire
<1>5. ASSUME NEW c \in Clients, ListenCommits(c) \/ ListenerLost(c) PROVE seqno' = seqno
  BY <1>5 DEF ListenCommits, ListenerLost
<1>6. ASSUME RetryTimer \/ UNCHANGED vars PROVE seqno' = seqno
  BY <1>6 DEF RetryTimer, vars
<1> QED BY <1>1, <1>2, <1>3, <1>4, <1>5, <1>6 DEF Next

LEMMA BusHead ==
    ASSUME Typed, NEW c \in Clients, bus[c] # <<>>
    PROVE  Head(bus[c]) \in Scopes /\ Tail(bus[c]) \in Seq(Scopes)
BY DEF Typed

LEMMA StoreTypeStep ==
    ASSUME Typed, [Next]_vars
    PROVE  store' \in Store
<1>1. store \in Store
  BY DEF Typed
<1>2. ASSUME NEW k \in Keys, Expire(k) PROVE store' \in Store
  BY <1>1, <1>2, DropEffect DEF Expire
<1>3. ASSUME NEW x \in Callers \cup Keys, NEW k \in Keys, Hit(x, k) PROVE store' \in Store
  BY <1>1, <1>3, PromoteEffect DEF Hit
<1>4. ASSUME NEW k \in Keys, NEW b \in BOOLEAN, Complete(k, b) PROVE store' \in Store
  <2> DEFINE v == flight[k].seen
  <2>1. v \in Values
    BY DEF Typed, Flight
  <2>2. store' = store \/ store' = Put(Register(store, k), k, v, b)
    BY <1>4 DEF Complete
  <2> HIDE DEF v
  <2>3. Register(store, k) \in Store
    BY <1>1, RegisterEffect
  <2>4. Put(Register(store, k), k, v, b) \in Store
    BY <2>1, <2>3, PutEffect
  <2> QED BY <1>1, <2>2, <2>4
<1>5. ASSUME NEW s \in Scopes, InvalidatePrefix(s) PROVE store' \in Store
  BY <1>1, <1>5, InvalidateEffect DEF InvalidatePrefix
<1>6. ASSUME Clear PROVE store' \in Store
  <2> DEFINE st == [store EXCEPT !.dependents = [s \in Scopes |-> {}], !.prefixes = [k \in Keys |-> {}]]
  <2>1. st \in Store
    BY <1>1 DEF Store
  <2>2. store' = Drop(st, Keys)
    BY <1>6 DEF Clear
  <2> HIDE DEF st
  <2> QED BY <2>1, <2>2, DropEffect
<1>7. ASSUME NEW s \in Scopes, Wrote(s) PROVE store' \in Store
  BY <1>5, <1>7 DEF Wrote
<1>8. ASSUME NEW c \in Clients, Notify(c) PROVE store' \in Store
  BY <1>5, <1>8, BusHead DEF Notify
<1>9. ASSUME NEW c \in Clients, ListenerUp(c) PROVE store' \in Store
  BY <1>6, <1>9 DEF ListenerUp
<1> QED BY StoreSteps, <1>1, <1>2, <1>3, <1>4, <1>7, <1>8, <1>9

LEMMA SeqnoTypeStep ==
    ASSUME Typed, [Next]_vars
    PROVE  seqno' \in [now : Nat, at : [Scopes -> Nat], cleared : Nat]
<1>1. seqno \in [now : Nat, at : [Scopes -> Nat], cleared : Nat]
  BY DEF Typed
<1>2. ASSUME NEW s \in Scopes, InvalidatePrefix(s) PROVE seqno' \in [now : Nat, at : [Scopes -> Nat], cleared : Nat]
  <2>1. seqno' = [seqno EXCEPT !.now = seqno.now + 1, !.at = [seqno.at EXCEPT ![s] = seqno.now + 1]]
    BY <1>2 DEF InvalidatePrefix
  <2>2. [seqno.at EXCEPT ![s] = seqno.now + 1] \in [Scopes -> Nat] /\ seqno.now + 1 \in Nat
    BY <1>1
  <2> QED BY <1>1, <2>1, <2>2
<1>3. ASSUME Clear PROVE seqno' \in [now : Nat, at : [Scopes -> Nat], cleared : Nat]
  BY <1>1, <1>3 DEF Clear
<1>4. ASSUME NEW s \in Scopes, Wrote(s) PROVE InvalidatePrefix(s)
  BY <1>4 DEF Wrote
<1>5. ASSUME NEW c \in Clients, Notify(c) PROVE \E s \in Scopes : InvalidatePrefix(s)
  BY <1>5, BusHead DEF Notify
<1>6. ASSUME NEW c \in Clients, ListenerUp(c) PROVE Clear
  BY <1>6 DEF ListenerUp
<1> QED BY SeqnoChanges, <1>1, <1>2, <1>3, <1>4, <1>5, <1>6

-----------------------------------------------------------------------------
(* The dependency index                                                    *)

Indexed(st) ==
    \A k \in Keys, s \in Scopes :
        LET due == k \in st.keys /\ s \in DependsOn[k]
        IN (k \in st.dependents[s] <=> due) /\ (s \in st.prefixes[k] <=> due)

LEMMA DropKeepsIndex ==
    ASSUME NEW st \in Store, NEW ks, Indexed(st)
    PROVE  Indexed(Drop(st, ks))
<1> DEFINE st2 == Drop(st, ks)
<1>1. /\ st2.keys = st.keys \ ks
      /\ \A k \in Keys \ (ks \cap st.keys) : st2.prefixes[k] = st.prefixes[k]
      /\ \A k \in ks \cap st.keys : st2.prefixes[k] = {}
      /\ \A s \in Scopes : st2.dependents[s] = st.dependents[s] \ (ks \cap st.keys)
  BY DropEffect
<1> HIDE DEF st2
<1>2. Indexed(st2)
  BY <1>1 DEF Indexed
<1> QED BY <1>2 DEF st2

LEMMA PutKeepsIndex ==
    ASSUME NEW st \in Store, NEW k \in Keys, NEW v \in Values, NEW b, Indexed(st)
    PROVE  Indexed(Put(Register(st, k), k, v, b))
<1> DEFINE reg == Register(st, k)
<1>1. /\ reg \in Store /\ reg.keys = st.keys
      /\ \A s \in Scopes : reg.dependents[s] =
            IF s \in DependsOn[k] THEN st.dependents[s] \cup {k} ELSE st.dependents[s]
      /\ \A i \in Keys : reg.prefixes[i] =
            IF i = k THEN st.prefixes[k] \cup DependsOn[k] ELSE st.prefixes[i]
  BY RegisterEffect
<1> HIDE DEF reg
<1> DEFINE put == Put(reg, k, v, b)
<1>2. /\ put.keys \subseteq reg.keys \cup {k}
      /\ \A i \in Keys, s \in Scopes :
            LET stays == i \in put.keys \/ i \notin reg.keys \cup {k}
            IN /\ i \in put.dependents[s] <=> i \in reg.dependents[s] /\ stays
               /\ s \in put.prefixes[i] <=> s \in reg.prefixes[i] /\ stays
  BY <1>1, PutEffect
<1> HIDE DEF put
<1>3. ASSUME NEW i \in Keys, NEW s \in Scopes
      PROVE  /\ i \in put.dependents[s] <=> i \in put.keys /\ s \in DependsOn[i]
             /\ s \in put.prefixes[i] <=> i \in put.keys /\ s \in DependsOn[i]
  <2>1. /\ i \in st.dependents[s] <=> i \in st.keys /\ s \in DependsOn[i]
        /\ s \in st.prefixes[i] <=> i \in st.keys /\ s \in DependsOn[i]
    BY DEF Indexed
  <2>2. /\ i \in reg.dependents[s] <=> i \in reg.keys \cup {k} /\ s \in DependsOn[i]
        /\ s \in reg.prefixes[i] <=> i \in reg.keys \cup {k} /\ s \in DependsOn[i]
    BY <1>1, <2>1
  <2> QED BY <1>2, <2>2
<1>4. Indexed(put)
  BY <1>3 DEF Indexed
<1> QED BY <1>4 DEF put, reg

LEMMA InvalidateKeepsIndex ==
    ASSUME NEW st \in Store, NEW s \in Scopes, Indexed(st)
    PROVE  Indexed(Invalidate(st, s))
<1> DEFINE out == About(st, s)
           st2 == Invalidate(st, s)
<1>1. /\ st2.keys = st.keys \ out
      /\ \A t \in Scopes : st2.dependents[t] =
            IF t = s THEN {} ELSE st.dependents[t] \ (out \cap st.keys)
      /\ \A k \in out \cap st.keys : st2.prefixes[k] = {}
      /\ \A k \in Keys \ (out \cap st.keys), t \in Scopes :
            t \in st2.prefixes[k] <=> t \in st.prefixes[k] /\ ~(k \in st.dependents[s] /\ t = s)
  <2>1. st2.keys = st.keys \ out
    BY InvalidateEffect
  <2>2. \A t \in Scopes : st2.dependents[t] =
            IF t = s THEN {} ELSE st.dependents[t] \ (out \cap st.keys)
    BY InvalidateEffect
  <2>3. \A k \in out \cap st.keys : st2.prefixes[k] = {}
    BY InvalidateEffect
  <2>4. \A k \in Keys \ (out \cap st.keys), t \in Scopes :
            t \in st2.prefixes[k] <=> t \in st.prefixes[k] /\ ~(k \in st.dependents[s] /\ t = s)
    BY InvalidateEffect
  <2> QED BY <2>1, <2>2, <2>3, <2>4
<1>2. st.dependents[s] \subseteq out
  BY DEF About
<1> HIDE DEF st2, out
<1>3. ASSUME NEW k \in Keys, NEW t \in Scopes
      PROVE  /\ k \in st2.dependents[t] <=> k \in st2.keys /\ t \in DependsOn[k]
             /\ t \in st2.prefixes[k] <=> k \in st2.keys /\ t \in DependsOn[k]
  <2>1. k \in st.dependents[t] <=> k \in st.keys /\ t \in DependsOn[k]
    BY DEF Indexed
  <2>2. t \in st.prefixes[k] <=> k \in st.keys /\ t \in DependsOn[k]
    BY DEF Indexed
  <2>3. k \in st.dependents[s] => k \in out /\ k \in st.keys
    BY <1>2 DEF Indexed
  <2>4. k \in st2.dependents[t] <=> k \in st2.keys /\ t \in DependsOn[k]
    <3>1. CASE t = s
      BY <1>1, <1>2, <2>1, <3>1
    <3>2. CASE t # s
      <4>1. st2.dependents[t] = st.dependents[t] \ (out \cap st.keys)
        BY <1>1, <3>2
      <4> QED BY <1>1, <2>1, <4>1
    <3> QED BY <3>1, <3>2
  <2>5. t \in st2.prefixes[k] <=> k \in st2.keys /\ t \in DependsOn[k]
    <3>1. CASE k \in out \cap st.keys
      BY <1>1, <3>1
    <3>2. CASE k \notin out \cap st.keys
      <4>1. t \in st2.prefixes[k] <=> t \in st.prefixes[k] /\ ~(k \in st.dependents[s] /\ t = s)
        BY <1>1, <3>2
      <4>2. k \in st2.keys <=> k \in st.keys
        BY <1>1, <3>2
      <4> QED BY <2>2, <2>3, <3>2, <4>1, <4>2
    <3> QED BY <3>1, <3>2
  <2> QED BY <2>4, <2>5
<1>4. Indexed(st2)
  BY <1>3 DEF Indexed
<1> QED BY <1>4 DEF st2

LEMMA IndexStep ==
    ASSUME Typed, Indexed(store), [Next]_vars
    PROVE  Indexed(store')
<1>1. store \in Store
  BY DEF Typed
<1>2. ASSUME NEW k \in Keys, Expire(k) PROVE Indexed(store')
  BY <1>1, <1>2, DropKeepsIndex DEF Expire
<1>3. ASSUME NEW x \in Callers \cup Keys, NEW k \in Keys, Hit(x, k) PROVE Indexed(store')
  <2>1. /\ store'.keys = store.keys \cup {k} /\ k \in store.keys
        /\ store'.dependents = store.dependents /\ store'.prefixes = store.prefixes
    BY <1>1, <1>3, PromoteEffect DEF Hit
  <2>2. store'.keys = store.keys
    BY <2>1
  <2> QED BY <2>1, <2>2 DEF Indexed
<1>4. ASSUME NEW k \in Keys, NEW b \in BOOLEAN, Complete(k, b) PROVE Indexed(store')
  <2>1. flight[k].seen \in Values
    BY DEF Typed, Flight
  <2>2. store' = store \/ store' = Put(Register(store, k), k, flight[k].seen, b)
    BY <1>4 DEF Complete
  <2> QED BY <1>1, <2>1, <2>2, PutKeepsIndex
<1>5. ASSUME NEW s \in Scopes, InvalidatePrefix(s) PROVE Indexed(store')
  BY <1>1, <1>5, InvalidateKeepsIndex DEF InvalidatePrefix
<1>6. ASSUME Clear PROVE Indexed(store')
  <2> DEFINE st == [store EXCEPT !.dependents = [s \in Scopes |-> {}], !.prefixes = [k \in Keys |-> {}]]
  <2>1. /\ st \in Store /\ st.keys = store.keys
        /\ \A s \in Scopes : st.dependents[s] = {}
        /\ \A k \in Keys : st.prefixes[k] = {}
    BY <1>1 DEF Store
  <2>2. store' = Drop(st, Keys)
    BY <1>6 DEF Clear
  <2> HIDE DEF st
  <2>3. /\ store'.keys = {} 
        /\ \A s \in Scopes : store'.dependents[s] = {}
        /\ \A k \in Keys : store'.prefixes[k] = {}
    <3>1. store.keys \subseteq Keys
      BY <1>1 DEF Store
    <3> QED BY <2>1, <2>2, <3>1, DropEffect
  <2> QED BY <2>3 DEF Indexed
<1>7. ASSUME NEW s \in Scopes, Wrote(s) PROVE Indexed(store')
  BY <1>5, <1>7 DEF Wrote
<1>8. ASSUME NEW c \in Clients, Notify(c) PROVE Indexed(store')
  BY <1>5, <1>8, BusHead DEF Notify
<1>9. ASSUME NEW c \in Clients, ListenerUp(c) PROVE Indexed(store')
  BY <1>6, <1>9 DEF ListenerUp
<1> QED BY StoreSteps, <1>2, <1>3, <1>4, <1>7, <1>8, <1>9


-----------------------------------------------------------------------------
(* The flights                                                             *)

LEMMA NoFlightType == NoFlight \in Flight
BY UnseenType DEF NoFlight, Flight

LEMMA BegunType == ASSUME NEW k PROVE Begun(k) \in {"reading", "keys"}
BY DEF Begun

LEMMA GivenEffect ==
    ASSUME NEW fl \in [Keys -> Flight], NEW x \in Keys, NEW v \in Values
    PROVE  /\ Given(fl, x, v) \in [Keys -> Flight]
           /\ \A i \in Keys \ {x} : Given(fl, x, v)[i] = fl[i]
           /\ Given(fl, x, v)[x] \in Flight
           /\ Given(fl, x, v)[x].pc = "reading"
           /\ Given(fl, x, v)[x].seq = fl[x].seq /\ Given(fl, x, v)[x].waiting = fl[x].waiting
           /\ \A s \in Scopes : Given(fl, x, v)[x].seen[s] =
                 IF s \in DependsOn[x] THEN v[s] ELSE fl[x].seen[s]
<1> DEFINE seen == [s \in Scopes |-> IF s \in DependsOn[x] THEN v[s] ELSE fl[x].seen[s]]
           one == [[fl[x] EXCEPT !.pc = "reading"] EXCEPT !.seen = seen]
<1>1. fl[x] \in Flight
  OBVIOUS
<1>2. seen \in Values
  BY <1>1 DEF Values, Flight
<1>3. Given(fl, x, v) = [fl EXCEPT ![x] = one]
  BY <1>1 DEF Given, Flight
<1>4. \A s \in Scopes : seen[s] = IF s \in DependsOn[x] THEN v[s] ELSE fl[x].seen[s]
  OBVIOUS
<1> HIDE DEF seen
<1>5. one \in Flight /\ one.pc = "reading" /\ one.seq = fl[x].seq
      /\ one.waiting = fl[x].waiting /\ one.seen = seen
  BY <1>1, <1>2 DEF Flight
<1> HIDE DEF one
<1> QED BY <1>3, <1>4, <1>5

LEMMA WaitsEffect ==
    ASSUME NEW fl \in [Keys -> Flight], NEW x \in Callers \cup Keys, NEW k \in Keys
    PROVE  /\ Waits(fl, x, k) \in [Keys -> Flight]
           /\ \A i \in Keys :
                 /\ Waits(fl, x, k)[i].seq = fl[i].seq /\ Waits(fl, x, k)[i].seen = fl[i].seen
                 /\ Waits(fl, x, k)[i].pc = IF i = x THEN "joined" ELSE fl[i].pc
           /\ \A i \in Keys \ {k} : Waits(fl, x, k)[i].waiting = fl[i].waiting
           /\ Waits(fl, x, k)[k].waiting = fl[k].waiting \cup {x}
<1> DEFINE one == [fl[k] EXCEPT !.waiting = fl[k].waiting \cup {x}]
           joined == [fl EXCEPT ![k] = one]
<1>1. one \in Flight /\ one.pc = fl[k].pc /\ one.seq = fl[k].seq
      /\ one.seen = fl[k].seen /\ one.waiting = fl[k].waiting \cup {x}
  BY DEF Flight
<1>2. Waits(fl, x, k) = IF x \in Keys THEN [joined EXCEPT ![x].pc = "joined"] ELSE joined
  BY DEF Waits
<1> HIDE DEF one
<1>3. /\ joined \in [Keys -> Flight]
      /\ \A i \in Keys : /\ joined[i].pc = fl[i].pc /\ joined[i].seq = fl[i].seq
                         /\ joined[i].seen = fl[i].seen
                         /\ joined[i].waiting = IF i = k THEN fl[i].waiting \cup {x}
                                                         ELSE fl[i].waiting
  BY <1>1
<1> HIDE DEF joined
<1>4. CASE x \notin Keys
  BY <1>2, <1>3, <1>4
<1>5. CASE x \in Keys
  <2> DEFINE two == [joined[x] EXCEPT !.pc = "joined"]
  <2>1. joined[x] \in Flight
    BY <1>3, <1>5
  <2>2. two \in Flight /\ two.pc = "joined" /\ two.seq = joined[x].seq
        /\ two.seen = joined[x].seen /\ two.waiting = joined[x].waiting
    BY <2>1 DEF Flight
  <2>3. Waits(fl, x, k) = [joined EXCEPT ![x] = two]
    BY <1>2, <1>5
  <2> HIDE DEF two
  <2>4. /\ Waits(fl, x, k) \in [Keys -> Flight]
        /\ Waits(fl, x, k)[x] = two
        /\ \A i \in Keys \ {x} : Waits(fl, x, k)[i] = joined[i]
    BY <1>3, <1>5, <2>2, <2>3
  <2> QED BY <1>3, <2>2, <2>4
<1> QED BY <1>4, <1>5

\* The finally of a compute: k's flight is over, and the first of the queue begins
\* in its place.
Follows(k, i) == k \in Laned /\ lane.waiters # <<>> /\ i = Head(lane.waiters)

LEMMA ReleasedEffect ==
    ASSUME NEW k \in Keys, NEW fl \in [Keys -> Flight], lane.waiters \in Seq(Keys), Released(k, fl)
    PROVE  /\ flight' \in [Keys -> Flight]
           /\ \A i \in Keys \ {k} : /\ flight'[i].seq = fl[i].seq /\ flight'[i].seen = fl[i].seen
                                    /\ flight'[i].waiting = fl[i].waiting
           /\ flight'[k].seq = 0 /\ flight'[k].seen = Unseen /\ flight'[k].waiting = {}
           /\ \A i \in Keys : flight'[i].pc = IF Follows(k, i) THEN Begun(i)
                                              ELSE IF i = k THEN "none" ELSE fl[i].pc
<1> DEFINE over == [fl EXCEPT ![k] = NoFlight]
           next == Head(lane.waiters)
<1>1. NoFlight \in Flight /\ NoFlight.pc = "none" /\ NoFlight.seq = 0
      /\ NoFlight.seen = Unseen /\ NoFlight.waiting = {}
  BY NoFlightType DEF NoFlight
<1>2. over \in [Keys -> Flight] /\ over[k] = NoFlight /\ \A i \in Keys \ {k} : over[i] = fl[i]
  BY <1>1
<1>3. CASE k \in Laned /\ lane.waiters # <<>>
  <2> DEFINE one == [over[next] EXCEPT !.pc = Begun(next)]
  <2>1. next \in Keys
    BY <1>3
  <2>2. flight' = [over EXCEPT ![next] = one]
    BY <1>3 DEF Released
  <2> HIDE DEF over, next
  <2>3. over[next] \in Flight
    BY <1>2, <2>1
  <2>4. one \in Flight /\ one.pc = Begun(next) /\ one.seq = over[next].seq
        /\ one.seen = over[next].seen /\ one.waiting = over[next].waiting
    BY <2>3, BegunType DEF Flight
  <2> HIDE DEF one
  <2>5. flight' \in [Keys -> Flight] /\ flight'[next] = one
        /\ \A i \in Keys \ {next} : flight'[i] = over[i]
    BY <1>2, <2>1, <2>2, <2>4
  <2>6. \A i \in Keys : Follows(k, i) <=> i = next
    BY <1>3 DEF Follows, next
  <2> QED BY <1>1, <1>2, <2>4, <2>5, <2>6
<1>4. CASE ~(k \in Laned /\ lane.waiters # <<>>)
  <2>1. flight' = over
    BY <1>4 DEF Released
  <2>2. \A i \in Keys : ~Follows(k, i)
    BY <1>4 DEF Follows
  <2> HIDE DEF over
  <2> QED BY <1>1, <1>2, <2>1, <2>2
<1> QED BY <1>3, <1>4

LEMMA LeadEffect ==
    ASSUME Typed, NEW x \in Callers \cup Keys, NEW k \in Keys, Lead(x, k)
    PROVE  LET waits == k \in Laned /\ lane.active >= LaneLimit
           IN \/ flight' = flight /\ lane' = lane /\ waits
              \/ /\ flight' \in [Keys -> Flight]
                 /\ lane' = IF waits THEN [lane EXCEPT !.waiters = Append(lane.waiters, k)]
                            ELSE IF k \in Laned THEN [lane EXCEPT !.active = lane.active + 1]
                            ELSE lane
                 /\ \A i \in Keys \ {k} : /\ flight'[i].seq = flight[i].seq
                                          /\ flight'[i].seen = flight[i].seen
                                          /\ flight'[i].waiting = flight[i].waiting
                                          /\ flight'[i].pc = IF i = x THEN "joined" ELSE flight[i].pc
                 /\ flight'[k].seq = seqno.now /\ flight'[k].seen = Unseen
                 /\ flight'[k].waiting = {x} /\ x # k
                 /\ flight'[k].pc = IF waits THEN "queued" ELSE Begun(k)
<1> DEFINE waits == k \in Laned /\ lane.active >= LaneLimit
           refused == waits /\ Len(lane.waiters) >= MaxQueued
           pc == IF waits THEN "queued" ELSE Begun(k)
           begun == [NoFlight EXCEPT !.pc = pc, !.seq = seqno.now]
           fl == [flight EXCEPT ![k] = begun]
<1>1. flight \in [Keys -> Flight] /\ seqno.now \in Nat
  BY DEF Typed
<1>2. flight' = IF refused THEN flight ELSE Waits(fl, x, k)
  BY DEF Lead
<1>3. x # k
  <2>1. x \in Keys => flight[x].pc = "keys"
    BY TileAssumption DEF Lead, Asks
  <2>2. flight[k].pc = "none"
    BY DEF Lead
  <2> QED BY <2>1, <2>2
<1>4. pc \in {"queued", "keys", "reading"}
  BY BegunType
<1> HIDE DEF pc
<1>5. begun \in Flight /\ begun.pc = pc /\ begun.seq = seqno.now
      /\ begun.seen = Unseen /\ begun.waiting = {}
  BY <1>1, <1>4, UnseenType DEF NoFlight, Flight
<1> HIDE DEF begun
<1>6. fl \in [Keys -> Flight] /\ fl[k] = begun /\ \A i \in Keys \ {k} : fl[i] = flight[i]
  BY <1>1, <1>5
<1> HIDE DEF fl, refused, waits
<1>7. CASE refused
  <2>1. waits
    BY <1>7 DEF refused
  <2>2. flight' = flight
    BY <1>2, <1>7
  <2>3. lane' = lane
    BY <1>7 DEF Lead, refused, waits
  <2> QED BY <2>1, <2>2, <2>3 DEF waits
<1>8. CASE ~refused
  <2>1. flight' = Waits(fl, x, k)
    BY <1>2, <1>8
  <2>2. /\ flight' \in [Keys -> Flight]
        /\ \A i \in Keys :
              /\ flight'[i].seq = fl[i].seq /\ flight'[i].seen = fl[i].seen
              /\ flight'[i].pc = IF i = x THEN "joined" ELSE fl[i].pc
              /\ flight'[i].waiting = IF i = k THEN fl[i].waiting \cup {x} ELSE fl[i].waiting
    <3>1. fl \in [Keys -> Flight]
      BY <1>6
    <3>2. Waits(fl, x, k) \in [Keys -> Flight]
      BY <3>1, WaitsEffect
    <3>3. ASSUME NEW i \in Keys
          PROVE  /\ Waits(fl, x, k)[i].seq = fl[i].seq /\ Waits(fl, x, k)[i].seen = fl[i].seen
                 /\ Waits(fl, x, k)[i].pc = IF i = x THEN "joined" ELSE fl[i].pc
      BY <3>1, WaitsEffect
    <3>4. /\ \A i \in Keys \ {k} : Waits(fl, x, k)[i].waiting = fl[i].waiting
          /\ Waits(fl, x, k)[k].waiting = fl[k].waiting \cup {x}
      BY <3>1, WaitsEffect
    <3> QED BY <2>1, <3>2, <3>3, <3>4
  <2>3. \A i \in Keys \ {k} : /\ flight'[i].seq = flight[i].seq
                              /\ flight'[i].seen = flight[i].seen
                              /\ flight'[i].waiting = flight[i].waiting
                              /\ flight'[i].pc = IF i = x THEN "joined" ELSE flight[i].pc
    BY <1>6, <2>2
  <2>4. /\ flight'[k].seq = seqno.now /\ flight'[k].seen = Unseen
        /\ flight'[k].waiting = {x} /\ flight'[k].pc = pc
    BY <1>3, <1>5, <1>6, <2>2
  <2>5. lane' = IF waits THEN [lane EXCEPT !.waiters = Append(lane.waiters, k)]
                ELSE IF k \in Laned THEN [lane EXCEPT !.active = lane.active + 1]
                ELSE lane
    BY <1>8 DEF Lead, refused, waits
  <2> QED BY <1>3, <2>2, <2>3, <2>4, <2>5 DEF pc, waits
<1> QED BY <1>7, <1>8

LEMMA LeadBegins ==
    ASSUME Typed, NEW x \in Callers \cup Keys, NEW k \in Keys, Lead(x, k), flight' # flight
    PROVE  /\ \A i \in Keys \ {k} : /\ flight'[i].seq = flight[i].seq
                                    /\ flight'[i].seen = flight[i].seen
                                    /\ flight'[i].waiting = flight[i].waiting
                                    /\ flight'[i].pc = IF i = x THEN "joined" ELSE flight[i].pc
           /\ flight'[k].seq = seqno.now /\ flight'[k].seen = Unseen /\ flight'[k].waiting = {x}
BY LeadEffect

LEMMA CompleteEffect ==
    ASSUME Typed, NEW k \in Keys, NEW b, Complete(k, b)
    PROVE  /\ flight' \in [Keys -> Flight]
           /\ \A i \in Keys \ {k} :
                 /\ flight'[i].seq = flight[i].seq /\ flight'[i].waiting = flight[i].waiting
                 /\ \A s \in Scopes : flight'[i].seen[s] =
                       IF i \in flight[k].waiting /\ s \in DependsOn[i]
                       THEN flight[k].seen[s] ELSE flight[i].seen[s]
           /\ flight'[k].seq = 0 /\ flight'[k].seen = Unseen /\ flight'[k].waiting = {}
           /\ \A i \in Keys : flight'[i].pc =
                 IF Follows(k, i) THEN Begun(i) ELSE IF i = k THEN "none"
                 ELSE IF i \in flight[k].waiting THEN "reading" ELSE flight[i].pc
<1> DEFINE v == flight[k].seen
           fl == [i \in Keys |-> IF i \in flight[k].waiting \cap Keys
                                 THEN Given(flight, i, v)[i] ELSE flight[i]]
<1>1. flight \in [Keys -> Flight] /\ v \in Values /\ lane.waiters \in Seq(Keys)
  BY DEF Typed, Flight
<1>2. Released(k, fl)
  BY DEF Complete
<1> HIDE DEF v
<1>3. ASSUME NEW i \in Keys
      PROVE  /\ fl[i] \in Flight /\ fl[i].seq = flight[i].seq /\ fl[i].waiting = flight[i].waiting
             /\ fl[i].pc = IF i \in flight[k].waiting THEN "reading" ELSE flight[i].pc
             /\ \A s \in Scopes : fl[i].seen[s] =
                   IF i \in flight[k].waiting /\ s \in DependsOn[i] THEN v[s] ELSE flight[i].seen[s]
  <2>1. CASE i \in flight[k].waiting
    <3>1. fl[i] = Given(flight, i, v)[i]
      BY <2>1
    <3> HIDE DEF fl
    <3> QED BY <1>1, <2>1, <3>1, GivenEffect
  <2>2. CASE i \notin flight[k].waiting
    <3>1. fl[i] = flight[i]
      BY <2>2
    <3> HIDE DEF fl
    <3> QED BY <1>1, <2>2, <3>1
  <2> QED BY <2>1, <2>2
<1>4. fl \in [Keys -> Flight]
  <2>1. \A i \in Keys : fl[i] \in Flight
    BY <1>3
  <2>2. fl = [i \in Keys |-> fl[i]]
    OBVIOUS
  <2> HIDE DEF fl
  <2> QED BY <2>1, <2>2
<1> HIDE DEF fl
<1>5. /\ flight' \in [Keys -> Flight]
      /\ \A i \in Keys \ {k} : /\ flight'[i].seq = fl[i].seq /\ flight'[i].seen = fl[i].seen
                               /\ flight'[i].waiting = fl[i].waiting
      /\ flight'[k].seq = 0 /\ flight'[k].seen = Unseen /\ flight'[k].waiting = {}
      /\ \A i \in Keys : flight'[i].pc = IF Follows(k, i) THEN Begun(i)
                                         ELSE IF i = k THEN "none" ELSE fl[i].pc
  BY <1>1, <1>2, <1>4, ReleasedEffect
<1>6. \A i \in Keys \ {k} :
         /\ flight'[i].seq = flight[i].seq /\ flight'[i].waiting = flight[i].waiting
         /\ \A s \in Scopes : flight'[i].seen[s] =
               IF i \in flight[k].waiting /\ s \in DependsOn[i] THEN v[s] ELSE flight[i].seen[s]
  BY <1>3, <1>5
<1>7. \A i \in Keys : flight'[i].pc =
         IF Follows(k, i) THEN Begun(i) ELSE IF i = k THEN "none"
         ELSE IF i \in flight[k].waiting THEN "reading" ELSE flight[i].pc
  BY <1>3, <1>5
<1> QED BY <1>5, <1>6, <1>7 DEF v

LEMMA FailEffect ==
    ASSUME Typed, NEW k \in Keys, Fail(k)
    PROVE  /\ flight' \in [Keys -> Flight]
           /\ \A i \in Keys \ {k} :
                 /\ flight'[i].seq = flight[i].seq /\ flight'[i].waiting = flight[i].waiting
                 /\ flight'[i].seen = flight[i].seen
           /\ flight'[k].seq = 0 /\ flight'[k].seen = Unseen /\ flight'[k].waiting = {}
           /\ \A i \in Keys : flight'[i].pc =
                 IF Follows(k, i) THEN Begun(i) ELSE IF i = k THEN "none"
                 ELSE IF i \in flight[k].waiting THEN "failing" ELSE flight[i].pc
<1> DEFINE fl == [i \in Keys |-> IF i \in flight[k].waiting
                                 THEN [flight[i] EXCEPT !.pc = "failing"] ELSE flight[i]]
<1>1. flight \in [Keys -> Flight] /\ lane.waiters \in Seq(Keys)
  BY DEF Typed
<1>2. Released(k, fl)
  BY DEF Fail
<1>3. ASSUME NEW i \in Keys
      PROVE  /\ fl[i] \in Flight /\ fl[i].seq = flight[i].seq /\ fl[i].waiting = flight[i].waiting
             /\ fl[i].seen = flight[i].seen
             /\ fl[i].pc = IF i \in flight[k].waiting THEN "failing" ELSE flight[i].pc
  BY <1>1 DEF Flight
<1>4. fl \in [Keys -> Flight]
  <2>1. \A i \in Keys : fl[i] \in Flight
    BY <1>3
  <2>2. fl = [i \in Keys |-> fl[i]]
    OBVIOUS
  <2> HIDE DEF fl
  <2> QED BY <2>1, <2>2
<1> HIDE DEF fl
<1>5. /\ flight' \in [Keys -> Flight]
      /\ \A i \in Keys \ {k} : /\ flight'[i].seq = fl[i].seq /\ flight'[i].seen = fl[i].seen
                               /\ flight'[i].waiting = fl[i].waiting
      /\ flight'[k].seq = 0 /\ flight'[k].seen = Unseen /\ flight'[k].waiting = {}
      /\ \A i \in Keys : flight'[i].pc = IF Follows(k, i) THEN Begun(i)
                                         ELSE IF i = k THEN "none" ELSE fl[i].pc
  BY <1>1, <1>2, <1>4, ReleasedEffect
<1>6. \A i \in Keys \ {k} :
         /\ flight'[i].seq = flight[i].seq /\ flight'[i].waiting = flight[i].waiting
         /\ flight'[i].seen = flight[i].seen
  BY <1>3, <1>5
<1>7. \A i \in Keys : flight'[i].pc =
         IF Follows(k, i) THEN Begun(i) ELSE IF i = k THEN "none"
         ELSE IF i \in flight[k].waiting THEN "failing" ELSE flight[i].pc
  BY <1>3, <1>5
<1> QED BY <1>5, <1>6, <1>7

LEMMA ReadEffect ==
    ASSUME Typed, NEW k \in Keys, NEW s \in Scopes, Read(k, s)
    PROVE  /\ flight' \in [Keys -> Flight]
           /\ \A i \in Keys \ {k} : flight'[i] = flight[i]
           /\ flight'[k].pc = "reading" /\ flight[k].pc = "reading"
           /\ flight'[k].seq = flight[k].seq /\ flight'[k].waiting = flight[k].waiting
           /\ \A t \in Scopes \ {s} : flight'[k].seen[t] = flight[k].seen[t]
           /\ flight'[k].seen[s] = version[s]
<1> DEFINE one == [flight[k] EXCEPT !.seen = [flight[k].seen EXCEPT ![s] = version[s]]]
<1>1. flight \in [Keys -> Flight] /\ flight[k] \in Flight /\ flight[k].pc = "reading"
  BY DEF Typed, Read
<1>2. flight[k].seen \in Values
  BY <1>1 DEF Flight
<1>3. version[s] \in Unread..MaxWrites
  BY TileAssumption DEF Typed, Unread
<1>4. /\ [flight[k].seen EXCEPT ![s] = version[s]] \in Values
      /\ \A t \in Scopes \ {s} : [flight[k].seen EXCEPT ![s] = version[s]][t] = flight[k].seen[t]
      /\ [flight[k].seen EXCEPT ![s] = version[s]][s] = version[s]
  BY <1>2, <1>3 DEF Values
<1>5. one \in Flight /\ one.pc = "reading" /\ one.seq = flight[k].seq
      /\ one.waiting = flight[k].waiting
      /\ one.seen = [flight[k].seen EXCEPT ![s] = version[s]]
  BY <1>1, <1>4 DEF Flight
<1>6. flight' = [flight EXCEPT ![k] = one]
  BY <1>1 DEF Read
<1> HIDE DEF one
<1>7. flight' \in [Keys -> Flight] /\ flight'[k] = one /\ \A i \in Keys \ {k} : flight'[i] = flight[i]
  BY <1>1, <1>5, <1>6
<1> QED BY <1>1, <1>4, <1>5, <1>7

LEMMA HitEffect ==
    ASSUME Typed, NEW x \in Callers \cup Keys, NEW k \in Keys, Hit(x, k)
    PROVE  /\ flight' \in [Keys -> Flight]
           /\ \A i \in Keys \ {x} : flight'[i] = flight[i]
           /\ x \in Keys =>
                 /\ flight[x].pc = "keys" /\ flight'[x].pc = "reading" /\ k = Inner[x]
                 /\ flight'[x].seq = flight[x].seq /\ flight'[x].waiting = flight[x].waiting
                 /\ \A s \in Scopes : flight'[x].seen[s] =
                       IF s \in DependsOn[x] THEN store.value[k][s] ELSE flight[x].seen[s]
<1>1. flight \in [Keys -> Flight] /\ store.value[k] \in Values
  BY DEF Typed, Store
<1>2. CASE x \in Keys
  <2>1. flight' = Given(flight, x, store.value[k]) /\ flight[x].pc = "keys" /\ k = Inner[x]
    BY <1>2, TileAssumption DEF Hit, Asks
  <2> QED BY <1>1, <1>2, <2>1, GivenEffect
<1>3. CASE x \notin Keys
  <2>1. flight' = flight
    BY <1>3 DEF Hit
  <2> QED BY <1>1, <1>3, <2>1
<1> QED BY <1>2, <1>3

LEMMA JoinEffect ==
    ASSUME Typed, NEW x \in Callers \cup Keys, NEW k \in Keys, Join(x, k)
    PROVE  /\ flight' \in [Keys -> Flight]
           /\ \A i \in Keys : /\ flight'[i].seq = flight[i].seq /\ flight'[i].seen = flight[i].seen
                              /\ flight'[i].pc = IF i = x THEN "joined" ELSE flight[i].pc
           /\ \A i \in Keys \ {k} : flight'[i].waiting = flight[i].waiting
           /\ flight'[k].waiting = flight[k].waiting \cup {x}
           /\ x \in Keys => flight[x].pc = "keys" /\ k = Inner[x]
           /\ flight[k].pc # "none"
<1>1. flight \in [Keys -> Flight] /\ flight' = Waits(flight, x, k) /\ flight[k].pc # "none"
  BY DEF Typed, Join
<1>2. x \in Keys => flight[x].pc = "keys" /\ k = Inner[x]
  BY TileAssumption DEF Join, Asks
<1> QED BY <1>1, <1>2, WaitsEffect

\* A request that hangs up: the last one withdraws a compute still queued.
LEMMA AbortEffect ==
    ASSUME Typed, NEW x \in Callers, NEW k \in Keys,
           LET left == flight[k].waiting \ {x}
           IN IF left = {} /\ flight[k].pc = "queued"
              THEN /\ flight' = [flight EXCEPT ![k] = NoFlight]
                   /\ \E p \in DOMAIN lane.waiters :
                          lane.waiters[p] = k /\ lane' = [lane EXCEPT !.waiters = RemoveAt(@, p)]
              ELSE /\ flight' = [flight EXCEPT ![k].waiting = left]
                   /\ UNCHANGED lane
    PROVE  /\ flight' \in [Keys -> Flight]
           /\ \A i \in Keys \ {k} : flight'[i] = flight[i]
           /\ \/ /\ flight[k].pc = "queued" /\ flight'[k] = NoFlight
                 /\ \E p \in DOMAIN lane.waiters :
                        lane.waiters[p] = k /\ lane' = [lane EXCEPT !.waiters = RemoveAt(@, p)]
              \/ /\ flight'[k].pc = flight[k].pc /\ flight'[k].seq = flight[k].seq
                 /\ flight'[k].seen = flight[k].seen
                 /\ flight'[k].waiting = flight[k].waiting \ {x}
                 /\ lane' = lane
<1> DEFINE left == flight[k].waiting \ {x}
           one == [flight[k] EXCEPT !.waiting = left]
<1>1. flight \in [Keys -> Flight] /\ flight[k] \in Flight
  BY DEF Typed
<1>2. CASE left = {} /\ flight[k].pc = "queued"
  <2>1. /\ flight' = [flight EXCEPT ![k] = NoFlight]
        /\ \E p \in DOMAIN lane.waiters :
               lane.waiters[p] = k /\ lane' = [lane EXCEPT !.waiters = RemoveAt(@, p)]
    BY <1>2
  <2>2. flight' \in [Keys -> Flight] /\ flight'[k] = NoFlight /\ \A i \in Keys \ {k} : flight'[i] = flight[i]
    BY <1>1, <2>1, NoFlightType
  <2> QED BY <1>2, <2>1, <2>2
<1>3. CASE ~(left = {} /\ flight[k].pc = "queued")
  <2>1. flight' = [flight EXCEPT ![k] = one] /\ lane' = lane
    BY <1>3
  <2>2. one \in Flight /\ one.pc = flight[k].pc /\ one.seq = flight[k].seq
        /\ one.seen = flight[k].seen /\ one.waiting = left
    BY <1>1 DEF Flight
  <2> HIDE DEF one
  <2>3. flight' \in [Keys -> Flight] /\ flight'[k] = one /\ \A i \in Keys \ {k} : flight'[i] = flight[i]
    BY <1>1, <2>1, <2>2
  <2> QED BY <2>1, <2>2, <2>3
<1> QED BY <1>2, <1>3

\* The steps by what they do to the flights and the lane.
LEMMA FlightSteps ==
    ASSUME [Next]_vars
    PROVE  \/ flight' = flight /\ lane' = lane /\ tiles' = tiles
           \/ \E x \in Callers \cup Keys, k \in Keys : GetOrCompute(x, k)
           \/ \E x \in Callers : Abort(x)
           \/ \E k \in Keys : Compute(k)
<1>1. CASE UNCHANGED vars
  BY <1>1 DEF vars, computeVars
<1>2. ASSUME NEW s \in Scopes, Wrote(s) \/ \E here \in BOOLEAN : Write(s, here)
      PROVE  UNCHANGED computeVars
  BY <1>2 DEF Wrote, Write
<1>3. ASSUME NEW k \in Keys, Expire(k) PROVE UNCHANGED computeVars
  BY <1>3 DEF Expire
<1>4. ASSUME NEW c \in Clients, ListenCommits(c) \/ ListenerUp(c) \/ ListenerLost(c) \/ Notify(c)
      PROVE  UNCHANGED computeVars
  BY <1>4 DEF ListenCommits, ListenerUp, ListenerLost, Notify
<1>5. CASE RetryTimer
  BY <1>5 DEF RetryTimer, computeVars
<1>6. UNCHANGED computeVars => flight' = flight /\ lane' = lane /\ tiles' = tiles
  BY DEF computeVars
<1> QED BY <1>1, <1>2, <1>3, <1>4, <1>5, <1>6 DEF Next

LEMMA FlightTypeStep ==
    ASSUME Typed, [Next]_vars
    PROVE  flight' \in [Keys -> Flight]
<1>1. flight \in [Keys -> Flight]
  BY DEF Typed
<1>2. ASSUME NEW x \in Callers \cup Keys, NEW k \in Keys, GetOrCompute(x, k)
      PROVE  flight' \in [Keys -> Flight]
  BY <1>1, <1>2, HitEffect, JoinEffect, LeadEffect DEF GetOrCompute
<1>3. ASSUME NEW x \in Callers, Abort(x) PROVE flight' \in [Keys -> Flight]
  BY <1>3, AbortEffect DEF Abort
<1>4. ASSUME NEW k \in Keys, Compute(k) PROVE flight' \in [Keys -> Flight]
  BY <1>4, ReadEffect, CompleteEffect, FailEffect DEF Compute
<1> QED BY FlightSteps, <1>1, <1>2, <1>3, <1>4

-----------------------------------------------------------------------------
(* The lane                                                                *)

LEMMA RemoveAtEffect ==
    ASSUME NEW S, NEW q \in Seq(S), NEW p \in DOMAIN q
    PROVE  /\ RemoveAt(q, p) \in Seq(S) /\ Len(RemoveAt(q, p)) = Len(q) - 1
           /\ \A i \in DOMAIN RemoveAt(q, p) :
                 /\ i < p => RemoveAt(q, p)[i] = q[i]
                 /\ i >= p => RemoveAt(q, p)[i] = q[i + 1]
<1> DEFINE a == SubSeq(q, 1, p - 1)
           b == SubSeq(q, p + 1, Len(q))
<1>1. p \in 1..Len(q) /\ Len(q) \in Nat
  OBVIOUS
<1>2. a \in Seq(S) /\ Len(a) = p - 1 /\ \A i \in 1..(p - 1) : a[i] = q[i]
  BY <1>1
<1>3. b \in Seq(S) /\ Len(b) = Len(q) - p /\ \A i \in 1..(Len(q) - p) : b[i] = q[i + p]
  BY <1>1
<1>4. RemoveAt(q, p) = a \o b
  BY DEF RemoveAt
<1> HIDE DEF a, b
<1>5. a \o b \in Seq(S) /\ Len(a \o b) = Len(q) - 1
  BY <1>1, <1>2, <1>3
<1>6. ASSUME NEW i \in 1..(Len(q) - 1)
      PROVE  (i < p => (a \o b)[i] = q[i]) /\ (i >= p => (a \o b)[i] = q[i + 1])
  <2>1. i < p => (a \o b)[i] = a[i]
    BY <1>1, <1>2, <1>3
  <2>2. i >= p => (a \o b)[i] = b[i - (p - 1)]
    BY <1>1, <1>2, <1>3
  <2>3. i >= p => b[i - (p - 1)] = q[i + 1]
    <3>1. i >= p => i - (p - 1) \in 1..(Len(q) - p) /\ (i - (p - 1)) + p = i + 1
      BY <1>1
    <3> QED BY <1>3, <3>1
  <2>4. i < p => a[i] = q[i]
    <3>1. i < p => i \in 1..(p - 1)
      BY <1>1
    <3> QED BY <1>2, <3>1
  <2> QED BY <2>1, <2>2, <2>3, <2>4
<1>7. DOMAIN (a \o b) = 1..(Len(q) - 1)
  BY <1>5
<1> QED BY <1>4, <1>5, <1>6, <1>7

LEMMA ReleasedLane ==
    ASSUME NEW k \in Keys, NEW fl, Released(k, fl)
    PROVE  \/ /\ k \in Laned /\ lane.waiters # <<>> /\ tiles' = tiles
              /\ lane' = [lane EXCEPT !.waiters = Tail(lane.waiters)]
           \/ /\ k \in Laned /\ lane.waiters = <<>> /\ tiles' = tiles
              /\ lane' = [lane EXCEPT !.active = lane.active - 1]
           \/ /\ k \notin Laned /\ lane' = lane
              /\ tiles' = IF k \in Exempt THEN tiles ELSE tiles - 1
<1>1. CASE k \in Laned /\ lane.waiters # <<>>
  BY <1>1 DEF Released
<1>2. CASE k \in Laned /\ lane.waiters = <<>>
  BY <1>2 DEF Released
<1>3. CASE k \notin Laned
  BY <1>3 DEF Released
<1> QED BY <1>1, <1>2, <1>3

LaneType == [active : Int, waiters : Seq(Keys)]

LEMMA LaneTypeStep ==
    ASSUME Typed, [Next]_vars
    PROVE  lane' \in LaneType /\ tiles' \in Int
<1> USE DEF LaneType
<1>1. lane \in LaneType /\ tiles \in Int
  BY DEF Typed
<1>2. ASSUME NEW x \in Callers \cup Keys, NEW k \in Keys, Hit(x, k) \/ Join(x, k)
      PROVE  lane' \in LaneType /\ tiles' \in Int
  BY <1>1, <1>2 DEF Hit, Join
<1>3. ASSUME NEW x \in Callers \cup Keys, NEW k \in Keys, Lead(x, k)
      PROVE  lane' \in LaneType /\ tiles' \in Int
  <2>1. tiles' \in Int
    BY <1>1, <1>3 DEF Lead
  <2>2. \/ lane' = lane
        \/ lane' = [lane EXCEPT !.waiters = Append(lane.waiters, k)]
        \/ lane' = [lane EXCEPT !.active = lane.active + 1]
    BY <1>3, LeadEffect
  <2>3. Append(lane.waiters, k) \in Seq(Keys) /\ lane.active + 1 \in Int
    BY <1>1
  <2>4. [lane EXCEPT !.active = lane.active + 1] \in LaneType
    BY <1>1, <2>3
  <2>5. [lane EXCEPT !.waiters = Append(lane.waiters, k)] \in LaneType
    <3> DEFINE w == Append(lane.waiters, k)
    <3>1. w \in Seq(Keys)
      BY <2>3
    <3> HIDE DEF w
    <3>2. [lane EXCEPT !.waiters = w] \in LaneType
      BY <1>1, <3>1
    <3> QED BY <3>2 DEF w
  <2> HIDE DEF LaneType
  <2> QED BY <1>1, <2>1, <2>2, <2>4, <2>5
<1>4. ASSUME NEW x \in Callers, Abort(x) PROVE lane' \in LaneType /\ tiles' \in Int
  <2>1. tiles' = tiles
    BY <1>4 DEF Abort
  <2>2. lane' = lane \/ \E p \in DOMAIN lane.waiters : lane' = [lane EXCEPT !.waiters = RemoveAt(lane.waiters, p)]
    BY <1>4 DEF Abort
  <2>3. \A p \in DOMAIN lane.waiters : RemoveAt(lane.waiters, p) \in Seq(Keys)
    BY <1>1, RemoveAtEffect
  <2> QED BY <1>1, <2>1, <2>2, <2>3
<1>5. ASSUME NEW k \in Keys, NEW fl, Released(k, fl) PROVE lane' \in LaneType /\ tiles' \in Int
  <2>1. lane.waiters # <<>> => Tail(lane.waiters) \in Seq(Keys)
    BY <1>1
  <2> QED BY <1>1, <1>5, <2>1, ReleasedLane
<1>6. ASSUME NEW k \in Keys, Compute(k) PROVE lane' \in LaneType /\ tiles' \in Int
  <2>1. CASE \E s \in Scopes : Read(k, s)
    BY <1>1, <2>1 DEF Read
  <2>2. CASE (\E b \in BOOLEAN : Complete(k, b)) \/ Fail(k)
    BY <1>5, <2>2 DEF Complete, Fail
  <2> QED BY <1>6, <2>1, <2>2 DEF Compute
<1> QED BY FlightSteps, <1>1, <1>2, <1>3, <1>4, <1>6 DEF GetOrCompute

-----------------------------------------------------------------------------
(* The connections and the types                                           *)

Stages == {"unused", "connecting", "listening", "up", "gone"}

\* ensureListener opens a connection at most, and leaves those there are alone.
LEMMA EnsureEffect ==
    ASSUME Typed, NEW st \in BOOLEAN, EnsureListener(conn, listener, st)
    PROVE  /\ starting' \in BOOLEAN
           /\ conn' \in [Clients -> Stages]
           /\ \A c \in Clients : conn[c] # "unused" => conn'[c] = conn[c]
<1>1. conn \in [Clients -> Stages]
  BY DEF Typed, Stages
<1>2. starting' \in BOOLEAN
  BY DEF EnsureListener
<1>3. conn' = conn \/ (Unused # {} /\ conn' = [conn EXCEPT ![CHOOSE c \in Unused : TRUE] = "connecting"])
  BY DEF EnsureListener
<1>4. CASE conn' = conn
  BY <1>1, <1>2, <1>4
<1>5. CASE Unused # {} /\ conn' = [conn EXCEPT ![CHOOSE c \in Unused : TRUE] = "connecting"]
  <2>1. PICK d \in Unused : d = CHOOSE c \in Unused : TRUE
    BY <1>5, Zenon
  <2>2. d \in Clients /\ conn[d] = "unused"
    BY DEF Unused
  <2>3. conn' = [conn EXCEPT ![d] = "connecting"]
    BY <1>5, <2>1
  <2> QED BY <1>1, <1>2, <2>2, <2>3 DEF Stages
<1> QED BY <1>3, <1>4, <1>5

LEMMA ListenTypeStep ==
    ASSUME Typed, [Next]_vars
    PROVE  /\ conn' \in [Clients -> Stages] /\ bus' \in [Clients -> Seq(Scopes)]
           /\ listener' \in Clients \cup {NoClient} /\ starting' \in BOOLEAN /\ timers' \in Nat
<1> DEFINE Listens == /\ conn' \in [Clients -> Stages] /\ bus' \in [Clients -> Seq(Scopes)]
                      /\ listener' \in Clients \cup {NoClient} /\ starting' \in BOOLEAN
                      /\ timers' \in Nat
<1>1. /\ conn \in [Clients -> Stages] /\ bus \in [Clients -> Seq(Scopes)]
      /\ listener \in Clients \cup {NoClient} /\ starting \in BOOLEAN /\ timers \in Nat
  BY DEF Typed, Stages
<1>2. UNCHANGED listenVars => Listens
  BY <1>1 DEF listenVars
<1>3. ASSUME NEW s \in Scopes, NEW here \in BOOLEAN, Write(s, here) PROVE Listens
  <2>1. UNCHANGED <<conn, listener, starting, timers>>
    BY <1>3 DEF Write
  <2>2. bus' = [c \in Clients |-> IF conn[c] \in {"listening", "up"} THEN Append(bus[c], s) ELSE bus[c]]
    BY <1>3 DEF Write
  <2>3. \A c \in Clients : Append(bus[c], s) \in Seq(Scopes) /\ bus[c] \in Seq(Scopes)
    BY <1>1
  <2>4. bus' \in [Clients -> Seq(Scopes)]
    BY <2>2, <2>3
  <2> QED BY <1>1, <2>1, <2>4
<1>4. ASSUME NEW x \in Callers \cup Keys, NEW k \in Keys, GetOrCompute(x, k) PROVE Listens
  <2>1. CASE Hit(x, k) \/ Join(x, k)
    BY <1>2, <2>1 DEF Hit, Join
  <2>2. CASE Lead(x, k)
    <3>1. EnsureListener(conn, listener, starting) /\ UNCHANGED <<bus, listener, timers>>
      BY <2>2 DEF Lead
    <3> QED BY <1>1, <3>1, EnsureEffect
  <2> QED BY <1>4, <2>1, <2>2 DEF GetOrCompute
<1>5. ASSUME NEW x \in Callers, Abort(x) PROVE Listens
  BY <1>2, <1>5 DEF Abort
<1>6. ASSUME NEW k \in Keys, Compute(k) \/ Expire(k) PROVE Listens
  BY <1>2, <1>6 DEF Compute, Read, Complete, Fail, Expire
<1>7. ASSUME NEW c \in Clients, ListenCommits(c) \/ ListenerUp(c) PROVE Listens
  <2>1. /\ bus' = bus /\ timers' = timers
        /\ starting' \in BOOLEAN /\ listener' \in Clients \cup {NoClient}
    BY <1>1, <1>7 DEF ListenCommits, ListenerUp
  <2>2. conn' = [conn EXCEPT ![c] = "listening"] \/ conn' = [conn EXCEPT ![c] = "up"]
    BY <1>7 DEF ListenCommits, ListenerUp
  <2> QED BY <1>1, <2>1, <2>2 DEF Stages
<1>8. ASSUME NEW c \in Clients, ListenerLost(c) PROVE Listens
  <2>1. /\ conn' = [conn EXCEPT ![c] = "gone"] /\ bus' = [bus EXCEPT ![c] = <<>>]
        /\ listener' \in {listener, NoClient} /\ timers' = timers + 1 /\ starting' = starting
    BY <1>8 DEF ListenerLost
  <2>2. <<>> \in Seq(Scopes)
    OBVIOUS
  <2>3. bus' \in [Clients -> Seq(Scopes)]
    BY <1>1, <2>1, <2>2
  <2>4. conn' \in [Clients -> Stages]
    BY <1>1, <2>1 DEF Stages
  <2> QED BY <1>1, <2>1, <2>3, <2>4
<1>9. ASSUME NEW c \in Clients, Notify(c) PROVE Listens
  <2>1. bus' = [bus EXCEPT ![c] = Tail(bus[c])] /\ UNCHANGED <<conn, listener, starting, timers>>
    BY <1>9 DEF Notify
  <2>2. Tail(bus[c]) \in Seq(Scopes)
    BY <1>9, BusHead DEF Notify
  <2> QED BY <1>1, <2>1, <2>2
<1>10. ASSUME RetryTimer PROVE Listens
  <2>1. EnsureListener(conn, listener, FALSE) /\ UNCHANGED <<bus, listener>>
        /\ timers > 0 /\ timers' = timers - 1
    BY <1>10 DEF RetryTimer
  <2>2. timers' \in Nat
    BY <1>1, <2>1
  <2>3. FALSE \in BOOLEAN
    OBVIOUS
  <2>4. starting' \in BOOLEAN /\ conn' \in [Clients -> Stages]
    BY <2>1, <2>3, EnsureEffect
  <2> QED BY <1>1, <2>1, <2>2, <2>4
<1>11. ASSUME NEW s \in Scopes, Wrote(s) PROVE Listens
  BY <1>2, <1>11 DEF Wrote
<1>12. ASSUME UNCHANGED vars PROVE Listens
  BY <1>2, <1>12 DEF vars
<1> HIDE DEF Listens
<1>13. Listens
  BY <1>3, <1>4, <1>5, <1>6, <1>7, <1>8, <1>9, <1>10, <1>11, <1>12 DEF Next
<1> QED BY <1>13 DEF Listens

LEMMA DataTypeStep ==
    ASSUME Typed, [Next]_vars
    PROVE  version' \in [Scopes -> 0..MaxWrites] /\ wrote' \subseteq Scopes
<1>1. version \in [Scopes -> 0..MaxWrites] /\ wrote \subseteq Scopes
  BY DEF Typed
<1>2. ASSUME NEW s \in Scopes, NEW here \in BOOLEAN, Write(s, here)
      PROVE  version' \in [Scopes -> 0..MaxWrites] /\ wrote' \subseteq Scopes
  <2>1. version[s] \in 0..MaxWrites /\ version[s] < MaxWrites /\ version' = [version EXCEPT ![s] = version[s] + 1]
    BY <1>1, <1>2 DEF Write
  <2>2. version[s] + 1 \in 0..MaxWrites
    BY <2>1, TileAssumption
  <2>3. wrote' \subseteq Scopes
    BY <1>1, <1>2 DEF Write
  <2> QED BY <1>1, <2>1, <2>2, <2>3
<1>3. ASSUME NEW s \in Scopes, Wrote(s) PROVE version' = version /\ wrote' \subseteq Scopes
  BY <1>1, <1>3 DEF Wrote
<1>4. ASSUME NEW x \in Callers \cup Keys, NEW k \in Keys, GetOrCompute(x, k) PROVE UNCHANGED dbVars
  BY <1>4 DEF GetOrCompute, Hit, Join, Lead
<1>5. ASSUME NEW x \in Callers, Abort(x) PROVE UNCHANGED dbVars
  BY <1>5 DEF Abort
<1>6. ASSUME NEW k \in Keys, Compute(k) \/ Expire(k) PROVE UNCHANGED dbVars
  BY <1>6 DEF Compute, Read, Complete, Fail, Expire
<1>7. ASSUME NEW c \in Clients, ListenCommits(c) \/ ListenerUp(c) \/ ListenerLost(c) \/ Notify(c)
      PROVE  UNCHANGED dbVars
  BY <1>7 DEF ListenCommits, ListenerUp, ListenerLost, Notify
<1>8. ASSUME RetryTimer \/ UNCHANGED vars PROVE UNCHANGED dbVars
  BY <1>8 DEF RetryTimer, vars
<1>9. UNCHANGED dbVars => version' = version /\ wrote' = wrote
  BY DEF dbVars
<1> QED BY <1>1, <1>2, <1>3, <1>4, <1>5, <1>6, <1>7, <1>8, <1>9 DEF Next

LEMMA TypedStep == ASSUME Typed, [Next]_vars PROVE Typed'
BY StoreTypeStep, SeqnoTypeStep, FlightTypeStep, LaneTypeStep, ListenTypeStep, DataTypeStep
   DEF Typed, LaneType, Stages

LEMMA TypedInit == Init => Typed
<1> SUFFICES ASSUME Init PROVE Typed
  OBVIOUS
<1>1. store \in Store
  BY UnseenType DEF Init, Store
<1>2. flight \in [Keys -> Flight]
  BY NoFlightType DEF Init
<1>3. version \in [Scopes -> 0..MaxWrites] /\ wrote \subseteq Scopes
  BY TileAssumption DEF Init
<1>4. seqno \in [now : Nat, at : [Scopes -> Nat], cleared : Nat]
  BY DEF Init
<1>5. lane \in [active : Int, waiters : Seq(Keys)] /\ tiles \in Int
  BY DEF Init
<1>6. bus \in [Clients -> Seq(Scopes)]
  BY DEF Init
<1> QED BY <1>1, <1>2, <1>3, <1>4, <1>5, <1>6 DEF Init, Typed

\* Whatever requests, computes, writes and connections do, the two sides of the
\* dependency index agree and speak of the stored keys alone (dropEntry as the
\* single exit of a key, tile-cache.service.ts).
THEOREM DependencyIndexMatches == Spec => []IndexMatches
<1>1. Init => Typed /\ Indexed(store)
  <2>1. Init => Indexed(store)
    BY DEF Init, Indexed
  <2> QED BY <2>1, TypedInit
<1>2. Typed /\ Indexed(store) /\ [Next]_vars => Typed' /\ Indexed(store)'
  <2>1. ASSUME Indexed(store') PROVE Indexed(store)'
    BY <2>1 DEF Indexed
  <2> QED BY <2>1, TypedStep, IndexStep
<1>3. Indexed(store) => IndexMatches
  BY DEF Indexed, IndexMatches
<1> QED BY <1>1, <1>2, <1>3, PTL DEF Spec

-----------------------------------------------------------------------------
(* The queue of the lane                                                   *)

\* The sequence q lists the members of S, each once.
Lists(q, S) ==
    /\ \A i, j \in DOMAIN q : q[i] = q[j] => i = j
    /\ \A i \in DOMAIN q : q[i] \in S
    /\ \A k \in S : \E i \in DOMAIN q : q[i] = k

LEMMA ListsAppend ==
    ASSUME NEW q \in Seq(Keys), NEW S, NEW k \in Keys, k \notin S, Lists(q, S)
    PROVE  Lists(Append(q, k), S \cup {k})
<1> DEFINE r == Append(q, k)
<1>1. Len(q) \in Nat /\ DOMAIN q = 1..Len(q) /\ DOMAIN r = 1..(Len(q) + 1)
      /\ (\A i \in 1..Len(q) : r[i] = q[i]) /\ r[Len(q) + 1] = k
  OBVIOUS
<1> HIDE DEF r
<1>2. \A i \in DOMAIN r : i = Len(q) + 1 \/ i \in DOMAIN q
  BY <1>1
<1>3. \A i \in DOMAIN q : i # Len(q) + 1 /\ i \in DOMAIN r /\ r[i] = q[i] /\ q[i] # k
  BY <1>1 DEF Lists
<1>4. ASSUME NEW i \in DOMAIN r, NEW j \in DOMAIN r, r[i] = r[j] PROVE i = j
  BY <1>1, <1>2, <1>3, <1>4 DEF Lists
<1>5. \A i \in DOMAIN r : r[i] \in S \cup {k}
  BY <1>1, <1>2, <1>3 DEF Lists
<1>6. ASSUME NEW x \in S \cup {k} PROVE \E i \in DOMAIN r : r[i] = x
  <2>1. CASE x = k
    <3>1. Len(q) + 1 \in DOMAIN r
      BY <1>1
    <3> QED BY <1>1, <2>1, <3>1
  <2>2. CASE x \in S
    <3>1. PICK i \in DOMAIN q : q[i] = x
      BY <2>2 DEF Lists
    <3> QED BY <1>3, <3>1
  <2> QED BY <2>1, <2>2
<1>7. Lists(r, S \cup {k})
  BY <1>4, <1>5, <1>6 DEF Lists
<1> QED BY <1>7 DEF r

LEMMA ListsRemove ==
    ASSUME NEW q \in Seq(Keys), NEW S, NEW p \in DOMAIN q, Lists(q, S)
    PROVE  Lists(RemoveAt(q, p), S \ {q[p]})
<1> DEFINE r == RemoveAt(q, p)
           At(i) == IF i < p THEN i ELSE i + 1
<1>1. Len(q) \in Nat /\ DOMAIN q = 1..Len(q) /\ p \in 1..Len(q)
  OBVIOUS
<1>2. r \in Seq(Keys) /\ Len(r) = Len(q) - 1
      /\ \A i \in DOMAIN r : (i < p => r[i] = q[i]) /\ (i >= p => r[i] = q[i + 1])
  BY RemoveAtEffect
<1> HIDE DEF r
<1>3. DOMAIN r = 1..(Len(q) - 1)
  BY <1>1, <1>2
<1>4. ASSUME NEW i \in DOMAIN r PROVE At(i) \in DOMAIN q /\ At(i) # p /\ r[i] = q[At(i)] /\ i \in Int
  BY <1>1, <1>2, <1>3
<1>5. ASSUME NEW i \in Int, NEW j \in Int, At(i) = At(j) PROVE i = j
  BY <1>1, <1>5
<1>6. ASSUME NEW j \in DOMAIN q, j # p PROVE \E i \in DOMAIN r : At(i) = j
  <2>1. CASE j < p
    <3>1. j \in DOMAIN r /\ At(j) = j
      BY <1>1, <1>3, <2>1
    <3> QED BY <3>1
  <2>2. CASE j > p
    <3>1. j - 1 \in DOMAIN r /\ At(j - 1) = j
      BY <1>1, <1>3, <2>2
    <3> QED BY <3>1
  <2> QED BY <1>1, <1>6, <2>1, <2>2
<1> HIDE DEF At
<1>7. ASSUME NEW i \in DOMAIN r, NEW j \in DOMAIN r, r[i] = r[j] PROVE i = j
  <2>1. At(i) = At(j)
    BY <1>4, <1>7 DEF Lists
  <2> QED BY <1>4, <1>5, <2>1
<1>8. ASSUME NEW i \in DOMAIN r PROVE r[i] \in S \ {q[p]}
  BY <1>4 DEF Lists
<1>9. ASSUME NEW x \in S \ {q[p]} PROVE \E i \in DOMAIN r : r[i] = x
  <2>1. PICK j \in DOMAIN q : q[j] = x
    BY DEF Lists
  <2>2. PICK i \in DOMAIN r : At(i) = j
    BY <1>6, <2>1
  <2> QED BY <1>4, <2>1, <2>2
<1>10. Lists(r, S \ {q[p]})
  BY <1>7, <1>8, <1>9 DEF Lists
<1> QED BY <1>10 DEF r

LEMMA ListsTail ==
    ASSUME NEW q \in Seq(Keys), q # <<>>, NEW S, Lists(q, S)
    PROVE  Lists(Tail(q), S \ {Head(q)}) /\ Head(q) \in S /\ Head(q) \in Keys
<1> DEFINE r == Tail(q)
<1>1. Len(q) \in Nat \ {0} /\ DOMAIN q = 1..Len(q) /\ DOMAIN r = 1..(Len(q) - 1)
      /\ (\A i \in 1..(Len(q) - 1) : r[i] = q[i + 1]) /\ Head(q) = q[1] /\ q[1] \in Keys
  OBVIOUS
<1> HIDE DEF r
<1>2. \A i \in DOMAIN r : i + 1 \in DOMAIN q /\ i + 1 # 1 /\ r[i] = q[i + 1] /\ i \in Int
  BY <1>1
<1>3. 1 \in DOMAIN q
  BY <1>1
<1>4. ASSUME NEW i \in DOMAIN r, NEW j \in DOMAIN r, r[i] = r[j] PROVE i = j
  <2>1. i + 1 = j + 1
    BY <1>2, <1>4 DEF Lists
  <2> QED BY <1>2, <2>1
<1>5. ASSUME NEW i \in DOMAIN r PROVE r[i] \in S \ {q[1]}
  BY <1>2, <1>3 DEF Lists
<1>6. ASSUME NEW x \in S \ {q[1]} PROVE \E i \in DOMAIN r : r[i] = x
  <2>1. PICK j \in DOMAIN q : q[j] = x
    BY DEF Lists
  <2>2. j - 1 \in DOMAIN r /\ r[j - 1] = q[j]
    <3>1. j \in 1..Len(q) /\ j # 1
      BY <1>1, <2>1
    <3>2. j - 1 \in 1..(Len(q) - 1) /\ (j - 1) + 1 = j
      BY <1>1, <3>1
    <3> QED BY <1>1, <3>2
  <2> QED BY <2>1, <2>2
<1>7. Lists(r, S \ {q[1]})
  BY <1>4, <1>5, <1>6 DEF Lists
<1>8. q[1] \in S
  BY <1>3 DEF Lists
<1> QED BY <1>1, <1>7, <1>8 DEF r

Queued == {k \in Keys : flight[k].pc = "queued"}

\* The lane's queue holds the computes that are queued, each once.
Queue == Lists(lane.waiters, Queued) /\ Queued \subseteq Laned

\* A compute that waits for another has asked for its own inner key and stands still.
Waiting == \A k, y \in Keys : y \in flight[k].waiting => flight[y].pc = "joined" /\ k = Inner[y]

LEMMA FollowsQueued ==
    ASSUME Typed, Queue, NEW k \in Keys, NEW i \in Keys, Follows(k, i)
    PROVE  flight[i].pc = "queued" /\ i \in Laned
<1>1. lane.waiters \in Seq(Keys) /\ lane.waiters # <<>> /\ i = Head(lane.waiters)
  BY DEF Typed, Follows
<1>2. i \in Queued
  BY <1>1, ListsTail DEF Queue
<1> QED BY <1>2 DEF Queue, Queued

\* Nothing that waits for k, and nothing that runs, is in the queue.
LEMMA ComputeEnds ==
    ASSUME Typed, Waiting, Queue, NEW k \in Keys, (\E b \in BOOLEAN : Complete(k, b)) \/ Fail(k)
    PROVE  /\ flight[k].pc \in {"reading", "failing"} /\ ~Follows(k, k) /\ k \notin flight[k].waiting
           /\ flight'[k].pc = "none" /\ flight'[k].waiting = {}
           /\ \A i \in Keys \ {k} :
                 /\ flight'[i].seq = flight[i].seq /\ flight'[i].waiting = flight[i].waiting
                 /\ Follows(k, i) => /\ flight[i].pc = "queued" /\ i \notin flight[k].waiting
                                     /\ flight'[i].pc \in {"reading", "keys"}
                 /\ i \in flight[k].waiting => /\ flight[i].pc = "joined" /\ k = Inner[i]
                                               /\ flight'[i].pc \in {"reading", "failing"}
                 /\ ~Follows(k, i) /\ i \notin flight[k].waiting => flight'[i].pc = flight[i].pc
           /\ \E fl : Released(k, fl)
<1>1. flight[k].pc \in {"reading", "failing"} /\ \E fl : Released(k, fl)
  BY DEF Complete, Fail
<1>2. ~Follows(k, k)
  BY <1>1, FollowsQueued
<1>3. \A i \in Keys : i \in flight[k].waiting => flight[i].pc = "joined" /\ k = Inner[i]
  BY DEF Waiting
<1>4. k \notin flight[k].waiting
  BY <1>1, <1>3
<1>5. \A i \in Keys : Follows(k, i) => flight[i].pc = "queued" /\ i \notin flight[k].waiting
  BY <1>3, FollowsQueued
<1>6. /\ flight'[k].waiting = {}
      /\ \A i \in Keys \ {k} : flight'[i].seq = flight[i].seq /\ flight'[i].waiting = flight[i].waiting
      /\ \A i \in Keys : \E out \in {"reading", "failing"} : flight'[i].pc =
            IF Follows(k, i) THEN Begun(i) ELSE IF i = k THEN "none"
            ELSE IF i \in flight[k].waiting THEN out ELSE flight[i].pc
  <2>1. CASE \E b \in BOOLEAN : Complete(k, b)
    BY <2>1, CompleteEffect
  <2>2. CASE Fail(k)
    BY <2>2, FailEffect
  <2> QED BY <2>1, <2>2
<1>7. flight'[k].pc = "none"
  BY <1>2, <1>6
<1>8. ASSUME NEW i \in Keys \ {k}
      PROVE  /\ Follows(k, i) => flight'[i].pc \in {"reading", "keys"}
             /\ i \in flight[k].waiting => flight'[i].pc \in {"reading", "failing"}
             /\ ~Follows(k, i) /\ i \notin flight[k].waiting => flight'[i].pc = flight[i].pc
  <2>1. Begun(i) \in {"reading", "keys"}
    BY BegunType
  <2>2. PICK out \in {"reading", "failing"} : flight'[i].pc =
            IF Follows(k, i) THEN Begun(i) ELSE IF i = k THEN "none"
            ELSE IF i \in flight[k].waiting THEN out ELSE flight[i].pc
    BY <1>6
  <2>3. i # k
    OBVIOUS
  <2> QED BY <1>5, <2>1, <2>2, <2>3
<1> QED BY <1>1, <1>2, <1>3, <1>4, <1>5, <1>6, <1>7, <1>8

LEMMA WaitingStep ==
    ASSUME Typed, Waiting, Queue, [Next]_vars
    PROVE  Waiting'
<1> SUFFICES ASSUME NEW j \in Keys, NEW y \in Keys, y \in flight'[j].waiting
             PROVE  flight'[y].pc = "joined" /\ j = Inner[y]
  BY DEF Waiting
<1>1. y \in flight[j].waiting => flight[y].pc = "joined" /\ j = Inner[y]
  BY DEF Waiting
<1>2. CASE flight' = flight
  BY <1>1, <1>2
<1>3. ASSUME NEW x \in Callers \cup Keys, NEW k \in Keys, Hit(x, k)
      PROVE  flight'[y].pc = "joined" /\ j = Inner[y]
  <2>1. /\ \A i \in Keys \ {x} : flight'[i] = flight[i]
        /\ x \in Keys => flight[x].pc = "keys" /\ flight'[x].waiting = flight[x].waiting
    BY <1>3, HitEffect
  <2>2. y \in flight[j].waiting
    BY <2>1
  <2>3. y # x
    BY <1>1, <2>1, <2>2
  <2> QED BY <1>1, <2>1, <2>2, <2>3
<1>4. ASSUME NEW x \in Callers \cup Keys, NEW k \in Keys, Join(x, k)
      PROVE  flight'[y].pc = "joined" /\ j = Inner[y]
  <2>1. /\ \A i \in Keys : flight'[i].pc = IF i = x THEN "joined" ELSE flight[i].pc
        /\ \A i \in Keys \ {k} : flight'[i].waiting = flight[i].waiting
        /\ flight'[k].waiting = flight[k].waiting \cup {x}
        /\ x \in Keys => k = Inner[x]
    BY <1>4, JoinEffect
  <2>2. y \in flight[j].waiting \/ (j = k /\ y = x)
    BY <2>1
  <2> QED BY <1>1, <2>1, <2>2
<1>5. ASSUME NEW x \in Callers \cup Keys, NEW k \in Keys, Lead(x, k)
      PROVE  flight'[y].pc = "joined" /\ j = Inner[y]
  <2>1. CASE flight' = flight
    BY <1>1, <2>1
  <2>2. CASE flight' # flight
    <3>1. /\ \A i \in Keys \ {k} : /\ flight'[i].waiting = flight[i].waiting
                                   /\ flight'[i].pc = IF i = x THEN "joined" ELSE flight[i].pc
          /\ flight'[k].waiting = {x} /\ x # k
      BY <1>5, <2>2, LeadEffect
    <3>2. flight[k].pc = "none" /\ (x \in Keys => k = Inner[x])
      BY <1>5, TileAssumption DEF Lead, Asks
    <3>3. CASE j = k
      BY <3>1, <3>2, <3>3
    <3>4. CASE j # k
      <4>1. y \in flight[j].waiting
        BY <3>1, <3>4
      <4>2. y # k
        BY <1>1, <3>2, <4>1
      <4> QED BY <1>1, <3>1, <4>1, <4>2
    <3> QED BY <3>3, <3>4
  <2> QED BY <2>1, <2>2
<1>6. ASSUME NEW x \in Callers, Abort(x) PROVE flight'[y].pc = "joined" /\ j = Inner[y]
  <2>1. PICK k \in Keys :
           /\ \A i \in Keys \ {k} : flight'[i] = flight[i]
           /\ \/ flight[k].pc = "queued" /\ flight'[k] = NoFlight
              \/ flight'[k].pc = flight[k].pc /\ flight'[k].waiting = flight[k].waiting \ {x}
    BY <1>6, AbortEffect DEF Abort
  <2>2. NoFlight.waiting = {}
    BY DEF NoFlight
  <2>3. y \in flight[j].waiting
    BY <2>1, <2>2
  <2>4. flight'[y].pc = "joined"
    BY <1>1, <2>1, <2>3
  <2> QED BY <1>1, <2>3, <2>4
<1>7. ASSUME NEW k \in Keys, NEW s \in Scopes, Read(k, s)
      PROVE  flight'[y].pc = "joined" /\ j = Inner[y]
  <2>1. /\ \A i \in Keys \ {k} : flight'[i] = flight[i]
        /\ flight'[k].pc = flight[k].pc /\ flight'[k].waiting = flight[k].waiting
    BY <1>7, ReadEffect
  <2> QED BY <1>1, <2>1
<1>8. ASSUME NEW k \in Keys, (\E b \in BOOLEAN : Complete(k, b)) \/ Fail(k)
      PROVE  flight'[y].pc = "joined" /\ j = Inner[y]
  <2>1. /\ flight[k].pc \in {"reading", "failing"} /\ flight'[k].waiting = {}
        /\ \A i \in Keys \ {k} :
              /\ flight'[i].waiting = flight[i].waiting
              /\ Follows(k, i) => flight[i].pc = "queued"
              /\ i \in flight[k].waiting => k = Inner[i]
              /\ ~Follows(k, i) /\ i \notin flight[k].waiting => flight'[i].pc = flight[i].pc
    BY <1>8, ComputeEnds
  <2>2. j # k /\ y \in flight[j].waiting
    BY <2>1
  <2>3. y # k /\ ~Follows(k, y) /\ y \notin flight[k].waiting
    BY <1>1, <2>1, <2>2
  <2> QED BY <1>1, <2>1, <2>2, <2>3
<1> QED BY FlightSteps, <1>2, <1>3, <1>4, <1>5, <1>6, <1>7, <1>8 DEF GetOrCompute, Compute

LEMMA QueueStep ==
    ASSUME Typed, Waiting, Queue, [Next]_vars
    PROVE  Queue'
<1> DEFINE q == lane.waiters
<1>1. q \in Seq(Keys) /\ lane \in LaneType
  BY DEF Typed, LaneType
<1>2. ASSUME lane' = lane, \A i \in Keys : flight'[i].pc = "queued" <=> flight[i].pc = "queued"
      PROVE  Queue'
  <2>1. Queued' = Queued
    BY <1>2 DEF Queued
  <2> QED BY <1>2, <2>1 DEF Queue
<1>3. ASSUME NEW x \in Callers \cup Keys, NEW k \in Keys, Hit(x, k) \/ Join(x, k)
      PROVE  Queue'
  <2>1. lane' = lane
    BY <1>3 DEF Hit, Join
  <2>2. \A i \in Keys : flight'[i].pc = "queued" <=> flight[i].pc = "queued"
    <3>1. CASE Hit(x, k)
      BY <3>1, HitEffect
    <3>2. CASE Join(x, k)
      <4>1. /\ \A i \in Keys : flight'[i].pc = IF i = x THEN "joined" ELSE flight[i].pc
            /\ x \in Keys => flight[x].pc = "keys"
        BY <3>2, JoinEffect
      <4> QED BY <4>1
    <3> QED BY <1>3, <3>1, <3>2
  <2> QED BY <1>2, <2>1, <2>2
<1>4. ASSUME NEW x \in Callers \cup Keys, NEW k \in Keys, Lead(x, k) PROVE Queue'
  <2>1. CASE flight' = flight /\ lane' = lane
    BY <1>2, <2>1
  <2>2. CASE ~(flight' = flight /\ lane' = lane)
    <3> DEFINE waits == k \in Laned /\ lane.active >= LaneLimit
    <3>1. /\ \A i \in Keys \ {k} : flight'[i].pc = IF i = x THEN "joined" ELSE flight[i].pc
          /\ flight'[k].pc = IF waits THEN "queued" ELSE Begun(k)
          /\ lane' = IF waits THEN [lane EXCEPT !.waiters = Append(lane.waiters, k)]
                     ELSE IF k \in Laned THEN [lane EXCEPT !.active = lane.active + 1]
                     ELSE lane
      BY <1>4, <2>2, LeadEffect
    <3>2. flight[k].pc = "none" /\ (x \in Keys => flight[x].pc = "keys")
      BY <1>4, TileAssumption DEF Lead, Asks
    <3>3. \A i \in Keys \ {k} : flight'[i].pc = "queued" <=> flight[i].pc = "queued"
      BY <3>1, <3>2
    <3>4. Begun(k) # "queued"
      BY BegunType
    <3>5. CASE waits
      <4>1. Queued' = Queued \cup {k} /\ k \notin Queued
        BY <3>1, <3>2, <3>3, <3>5 DEF Queued
      <4>2. lane'.waiters = Append(q, k)
        BY <1>1, <3>1, <3>5 DEF LaneType
      <4>3. Lists(Append(q, k), Queued \cup {k})
        BY <1>1, <4>1, ListsAppend DEF Queue
      <4> QED BY <3>5, <4>1, <4>2, <4>3 DEF Queue
    <3>6. CASE ~waits
      <4>1. Queued' = Queued
        BY <3>1, <3>2, <3>3, <3>4, <3>6 DEF Queued
      <4>2. lane'.waiters = q
        BY <1>1, <3>1, <3>6 DEF LaneType
      <4> QED BY <4>1, <4>2 DEF Queue
    <3> QED BY <3>5, <3>6
  <2> QED BY <2>1, <2>2
<1>5. ASSUME NEW x \in Callers, Abort(x) PROVE Queue'
  <2>1. PICK k \in Keys :
           /\ \A i \in Keys \ {k} : flight'[i] = flight[i]
           /\ \/ /\ flight[k].pc = "queued" /\ flight'[k] = NoFlight
                 /\ \E p \in DOMAIN lane.waiters :
                        lane.waiters[p] = k /\ lane' = [lane EXCEPT !.waiters = RemoveAt(@, p)]
              \/ flight'[k].pc = flight[k].pc /\ lane' = lane
    BY <1>5, AbortEffect DEF Abort
  <2>2. CASE flight'[k].pc = flight[k].pc /\ lane' = lane
    <3>1. \A i \in Keys : flight'[i].pc = "queued" <=> flight[i].pc = "queued"
      BY <2>1, <2>2
    <3> QED BY <1>2, <2>2, <3>1
  <2>3. CASE /\ flight[k].pc = "queued" /\ flight'[k] = NoFlight
             /\ \E p \in DOMAIN lane.waiters :
                    lane.waiters[p] = k /\ lane' = [lane EXCEPT !.waiters = RemoveAt(@, p)]
    <3>1. PICK p \in DOMAIN q : q[p] = k /\ lane' = [lane EXCEPT !.waiters = RemoveAt(q, p)]
      BY <2>3
    <3>2. flight'[k].pc # "queued"
      BY <2>3 DEF NoFlight
    <3>3. Queued' = Queued \ {k}
      BY <2>1, <3>2 DEF Queued
    <3>4. lane'.waiters = RemoveAt(q, p)
      BY <1>1, <3>1 DEF LaneType
    <3>5. Lists(RemoveAt(q, p), Queued \ {k})
      BY <1>1, <3>1, ListsRemove DEF Queue
    <3> QED BY <3>3, <3>4, <3>5 DEF Queue
  <2> QED BY <2>1, <2>2, <2>3
<1>6. ASSUME NEW k \in Keys, NEW s \in Scopes, Read(k, s) PROVE Queue'
  <2>1. \A i \in Keys : flight'[i].pc = "queued" <=> flight[i].pc = "queued"
    BY <1>6, ReadEffect
  <2> QED BY <1>2, <1>6, <2>1 DEF Read
<1>7. ASSUME NEW k \in Keys, (\E b \in BOOLEAN : Complete(k, b)) \/ Fail(k) PROVE Queue'
  <2>1. /\ flight[k].pc \in {"reading", "failing"} /\ ~Follows(k, k) /\ flight'[k].pc = "none"
        /\ \A i \in Keys \ {k} :
              /\ Follows(k, i) => flight'[i].pc \in {"reading", "keys"}
              /\ i \in flight[k].waiting => /\ flight[i].pc = "joined"
                                            /\ flight'[i].pc \in {"reading", "failing"}
              /\ ~Follows(k, i) /\ i \notin flight[k].waiting => flight'[i].pc = flight[i].pc
        /\ \E fl : Released(k, fl)
    BY <1>7, ComputeEnds
  <2>2. \A i \in Keys : flight'[i].pc = "queued" <=> flight[i].pc = "queued" /\ ~Follows(k, i)
    BY <2>1
  <2>3. CASE k \in Laned /\ q # <<>>
    <3>1. \A i \in Keys : Follows(k, i) <=> i = Head(q)
      BY <2>3 DEF Follows
    <3>2. Queued' = Queued \ {Head(q)}
      BY <2>2, <3>1 DEF Queued
    <3>3. lane' = [lane EXCEPT !.waiters = Tail(lane.waiters)]
      BY <2>1, <2>3, ReleasedLane
    <3>4. lane'.waiters = Tail(q)
      BY <1>1, <3>3 DEF LaneType
    <3>5. Lists(Tail(q), Queued \ {Head(q)})
      BY <1>1, <2>3, ListsTail DEF Queue
    <3> QED BY <3>2, <3>4, <3>5 DEF Queue
  <2>4. CASE ~(k \in Laned /\ q # <<>>)
    <3>1. \A i \in Keys : ~Follows(k, i)
      BY <2>4 DEF Follows
    <3>2. Queued' = Queued
      BY <2>2, <3>1 DEF Queued
    <3>3. lane' = lane \/ lane' = [lane EXCEPT !.active = lane.active - 1]
      BY <2>1, <2>4, ReleasedLane
    <3>4. lane'.waiters = q
      BY <1>1, <3>3 DEF LaneType
    <3> QED BY <3>2, <3>4 DEF Queue
  <2> QED BY <2>3, <2>4
<1> QED BY FlightSteps, <1>2, <1>3, <1>4, <1>5, <1>6, <1>7 DEF GetOrCompute, Compute

-----------------------------------------------------------------------------
(* The slots                                                               *)

Busy(k) == flight[k].pc \notin {"none", "queued"}
Run(ks) == {k \in ks : Busy(k)}
Tiled == Keys \ (Laned \cup Exempt)

\* n counts the members of S.
Counts(n, S) == IsFiniteSet(S) /\ n = Cardinality(S)

LEMMA CountsMore ==
    ASSUME NEW n, NEW S, NEW k, k \notin S, Counts(n, S)
    PROVE  n \in Nat /\ Counts(n + 1, S \cup {k})
BY FS_AddElement, FS_CardinalityType DEF Counts

LEMMA CountsLess ==
    ASSUME NEW n, NEW S, NEW k \in S, Counts(n, S)
    PROVE  n \in Nat /\ Counts(n - 1, S \ {k})
BY FS_RemoveElement, FS_CardinalityType DEF Counts

\* The lane counts what runs in it, within its limit, and lets nobody queue while
\* a slot is free.
LaneSlots ==
    /\ Counts(lane.active, Run(Laned)) /\ lane.active <= LaneLimit
    /\ lane.waiters # <<>> => lane.active = LaneLimit

TileSlots == Counts(tiles, Run(Tiled)) /\ tiles <= TileCap

LEMMA SlotsStep ==
    ASSUME Typed, Waiting, Queue, LaneSlots, TileSlots, [Next]_vars
    PROVE  LaneSlots' /\ TileSlots'
<1>1. lane \in LaneType /\ lane.active \in Int /\ tiles \in Int
  BY DEF Typed, LaneType
<1>2. Laned \subseteq Keys /\ Tiled \subseteq Keys /\ Laned \cap Tiled = {} /\ Exempt \cap Laned = {}
      /\ Exempt \cap Tiled = {} /\ LaneLimit \in Nat /\ TileCap \in Nat
  BY TileAssumption DEF Tiled
<1>3. ASSUME NEW ks \in SUBSET Keys, \A i \in ks : Busy(i)' <=> Busy(i)
      PROVE  Run(ks)' = Run(ks)
  BY <1>3 DEF Run
<1>4. ASSUME \A i \in Keys : Busy(i)' <=> Busy(i), tiles' = tiles, lane' = lane
      PROVE  LaneSlots' /\ TileSlots'
  <2>1. Run(Laned)' = Run(Laned) /\ Run(Tiled)' = Run(Tiled)
    BY <1>2, <1>3, <1>4
  <2> QED BY <1>4, <2>1 DEF LaneSlots, TileSlots
<1>5. ASSUME NEW x \in Callers \cup Keys, NEW k \in Keys, Hit(x, k) \/ Join(x, k)
      PROVE  LaneSlots' /\ TileSlots'
  <2>1. lane' = lane /\ tiles' = tiles
    BY <1>5 DEF Hit, Join
  <2>2. \A i \in Keys : Busy(i)' <=> Busy(i)
    <3>1. CASE Hit(x, k)
      BY <3>1, HitEffect DEF Busy
    <3>2. CASE Join(x, k)
      <4>1. /\ \A i \in Keys : flight'[i].pc = IF i = x THEN "joined" ELSE flight[i].pc
            /\ x \in Keys => flight[x].pc = "keys"
        BY <3>2, JoinEffect
      <4> QED BY <4>1 DEF Busy
    <3> QED BY <1>5, <3>1, <3>2
  <2> QED BY <1>4, <2>1, <2>2
<1>6. ASSUME NEW x \in Callers \cup Keys, NEW k \in Keys, Lead(x, k)
      PROVE  LaneSlots' /\ TileSlots'
  <2> DEFINE waits == k \in Laned /\ lane.active >= LaneLimit
  <2>1. /\ tiles' = IF k \in Tiled THEN tiles + 1 ELSE tiles
        /\ k \in Tiled => tiles < TileCap
    BY <1>6 DEF Lead, Tiled
  <2>2. CASE flight' = flight /\ lane' = lane /\ waits
    <3>1. tiles' = tiles
      BY <1>2, <2>1, <2>2
    <3> QED BY <1>4, <2>2, <3>1 DEF Busy
  <2>3. CASE ~(flight' = flight /\ lane' = lane /\ waits)
    <3>1. /\ \A i \in Keys \ {k} : flight'[i].pc = IF i = x THEN "joined" ELSE flight[i].pc
          /\ flight'[k].pc = IF waits THEN "queued" ELSE Begun(k)
          /\ lane' = IF waits THEN [lane EXCEPT !.waiters = Append(lane.waiters, k)]
                     ELSE IF k \in Laned THEN [lane EXCEPT !.active = lane.active + 1]
                     ELSE lane
      BY <1>6, <2>3, LeadEffect
    <3>2. flight[k].pc = "none" /\ (x \in Keys => flight[x].pc = "keys")
      BY <1>6, TileAssumption DEF Lead, Asks
    <3>3. \A i \in Keys \ {k} : Busy(i)' <=> Busy(i)
      BY <3>1, <3>2 DEF Busy
    <3>4. ~Busy(k) /\ (Busy(k)' <=> ~waits)
      <4>1. Begun(k) \in {"reading", "keys"}
        BY BegunType
      <4> QED BY <3>1, <3>2, <4>1 DEF Busy
    <3>5. ASSUME NEW ks \in SUBSET Keys, k \in ks, ~waits
          PROVE  Run(ks)' = Run(ks) \cup {k} /\ k \notin Run(ks)
      BY <3>3, <3>4, <3>5 DEF Run
    <3>6. ASSUME NEW ks \in SUBSET Keys, k \notin ks \/ waits
          PROVE  Run(ks)' = Run(ks)
      BY <1>3, <3>3, <3>4, <3>6
    <3>7. LaneSlots'
      <4>1. CASE waits
        <5>1. lane'.active = lane.active /\ lane.active = LaneLimit
          BY <1>1, <1>2, <3>1, <4>1 DEF LaneType, LaneSlots
        <5>2. Run(Laned)' = Run(Laned)
          BY <1>2, <3>6, <4>1
        <5> QED BY <5>1, <5>2 DEF LaneSlots
      <4>2. CASE ~waits /\ k \in Laned
        <5>1. /\ lane'.active = lane.active + 1 /\ lane'.waiters = lane.waiters
              /\ lane.active < LaneLimit
          BY <1>1, <1>2, <3>1, <4>2 DEF LaneType
        <5>2. lane.waiters = <<>>
          BY <1>1, <1>2, <5>1 DEF LaneSlots
        <5>3. Counts(lane.active + 1, Run(Laned)')
          BY <1>2, <3>5, <4>2, CountsMore DEF LaneSlots
        <5>4. lane.active + 1 <= LaneLimit
          BY <1>1, <1>2, <5>1
        <5> QED BY <5>1, <5>2, <5>3, <5>4 DEF LaneSlots
      <4>3. CASE k \notin Laned
        <5>1. lane' = lane
          BY <3>1, <4>3
        <5>2. Run(Laned)' = Run(Laned)
          BY <1>2, <3>6, <4>3
        <5> QED BY <5>1, <5>2 DEF LaneSlots
      <4> QED BY <4>1, <4>2, <4>3
    <3>8. TileSlots'
      <4>1. CASE k \in Tiled
        <5>1. ~waits
          BY <1>2, <4>1
        <5>2. Counts(tiles + 1, Run(Tiled)')
          BY <1>2, <3>5, <4>1, <5>1, CountsMore DEF TileSlots
        <5>3. tiles' = tiles + 1 /\ tiles + 1 <= TileCap
          BY <1>1, <1>2, <2>1, <4>1
        <5> QED BY <5>2, <5>3 DEF TileSlots
      <4>2. CASE k \notin Tiled
        <5>1. Run(Tiled)' = Run(Tiled) /\ tiles' = tiles
          BY <1>2, <2>1, <3>6, <4>2
        <5> QED BY <5>1 DEF TileSlots
      <4> QED BY <4>1, <4>2
    <3> QED BY <3>7, <3>8
  <2> QED BY <2>2, <2>3
<1>7. ASSUME NEW x \in Callers, Abort(x) PROVE LaneSlots' /\ TileSlots'
  <2>1. PICK k \in Keys :
           /\ \A i \in Keys \ {k} : flight'[i] = flight[i]
           /\ \/ /\ flight[k].pc = "queued" /\ flight'[k] = NoFlight
                 /\ \E p \in DOMAIN lane.waiters :
                        lane.waiters[p] = k /\ lane' = [lane EXCEPT !.waiters = RemoveAt(@, p)]
              \/ flight'[k].pc = flight[k].pc /\ lane' = lane
    BY <1>7, AbortEffect DEF Abort
  <2>2. tiles' = tiles
    BY <1>7 DEF Abort
  <2>3. NoFlight.pc = "none"
    BY DEF NoFlight
  <2>4. \A i \in Keys : Busy(i)' <=> Busy(i)
    BY <2>1, <2>3 DEF Busy
  <2>5. Run(Laned)' = Run(Laned) /\ Run(Tiled)' = Run(Tiled)
    BY <1>2, <1>3, <2>4
  <2>6. lane'.active = lane.active /\ (lane'.waiters # <<>> => lane.waiters # <<>>)
    <3>1. lane' = lane \/ \E p \in DOMAIN lane.waiters : lane' = [lane EXCEPT !.waiters = RemoveAt(@, p)]
      BY <2>1
    <3>2. DOMAIN <<>> = {}
      OBVIOUS
    <3> QED BY <1>1, <3>1, <3>2 DEF LaneType
  <2> QED BY <2>2, <2>5, <2>6 DEF LaneSlots, TileSlots
<1>8. ASSUME NEW k \in Keys, NEW s \in Scopes, Read(k, s) PROVE LaneSlots' /\ TileSlots'
  <2>1. \A i \in Keys : Busy(i)' <=> Busy(i)
    BY <1>8, ReadEffect DEF Busy
  <2> QED BY <1>4, <1>8, <2>1 DEF Read
<1>9. ASSUME NEW k \in Keys, (\E b \in BOOLEAN : Complete(k, b)) \/ Fail(k)
      PROVE  LaneSlots' /\ TileSlots'
  <2>1. /\ flight[k].pc \in {"reading", "failing"} /\ ~Follows(k, k) /\ flight'[k].pc = "none"
        /\ \A i \in Keys \ {k} :
              /\ Follows(k, i) => flight[i].pc = "queued" /\ flight'[i].pc \in {"reading", "keys"}
              /\ i \in flight[k].waiting => /\ flight[i].pc = "joined"
                                            /\ flight'[i].pc \in {"reading", "failing"}
              /\ ~Follows(k, i) /\ i \notin flight[k].waiting => flight'[i].pc = flight[i].pc
        /\ \E fl : Released(k, fl)
    BY <1>9, ComputeEnds
  <2>2. Busy(k) /\ ~Busy(k)'
    BY <2>1 DEF Busy
  <2>3. \A i \in Keys \ {k} : Busy(i)' <=> Busy(i) \/ Follows(k, i)
    BY <2>1 DEF Busy
  <2>4. \A i \in Keys : Follows(k, i) => ~Busy(i) /\ i \in Laned /\ k \in Laned /\ i # k
    BY <2>1, FollowsQueued DEF Busy, Follows
  <2>5. CASE k \in Laned /\ lane.waiters # <<>>
    <3> DEFINE next == Head(lane.waiters)
    <3>1. tiles' = tiles /\ lane' = [lane EXCEPT !.waiters = Tail(lane.waiters)]
      BY <2>1, <2>5, ReleasedLane
    <3>2. next \in Keys
      BY <1>1, <2>5 DEF LaneType
    <3>3. \A i \in Keys : Follows(k, i) <=> i = next
      BY <2>5 DEF Follows
    <3> HIDE DEF next
    <3>4. next \in Laned /\ ~Busy(next) /\ next # k
      BY <2>4, <3>2, <3>3
    <3>5. Run(Laned)' = (Run(Laned) \ {k}) \cup {next}
      BY <1>2, <2>2, <2>3, <3>2, <3>3, <3>4 DEF Run
    <3>6. k \in Run(Laned) /\ next \notin Run(Laned) \ {k}
      BY <2>2, <2>5, <3>4 DEF Run
    <3>7. Counts(lane.active - 1, Run(Laned) \ {k})
      BY <3>6, CountsLess DEF LaneSlots
    <3>8. Counts((lane.active - 1) + 1, (Run(Laned) \ {k}) \cup {next})
      BY <3>6, <3>7, CountsMore
    <3>9. Counts(lane.active, Run(Laned)')
      BY <1>1, <3>5, <3>8
    <3>10. lane'.active = lane.active /\ lane.active = LaneLimit
      BY <1>1, <2>5, <3>1 DEF LaneType, LaneSlots
    <3>11. Run(Tiled)' = Run(Tiled)
      BY <1>2, <2>3, <2>4, <2>5 DEF Run
    <3> QED BY <1>2, <3>1, <3>9, <3>10, <3>11 DEF LaneSlots, TileSlots
  <2>6. CASE ~(k \in Laned /\ lane.waiters # <<>>)
    <3>1. \A i \in Keys : ~Follows(k, i)
      BY <2>6 DEF Follows
    <3>2. ASSUME NEW ks \in SUBSET Keys, k \in ks
          PROVE  Run(ks)' = Run(ks) \ {k} /\ k \in Run(ks)
      BY <2>2, <2>3, <3>1, <3>2 DEF Run
    <3>3. ASSUME NEW ks \in SUBSET Keys, k \notin ks
          PROVE  Run(ks)' = Run(ks)
      BY <2>3, <3>1, <3>3 DEF Run
    <3>4. CASE k \in Laned
      <4>1. tiles' = tiles /\ lane' = [lane EXCEPT !.active = lane.active - 1]
        BY <2>1, <2>6, <3>4, ReleasedLane
      <4>2. lane'.active = lane.active - 1 /\ lane'.waiters = <<>>
        BY <1>1, <2>6, <3>4, <4>1 DEF LaneType
      <4>3. Counts(lane.active - 1, Run(Laned)')
        BY <1>2, <3>2, <3>4, CountsLess DEF LaneSlots
      <4>4. lane.active - 1 <= LaneLimit
        BY <1>1, <1>2 DEF LaneSlots
      <4>5. Run(Tiled)' = Run(Tiled)
        BY <1>2, <3>3, <3>4
      <4> QED BY <4>1, <4>2, <4>3, <4>4, <4>5 DEF LaneSlots, TileSlots
    <3>5. CASE k \notin Laned
      <4>1. lane' = lane /\ tiles' = IF k \in Exempt THEN tiles ELSE tiles - 1
        BY <2>1, <3>5, ReleasedLane
      <4>2. Run(Laned)' = Run(Laned)
        BY <1>2, <3>3, <3>5
      <4>3. LaneSlots'
        BY <4>1, <4>2 DEF LaneSlots
      <4>4. CASE k \in Exempt
        <5>1. Run(Tiled)' = Run(Tiled) /\ tiles' = tiles
          BY <1>2, <3>3, <4>1, <4>4
        <5> QED BY <4>3, <5>1 DEF TileSlots
      <4>5. CASE k \notin Exempt
        <5>1. k \in Tiled /\ tiles' = tiles - 1
          BY <3>5, <4>1, <4>5 DEF Tiled
        <5>2. Counts(tiles - 1, Run(Tiled)')
          BY <1>2, <3>2, <5>1, CountsLess DEF TileSlots
        <5>3. tiles - 1 <= TileCap
          BY <1>1, <1>2 DEF TileSlots
        <5> QED BY <4>3, <5>1, <5>2, <5>3 DEF TileSlots
      <4> QED BY <4>4, <4>5
    <3> QED BY <3>4, <3>5
  <2> QED BY <2>5, <2>6
<1>10. CASE flight' = flight /\ lane' = lane /\ tiles' = tiles
  BY <1>4, <1>10 DEF Busy
<1> QED BY FlightSteps, <1>5, <1>6, <1>7, <1>8, <1>9, <1>10 DEF GetOrCompute, Compute

LaneInv == Typed /\ Waiting /\ Queue /\ LaneSlots /\ TileSlots

LEMMA LaneInvInit == Init => LaneInv
<1> SUFFICES ASSUME Init PROVE LaneInv
  OBVIOUS
<1>1. Typed
  BY TypedInit
<1>2. \A k \in Keys : flight[k].pc = "none" /\ flight[k].waiting = {}
  BY DEF Init, NoFlight
<1>3. Waiting
  BY <1>2 DEF Waiting
<1>4. lane.active = 0 /\ lane.waiters = <<>> /\ tiles = 0
  BY DEF Init
<1>5. Queue
  <2>1. Queued = {} /\ DOMAIN <<>> = {}
    BY <1>2 DEF Queued
  <2> QED BY <1>4, <2>1 DEF Queue, Lists
<1>6. Run(Laned) = {} /\ Run(Tiled) = {}
  BY <1>2, TileAssumption DEF Run, Busy, Tiled
<1>7. Counts(0, {})
  BY FS_EmptySet DEF Counts
<1> QED BY <1>1, <1>3, <1>4, <1>5, <1>6, <1>7, TileAssumption DEF LaneInv, LaneSlots, TileSlots

LEMMA LaneInvStep == LaneInv /\ [Next]_vars => LaneInv'
BY TypedStep, WaitingStep, QueueStep, SlotsStep DEF LaneInv

LEMMA LaneInvHolds == Spec => []LaneInv
BY LaneInvInit, LaneInvStep, PTL DEF Spec

\* Through every hand-over, refusal, failure and hang-up the lane's count and the
\* tile count are the numbers of computes that run, neither passes its limit, and a
\* compute is in the queue only while the lane is full (withComputeSlot,
\* runInLane, tile-cache.service.ts).
THEOREM SlotsAreBalanced == Spec => []SlotsBalance
<1>1. ASSUME LaneInv PROVE SlotsBalance
  <2>1. Run(Laned) = {k \in Laned : flight[k].pc \notin {"none", "queued"}}
    BY DEF Run, Busy
  <2>2. Run(Tiled) = {k \in Keys \ (Laned \cup Exempt) : flight[k].pc \notin {"none", "queued"}}
    BY DEF Run, Busy, Tiled
  <2>3. Range(lane.waiters) = {k \in Keys : flight[k].pc = "queued"}
    BY <1>1 DEF LaneInv, Queue, Lists, Queued, Range
  <2> QED BY <1>1, <2>1, <2>2, <2>3 DEF LaneInv, LaneSlots, TileSlots, Counts, SlotsBalance
<1> QED BY <1>1, LaneInvHolds, PTL

\* The service's state has its type; the two counts are never negative, as no slot
\* is given back twice.
THEOREM TileTypes == Spec => []TypeOK
<1>1. ASSUME LaneInv PROVE TypeOK
  <2>1. lane.active \in Nat /\ tiles \in Nat
    BY <1>1, FS_CardinalityType DEF LaneInv, LaneSlots, TileSlots, Counts
  <2>2. lane \in [active : Nat, waiters : Seq(Keys)]
    BY <1>1, <2>1 DEF LaneInv, Typed
  <2> QED BY <1>1, <2>1, <2>2 DEF LaneInv, Typed, TypeOK
<1> QED BY <1>1, LaneInvHolds, PTL

-----------------------------------------------------------------------------
(* Fresh answers                                                           *)

\* No two computes go by way of one inner key, and no request asks for it by itself.
OwnInner ==
    /\ \A x, y \in Keys : Inner[x] = Inner[y] /\ Inner[x] # NoKey => x = y
    /\ \A x \in Keys : Inner[x] \notin Asked

\* The compute of an inner key is there for the compute that asked for it.
Alone ==
    \A y \in Keys : Inner[y] # NoKey /\ flight[Inner[y]].pc # "none"
                        => y \in flight[Inner[y]].waiting

LEMMA AloneStep ==
    ASSUME OwnInner, Typed, Waiting, Queue, Alone, [Next]_vars
    PROVE  Alone'
<1> SUFFICES ASSUME NEW y \in Keys, Inner[y] # NoKey, flight'[Inner[y]].pc # "none"
             PROVE  y \in flight'[Inner[y]].waiting
  BY DEF Alone
<1>1. PICK j \in Keys : j = Inner[y]
  BY TileAssumption
<1>2. flight[j].pc # "none" => y \in flight[j].waiting
  BY <1>1 DEF Alone
<1>3. flight'[j].pc # "none"
  BY <1>1
<1> SUFFICES y \in flight'[j].waiting
  BY <1>1
<1>4. CASE flight' = flight
  BY <1>2, <1>3, <1>4
<1>5. ASSUME NEW x \in Callers \cup Keys, NEW k \in Keys, Hit(x, k)
      PROVE  y \in flight'[j].waiting
  <2>1. /\ \A i \in Keys \ {x} : flight'[i] = flight[i]
        /\ x \in Keys => flight[x].pc = "keys" /\ flight'[x].waiting = flight[x].waiting
    BY <1>5, HitEffect
  <2> QED BY <1>2, <1>3, <2>1
<1>6. ASSUME NEW x \in Callers \cup Keys, NEW k \in Keys, Join(x, k)
      PROVE  y \in flight'[j].waiting
  <2>1. /\ \A i \in Keys : flight'[i].pc = IF i = x THEN "joined" ELSE flight[i].pc
        /\ x \in Keys => flight[x].pc = "keys"
        /\ \A i \in Keys \ {k} : flight'[i].waiting = flight[i].waiting
        /\ flight'[k].waiting = flight[k].waiting \cup {x}
    BY <1>6, JoinEffect
  <2>2. flight[j].pc # "none"
    BY <1>3, <2>1
  <2> QED BY <1>2, <2>1, <2>2
<1>7. ASSUME NEW x \in Callers \cup Keys, NEW k \in Keys, Lead(x, k)
      PROVE  y \in flight'[j].waiting
  <2>1. CASE flight' # flight
    <3>1. /\ \A i \in Keys \ {k} : /\ flight'[i].waiting = flight[i].waiting
                                   /\ flight'[i].pc = IF i = x THEN "joined" ELSE flight[i].pc
          /\ flight'[k].waiting = {x}
      BY <1>7, <2>1, LeadBegins
    <3>2. (k \in Asked \/ (k = Inner[x] /\ x \in Keys)) /\ (x \in Keys => flight[x].pc = "keys")
      <4>1. \/ x \in Callers /\ k \in Asked
            \/ x \in Keys /\ flight[x].pc = "keys" /\ k = Inner[x]
        BY <1>7 DEF Lead, Asks
      <4>2. x \notin Callers \/ x \notin Keys
        BY TileAssumption
      <4> QED BY <4>1, <4>2
    <3>3. CASE j = k
      <4>1. x \in Keys /\ Inner[x] = Inner[y]
        BY <1>1, <3>2, <3>3 DEF OwnInner
      <4>2. x = y
        BY <4>1 DEF OwnInner
      <4> QED BY <3>1, <3>3, <4>2
    <3>4. CASE j # k
      BY <1>2, <1>3, <3>1, <3>2, <3>4
    <3> QED BY <3>3, <3>4
  <2> QED BY <1>4, <2>1
<1>8. ASSUME NEW x \in Callers, Abort(x) PROVE y \in flight'[j].waiting
  <2>1. PICK k \in Keys :
           /\ \A i \in Keys \ {k} : flight'[i] = flight[i]
           /\ \/ flight'[k] = NoFlight
              \/ flight'[k].pc = flight[k].pc /\ flight'[k].waiting = flight[k].waiting \ {x}
    BY <1>8, AbortEffect DEF Abort
  <2>2. NoFlight.pc = "none" /\ x # y
    BY TileAssumption DEF NoFlight
  <2> QED BY <1>2, <1>3, <2>1, <2>2
<1>9. ASSUME NEW k \in Keys, NEW s \in Scopes, Read(k, s) PROVE y \in flight'[j].waiting
  <2>1. /\ \A i \in Keys \ {k} : flight'[i] = flight[i]
        /\ flight'[k].pc = flight[k].pc /\ flight'[k].waiting = flight[k].waiting
    BY <1>9, ReadEffect
  <2> QED BY <1>2, <1>3, <2>1
<1>10. ASSUME NEW k \in Keys, (\E b \in BOOLEAN : Complete(k, b)) \/ Fail(k)
       PROVE  y \in flight'[j].waiting
  <2>1. /\ flight'[k].pc = "none"
        /\ \A i \in Keys \ {k} :
              /\ flight'[i].waiting = flight[i].waiting
              /\ Follows(k, i) => flight[i].pc = "queued"
              /\ i \in flight[k].waiting => flight[i].pc = "joined"
              /\ ~Follows(k, i) /\ i \notin flight[k].waiting => flight'[i].pc = flight[i].pc
    BY <1>10, ComputeEnds
  <2>2. j # k
    BY <1>3, <2>1
  <2>3. flight[j].pc # "none"
    BY <1>3, <2>1, <2>2
  <2> QED BY <1>2, <2>1, <2>2, <2>3
<1> QED BY FlightSteps, <1>4, <1>5, <1>6, <1>7, <1>8, <1>9, <1>10 DEF GetOrCompute, Compute

\* An invalidation counts on, and no flight begins or ends with it.
LEMMA SeqnoSteps ==
    ASSUME Typed, [Next]_vars
    PROVE  \/ seqno' = seqno
           \/ flight' = flight /\ seqno'.now = seqno.now + 1
<1>1. ASSUME NEW s \in Scopes, InvalidatePrefix(s) PROVE seqno'.now = seqno.now + 1
  BY <1>1 DEF InvalidatePrefix, Typed
<1>2. ASSUME Clear PROVE seqno'.now = seqno.now + 1
  BY <1>2 DEF Clear
<1>3. ASSUME NEW s \in Scopes, Wrote(s) PROVE flight' = flight /\ seqno'.now = seqno.now + 1
  BY <1>1, <1>3 DEF Wrote, computeVars
<1>4. ASSUME NEW c \in Clients, Notify(c) PROVE flight' = flight /\ seqno'.now = seqno.now + 1
  BY <1>1, <1>4, BusHead DEF Notify, computeVars
<1>5. ASSUME NEW c \in Clients, ListenerUp(c) PROVE flight' = flight /\ seqno'.now = seqno.now + 1
  BY <1>2, <1>5 DEF ListenerUp, computeVars
<1> QED BY SeqnoChanges, <1>3, <1>4, <1>5

\* A flight began in the past, not before the flight that waits for it, and has read
\* what its answer depends on only.
SeqPast == \A k \in Keys : flight[k].seq <= seqno.now
WaitSeq == \A k, y \in Keys : y \in flight[k].waiting => flight[y].seq <= flight[k].seq
SeenReads == \A k \in Keys, s \in Scopes : flight[k].seen[s] # Unread => s \in Reads(k)

LEMMA SeqPastStep ==
    ASSUME Typed, SeqPast, [Next]_vars
    PROVE  SeqPast'
<1>1. seqno.now \in Nat /\ \A k \in Keys : flight[k].seq \in Nat
  BY DEF Typed, Flight
<1>2. CASE flight' = flight /\ seqno'.now = seqno.now + 1
  BY <1>1, <1>2 DEF SeqPast
<1>3. CASE flight' = flight /\ seqno' = seqno
  BY <1>3 DEF SeqPast
<1>4. CASE seqno' = seqno /\ flight' # flight
  <2> SUFFICES ASSUME NEW i \in Keys
               PROVE  flight'[i].seq \in {flight[i].seq, seqno.now, 0}
    BY <1>1, <1>4 DEF SeqPast
  <2>1. ASSUME NEW x \in Callers \cup Keys, NEW k \in Keys, Hit(x, k)
        PROVE  flight'[i].seq = flight[i].seq
    BY <2>1, HitEffect
  <2>2. ASSUME NEW x \in Callers \cup Keys, NEW k \in Keys, Join(x, k)
        PROVE  flight'[i].seq = flight[i].seq
    BY <2>2, JoinEffect
  <2>3. ASSUME NEW x \in Callers \cup Keys, NEW k \in Keys, Lead(x, k)
        PROVE  flight'[i].seq \in {flight[i].seq, seqno.now}
    <3>1. /\ \A j \in Keys \ {k} : flight'[j].seq = flight[j].seq
          /\ flight'[k].seq = seqno.now
      BY <1>4, <2>3, LeadBegins
    <3> QED BY <3>1
  <2>4. ASSUME NEW x \in Callers, Abort(x) PROVE flight'[i].seq \in {flight[i].seq, 0}
    <3>1. PICK k \in Keys :
             /\ \A j \in Keys \ {k} : flight'[j] = flight[j]
             /\ flight'[k] = NoFlight \/ flight'[k].seq = flight[k].seq
      BY <2>4, AbortEffect DEF Abort
    <3>2. NoFlight.seq = 0
      BY DEF NoFlight
    <3> QED BY <3>1, <3>2
  <2>5. ASSUME NEW k \in Keys, Compute(k) PROVE flight'[i].seq \in {flight[i].seq, 0}
    <3>1. CASE \E s \in Scopes : Read(k, s)
      BY <3>1, ReadEffect
    <3>2. CASE \E b \in BOOLEAN : Complete(k, b)
      <4>1. (\A j \in Keys \ {k} : flight'[j].seq = flight[j].seq) /\ flight'[k].seq = 0
        BY <3>2, CompleteEffect
      <4> QED BY <4>1
    <3>3. CASE Fail(k)
      <4>1. (\A j \in Keys \ {k} : flight'[j].seq = flight[j].seq) /\ flight'[k].seq = 0
        BY <3>3, FailEffect
      <4> QED BY <4>1
    <3> QED BY <2>5, <3>1, <3>2, <3>3 DEF Compute
  <2> QED BY <1>4, <2>1, <2>2, <2>3, <2>4, <2>5, FlightSteps DEF GetOrCompute
<1> QED BY <1>2, <1>3, <1>4, SeqnoSteps

LEMMA WaitSeqStep ==
    ASSUME OwnInner, Typed, Waiting, Queue, Alone, SeqPast, WaitSeq, [Next]_vars
    PROVE  WaitSeq'
<1> SUFFICES ASSUME NEW j \in Keys, NEW y \in Keys, y \in flight'[j].waiting
             PROVE  flight'[y].seq <= flight'[j].seq
  BY DEF WaitSeq
<1>1. y \in flight[j].waiting => flight[y].seq <= flight[j].seq /\ flight[y].pc = "joined"
  BY DEF WaitSeq, Waiting
<1>2. CASE flight' = flight
  BY <1>1, <1>2
<1>3. ASSUME NEW x \in Callers \cup Keys, NEW k \in Keys, Hit(x, k)
      PROVE  flight'[y].seq <= flight'[j].seq
  <2>1. \A i \in Keys : flight'[i].seq = flight[i].seq /\ flight'[i].waiting = flight[i].waiting
    BY <1>3, HitEffect
  <2> QED BY <1>1, <2>1
<1>4. ASSUME NEW x \in Callers \cup Keys, NEW k \in Keys, Join(x, k)
      PROVE  flight'[y].seq <= flight'[j].seq
  <2>1. /\ \A i \in Keys : flight'[i].seq = flight[i].seq
        /\ \A i \in Keys \ {k} : flight'[i].waiting = flight[i].waiting
        /\ flight'[k].waiting = flight[k].waiting \cup {x}
        /\ x \in Keys => flight[x].pc = "keys" /\ k = Inner[x]
        /\ flight[k].pc # "none"
    BY <1>4, JoinEffect
  <2>2. x \notin Keys
    <3>1. SUFFICES ASSUME x \in Keys PROVE FALSE
      OBVIOUS
    <3>2. Inner[x] # NoKey /\ flight[Inner[x]].pc # "none"
      BY <2>1, <3>1, TileAssumption
    <3>3. x \in flight[k].waiting
      BY <2>1, <3>1, <3>2 DEF Alone
    <3>4. flight[x].pc = "joined"
      BY <3>1, <3>3 DEF Waiting
    <3> QED BY <2>1, <3>1, <3>4
  <2>3. y \in flight[j].waiting
    BY <2>1, <2>2
  <2> QED BY <1>1, <2>1, <2>3
<1>5. ASSUME NEW x \in Callers \cup Keys, NEW k \in Keys, Lead(x, k), flight' # flight
      PROVE  flight'[y].seq <= flight'[j].seq
  <2>1. /\ \A i \in Keys \ {k} : flight'[i].seq = flight[i].seq /\ flight'[i].waiting = flight[i].waiting
        /\ flight'[k].seq = seqno.now /\ flight'[k].waiting = {x}
    BY <1>5, LeadBegins
  <2>2. x # k
    BY <1>5, LeadEffect
  <2>3. flight[k].pc = "none"
    BY <1>5 DEF Lead
  <2>4. CASE j = k
    <3>1. y = x /\ flight'[y].seq = flight[y].seq
      BY <2>1, <2>2, <2>4
    <3> QED BY <2>1, <2>4, <3>1 DEF SeqPast
  <2>5. CASE j # k
    <3>1. y \in flight[j].waiting
      BY <2>1, <2>5
    <3>2. y # k
      BY <1>1, <2>3, <3>1
    <3> QED BY <1>1, <2>1, <2>5, <3>1, <3>2
  <2> QED BY <2>4, <2>5
<1>6. ASSUME NEW x \in Callers, Abort(x) PROVE flight'[y].seq <= flight'[j].seq
  <2>1. PICK k \in Keys :
           /\ \A i \in Keys \ {k} : flight'[i] = flight[i]
           /\ \/ flight[k].pc = "queued" /\ flight'[k] = NoFlight
              \/ flight'[k].seq = flight[k].seq /\ flight'[k].waiting = flight[k].waiting \ {x}
    BY <1>6, AbortEffect DEF Abort
  <2>2. NoFlight.waiting = {}
    BY DEF NoFlight
  <2>3. y \in flight[j].waiting
    BY <2>1, <2>2
  <2>4. flight'[y].seq = flight[y].seq
    BY <1>1, <2>1, <2>3
  <2>5. flight'[j].seq = flight[j].seq
    BY <2>1, <2>2
  <2> QED BY <1>1, <2>3, <2>4, <2>5
<1>7. ASSUME NEW k \in Keys, NEW s \in Scopes, Read(k, s) PROVE flight'[y].seq <= flight'[j].seq
  <2>1. \A i \in Keys : flight'[i].seq = flight[i].seq /\ flight'[i].waiting = flight[i].waiting
    BY <1>7, ReadEffect
  <2> QED BY <1>1, <2>1
<1>8. ASSUME NEW k \in Keys, (\E b \in BOOLEAN : Complete(k, b)) \/ Fail(k)
      PROVE  flight'[y].seq <= flight'[j].seq
  <2>1. /\ flight[k].pc \in {"reading", "failing"} /\ flight'[k].waiting = {}
        /\ \A i \in Keys \ {k} : flight'[i].seq = flight[i].seq /\ flight'[i].waiting = flight[i].waiting
    BY <1>8, ComputeEnds
  <2>2. j # k
    BY <2>1
  <2>3. y \in flight[j].waiting
    BY <2>1, <2>2
  <2>4. y # k
    BY <1>1, <2>1, <2>3
  <2> QED BY <1>1, <2>1, <2>2, <2>3, <2>4
<1> QED BY FlightSteps, <1>2, <1>3, <1>4, <1>5, <1>6, <1>7, <1>8 DEF GetOrCompute, Compute

LEMMA SeenReadsStep ==
    ASSUME Typed, SeenReads, [Next]_vars
    PROVE  SeenReads'
<1> SUFFICES ASSUME NEW i \in Keys, NEW s \in Scopes, flight'[i].seen[s] # Unread
             PROVE  s \in Reads(i)
  BY DEF SeenReads
<1>1. flight[i].seen[s] # Unread => s \in Reads(i)
  BY DEF SeenReads
<1>2. s \in DependsOn[i] => s \in Reads(i)
  BY DEF Reads
<1>3. Unseen[s] = Unread
  BY UnseenType
<1> SUFFICES flight'[i].seen[s] \in {flight[i].seen[s], Unread} \/ s \in Reads(i)
  BY <1>1
<1>4. ASSUME NEW x \in Callers \cup Keys, NEW k \in Keys, Hit(x, k)
      PROVE  flight'[i].seen[s] = flight[i].seen[s] \/ s \in Reads(i)
  BY <1>2, <1>4, HitEffect
<1>5. ASSUME NEW x \in Callers \cup Keys, NEW k \in Keys, Join(x, k)
      PROVE  flight'[i].seen[s] = flight[i].seen[s]
  BY <1>5, JoinEffect
<1>6. ASSUME NEW x \in Callers \cup Keys, NEW k \in Keys, Lead(x, k), flight' # flight
      PROVE  flight'[i].seen[s] \in {flight[i].seen[s], Unread}
  BY <1>3, <1>6, LeadBegins
<1>7. ASSUME NEW x \in Callers, Abort(x) PROVE flight'[i].seen[s] \in {flight[i].seen[s], Unread}
  <2>1. PICK k \in Keys :
           /\ \A j \in Keys \ {k} : flight'[j] = flight[j]
           /\ flight'[k] = NoFlight \/ flight'[k].seen = flight[k].seen
    BY <1>7, AbortEffect DEF Abort
  <2>2. NoFlight.seen = Unseen
    BY DEF NoFlight
  <2> QED BY <1>3, <2>1, <2>2
<1>8. ASSUME NEW k \in Keys, NEW t \in Scopes, Read(k, t)
      PROVE  flight'[i].seen[s] = flight[i].seen[s] \/ s \in Reads(i)
  <2>1. t \in Reads(k)
    BY <1>8 DEF Read
  <2> QED BY <1>8, <2>1, ReadEffect
<1>9. ASSUME NEW k \in Keys, NEW b \in BOOLEAN, Complete(k, b)
      PROVE  flight'[i].seen[s] \in {flight[i].seen[s], Unread} \/ s \in Reads(i)
  <2>1. CASE i = k
    BY <1>3, <1>9, <2>1, CompleteEffect
  <2>2. CASE i # k
    <3>1. flight'[i].seen[s] = IF i \in flight[k].waiting /\ s \in DependsOn[i]
                               THEN flight[k].seen[s] ELSE flight[i].seen[s]
      BY <1>9, <2>2, CompleteEffect
    <3> QED BY <1>2, <3>1
  <2> QED BY <2>1, <2>2
<1>10. ASSUME NEW k \in Keys, Fail(k) PROVE flight'[i].seen[s] \in {flight[i].seen[s], Unread}
  BY <1>3, <1>10, FailEffect
<1> QED BY FlightSteps, <1>4, <1>5, <1>6, <1>7, <1>8, <1>9, <1>10 DEF GetOrCompute, Compute

\* An entry has a version for what its key depends on, and for nothing else.
Whole(st) ==
    \A k \in st.keys, s \in Scopes : st.value[k][s] # Unread <=> s \in Reads(k)

LEMMA WholeStep ==
    ASSUME Typed, SeenReads, Whole(store), [Next]_vars
    PROVE  Whole(store')
<1>1. store \in Store /\ store.keys \subseteq Keys
  BY DEF Typed, Store
<1>2. ASSUME \A k \in store'.keys : k \in store.keys /\ store'.value[k] = store.value[k]
      PROVE  Whole(store')
  BY <1>2 DEF Whole
<1>3. ASSUME NEW k \in Keys, Expire(k) PROVE Whole(store')
  <2>1. store' = Drop(store, {k})
    BY <1>3 DEF Expire
  <2>2. store'.keys = store.keys \ {k}
        /\ \A i \in Keys \ ({k} \cap store.keys) : store'.value[i] = store.value[i]
    BY <1>1, <2>1, DropEffect
  <2> QED BY <1>1, <1>2, <2>2
<1>4. ASSUME NEW x \in Callers \cup Keys, NEW k \in Keys, Hit(x, k) PROVE Whole(store')
  <2>1. store' = Promote(store, k) /\ k \in store.keys
    BY <1>4 DEF Hit
  <2>2. store'.keys = store.keys \cup {k} /\ store'.value = store.value
    BY <1>1, <2>1, PromoteEffect
  <2> QED BY <1>2, <2>1, <2>2
<1>5. ASSUME NEW k \in Keys, NEW b \in BOOLEAN, Complete(k, b) PROVE Whole(store')
  <2> DEFINE v == flight[k].seen
             reg == Register(store, k)
  <2>1. v \in Values
    BY DEF Typed, Flight
  <2>2. \A s \in Scopes : v[s] # Unread <=> s \in Reads(k)
    BY <1>5 DEF Complete, SeenReads
  <2>3. store' = store \/ store' = Put(reg, k, v, b)
    BY <1>5 DEF Complete
  <2>4. reg \in Store /\ reg.keys = store.keys /\ reg.value = store.value
    BY <1>1, RegisterEffect
  <2> HIDE DEF v, reg
  <2>5. CASE store' = store
    BY <1>2, <2>5
  <2>6. CASE store' = Put(reg, k, v, b)
    <3>1. /\ store'.keys \subseteq reg.keys \cup {k}
          /\ \A i \in store'.keys : store'.value[i] = IF i = k THEN v ELSE reg.value[i]
      BY <2>1, <2>4, <2>6, PutEffect
    <3> QED BY <2>2, <2>4, <3>1 DEF Whole
  <2> QED BY <2>3, <2>5, <2>6
<1>6. ASSUME NEW s \in Scopes, InvalidatePrefix(s) PROVE Whole(store')
  <2>1. store' = Invalidate(store, s)
    BY <1>6 DEF InvalidatePrefix
  <2>2. /\ store'.keys = store.keys \ About(store, s)
        /\ \A k \in store.keys \ About(store, s) : store'.value[k] = store.value[k]
    BY <1>1, <2>1, InvalidateEffect
  <2> QED BY <1>2, <2>2
<1>7. ASSUME Clear PROVE Whole(store')
  <2> DEFINE st == [store EXCEPT !.dependents = [s \in Scopes |-> {}], !.prefixes = [k \in Keys |-> {}]]
  <2>1. st \in Store /\ st.keys = store.keys
    BY <1>1 DEF Store
  <2>2. store' = Drop(st, Keys)
    BY <1>7 DEF Clear
  <2> HIDE DEF st
  <2>3. store'.keys = st.keys \ Keys
    BY <2>1, <2>2, DropEffect
  <2>4. store'.keys = {}
    BY <1>1, <2>1, <2>3
  <2> QED BY <2>4 DEF Whole
<1>8. ASSUME NEW s \in Scopes, Wrote(s) PROVE Whole(store')
  BY <1>6, <1>8 DEF Wrote
<1>9. ASSUME NEW c \in Clients, Notify(c) PROVE Whole(store')
  BY <1>6, <1>9, BusHead DEF Notify
<1>10. ASSUME NEW c \in Clients, ListenerUp(c) PROVE Whole(store')
  BY <1>7, <1>10 DEF ListenerUp
<1> QED BY StoreSteps, <1>3, <1>4, <1>5, <1>8, <1>9, <1>10

\* The service's listener is a connection that is up: the database still announces
\* writes to it.
Up == listener # NoClient => conn[listener] = "up"

LEMMA UpStep ==
    ASSUME Typed, Up, [Next]_vars
    PROVE  Up'
<1>1. conn \in [Clients -> Stages] /\ listener \in Clients \cup {NoClient} /\ NoClient \notin Clients
  BY TileAssumption DEF Typed, Stages
<1>2. CASE conn' = conn /\ listener' = listener
  BY <1>2 DEF Up
<1>3. ASSUME NEW st \in BOOLEAN, EnsureListener(conn, listener, st), listener' = listener PROVE Up'
  <2>1. \A c \in Clients : conn[c] # "unused" => conn'[c] = conn[c]
    BY <1>3, EnsureEffect
  <2> QED BY <1>1, <1>3, <2>1 DEF Up
<1>4. ASSUME NEW x \in Callers \cup Keys, NEW k \in Keys, Lead(x, k) PROVE Up'
  <2>1. starting \in BOOLEAN
    BY DEF Typed
  <2> QED BY <1>3, <1>4, <2>1 DEF Lead
<1>5. CASE RetryTimer
  <2>1. FALSE \in BOOLEAN
    OBVIOUS
  <2> QED BY <1>3, <1>5, <2>1 DEF RetryTimer
<1>6. ASSUME NEW c \in Clients, ListenCommits(c) PROVE Up'
  BY <1>1, <1>6 DEF ListenCommits, Up
<1>7. ASSUME NEW c \in Clients, ListenerUp(c) PROVE Up'
  BY <1>1, <1>7 DEF ListenerUp, Up
<1>8. ASSUME NEW c \in Clients, ListenerLost(c) PROVE Up'
  BY <1>1, <1>8 DEF ListenerLost, Up
<1>9. ASSUME NEW c \in Clients, Notify(c) PROVE Up'
  BY <1>2, <1>9 DEF Notify
<1>10. ASSUME NEW s \in Scopes, Wrote(s) \/ \E here \in BOOLEAN : Write(s, here) PROVE Up'
  BY <1>2, <1>10 DEF Wrote, Write, listenVars
<1>11. ASSUME NEW x \in Callers \cup Keys, NEW k \in Keys, Hit(x, k) \/ Join(x, k) PROVE Up'
  BY <1>2, <1>11 DEF Hit, Join, listenVars
<1>12. ASSUME NEW x \in Callers, Abort(x) PROVE Up'
  BY <1>2, <1>12 DEF Abort, listenVars
<1>13. ASSUME NEW k \in Keys, Compute(k) \/ Expire(k) PROVE Up'
  BY <1>2, <1>13 DEF Compute, Read, Complete, Fail, Expire, listenVars
<1>14. CASE UNCHANGED vars
  BY <1>2, <1>14 DEF vars, listenVars
<1> QED BY <1>4, <1>5, <1>6, <1>7, <1>8, <1>9, <1>10, <1>11, <1>12, <1>13, <1>14
        DEF Next, GetOrCompute

\* v is no older than the database, or the notification that says so is on its way.
Known(v, s) == v \in {Unread, version[s]} \/ s \in Range(bus[listener])
KnownNext(v, s) == v \in {Unread, version'[s]} \/ s \in Range(bus'[listener'])
Stale(k, s) == seqno.cleared > flight[k].seq \/ seqno.at[s] > flight[k].seq

\* While the listener is up: what an entry holds is known, and so is what a compute
\* has read, unless the compute is to be discarded.
EntriesKnown == listener # NoClient => \A k \in store.keys, s \in Scopes : Known(store.value[k][s], s)
ReadsKnown ==
    listener # NoClient => \A k \in Keys, s \in Scopes : Known(flight[k].seen[s], s) \/ Stale(k, s)

\* What is known stays known but through a notification, a new listener or none.
LEMMA KnownStep ==
    ASSUME Typed, Up, [Next]_vars, listener' # NoClient,
           NEW v, NEW s \in Scopes, listener # NoClient, Known(v, s)
    PROVE  \/ KnownNext(v, s)
           \/ \E c \in Clients : ListenerUp(c)
           \/ Notify(listener) /\ s = Head(bus[listener])
<1>1. /\ conn \in [Clients -> Stages] /\ listener \in Clients /\ bus \in [Clients -> Seq(Scopes)]
      /\ version \in [Scopes -> 0..MaxWrites] /\ conn[listener] = "up" /\ NoClient \notin Clients
  BY TileAssumption DEF Typed, Stages, Up
<1>2. ASSUME version' = version, bus'[listener] = bus[listener], listener' = listener
      PROVE  KnownNext(v, s)
  BY <1>2 DEF Known, KnownNext
<1>3. ASSUME NEW t \in Scopes, NEW here \in BOOLEAN, Write(t, here) PROVE KnownNext(v, s)
  <2>1. version' = [version EXCEPT ![t] = version[t] + 1] /\ listener' = listener
        /\ bus'[listener] = Append(bus[listener], t)
    BY <1>1, <1>3 DEF Write
  <2>2. Range(Append(bus[listener], t)) = Range(bus[listener]) \cup {t}
    <3> DEFINE b == bus[listener]
    <3>1. b \in Seq(Scopes)
      BY <1>1
    <3> HIDE DEF b
    <3>2. /\ DOMAIN b = 1..Len(b) /\ DOMAIN Append(b, t) = 1..(Len(b) + 1) /\ Len(b) \in Nat
          /\ \A i \in 1..Len(b) : Append(b, t)[i] = b[i]
          /\ Append(b, t)[Len(b) + 1] = t
      BY <3>1
    <3>3. \A i \in 1..(Len(b) + 1) : i \in 1..Len(b) \/ i = Len(b) + 1
      BY <3>2
    <3>4. Len(b) + 1 \in 1..(Len(b) + 1) /\ \A i \in 1..Len(b) : i \in 1..(Len(b) + 1)
      BY <3>2
    <3>5. Range(Append(b, t)) = Range(b) \cup {t}
      BY <3>2, <3>3, <3>4 DEF Range
    <3> QED BY <3>5 DEF b
  <2>3. CASE s = t
    BY <2>1, <2>2, <2>3 DEF Known, KnownNext
  <2>4. CASE s # t
    <3>1. version'[s] = version[s]
      BY <1>1, <2>1, <2>4
    <3> QED BY <2>1, <2>2, <3>1 DEF Known, KnownNext
  <2> QED BY <2>3, <2>4
<1>4. ASSUME NEW c \in Clients, Notify(c) PROVE KnownNext(v, s) \/ (c = listener /\ s = Head(bus[c]))
  <2>1. version' = version /\ listener' = listener /\ bus' = [bus EXCEPT ![c] = Tail(bus[c])] /\ bus[c] # <<>>
    BY <1>4 DEF Notify, dbVars
  <2>2. CASE c # listener
    BY <1>1, <1>2, <2>1, <2>2
  <2>3. CASE c = listener
    <3> DEFINE b == bus[listener]
    <3>1. b \in Seq(Scopes) /\ b # <<>> /\ bus'[listener] = Tail(b)
      BY <1>1, <2>1, <2>3
    <3> HIDE DEF b
    <3>2. /\ DOMAIN b = 1..Len(b) /\ DOMAIN Tail(b) = 1..(Len(b) - 1) /\ Len(b) \in Nat
          /\ \A i \in 1..(Len(b) - 1) : Tail(b)[i] = b[i + 1]
          /\ Head(b) = b[1]
      BY <3>1
    <3>3. \A i \in 1..Len(b) : i = 1 \/ (i - 1 \in 1..(Len(b) - 1) /\ (i - 1) + 1 = i)
      BY <3>2
    <3>4. ASSUME NEW i \in 1..Len(b), i # 1 PROVE b[i] \in Range(Tail(b))
      <4>1. i - 1 \in DOMAIN Tail(b) /\ Tail(b)[i - 1] = b[i]
        BY <3>2, <3>3, <3>4
      <4> QED BY <4>1 DEF Range
    <3>5. s \in Range(b) => s = Head(b) \/ s \in Range(Tail(b))
      BY <3>2, <3>4 DEF Range
    <3>6. v \in {Unread, version[s]} \/ s \in Range(b)
      BY DEF Known, KnownNext, b
    <3>7. s = Head(b) \/ v \in {Unread, version'[s]} \/ s \in Range(bus'[listener'])
      BY <2>1, <3>1, <3>5, <3>6
    <3> QED BY <2>3, <3>7 DEF Known, KnownNext, b
  <2> QED BY <2>2, <2>3
<1>5. ASSUME NEW c \in Clients, ListenerLost(c) PROVE KnownNext(v, s)
  <2>1. c # listener /\ listener' = listener /\ version' = version /\ bus'[listener] = bus[listener]
    BY <1>1, <1>5 DEF ListenerLost, dbVars
  <2> QED BY <1>2, <2>1
<1>6. ASSUME NEW c \in Clients, ListenCommits(c) PROVE KnownNext(v, s)
  BY <1>2, <1>6 DEF ListenCommits, dbVars
<1>7. ASSUME RetryTimer \/ UNCHANGED vars PROVE KnownNext(v, s)
  BY <1>2, <1>7 DEF RetryTimer, vars, dbVars, listenVars
<1>8. ASSUME NEW t \in Scopes, Wrote(t) PROVE KnownNext(v, s)
  BY <1>2, <1>8 DEF Wrote, listenVars
<1>9. ASSUME NEW x \in Callers \cup Keys, NEW k \in Keys, GetOrCompute(x, k) PROVE KnownNext(v, s)
  BY <1>2, <1>9 DEF GetOrCompute, Hit, Join, Lead, listenVars, dbVars
<1>10. ASSUME NEW x \in Callers, Abort(x) PROVE KnownNext(v, s)
  BY <1>2, <1>10 DEF Abort, listenVars, dbVars
<1>11. ASSUME NEW k \in Keys, Compute(k) \/ Expire(k) PROVE KnownNext(v, s)
  BY <1>2, <1>11 DEF Compute, Read, Complete, Fail, Expire, listenVars, dbVars
<1> QED BY <1>3, <1>4, <1>5, <1>6, <1>7, <1>8, <1>9, <1>10, <1>11 DEF Next

\* One connection at a time hears of a write.
LEMMA OneNotified ==
    ASSUME Typed, NEW c \in Clients, NEW d \in Clients, Notify(c), Notify(d)
    PROVE  c = d
<1> SUFFICES ASSUME c # d PROVE FALSE
  OBVIOUS
<1>1. bus \in [Clients -> Seq(Scopes)]
  BY DEF Typed
<1>2. bus' = [bus EXCEPT ![c] = Tail(bus[c])] /\ bus' = [bus EXCEPT ![d] = Tail(bus[d])] /\ bus[d] # <<>>
  BY DEF Notify
<1>3. Tail(bus[d]) = bus[d]
  BY <1>1, <1>2
<1>4. bus[d] \in Seq(Scopes)
  BY <1>1
<1> DEFINE n == Len(bus[d])
<1>5. n = n - 1 /\ n \in Nat
  <2>1. Len(Tail(bus[d])) = Len(bus[d]) - 1 /\ Len(bus[d]) \in Nat
    BY <1>2, <1>4
  <2> QED BY <1>3, <2>1
<1> HIDE DEF n
<1> QED BY <1>5

LEMMA EntriesKnownStep ==
    ASSUME Typed, Indexed(store), Up, SeenReads, Whole(store), EntriesKnown, ReadsKnown, [Next]_vars
    PROVE  EntriesKnown'
<1> SUFFICES ASSUME listener' # NoClient, NEW i \in store'.keys, NEW s \in Scopes
             PROVE  KnownNext(store'.value[i][s], s)
  BY DEF EntriesKnown, Known, KnownNext
<1>1. store \in Store /\ store.keys \subseteq Keys
  BY DEF Typed, Store
<1>2. ASSUME NEW c \in Clients, ListenerUp(c) PROVE FALSE
  <2> DEFINE st == [store EXCEPT !.dependents = [t \in Scopes |-> {}], !.prefixes = [k \in Keys |-> {}]]
  <2>1. st \in Store /\ st.keys = store.keys
    BY <1>1 DEF Store
  <2>2. store' = Drop(st, Keys)
    BY <1>2 DEF ListenerUp, Clear
  <2> HIDE DEF st
  <2>3. store'.keys = st.keys \ Keys
    BY <2>1, <2>2, DropEffect
  <2> QED BY <1>1, <2>1, <2>3
<1>3. listener # NoClient
  BY <1>2 DEF Next, Wrote, Write, GetOrCompute, Hit, Join, Lead, Abort, Compute, Read, Complete, Fail,
              Expire, ListenCommits, ListenerLost, Notify, RetryTimer, listenVars, vars
<1>4. ASSUME i \in store.keys, store'.value[i] = store.value[i],
             ~(Notify(listener) /\ s = Head(bus[listener]))
      PROVE  KnownNext(store'.value[i][s], s)
  <2> DEFINE v == store.value[i][s]
  <2>1. Known(v, s)
    BY <1>3, <1>4 DEF EntriesKnown
  <2> HIDE DEF v
  <2>2. KnownNext(v, s)
    BY <1>2, <1>3, <1>4, <2>1, KnownStep
  <2> QED BY <1>4, <2>2 DEF v
<1>5. ASSUME ~\E c \in Clients : Notify(c) PROVE ~(Notify(listener) /\ s = Head(bus[listener]))
  BY <1>3, <1>5 DEF Typed
<1>6. CASE store' = store /\ ~\E c \in Clients : Notify(c)
  BY <1>4, <1>5, <1>6
<1>7. ASSUME NEW k \in Keys, Expire(k), ~\E c \in Clients : Notify(c)
      PROVE  KnownNext(store'.value[i][s], s)
  <2>1. store' = Drop(store, {k})
    BY <1>7 DEF Expire
  <2>2. store'.keys = store.keys \ {k}
        /\ \A j \in Keys \ ({k} \cap store.keys) : store'.value[j] = store.value[j]
    BY <1>1, <2>1, DropEffect
  <2>3. i \in store.keys /\ store'.value[i] = store.value[i]
    BY <1>1, <2>2
  <2> QED BY <1>4, <1>5, <1>7, <2>3
<1>8. ASSUME NEW x \in Callers \cup Keys, NEW k \in Keys, Hit(x, k), ~\E c \in Clients : Notify(c)
      PROVE  KnownNext(store'.value[i][s], s)
  <2>1. store' = Promote(store, k) /\ k \in store.keys
    BY <1>8 DEF Hit
  <2>2. store'.keys = store.keys \cup {k} /\ store'.value = store.value
    BY <1>1, <2>1, PromoteEffect
  <2>3. i \in store.keys
    BY <2>1, <2>2
  <2> QED BY <1>4, <1>5, <1>8, <2>2, <2>3
<1>9. ASSUME NEW k \in Keys, NEW b \in BOOLEAN, Complete(k, b), ~\E c \in Clients : Notify(c)
      PROVE  KnownNext(store'.value[i][s], s)
  <2> DEFINE v == flight[k].seen
             reg == Register(store, k)
  <2>1. v \in Values
    BY DEF Typed, Flight
  <2>2. store' = store \/ (store' = Put(reg, k, v, b) /\ ~InvalidatedSince(k))
    BY <1>9 DEF Complete
  <2>3. reg \in Store /\ reg.keys = store.keys /\ reg.value = store.value
    BY <1>1, RegisterEffect
  <2> HIDE DEF reg
  <2>4. CASE store' = Put(reg, k, v, b) /\ ~InvalidatedSince(k)
    <3> HIDE DEF v
    <3>1. /\ store'.keys \subseteq reg.keys \cup {k}
          /\ \A j \in store'.keys : store'.value[j] = IF j = k THEN v ELSE reg.value[j]
      BY <2>1, <2>3, <2>4, PutEffect
    <3>2. CASE i # k
      <4>1. i \in store.keys /\ store'.value[i] = store.value[i]
        BY <2>3, <3>1, <3>2
      <4> QED BY <1>4, <1>5, <1>9, <4>1
    <3>3. CASE i = k
      <4>1. store'.value[i] = v
        BY <3>1, <3>3
      <4>2. Known(v[s], s)
        <5>1. CASE s \in Reads(k)
          <6>1. seqno.cleared <= flight[k].seq /\ seqno.at[s] <= flight[k].seq
            <7>1. seqno.cleared \in Nat /\ seqno.at[s] \in Nat /\ flight[k].seq \in Nat
              BY DEF Typed, Flight
            <7> QED BY <2>4, <5>1, <7>1 DEF InvalidatedSince
          <6>2. ~Stale(k, s)
            <7>1. seqno.cleared \in Nat /\ seqno.at[s] \in Nat /\ flight[k].seq \in Nat
              BY DEF Typed, Flight
            <7> QED BY <6>1, <7>1 DEF Stale
          <6> QED BY <1>3, <6>2 DEF ReadsKnown, v
        <5>2. CASE s \notin Reads(k)
          <6>1. v[s] = Unread
            BY <5>2 DEF SeenReads, v
          <6> QED BY <6>1 DEF Known, KnownNext
        <5> QED BY <5>1, <5>2
      <4> DEFINE w == v[s]
      <4>3. Known(w, s)
        BY <4>2
      <4>4. KnownNext(w, s)
        <5> HIDE DEF w
        <5> QED BY <1>2, <1>3, <1>5, <1>9, <4>3, KnownStep
      <4>5. store'.value[i][s] = w
        BY <4>1
      <4> HIDE DEF w
      <4> QED BY <4>4, <4>5
    <3> QED BY <3>2, <3>3
  <2> QED BY <1>4, <1>5, <1>9, <2>2, <2>4
<1>10. ASSUME NEW t \in Scopes, InvalidatePrefix(t),
              Notify(listener) => t = Head(bus[listener])
       PROVE  KnownNext(store'.value[i][s], s)
  <2>1. store' = Invalidate(store, t)
    BY <1>10 DEF InvalidatePrefix
  <2>2. /\ store'.keys = store.keys \ About(store, t)
        /\ \A k \in store.keys \ About(store, t) : store'.value[k] = store.value[k]
    BY <1>1, <2>1, InvalidateEffect
  <2>3. i \in store.keys /\ i \in Keys /\ i \notin About(store, t) /\ store'.value[i] = store.value[i]
    BY <1>1, <2>2
  <2>4. t \notin Reads(i)
    BY <2>3 DEF About, Indexed, Reads
  <2>5. CASE s = t
    <3>1. store'.value[i][s] = Unread
      BY <2>3, <2>4, <2>5 DEF Whole
    <3> QED BY <3>1 DEF Known, KnownNext
  <2>6. CASE s # t
    BY <1>4, <1>10, <2>3, <2>6
  <2> QED BY <2>5, <2>6
<1>11. ASSUME NEW t \in Scopes, Wrote(t), ~\E c \in Clients : Notify(c)
       PROVE  KnownNext(store'.value[i][s], s)
  <2>1. InvalidatePrefix(t) /\ ~Notify(listener)
    BY <1>3, <1>11 DEF Wrote, Typed
  <2> QED BY <1>10, <2>1
<1>12. ASSUME NEW c \in Clients, Notify(c) PROVE KnownNext(store'.value[i][s], s)
  <2>1. Head(bus[c]) \in Scopes /\ InvalidatePrefix(Head(bus[c]))
    BY <1>12, BusHead DEF Notify
  <2>2. Notify(listener) => c = listener
    <3>1. listener \in Clients
      BY <1>3 DEF Typed
    <3> QED BY <1>12, <3>1, OneNotified
  <2> QED BY <1>10, <2>1, <2>2
<1> QED BY StoreSteps, <1>2, <1>6, <1>7, <1>8, <1>9, <1>11, <1>12

LEMMA ReadsKnownStep ==
    ASSUME Typed, Waiting, Queue, Up, SeqPast, WaitSeq, EntriesKnown, ReadsKnown, [Next]_vars
    PROVE  ReadsKnown'
<1> DEFINE StaleNext(k, s) == seqno'.cleared > flight'[k].seq \/ seqno'.at[s] > flight'[k].seq
<1> SUFFICES ASSUME listener' # NoClient, NEW i \in Keys, NEW s \in Scopes
             PROVE  KnownNext(flight'[i].seen[s], s) \/ StaleNext(i, s)
  BY DEF ReadsKnown, Known, KnownNext, Stale
<1>1. /\ seqno.now \in Nat /\ seqno.cleared \in Nat /\ seqno.at \in [Scopes -> Nat]
      /\ seqno \in [now : Nat, at : [Scopes -> Nat], cleared : Nat]
      /\ \A k \in Keys : flight[k].seq \in Nat
      /\ bus \in [Clients -> Seq(Scopes)]
  BY DEF Typed, Flight
<1>2. ASSUME NEW c \in Clients, ListenerUp(c) PROVE StaleNext(i, s)
  <2>1. flight' = flight /\ seqno'.cleared = seqno.now + 1
    BY <1>2 DEF ListenerUp, Clear, computeVars
  <2>2. flight[i].seq <= seqno.now
    BY DEF SeqPast
  <2> QED BY <1>1, <2>1, <2>2
<1>3. CASE ~\E c \in Clients : ListenerUp(c)
  <2>1. listener # NoClient
    BY <1>3 DEF Next, Wrote, Write, GetOrCompute, Hit, Join, Lead, Abort, Compute, Read, Complete, Fail,
                Expire, ListenCommits, ListenerLost, Notify, RetryTimer, listenVars, vars
  <2>2. \A k \in Keys, t \in Scopes : Known(flight[k].seen[t], t) \/ Stale(k, t)
    BY <2>1 DEF ReadsKnown
  <2>3. ASSUME NEW v, Known(v, s), ~(Notify(listener) /\ s = Head(bus[listener]))
        PROVE  KnownNext(v, s)
    BY <1>3, <2>1, <2>3, KnownStep
  <2>4. ASSUME NEW t \in Scopes, InvalidatePrefix(t), flight' = flight,
               Notify(listener) => t = Head(bus[listener])
        PROVE  KnownNext(flight'[i].seen[s], s) \/ StaleNext(i, s)
    <3>1. /\ seqno'.at = [seqno.at EXCEPT ![t] = seqno.now + 1]
          /\ seqno'.cleared = seqno.cleared
      BY <1>1, <2>4 DEF InvalidatePrefix
    <3>2. CASE s = t
      <4>1. seqno'.at[s] = seqno.now + 1 /\ flight[i].seq <= seqno.now
        BY <1>1, <3>1, <3>2 DEF SeqPast
      <4> QED BY <1>1, <2>4, <4>1
    <3>3. CASE s # t
      <4>1. Stale(i, s) => StaleNext(i, s)
        BY <1>1, <2>4, <3>1, <3>3 DEF Stale
      <4>2. Known(flight[i].seen[s], s) => KnownNext(flight'[i].seen[s], s)
        BY <2>3, <2>4, <3>3
      <4> QED BY <2>2, <4>1, <4>2
    <3> QED BY <3>2, <3>3
  <2>5. ASSUME NEW c \in Clients, Notify(c)
        PROVE  KnownNext(flight'[i].seen[s], s) \/ StaleNext(i, s)
    <3>1. Head(bus[c]) \in Scopes /\ InvalidatePrefix(Head(bus[c])) /\ flight' = flight
      BY <2>5, BusHead DEF Notify, computeVars
    <3>2. CASE c = listener
      BY <2>4, <3>1, <3>2
    <3>3. CASE c # listener
      <4>1. ~Notify(listener)
        BY <1>1, <2>1, <2>5, <3>3, OneNotified DEF Typed
      <4> QED BY <2>4, <3>1, <4>1
    <3> QED BY <3>2, <3>3
  <2>6. ASSUME NEW t \in Scopes, Wrote(t), ~\E c \in Clients : Notify(c)
        PROVE  KnownNext(flight'[i].seen[s], s) \/ StaleNext(i, s)
    <3>1. InvalidatePrefix(t) /\ ~Notify(listener) /\ flight' = flight
      BY <2>1, <2>6 DEF Wrote, Typed, computeVars
    <3> QED BY <2>4, <3>1
  <2>7. ASSUME seqno' = seqno, ~\E c \in Clients : Notify(c)
        PROVE  KnownNext(flight'[i].seen[s], s) \/ StaleNext(i, s)
    <3>1. \A v : Known(v, s) => KnownNext(v, s)
      <4>1. ~Notify(listener)
        BY <2>1, <2>7 DEF Typed
      <4> QED BY <2>3, <4>1
    <3>2. Known(Unread, s) /\ Known(version[s], s)
      BY DEF Known
    <3>3. ASSUME flight'[i].seq = flight[i].seq, flight'[i].seen[s] = flight[i].seen[s]
          PROVE  KnownNext(flight'[i].seen[s], s) \/ StaleNext(i, s)
      BY <2>2, <2>7, <3>1, <3>3 DEF Stale
    <3>4. ASSUME flight'[i].seen[s] = Unread PROVE KnownNext(flight'[i].seen[s], s)
      BY <3>1, <3>2, <3>4
    <3>5. CASE flight' = flight
      BY <3>3, <3>5
    <3>6. ASSUME NEW x \in Callers \cup Keys, NEW k \in Keys, Hit(x, k)
          PROVE  KnownNext(flight'[i].seen[s], s) \/ StaleNext(i, s)
      <4>1. CASE i # x
        BY <3>3, <3>6, <4>1, HitEffect
      <4>2. CASE i = x
        <5>1. /\ flight'[i].seq = flight[i].seq
              /\ flight'[i].seen[s] = IF s \in DependsOn[x] THEN store.value[k][s] ELSE flight[i].seen[s]
          BY <3>6, <4>2, HitEffect
        <5>2. Known(store.value[k][s], s)
          BY <2>1, <3>6 DEF Hit, EntriesKnown
        <5>3. KnownNext(store.value[k][s], s)
          BY <3>1, <5>2
        <5> QED BY <3>3, <5>1, <5>3
      <4> QED BY <4>1, <4>2
    <3>7. ASSUME NEW x \in Callers \cup Keys, NEW k \in Keys, Join(x, k)
          PROVE  KnownNext(flight'[i].seen[s], s) \/ StaleNext(i, s)
      BY <3>3, <3>7, JoinEffect
    <3>8. ASSUME NEW x \in Callers \cup Keys, NEW k \in Keys, Lead(x, k), flight' # flight
          PROVE  KnownNext(flight'[i].seen[s], s) \/ StaleNext(i, s)
      <4>1. Unseen[s] = Unread
        BY UnseenType
      <4> QED BY <3>3, <3>4, <3>8, <4>1, LeadBegins
    <3>9. ASSUME NEW x \in Callers, Abort(x)
          PROVE  KnownNext(flight'[i].seen[s], s) \/ StaleNext(i, s)
      <4>1. PICK k \in Keys :
               /\ \A j \in Keys \ {k} : flight'[j] = flight[j]
               /\ \/ flight'[k] = NoFlight
                  \/ flight'[k].seen = flight[k].seen /\ flight'[k].seq = flight[k].seq
        BY <3>9, AbortEffect DEF Abort
      <4>2. NoFlight.seen[s] = Unread
        BY UnseenType DEF NoFlight
      <4> QED BY <3>3, <3>4, <4>1, <4>2
    <3>10. ASSUME NEW k \in Keys, NEW t \in Scopes, Read(k, t)
           PROVE  KnownNext(flight'[i].seen[s], s) \/ StaleNext(i, s)
      <4>1. /\ \A j \in Keys \ {k} : flight'[j] = flight[j]
            /\ flight'[k].seq = flight[k].seq
            /\ \A u \in Scopes \ {t} : flight'[k].seen[u] = flight[k].seen[u]
            /\ flight'[k].seen[t] = version[t]
        BY <3>10, ReadEffect
      <4>2. CASE i = k /\ s = t
        BY <3>1, <3>2, <4>1, <4>2
      <4>3. CASE ~(i = k /\ s = t)
        BY <3>3, <4>1, <4>3
      <4> QED BY <4>2, <4>3
    <3>11. ASSUME NEW k \in Keys, NEW b \in BOOLEAN, Complete(k, b)
           PROVE  KnownNext(flight'[i].seen[s], s) \/ StaleNext(i, s)
      <4>1. CASE i = k
        <5>1. flight'[i].seen[s] = Unread
          BY <3>11, <4>1, CompleteEffect, UnseenType
        <5> QED BY <3>4, <5>1
      <4>2. CASE i # k
        <5>1. /\ flight'[i].seq = flight[i].seq
              /\ flight'[i].seen[s] = IF i \in flight[k].waiting /\ s \in DependsOn[i]
                                      THEN flight[k].seen[s] ELSE flight[i].seen[s]
          BY <3>11, <4>2, CompleteEffect
        <5>2. CASE i \in flight[k].waiting /\ s \in DependsOn[i]
          <6>1. flight[i].seq <= flight[k].seq
            BY <5>2 DEF WaitSeq
          <6>2. Stale(k, s) => StaleNext(i, s)
            BY <1>1, <2>7, <5>1, <6>1 DEF Stale
          <6>3. Known(flight[k].seen[s], s) => KnownNext(flight'[i].seen[s], s)
            BY <3>1, <5>1, <5>2
          <6> QED BY <2>2, <6>2, <6>3
        <5>3. CASE ~(i \in flight[k].waiting /\ s \in DependsOn[i])
          BY <3>3, <5>1, <5>3
        <5> QED BY <5>2, <5>3
      <4> QED BY <4>1, <4>2
    <3>12. ASSUME NEW k \in Keys, Fail(k)
           PROVE  KnownNext(flight'[i].seen[s], s) \/ StaleNext(i, s)
      <4>1. CASE i = k
        <5>1. flight'[i].seen[s] = Unread
          BY <3>12, <4>1, FailEffect, UnseenType
        <5> QED BY <3>4, <5>1
      <4>2. CASE i # k
        <5>1. flight'[i].seq = flight[i].seq /\ flight'[i].seen[s] = flight[i].seen[s]
          BY <3>12, <4>2, FailEffect
        <5> QED BY <3>3, <5>1
      <4> QED BY <4>1, <4>2
    <3> HIDE DEF StaleNext
    <3> QED BY FlightSteps, <3>5, <3>6, <3>7, <3>8, <3>9, <3>10, <3>11, <3>12 DEF GetOrCompute, Compute
  <2>8. \/ seqno' = seqno
        \/ \E t \in Scopes : Wrote(t)
        \/ \E c \in Clients : Notify(c)
    BY <1>3, SeqnoChanges
  <2> HIDE DEF StaleNext
  <2> QED BY <2>5, <2>6, <2>7, <2>8
<1> QED BY <1>2, <1>3

FreshInv ==
    /\ Typed /\ Waiting /\ Queue /\ Indexed(store) /\ Up
    /\ Alone /\ SeqPast /\ WaitSeq /\ SeenReads
    /\ Whole(store) /\ EntriesKnown /\ ReadsKnown

LEMMA FreshInvInit == Init => FreshInv
<1> SUFFICES ASSUME Init PROVE FreshInv
  OBVIOUS
<1>1. Typed /\ Waiting /\ Queue
  BY LaneInvInit DEF LaneInv
<1>2. /\ \A k \in Keys : flight[k].pc = "none" /\ flight[k].waiting = {} /\ flight[k].seq = 0
      /\ \A k \in Keys, s \in Scopes : flight[k].seen[s] = Unread
  BY UnseenType DEF Init, NoFlight
<1>3. store.keys = {} /\ Indexed(store)
  BY DEF Init, Indexed
<1>4. listener = NoClient /\ seqno.now = 0
  BY DEF Init
<1>5. Alone
  BY <1>2, TileAssumption DEF Alone
<1>6. SeqPast /\ WaitSeq /\ SeenReads
  BY <1>2, <1>4 DEF SeqPast, WaitSeq, SeenReads
<1>7. Whole(store) /\ Up /\ EntriesKnown /\ ReadsKnown
  BY <1>3, <1>4 DEF Whole, Up, EntriesKnown, ReadsKnown
<1> QED BY <1>1, <1>3, <1>5, <1>6, <1>7 DEF FreshInv

LEMMA FreshInvStep == OwnInner /\ FreshInv /\ [Next]_vars => FreshInv'
<1> SUFFICES ASSUME OwnInner, FreshInv, [Next]_vars PROVE FreshInv'
  OBVIOUS
<1>1. Typed /\ Waiting /\ Queue /\ Indexed(store) /\ Up /\ Alone /\ SeqPast /\ WaitSeq /\ SeenReads
      /\ Whole(store) /\ EntriesKnown /\ ReadsKnown
  BY DEF FreshInv
<1>2. Typed' /\ Waiting' /\ Queue'
  BY <1>1, TypedStep, WaitingStep, QueueStep
<1>3. Indexed(store')
  BY <1>1, IndexStep
<1>4. Whole(store')
  BY <1>1, WholeStep
<1>5. Up' /\ Alone' /\ SeqPast' /\ WaitSeq' /\ SeenReads'
  BY <1>1, UpStep, AloneStep, SeqPastStep, WaitSeqStep, SeenReadsStep
<1>6. EntriesKnown'
  BY <1>1, EntriesKnownStep
<1>7. ReadsKnown'
  BY <1>1, ReadsKnownStep
<1>8. Indexed(store)' /\ Whole(store)'
  BY <1>3, <1>4 DEF Indexed, Whole
<1> QED BY <1>2, <1>5, <1>6, <1>7, <1>8 DEF FreshInv

\* Where no two computes share an inner key, an entry differs from the database,
\* while the listener is up, only where a notification is on its way: no order of
\* writes, computes, clears, evictions and reconnections leaves a stale entry
\* behind (getOrCompute, invalidatedSince, onObservationWritten).  TileNested.cfg
\* shows what a shared inner key does.
THEOREM EntriesAreFresh == OwnInner => (Spec => []Fresh)
<1> SUFFICES ASSUME OwnInner PROVE Spec => []Fresh
  OBVIOUS
<1>1. Spec => []FreshInv
  BY FreshInvInit, FreshInvStep, PTL DEF Spec
<1>2. ASSUME FreshInv PROVE Fresh
  <2> SUFFICES ASSUME listener # NoClient, NEW k \in store.keys, NEW s \in Reads(k)
               PROVE  store.value[k][s] = version[s] \/ s \in Range(bus[listener])
    BY DEF Fresh
  <2>1. k \in Keys /\ s \in Scopes
    BY <1>2, TileAssumption DEF FreshInv, Typed, Store, Reads
  <2>2. store.value[k][s] # Unread
    BY <1>2, <2>1 DEF FreshInv, Whole
  <2>3. Known(store.value[k][s], s)
    BY <1>2, <2>1 DEF FreshInv, EntriesKnown
  <2> QED BY <2>2, <2>3 DEF Known
<1> QED BY <1>1, <1>2, PTL
=============================================================================
